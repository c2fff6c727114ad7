------------------------------ MODULE IoProofs ------------------------------
(***************************************************************************)
(* Proofs about what csapp.c reads and writes, for any texts and contents, *)
(* any sizes of buffers and blocks, and whatever the system calls do: the  *)
(* buffered reader, Rio; the transfer of RioSocket; the descriptors of     *)
(* OpenFd; and the line reader of lab1 to lab3, LineReader.                *)
(***************************************************************************)
EXTENDS Rio, MatchingProofs, SequencesExt, SequenceTheorems, TLAPS

-----------------------------------------------------------------------------
(* Sequences put together                                                  *)

\* What FlattenSeq(q) computes for the first m sequences of q.
IsFlat(f, q, m) ==
    f = [x \in 1..m |-> IF x = 1 THEN q[x] ELSE f[x - 1] \o q[x]]

\* One step of it.
LEMMA FlatAt ==
    ASSUME NEW f, NEW q, NEW m, IsFlat(f, q, m)
    PROVE  \A x \in 1..m : f[x] = IF x = 1 THEN q[x] ELSE f[x - 1] \o q[x]
  BY DEF IsFlat

\* It is defined,
LEMMA FlatExists ==
    ASSUME NEW S, NEW q \in Seq(Seq(S)), NEW m \in 0..Len(q)
    PROVE  \E f \in [1..m -> Seq(S)] : IsFlat(f, q, m)
  <1> DEFINE T == {k \in Nat : k <= Len(q) =>
                                  \E f \in [1..k -> Seq(S)] : IsFlat(f, q, k)}
  <1>1. 0 \in T
    <2>1. [x \in 1..0 |-> << >>] \in [1..0 -> Seq(S)]
      OBVIOUS
    <2>2. IsFlat([x \in 1..0 |-> << >>], q, 0)
      BY DEF IsFlat
    <2> QED
      BY <2>1, <2>2
  <1>2. ASSUME NEW k \in T PROVE k + 1 \in T
    <2> SUFFICES ASSUME k + 1 <= Len(q)
                 PROVE  \E f \in [1..k + 1 -> Seq(S)] : IsFlat(f, q, k + 1)
      BY <1>2
    <2>1. k \in Nat /\ Len(q) \in Nat /\ k <= Len(q) /\ k + 1 \in 1..Len(q)
      OBVIOUS
    <2>2. PICK f \in [1..k -> Seq(S)] : IsFlat(f, q, k)
      BY <2>1
    <2> DEFINE last == IF k = 0 THEN q[k + 1] ELSE f[k] \o q[k + 1]
               g == [x \in 1..k + 1 |-> IF x = k + 1 THEN last ELSE f[x]]
    <2>3. q[k + 1] \in Seq(S)
      BY <2>1, ElementOfSeq
    <2>4. last \in Seq(S)
      <3>1. CASE k = 0
        BY <2>3, <3>1
      <3>2. CASE k # 0
        <4>1. k \in 1..k
          BY <2>1, <3>2
        <4>2. f[k] \in Seq(S)
          BY <4>1
        <4> QED
          BY <2>3, <3>2, <4>2, ConcatProperties
      <3> QED
        BY <3>1, <3>2
    <2> HIDE DEF last
    <2>5. \A x \in 1..k + 1 : x = k + 1 \/ (x \in 1..k /\ x # k + 1)
      BY <2>1
    <2>6. g \in [1..k + 1 -> Seq(S)]
      BY <2>4, <2>5
    <2>7. k + 1 \in 1..k + 1 /\ \A x \in 1..k : x \in 1..k + 1 /\ x # k + 1
      BY <2>1
    <2>8. g[k + 1] = last /\ \A x \in 1..k : g[x] = f[x]
      BY <2>7
    <2>9. \A x \in 1..k + 1 : g[x] = IF x = 1 THEN q[x] ELSE g[x - 1] \o q[x]
      <3> SUFFICES ASSUME NEW x \in 1..k + 1
                   PROVE  g[x] = IF x = 1 THEN q[x] ELSE g[x - 1] \o q[x]
        OBVIOUS
      <3> HIDE DEF g
      <3>1. CASE x = k + 1
        <4>1. x = 1 <=> k = 0
          BY <2>1, <3>1
        <4>2. x # 1 => k \in 1..k /\ x - 1 = k
          BY <2>1, <3>1
        <4> QED
          BY <2>8, <3>1, <4>1, <4>2 DEF last
      <3>2. CASE x \in 1..k
        <4>1. x # 1 => x - 1 \in 1..k
          BY <2>1, <3>2
        <4>2. f[x] = IF x = 1 THEN q[x] ELSE f[x - 1] \o q[x]
          BY <2>2, <3>2 DEF IsFlat
        <4> QED
          BY <2>8, <3>2, <4>1, <4>2
      <3> QED
        BY <2>5, <3>1, <3>2
    <2>10. IsFlat(g, q, k + 1)
      <3>1. DOMAIN g = 1..k + 1 /\ g = [x \in DOMAIN g |-> g[x]]
        OBVIOUS
      <3> HIDE DEF g
      <3> QED
        BY <2>9, <3>1 DEF IsFlat
    <2> QED
      BY <2>6, <2>10
  <1>3. T = Nat
    <2>1. T \in SUBSET Nat
      OBVIOUS
    <2> HIDE DEF T
    <2> QED
      BY <1>1, <1>2, <2>1, SetInduction
  <1>4. m \in T /\ m <= Len(q)
    <2>1. Len(q) \in Nat /\ m \in Nat /\ m <= Len(q)
      OBVIOUS
    <2> QED
      BY <1>3, <2>1
  <1> QED
    BY <1>4

\* and the sequences that two have in common decide what they compute.
LEMMA FlatUnique ==
    ASSUME NEW f, NEW g, NEW q, NEW r, NEW a \in Nat, NEW b \in Nat, a <= b,
           IsFlat(f, q, a), IsFlat(g, r, b), \A x \in 1..a : q[x] = r[x]
    PROVE  \A x \in 1..a : f[x] = g[x]
  <1> DEFINE T == {k \in Nat : k \in 1..a => f[k] = g[k]}
  <1>1. 0 \in T
    OBVIOUS
  <1>2. ASSUME NEW k \in T PROVE k + 1 \in T
    <2> SUFFICES ASSUME k + 1 \in 1..a PROVE f[k + 1] = g[k + 1]
      BY <1>2
    <2>1. k \in Nat /\ k + 1 \in 1..b /\ k + 1 - 1 = k
      OBVIOUS
    <2>2. f[k + 1] = IF k + 1 = 1 THEN q[k + 1] ELSE f[k + 1 - 1] \o q[k + 1]
      BY FlatAt
    <2>3. g[k + 1] = IF k + 1 = 1 THEN r[k + 1] ELSE g[k + 1 - 1] \o r[k + 1]
      BY <2>1, FlatAt
    <2>4. q[k + 1] = r[k + 1]
      OBVIOUS
    <2>5. k + 1 = 1 \/ k \in 1..a
      BY <2>1
    <2>6. k + 1 = 1 \/ f[k] = g[k]
      BY <1>2, <2>5
    <2> QED
      BY <2>1, <2>2, <2>4, <2>6, <2>3
  <1>3. T = Nat
    <2>1. T \in SUBSET Nat
      OBVIOUS
    <2> HIDE DEF T
    <2> QED
      BY <1>1, <1>2, <2>1, SetInduction
  <1> QED
    BY <1>3

\* FlattenSeq(q) is the last of them.
LEMMA FlattenIsFlat ==
    ASSUME NEW S, NEW q \in Seq(Seq(S)), q # << >>
    PROVE  \E f \in [1..Len(q) -> Seq(S)] :
              IsFlat(f, q, Len(q)) /\ FlattenSeq(q) = f[Len(q)]
  <1> DEFINE m == Len(q)
             F(f) == f = [x \in 1..m |-> IF x = 1 THEN q[x] ELSE f[x - 1] \o q[x]]
             c == CHOOSE f : F(f)
  <1>1. m \in Nat /\ m # 0 /\ m \in 0..m
    OBVIOUS
  <1>2. PICK f \in [1..m -> Seq(S)] : IsFlat(f, q, m)
    BY <1>1, FlatExists
  <1>3. F(c)
    BY <1>2 DEF IsFlat
  <1>4. FlattenSeq(q) = c[m]
    BY <1>1 DEF FlattenSeq
  <1>5. IsFlat(c, q, m)
    BY <1>3 DEF IsFlat
  <1> HIDE DEF c, F
  <1>6. \A x \in 1..m : c[x] = f[x]
    BY <1>1, <1>2, <1>5, FlatUnique
  <1>7. m \in 1..m
    BY <1>1
  <1> QED
    BY <1>2, <1>4, <1>6, <1>7

\* One more sequence is one more part of the whole.
LEMMA FlattenAppend ==
    ASSUME NEW S, NEW q \in Seq(Seq(S)), NEW e \in Seq(S)
    PROVE  /\ FlattenSeq(<< >>) = << >>
           /\ FlattenSeq(q) \in Seq(S)
           /\ FlattenSeq(Append(q, e)) = FlattenSeq(q) \o e
  <1> DEFINE r == Append(q, e)
  <1>1. FlattenSeq(<< >>) = << >>
    BY DEF FlattenSeq
  <1>2. /\ r \in Seq(Seq(S)) /\ r # << >> /\ Len(r) = Len(q) + 1 /\ Len(q) \in Nat
        /\ r[Len(q) + 1] = e /\ \A x \in 1..Len(q) : q[x] = r[x]
    BY AppendProperties, LenProperties
  <1> HIDE DEF r
  <1>3. PICK g : /\ g \in [1..Len(r) -> Seq(S)]
                 /\ IsFlat(g, r, Len(r)) /\ FlattenSeq(r) = g[Len(r)]
    BY <1>2, FlattenIsFlat
  <1>4. FlattenSeq(r) = IF Len(r) = 1 THEN e ELSE g[Len(r) - 1] \o e
    <2>1. Len(r) \in 1..Len(r)
      BY <1>2
    <2>2. g[Len(r)] = IF Len(r) = 1 THEN r[Len(r)] ELSE g[Len(r) - 1] \o r[Len(r)]
      BY <1>3, <2>1 DEF IsFlat
    <2> QED
      BY <1>2, <1>3, <2>2
  <1>5. CASE q = << >>
    <2>1. Len(r) = 1
      BY <1>2, <1>5
    <2>2. << >> \o e = e
      BY ConcatEmptySeq
    <2>3. << >> \in Seq(S)
      OBVIOUS
    <2> QED
      BY <1>1, <1>4, <1>5, <2>1, <2>2, <2>3 DEF r
  <1>6. CASE q # << >>
    <2>1. PICK f : /\ f \in [1..Len(q) -> Seq(S)]
                   /\ IsFlat(f, q, Len(q)) /\ FlattenSeq(q) = f[Len(q)]
      BY <1>6, FlattenIsFlat
    <2>2. Len(q) <= Len(r) /\ Len(r) \in Nat
      BY <1>2
    <2>3. \A x \in 1..Len(q) : f[x] = g[x]
      <3>1. Len(q) \in Nat /\ \A x \in 1..Len(q) : q[x] = r[x]
        BY <1>2
      <3>2. IsFlat(f, q, Len(q)) /\ IsFlat(g, r, Len(r))
        BY <1>3, <2>1
      <3> DEFINE lq == Len(q)
                 lr == Len(r)
      <3>3. /\ lq \in Nat /\ lr \in Nat /\ lq <= lr /\ IsFlat(f, q, lq) /\ IsFlat(g, r, lr)
            /\ \A x \in 1..lq : q[x] = r[x]
        BY <2>2, <3>1, <3>2
      <3> HIDE DEF lq, lr
      <3>4. \A x \in 1..lq : f[x] = g[x]
        BY <3>3, FlatUnique
      <3> QED
        BY <3>4 DEF lq
    <2>4. Len(q) # 0
      BY <1>6
    <2>5. Len(q) \in 1..Len(q) /\ Len(r) # 1 /\ Len(r) - 1 = Len(q)
      BY <1>2, <2>4
    <2>6. FlattenSeq(q) \in Seq(S)
      BY <2>1, <2>5
    <2> QED
      BY <1>1, <1>4, <2>1, <2>3, <2>5, <2>6 DEF r
  <1> QED
    BY <1>5, <1>6

-----------------------------------------------------------------------------
(* Sequences cut in two                                                    *)

\* What is before the first k elements and behind them makes up the whole.
LEMMA CutInTwo ==
    ASSUME NEW S, NEW s \in Seq(S), NEW k \in 0..Len(s)
    PROVE  /\ SubSeq(s, 1, k) \in Seq(S) /\ Len(SubSeq(s, 1, k)) = k
           /\ SubSeq(s, k + 1, Len(s)) \in Seq(S)
           /\ Len(SubSeq(s, k + 1, Len(s))) = Len(s) - k
           /\ SubSeq(s, 1, k) \o SubSeq(s, k + 1, Len(s)) = s
  <1>1. Len(s) \in Nat /\ DOMAIN s = 1..Len(s)
    BY LenProperties
  <1>2. 1 \in 1..Len(s) + 1 /\ k \in 1 - 1..Len(s) /\ Len(s) \in k..Len(s) /\ k \in Int
    BY <1>1
  <1>3. SubSeq(s, 1, k) \o SubSeq(s, k + 1, Len(s)) = SubSeq(s, 1, Len(s))
    BY <1>2, ConcatAdjacentSubSeq
  <1>4. SubSeq(s, 1, Len(s)) = s
    BY SubSeqFull
  <1>5. \A x \in 1..Len(s) : s[x] \in S
    BY ElementOfSeq
  <1>6. SubSeq(s, 1, k) \in Seq(S) /\ Len(SubSeq(s, 1, k)) = k
    <2>1. \A x \in 1..k : x \in 1..Len(s)
      BY <1>1
    <2>2. /\ SubSeq(s, 1, k) \in Seq(S)
          /\ Len(SubSeq(s, 1, k)) = IF 1 <= k THEN k - 1 + 1 ELSE 0
      BY <1>2, <1>5, <2>1, SubSeqProperties
    <2> QED
      BY <1>2, <2>2
  <1>7. /\ SubSeq(s, k + 1, Len(s)) \in Seq(S)
        /\ Len(SubSeq(s, k + 1, Len(s))) = Len(s) - k
    <2>1. \A x \in k + 1..Len(s) : x \in 1..Len(s)
      BY <1>1
    <2>2. /\ SubSeq(s, k + 1, Len(s)) \in Seq(S)
          /\ Len(SubSeq(s, k + 1, Len(s))) =
                IF k + 1 <= Len(s) THEN Len(s) - (k + 1) + 1 ELSE 0
      BY <1>1, <1>2, <1>5, <2>1, SubSeqProperties
    <2>3. (IF k + 1 <= Len(s) THEN Len(s) - (k + 1) + 1 ELSE 0) = Len(s) - k
      <3>1. Len(s) \in Nat /\ k \in Nat /\ k <= Len(s)
        BY <1>1
      <3>2. CASE k = Len(s)
        BY <3>1, <3>2
      <3>3. CASE k + 1 <= Len(s)
        BY <3>1, <3>3
      <3> QED
        BY <3>1, <3>2, <3>3
    <2> QED
      BY <2>2, <2>3
  <1> QED
    BY <1>3, <1>4, <1>6, <1>7

\* A concatenation, cut where its first part ends.
LEMMA CutOff ==
    ASSUME NEW S, NEW s \in Seq(S), NEW u \in Seq(S)
    PROVE  /\ s \o u \in Seq(S) /\ Len(s) \in Nat /\ Len(u) \in Nat
           /\ Len(s \o u) = Len(s) + Len(u)
           /\ SubSeq(s \o u, 1, Len(s)) = s
           /\ SubSeq(s \o u, Len(s) + 1, Len(s \o u)) = u
           /\ \A x \in 1..Len(s) : (s \o u)[x] = s[x]
  <1>1. /\ s \o u \in Seq(S) /\ Len(s \o u) = Len(s) + Len(u)
        /\ Len(s) \in Nat /\ Len(u) \in Nat
        /\ \A x \in 1..Len(s) + Len(u) :
              (s \o u)[x] = IF x <= Len(s) THEN s[x] ELSE u[x - Len(s)]
    BY ConcatProperties, LenProperties
  <1>2. \A x \in 1..Len(s) : x \in 1..Len(s) + Len(u) /\ x <= Len(s)
    BY <1>1
  <1>3. \A x \in 1..Len(s) : (s \o u)[x] = s[x]
    BY <1>1, <1>2
  <1>4. SubSeq(s \o u, 1, Len(s)) = s
    <2>1. /\ SubSeq(s \o u, 1, Len(s)) \in Seq(S)
          /\ Len(SubSeq(s \o u, 1, Len(s))) = Len(s)
          /\ \A x \in 1..Len(s) : SubSeq(s \o u, 1, Len(s))[x] = (s \o u)[x]
      BY <1>1
    <2> QED
      BY <1>3, <2>1, SeqEqual
  <1>5. SubSeq(s \o u, Len(s) + 1, Len(s \o u)) = u
    <2>1. /\ SubSeq(s \o u, Len(s) + 1, Len(s \o u)) \in Seq(S)
          /\ Len(SubSeq(s \o u, Len(s) + 1, Len(s \o u))) = Len(u)
          /\ \A x \in 1..Len(u) :
                SubSeq(s \o u, Len(s) + 1, Len(s \o u))[x] = (s \o u)[Len(s) + x]
      BY <1>1
    <2>2. \A x \in 1..Len(u) : (s \o u)[Len(s) + x] = u[x]
      BY <1>1
    <2> QED
      BY <2>1, <2>2, SeqEqual
  <1> QED
    BY <1>1, <1>3, <1>4, <1>5

\* The end of a sequence, from m on, without the first k elements of it.
LEMMA TakeSome ==
    ASSUME NEW S, NEW s \in Seq(S), NEW m \in 1..Len(s), NEW k \in 0..Len(s) - m + 1
    PROVE  /\ SubSeq(s, m, m + k - 1) \in Seq(S) /\ Len(SubSeq(s, m, m + k - 1)) = k
           /\ SubSeq(s, m + k, Len(s)) \in Seq(S)
           /\ SubSeq(s, m, Len(s)) = SubSeq(s, m, m + k - 1) \o SubSeq(s, m + k, Len(s))
  <1>1. Len(s) \in Nat /\ m \in Nat /\ k \in Nat /\ m >= 1 /\ k <= Len(s) - m + 1
    BY LenProperties
  <1> DEFINE h == m + k - 1
  <1>2. h \in Int /\ h + 1 = m + k /\ h - m + 1 = k /\ h <= Len(s) /\ h >= m - 1
    BY <1>1
  <1> HIDE DEF h
  <1>3. SubSeq(s, m, h) \o SubSeq(s, h + 1, Len(s)) = SubSeq(s, m, Len(s))
    <2>1. m \in 1..Len(s) + 1 /\ h \in m - 1..Len(s) /\ Len(s) \in h..Len(s)
      BY <1>1, <1>2
    <2> QED
      BY <2>1, ConcatAdjacentSubSeq
  <1>4. \A x \in 1..Len(s) : s[x] \in S
    BY ElementOfSeq
  <1>5. SubSeq(s, m, h) \in Seq(S) /\ Len(SubSeq(s, m, h)) = k
    <2>1. \A x \in m..h : s[x] \in S
      BY <1>1, <1>2, <1>4
    <2>2. /\ SubSeq(s, m, h) \in Seq(S)
          /\ Len(SubSeq(s, m, h)) = IF m <= h THEN h - m + 1 ELSE 0
      BY <1>1, <1>2, <2>1, SubSeqProperties
    <2>3. (IF m <= h THEN h - m + 1 ELSE 0) = k
      BY <1>1, <1>2
    <2> QED
      BY <2>2, <2>3
  <1>6. SubSeq(s, m + k, Len(s)) \in Seq(S)
    <2>1. \A x \in m + k..Len(s) : s[x] \in S
      BY <1>1, <1>4
    <2> QED
      BY <1>1, <2>1, SubSeqProperties
  <1> QED
    BY <1>2, <1>3, <1>5, <1>6 DEF h

-----------------------------------------------------------------------------
(* The buffered reader                                                     *)

Byte == UNION {{t[x] : x \in DOMAIN t} : t \in Texts}

\* The types of the reader's variables, how rio_cnt and rio_bufptr point into
\* rio_buf, and what the call under way has stored.
RioInv ==
    /\ stream \in Seq(Byte) /\ rio_buf \in Seq(Byte) /\ usrbuf \in Seq(Byte)
    /\ rio_bufptr \in Nat /\ rio_bufptr >= 1 /\ rio_cnt \in Int
    /\ rio_cnt > 0 => rio_bufptr + rio_cnt - 1 = Len(rio_buf)
    /\ n \in Nat
    /\ pc \in {"call", "loop", "block", "eof", "error"}
    /\ pc = "loop" => /\ Len(usrbuf) = n - 1 /\ n <= MAXLINE
                      /\ \A x \in 1..Len(usrbuf) : usrbuf[x] # NL
    /\ pc = "block" => Len(usrbuf) < BLOCK

\* The text that has not been returned, and what Lines calls the outcome.
Rest == Stored \o Unread \o stream
Outcome == IF pc \in {"eof", "error"} THEN pc ELSE "reading"

\* When read() has to be called, nothing in the buffer is unread.
LEMMA NothingUnread ==
    ASSUME RioInv, rio_cnt <= 0
    PROVE  Unread = << >>
  <1>1. rio_bufptr + rio_cnt - 1 \in Int /\ rio_bufptr + rio_cnt - 1 < rio_bufptr
        /\ rio_bufptr \in Int
    BY DEF RioInv
  <1> QED
    BY <1>1, SubSeqEmpty DEF Unread

\* Otherwise what is unread is the buffer's end.
LEMMA UnreadIsEnd ==
    ASSUME RioInv, rio_cnt > 0
    PROVE  /\ rio_bufptr \in 1..Len(rio_buf) /\ Len(rio_buf) \in Nat
           /\ Unread = SubSeq(rio_buf, rio_bufptr, Len(rio_buf))
           /\ Unread \in Seq(Byte)
           /\ rio_cnt = Len(rio_buf) - rio_bufptr + 1
  <1>1. /\ rio_buf \in Seq(Byte) /\ rio_bufptr \in Nat /\ rio_bufptr >= 1
        /\ rio_cnt \in Int /\ rio_bufptr + rio_cnt - 1 = Len(rio_buf)
    BY DEF RioInv
  <1>2. Len(rio_buf) \in Nat
    BY <1>1, LenProperties
  <1>3. rio_bufptr \in 1..Len(rio_buf) /\ rio_cnt = Len(rio_buf) - rio_bufptr + 1
    BY <1>1, <1>2
  <1>4. \A x \in rio_bufptr..Len(rio_buf) : rio_buf[x] \in Byte
    BY <1>1, <1>2
  <1>5. SubSeq(rio_buf, rio_bufptr, Len(rio_buf)) \in Seq(Byte)
    BY <1>1, <1>2, <1>4, SubSeqProperties
  <1> QED
    BY <1>1, <1>2, <1>3, <1>5 DEF Unread

\* In any case it is a sequence of bytes.
LEMMA RestType ==
    ASSUME RioInv
    PROVE  Unread \in Seq(Byte) /\ Stored \in Seq(Byte) /\ stream \in Seq(Byte)
  <1>1. << >> \in Seq(Byte)
    OBVIOUS
  <1>2. Unread \in Seq(Byte)
    <2>1. rio_cnt \in Int
      BY DEF RioInv
    <2>2. rio_cnt <= 0 \/ rio_cnt > 0
      BY <2>1
    <2> QED
      BY <1>1, <2>2, NothingUnread, UnreadIsEnd
  <1> QED
    BY <1>1, <1>2 DEF RioInv, Stored

\* A call returns s, and u is left: it is a line or a block of Lines.
LEMMA ReturnsPiece ==
    ASSUME NEW s \in Seq(Byte), NEW u \in Seq(Byte), s # << >>,
           lines' = Append(lines, s), Outcome = "reading", Outcome' = "reading",
           Rest = s \o u, Rest' = u,
           \/ /\ Len(s) <= MAXLINE - 1
              /\ \A x \in 1..Len(s) - 1 : s[x] # NL
              /\ s[Len(s)] = NL \/ Len(s) = MAXLINE - 1 \/ u = << >>
           \/ Len(s) = BLOCK \/ (Len(s) < BLOCK /\ u = << >>)
    PROVE  AbstractLines!Piece
  <1> DEFINE k == Len(s)
             t == s \o u
  <1>1. /\ t \in Seq(Byte) /\ k \in Nat /\ Len(u) \in Nat /\ Len(t) = k + Len(u)
        /\ SubSeq(t, 1, k) = s /\ SubSeq(t, k + 1, Len(t)) = u
        /\ \A x \in 1..k : t[x] = s[x]
    BY CutOff
  <1>2. k >= 1
    BY <1>1, EmptySeq
  <1>3. k \in 1..Len(t) /\ k \in 1..k /\ \A x \in 1..k - 1 : x \in 1..k
    BY <1>1, <1>2
  <1>4. u = << >> => k = Len(t)
    BY <1>1
  <1> HIDE DEF k, t
  <1>5. AbstractLines!LineEnds(t, k) \/ AbstractLines!BlockEnds(t, k)
    <2>1. CASE /\ k <= MAXLINE - 1 /\ \A x \in 1..k - 1 : s[x] # NL
               /\ s[k] = NL \/ k = MAXLINE - 1 \/ u = << >>
      BY <1>1, <1>3, <1>4, <2>1 DEF AbstractLines!LineEnds
    <2>2. CASE k = BLOCK \/ (k < BLOCK /\ u = << >>)
      BY <1>4, <2>2 DEF AbstractLines!BlockEnds
    <2> QED
      BY <2>1, <2>2 DEF k
  <1>6. Rest = t /\ Rest' = SubSeq(Rest, k + 1, Len(Rest))
        /\ lines' = Append(lines, SubSeq(Rest, 1, k))
    BY <1>1 DEF t
  <1> QED
    BY <1>3, <1>5, <1>6 DEF AbstractLines!Piece, Rest, Outcome

\* A call begins.
LEMMA CallKeeps ==
    ASSUME RioInv, Call
    PROVE  RioInv' /\ Rest' = Rest /\ lines' = lines /\ Outcome' = Outcome
  <1>1. /\ UNCHANGED <<stream, rio_buf, rio_bufptr, rio_cnt, lines>>
        /\ pc = "call" /\ pc' \in {"loop", "block"} /\ usrbuf' = << >> /\ n' = 1
    BY DEF Call, rio_t
  <1>2. << >> \in Seq(Byte) /\ Len(<< >>) = 0
    BY EmptySeq
  <1>3. RioInv'
    BY <1>1, <1>2, RioAssumption DEF RioInv
  <1> QED
    BY <1>1, <1>3 DEF Rest, Stored, Unread, Outcome

\* read() fills the buffer: the bytes change their place, no more.
LEMMA RefillKeeps ==
    ASSUME RioInv, Refill
    PROVE  RioInv' /\ Rest' = Rest /\ lines' = lines /\ Outcome' = Outcome
  <1>1. PICK m \in 1..Len(stream) :
           /\ rio_buf' = SubSeq(stream, 1, m) /\ rio_cnt' = m
           /\ stream' = SubSeq(stream, m + 1, Len(stream))
    BY DEF Refill
  <1>2. /\ UNCHANGED <<usrbuf, n, pc, lines>> /\ rio_bufptr' = 1
        /\ rio_cnt <= 0
    BY DEF Refill, MustRead
  <1>3. stream \in Seq(Byte) /\ Len(stream) \in Nat /\ m \in 0..Len(stream) /\ m \in Nat
    BY DEF RioInv
  <1>4. /\ rio_buf' \in Seq(Byte) /\ Len(rio_buf') = m /\ stream' \in Seq(Byte)
        /\ rio_buf' \o stream' = stream
    BY <1>1, <1>3, CutInTwo
  <1>5. RioInv'
    <2>1. rio_bufptr' + rio_cnt' - 1 = Len(rio_buf')
      BY <1>1, <1>2, <1>3, <1>4
    <2>2. rio_bufptr' \in Nat /\ rio_bufptr' >= 1 /\ rio_cnt' \in Int
      BY <1>1, <1>2, <1>3
    <2> QED
      BY <1>2, <1>4, <2>1, <2>2 DEF RioInv
  <1>6. Unread = << >>
    BY <1>2, NothingUnread
  <1>7. Unread' = rio_buf'
    <2>1. Unread' = SubSeq(rio_buf', 1, m)
      BY <1>1, <1>2, <1>3 DEF Unread
    <2> QED
      BY <1>4, <2>1, SubSeqFull
  <1>8. Stored' = Stored
    BY <1>2 DEF Stored
  <1>9. Rest' = Rest
    <2>1. Stored \in Seq(Byte) /\ << >> \in Seq(Byte)
      BY RestType
    <2>2. (Stored \o rio_buf') \o stream' = Stored \o (rio_buf' \o stream')
      <3>1. rio_buf' \in Seq(Byte) /\ stream' \in Seq(Byte)
        BY <1>4
      <3> QED
        BY <2>1, <3>1, ConcatAssociative
    <2>3. Stored \o << >> = Stored
      BY <2>1, ConcatEmptySeq
    <2> QED
      BY <1>4, <1>6, <1>7, <1>8, <2>2, <2>3 DEF Rest
  <1> QED
    BY <1>2, <1>5, <1>9 DEF Outcome

\* read() is interrupted, or fails.
LEMMA ReadKeeps ==
    ASSUME RioInv, Interrupted \/ ReadFails
    PROVE  RioInv' /\ Rest' = Rest /\ lines' = lines
  <1>1. /\ UNCHANGED <<stream, rio_buf, rio_bufptr, usrbuf, n, lines>>
        /\ rio_cnt' = -1 /\ rio_cnt <= 0 /\ pc # "call" /\ pc' # "call"
        /\ pc' = pc \/ pc' = "error"
    BY DEF Interrupted, ReadFails, MustRead
  <1>2. RioInv'
    BY <1>1 DEF RioInv
  <1>3. Unread' = << >>
    <2>1. /\ rio_bufptr \in Nat /\ rio_bufptr + -1 - 1 \in Int
          /\ rio_bufptr + -1 - 1 < rio_bufptr
      BY DEF RioInv
    <2> QED
      BY <1>1, <2>1, SubSeqEmpty DEF Unread
  <1>4. Unread = << >>
    BY <1>1, NothingUnread
  <1> QED
    BY <1>1, <1>2, <1>3, <1>4 DEF Rest, Stored

\* The text is at its end: so is the call, with what is stored, or with 0.
LEMMA ReadEOFKeeps ==
    ASSUME RioInv, ReadEOF
    PROVE  RioInv' /\ (AbstractLines!Piece \/ AbstractLines!End)
  <1>1. /\ UNCHANGED <<stream, rio_buf, rio_bufptr, usrbuf, n>>
        /\ rio_cnt' = 0 /\ rio_cnt <= 0 /\ stream = << >>
        /\ (pc = "loop" /\ n < MAXLINE) \/ pc = "block"
    BY DEF ReadEOF, MustRead
  <1>2. \/ usrbuf = << >> /\ pc' = "eof" /\ lines' = lines
        \/ usrbuf # << >> /\ lines' = Append(lines, usrbuf) /\ pc' = "call"
    BY DEF ReadEOF, Return
  <1>3. RioInv'
    BY <1>1, <1>2 DEF RioInv
  <1>4. Unread = << >> /\ Unread' = << >>
    BY <1>1, <1>3, NothingUnread, SubSeqEmpty DEF Unread, RioInv
  <1>5. usrbuf \in Seq(Byte) /\ << >> \in Seq(Byte)
    BY DEF RioInv
  <1>6. /\ (usrbuf \o << >>) \o << >> = usrbuf /\ usrbuf \o << >> = usrbuf
        /\ (<< >> \o << >>) \o << >> = << >>
    BY <1>5, ConcatEmptySeq
  <1>7. Rest = usrbuf
    BY <1>1, <1>4, <1>6 DEF Rest, Stored
  <1>8. CASE usrbuf = << >> /\ pc' = "eof" /\ lines' = lines
    <2>1. Rest' = << >>
      BY <1>1, <1>4, <1>6, <1>8 DEF Rest, Stored
    <2> QED
      BY <1>1, <1>3, <1>7, <1>8, <2>1 DEF AbstractLines!End, Rest
  <1>9. CASE usrbuf # << >> /\ lines' = Append(lines, usrbuf) /\ pc' = "call"
    <2>1. Rest' = << >>
      BY <1>1, <1>4, <1>6, <1>9 DEF Rest, Stored
    <2>2. Outcome = "reading" /\ Outcome' = "reading"
      BY <1>1, <1>9 DEF Outcome
    <2>3. \/ Len(usrbuf) <= MAXLINE - 1 /\ \A x \in 1..Len(usrbuf) - 1 : usrbuf[x] # NL
          \/ Len(usrbuf) < BLOCK
      <3>1. CASE pc = "loop" /\ n < MAXLINE
        <4>1. Len(usrbuf) = n - 1 /\ n \in Nat /\ MAXLINE \in Nat
              /\ \A x \in 1..Len(usrbuf) : usrbuf[x] # NL
          BY <3>1, RioAssumption DEF RioInv
        <4>2. \A x \in 1..Len(usrbuf) - 1 : x \in 1..Len(usrbuf)
          BY <4>1
        <4> QED
          BY <3>1, <4>1, <4>2
      <3>2. CASE pc = "block"
        BY <3>2 DEF RioInv
      <3> QED
        BY <1>1, <3>1, <3>2
    <2>4. Rest = usrbuf \o << >>
      BY <1>6, <1>7
    <2> QED
      BY <1>3, <1>5, <1>9, <2>1, <2>2, <2>3, <2>4, ReturnsPiece
  <1> QED
    BY <1>2, <1>8, <1>9

\* Three parts may be put together in either order.
LEMMA Regroup ==
    \A s, t, u \in Seq(Byte) : (s \o t) \o u = s \o (t \o u)
  BY ConcatAssociative

\* m unread bytes go from the buffer to the caller's array.
LEMMA CopyMoves ==
    ASSUME RioInv, pc \in {"loop", "block"}, rio_cnt > 0, NEW m \in 0..rio_cnt,
           rio_buf' = rio_buf, rio_bufptr' = rio_bufptr + m, rio_cnt' = rio_cnt - m,
           stream' = stream,
           usrbuf' = usrbuf \o SubSeq(rio_buf, rio_bufptr, rio_bufptr + m - 1)
    PROVE  /\ usrbuf' \in Seq(Byte) /\ Len(usrbuf') = Len(usrbuf) + m
           /\ Len(usrbuf) \in Nat
           /\ rio_bufptr' \in Nat /\ rio_bufptr' >= 1 /\ rio_cnt' \in Int
           /\ rio_bufptr' + rio_cnt' - 1 = Len(rio_buf')
           /\ Unread' \in Seq(Byte) /\ Unread' \o stream' \in Seq(Byte)
           /\ Rest = usrbuf' \o (Unread' \o stream')
           /\ Rest = (usrbuf' \o Unread') \o stream'
  <1> DEFINE part == SubSeq(rio_buf, rio_bufptr, rio_bufptr + m - 1)
  <1>1. /\ rio_bufptr \in 1..Len(rio_buf) /\ Len(rio_buf) \in Nat
        /\ Unread = SubSeq(rio_buf, rio_bufptr, Len(rio_buf))
        /\ rio_cnt = Len(rio_buf) - rio_bufptr + 1
    BY UnreadIsEnd
  <1>2. /\ rio_buf \in Seq(Byte) /\ usrbuf \in Seq(Byte) /\ stream \in Seq(Byte)
        /\ Len(usrbuf) \in Nat
    BY LenProperties DEF RioInv
  <1>3. m \in 0..Len(rio_buf) - rio_bufptr + 1 /\ m \in Nat /\ rio_bufptr \in Nat
        /\ rio_bufptr >= 1
    BY <1>1
  <1>4. /\ rio_bufptr' \in Nat /\ rio_bufptr' >= 1 /\ rio_cnt' \in Int
        /\ rio_bufptr' + rio_cnt' - 1 = Len(rio_buf)
    BY <1>1, <1>3
  <1>5. /\ part \in Seq(Byte) /\ Len(part) = m
        /\ SubSeq(rio_buf, rio_bufptr + m, Len(rio_buf)) \in Seq(Byte)
        /\ Unread = part \o SubSeq(rio_buf, rio_bufptr + m, Len(rio_buf))
    BY <1>1, <1>2, <1>3, TakeSome
  <1>6. Unread' = SubSeq(rio_buf, rio_bufptr + m, Len(rio_buf))
    BY <1>4 DEF Unread
  <1> HIDE DEF part
  <1>7. Unread' \in Seq(Byte) /\ Unread = part \o Unread'
    BY <1>5, <1>6
  <1>8. usrbuf' = usrbuf \o part
    BY DEF part
  <1> DEFINE unread == Unread'
             array == usrbuf'
  <1>9. /\ usrbuf \in Seq(Byte) /\ part \in Seq(Byte) /\ unread \in Seq(Byte)
         /\ stream \in Seq(Byte)
    BY <1>2, <1>5, <1>7
  <1> HIDE DEF unread, array
  <1>10. usrbuf \o part \in Seq(Byte) /\ Len(usrbuf \o part) = Len(usrbuf) + Len(part)
    BY <1>9, CutOff
  <1>11. usrbuf' \in Seq(Byte) /\ Len(usrbuf') = Len(usrbuf) + m
    BY <1>5, <1>8, <1>10
  <1>12. usrbuf \o Unread = usrbuf' \o Unread'
    <2>1. (usrbuf \o part) \o unread = usrbuf \o (part \o unread)
      BY <1>9, ConcatAssociative
    <2> QED
      BY <1>7, <1>8, <2>1 DEF unread
  <1>13. Rest = (usrbuf' \o Unread') \o stream'
    BY <1>12 DEF Rest, Stored
  <1>14. (usrbuf' \o Unread') \o stream = usrbuf' \o (Unread' \o stream)
    <2>1. array \in Seq(Byte)
      BY <1>11 DEF array
    <2>2. (array \o unread) \o stream = array \o (unread \o stream)
      BY <1>9, <2>1, Regroup
    <2> QED
      BY <2>2 DEF array, unread
  <1>15. Unread' \o stream \in Seq(Byte)
    BY <1>2, <1>7, ConcatProperties
  <1> QED
    BY <1>2, <1>4, <1>7, <1>11, <1>13, <1>14, <1>15

\* After a call has returned nothing is stored.
LEMMA NothingStored ==
    ASSUME pc' = "call", Unread' \in Seq(Byte), stream' \in Seq(Byte)
    PROVE  Rest' = Unread' \o stream'
  <1>1. Stored' = << >> /\ << >> \o Unread' = Unread'
    BY ConcatEmptySeq DEF Stored
  <1> QED
    BY <1>1 DEF Rest

\* A byte is copied, and perhaps it ends the line.
LEMMA CopyByteKeeps ==
    ASSUME RioInv, CopyByte
    PROVE  /\ RioInv'
           /\ \/ Rest' = Rest /\ lines' = lines /\ Outcome' = Outcome
              \/ AbstractLines!Piece
  <1> DEFINE c == rio_buf[rio_bufptr]
  <1>1. /\ pc = "loop" /\ n < MAXLINE /\ rio_cnt > 0
        /\ usrbuf' = Append(usrbuf, c) /\ n' = n + 1
        /\ rio_bufptr' = rio_bufptr + 1 /\ rio_cnt' = rio_cnt - 1
        /\ rio_buf' = rio_buf /\ stream' = stream
        /\ \/ c = NL /\ lines' = Append(lines, usrbuf') /\ pc' = "call"
           \/ c # NL /\ pc' = pc /\ lines' = lines
    BY DEF CopyByte, Return
  <1>2. /\ rio_bufptr \in 1..Len(rio_buf) /\ Len(rio_buf) \in Nat /\ rio_bufptr \in Int
        /\ rio_buf \in Seq(Byte) /\ usrbuf \in Seq(Byte) /\ c \in Byte
        /\ rio_cnt \in Int /\ 1 \in 0..rio_cnt /\ stream \in Seq(Byte)
    <2>1. rio_bufptr \in 1..Len(rio_buf) /\ Len(rio_buf) \in Nat
      BY <1>1, UnreadIsEnd
    <2> QED
      BY <1>1, <2>1, ElementOfSeq DEF RioInv
  <1>3. usrbuf' = usrbuf \o SubSeq(rio_buf, rio_bufptr, rio_bufptr + 1 - 1)
    <2>1. rio_bufptr + 1 - 1 = rio_bufptr
      BY <1>2
    <2>2. SubSeq(rio_buf, rio_bufptr, rio_bufptr) = << c >>
      <3>1. /\ SubSeq(rio_buf, rio_bufptr, rio_bufptr) \in Seq(Byte)
            /\ Len(SubSeq(rio_buf, rio_bufptr, rio_bufptr)) = 1
            /\ SubSeq(rio_buf, rio_bufptr, rio_bufptr)[1] = c
        BY <1>2
      <3>2. << c >> \in Seq(Byte) /\ Len(<< c >>) = 1 /\ << c >>[1] = c
        BY <1>2
      <3>3. \A x \in 1..Len(<< c >>) :
              SubSeq(rio_buf, rio_bufptr, rio_bufptr)[x] = << c >>[x]
        BY <3>1, <3>2
      <3> QED
        BY <3>1, <3>2, <3>3, SeqEqual
    <2> QED
      BY <1>1, <1>2, <2>1, <2>2, AppendIsConcat
  <1>4. /\ usrbuf' \in Seq(Byte) /\ Len(usrbuf') = Len(usrbuf) + 1
        /\ Len(usrbuf) \in Nat
        /\ rio_bufptr' \in Nat /\ rio_bufptr' >= 1 /\ rio_cnt' \in Int
        /\ rio_bufptr' + rio_cnt' - 1 = Len(rio_buf')
        /\ Unread' \in Seq(Byte) /\ Unread' \o stream' \in Seq(Byte)
        /\ Rest = usrbuf' \o (Unread' \o stream')
        /\ Rest = (usrbuf' \o Unread') \o stream'
    BY <1>1, <1>2, <1>3, CopyMoves
  <1>5. /\ Len(usrbuf) = n - 1 /\ n \in Nat /\ MAXLINE \in Nat
        /\ \A x \in 1..Len(usrbuf) : usrbuf[x] # NL
    BY <1>1, RioAssumption DEF RioInv
  <1>6. /\ \A x \in 1..Len(usrbuf) : usrbuf'[x] = usrbuf[x]
        /\ usrbuf'[Len(usrbuf) + 1] = c
    BY <1>1, <1>2, AppendProperties
  <1>7. Len(usrbuf') = n /\ n' \in Nat /\ n' - 1 = n /\ n' <= MAXLINE
    BY <1>1, <1>4, <1>5
  <1> HIDE DEF c
  <1>8. CASE c = NL
    <2>1. pc' = "call" /\ lines' = Append(lines, usrbuf')
      BY <1>1, <1>8
    <2>2. RioInv'
      BY <1>1, <1>2, <1>4, <1>7, <2>1 DEF RioInv
    <2>3. Rest' = Unread' \o stream'
      BY <1>1, <1>2, <1>4, <2>1, NothingStored
    <2>4. /\ Len(usrbuf') <= MAXLINE - 1 /\ usrbuf'[Len(usrbuf')] = NL
          /\ \A x \in 1..Len(usrbuf') - 1 : usrbuf'[x] # NL
      <3>1. Len(usrbuf') - 1 = Len(usrbuf) /\ Len(usrbuf') = Len(usrbuf) + 1
            /\ Len(usrbuf') <= MAXLINE - 1
        BY <1>1, <1>4, <1>5, <1>7
      <3> QED
        BY <1>5, <1>6, <1>8, <3>1
    <2>5. Outcome = "reading" /\ Outcome' = "reading"
      BY <1>1, <2>1 DEF Outcome
    <2>6. usrbuf' # << >>
      <3>1. Len(usrbuf') # 0
        BY <1>4
      <3> QED
        BY <3>1
    <2> QED
      BY <1>4, <2>1, <2>2, <2>3, <2>4, <2>5, <2>6, ReturnsPiece
  <1>9. CASE c # NL
    <2>1. pc' = pc /\ lines' = lines
      BY <1>1, <1>9
    <2>2. \A x \in 1..Len(usrbuf') : usrbuf'[x] # NL
      <3>1. \A x \in 1..Len(usrbuf') : x \in 1..Len(usrbuf) \/ x = Len(usrbuf) + 1
        BY <1>4
      <3> QED
        BY <1>5, <1>6, <1>9, <3>1
    <2>3. RioInv'
      BY <1>1, <1>2, <1>4, <1>7, <2>1, <2>2 DEF RioInv
    <2>4. Rest' = Rest
      BY <1>1, <1>4, <2>1 DEF Rest, Stored
    <2> QED
      BY <2>1, <2>3, <2>4 DEF Outcome
  <1> QED
    BY <1>8, <1>9

\* Bytes are copied, and perhaps they complete the block.
LEMMA CopyBytesKeeps ==
    ASSUME RioInv, CopyBytes
    PROVE  /\ RioInv'
           /\ \/ Rest' = Rest /\ lines' = lines /\ Outcome' = Outcome
              \/ AbstractLines!Piece
  <1> DEFINE wanted == BLOCK - Len(usrbuf)
             m == IF rio_cnt < wanted THEN rio_cnt ELSE wanted
  <1>1. /\ pc = "block" /\ rio_cnt > 0
        /\ usrbuf' = usrbuf \o SubSeq(rio_buf, rio_bufptr, rio_bufptr + m - 1)
        /\ rio_bufptr' = rio_bufptr + m /\ rio_cnt' = rio_cnt - m
        /\ rio_buf' = rio_buf /\ stream' = stream /\ n' = n
        /\ \/ m = wanted /\ lines' = Append(lines, usrbuf') /\ pc' = "call"
           \/ m < wanted /\ pc' = pc /\ lines' = lines
    BY DEF CopyBytes, Return
  <1>2. /\ usrbuf \in Seq(Byte) /\ Len(usrbuf) \in Nat /\ Len(usrbuf) < BLOCK
        /\ BLOCK \in Nat /\ rio_cnt \in Int /\ stream \in Seq(Byte)
    BY <1>1, RioAssumption, LenProperties DEF RioInv
  <1>3. m \in 0..rio_cnt /\ m \in Nat /\ m >= 1 /\ wanted = BLOCK - Len(usrbuf)
    BY <1>1, <1>2
  <1> HIDE DEF m, wanted
  <1>4. /\ usrbuf' \in Seq(Byte) /\ Len(usrbuf') = Len(usrbuf) + m
        /\ rio_bufptr' \in Nat /\ rio_bufptr' >= 1 /\ rio_cnt' \in Int
        /\ rio_bufptr' + rio_cnt' - 1 = Len(rio_buf')
        /\ Unread' \in Seq(Byte) /\ Unread' \o stream' \in Seq(Byte)
        /\ Rest = usrbuf' \o (Unread' \o stream')
        /\ Rest = (usrbuf' \o Unread') \o stream'
    BY <1>1, <1>3, CopyMoves
  <1>5. CASE m = wanted
    <2>1. pc' = "call" /\ lines' = Append(lines, usrbuf')
      <3>1. ~(m < wanted)
        BY <1>3, <1>5
      <3> QED
        BY <1>1, <3>1
    <2>2. RioInv'
      BY <1>1, <1>4, <2>1 DEF RioInv
    <2>3. Rest' = Unread' \o stream'
      BY <1>1, <1>2, <1>4, <2>1, NothingStored
    <2>4. Len(usrbuf') = BLOCK /\ Len(usrbuf') # 0
      BY <1>2, <1>3, <1>4, <1>5
    <2>5. Outcome = "reading" /\ Outcome' = "reading"
      BY <1>1, <2>1 DEF Outcome
    <2>6. usrbuf' # << >>
      BY <2>4
    <2> QED
      BY <1>4, <2>1, <2>2, <2>3, <2>4, <2>5, <2>6, ReturnsPiece
  <1>6. CASE m # wanted
    <2>1. pc' = pc /\ lines' = lines /\ m < wanted
      BY <1>1, <1>6
    <2>2. Len(usrbuf') < BLOCK
      BY <1>2, <1>3, <1>4, <2>1
    <2>3. RioInv'
      BY <1>1, <1>4, <2>1, <2>2 DEF RioInv
    <2>4. Rest' = Rest
      BY <1>1, <1>4, <2>1 DEF Rest, Stored
    <2> QED
      BY <2>1, <2>3, <2>4 DEF Outcome
  <1> QED
    BY <1>5, <1>6

\* The caller's array is full.
LEMMA FullKeeps ==
    ASSUME RioInv, Full
    PROVE  RioInv' /\ AbstractLines!Piece
  <1>1. /\ pc = "loop" /\ n >= MAXLINE /\ pc' = "call"
        /\ UNCHANGED <<stream, rio_buf, rio_bufptr, rio_cnt, usrbuf, n>>
        /\ lines' = Append(lines, usrbuf)
    BY DEF Full, Return, rio_t
  <1>2. RioInv'
    BY <1>1 DEF RioInv
  <1>3. /\ Len(usrbuf) = n - 1 /\ n <= MAXLINE /\ n \in Nat
        /\ MAXLINE \in Nat /\ MAXLINE > 1
        /\ \A x \in 1..Len(usrbuf) : usrbuf[x] # NL
    BY <1>1, RioAssumption DEF RioInv
  <1>4. Len(usrbuf) = MAXLINE - 1 /\ Len(usrbuf) # 0 /\ Len(usrbuf) <= MAXLINE - 1
    BY <1>1, <1>3
  <1>5. \A x \in 1..Len(usrbuf) - 1 : usrbuf[x] # NL
    <2>1. \A x \in 1..Len(usrbuf) - 1 : x \in 1..Len(usrbuf)
      BY <1>3
    <2> QED
      BY <1>3, <2>1
  <1>6. /\ usrbuf \in Seq(Byte) /\ Unread \in Seq(Byte) /\ stream \in Seq(Byte)
        /\ Unread \o stream \in Seq(Byte)
    BY RestType, ConcatProperties DEF RioInv
  <1>7. Unread' = Unread
    BY <1>1 DEF Unread
  <1>8. Rest' = Unread \o stream
    BY <1>1, <1>6, <1>7, NothingStored
  <1>9. Rest = usrbuf \o (Unread \o stream)
    <2>1. (usrbuf \o Unread) \o stream = usrbuf \o (Unread \o stream)
      BY <1>6, ConcatAssociative
    <2> QED
      BY <1>1, <2>1 DEF Rest, Stored
  <1>10. Outcome = "reading" /\ Outcome' = "reading"
    BY <1>1 DEF Outcome
  <1>11. usrbuf # << >>
    <2>1. Len(usrbuf) # 0
      BY <1>4
    <2> QED
      BY <2>1
  <1> QED
    BY <1>1, <1>2, <1>4, <1>5, <1>6, <1>8, <1>9, <1>10, <1>11, ReturnsPiece

\* Every step of the reader keeps the invariant and is a step of Lines, or none
\* that its caller sees.
LEMMA RioStep ==
    RioInv /\ [Next]_vars => RioInv' /\ [AbstractLines!Next]_(AbstractLines!vars)
  <1> SUFFICES ASSUME RioInv, [Next]_vars
               PROVE  RioInv' /\ [AbstractLines!Next]_(AbstractLines!vars)
    OBVIOUS
  <1>1. ASSUME Rest' = Rest, lines' = lines, Outcome' = Outcome
        PROVE  UNCHANGED AbstractLines!vars
    BY <1>1 DEF AbstractLines!vars, Rest, Outcome
  <1>2. CASE Call
    BY <1>1, <1>2, CallKeeps
  <1>3. CASE Refill
    BY <1>1, <1>3, RefillKeeps
  <1>4. CASE Interrupted
    <2>1. Outcome' = Outcome
      BY <1>4 DEF Interrupted, Outcome
    <2> QED
      BY <1>1, <1>4, <2>1, ReadKeeps
  <1>5. CASE ReadFails
    <2>1. RioInv' /\ Rest' = Rest /\ lines' = lines
      BY <1>5, ReadKeeps
    <2>2. Outcome = "reading" /\ Outcome' = "error"
      BY <1>5 DEF ReadFails, MustRead, Outcome
    <2> QED
      BY <2>1, <2>2 DEF AbstractLines!Next, AbstractLines!Fail, Rest, Outcome
  <1>6. CASE ReadEOF
    BY <1>6, ReadEOFKeeps DEF AbstractLines!Next
  <1>7. CASE CopyByte
    BY <1>1, <1>7, CopyByteKeeps DEF AbstractLines!Next
  <1>8. CASE CopyBytes
    BY <1>1, <1>8, CopyBytesKeeps DEF AbstractLines!Next
  <1>9. CASE Full
    BY <1>9, FullKeeps DEF AbstractLines!Next
  <1>10. CASE Ended \/ UNCHANGED vars
    <2>1. UNCHANGED <<stream, rio_buf, rio_bufptr, rio_cnt, usrbuf, n, pc, lines>>
      BY <1>10 DEF Ended, vars
    <2>2. RioInv'
      BY <2>1 DEF RioInv
    <2> QED
      BY <1>1, <2>1, <2>2 DEF Rest, Stored, Unread, Outcome
  <1> QED
    BY <1>2, <1>3, <1>4, <1>5, <1>6, <1>7, <1>8, <1>9, <1>10 DEF Next, Progress

\* However read() cuts a text up and whenever it is interrupted or fails, the
\* calls return its lines and blocks in order, each once and whole, and 0 only
\* at its end: the safety part of ImplementsLines, for any texts and sizes.
THEOREM RioReturnsLines ==
    Spec => AbstractLines!Init /\ [][AbstractLines!Next]_(AbstractLines!vars)
  <1>1. Init => RioInv /\ AbstractLines!Init
    <2> SUFFICES ASSUME Init PROVE RioInv /\ AbstractLines!Init
      OBVIOUS
    <2>1. stream \in Seq(Byte)
      <3>1. stream \in Texts /\ stream \in Seq({stream[x] : x \in DOMAIN stream})
        BY RioAssumption DEF Init
      <3>2. {stream[x] : x \in DOMAIN stream} \subseteq Byte
        BY <3>1 DEF Byte
      <3> QED
        BY <3>1, <3>2, SeqMonotonic
    <2>2. << >> \in Seq(Byte)
      OBVIOUS
    <2> QED
      BY <2>1, <2>2 DEF Init, RioInv, AbstractLines!Init
  <1> QED
    BY <1>1, RioStep, PTL DEF Spec
-----------------------------------------------------------------------------
(* The descriptors of open_clientfd() and open_listenfd()                  *)

CONSTANTS Descriptors, MaxAddr

VARIABLES call, open_pc, listp, p, fd, rc, others, open, tried, unclosed

OpenFd == INSTANCE OpenFd WITH pc <- open_pc

\* There is a descriptor for the call besides the two its program may have open.
FdHypothesis == Descriptors \subseteq Nat /\ Descriptors \ {0, 1} # {} /\ MaxAddr \in Nat

NoneWorked == \A t \in DOMAIN tried : ~tried[t]

LastWorked == /\ tried # << >> /\ tried[Len(tried)]
              /\ \A t \in DOMAIN tried : tried[t] => t = Len(tried)

\* The call has the descriptor fd.
Owns == fd \in Nat /\ fd \notin others /\ open = others \cup {fd}

\* What holds until the call knows what it returns.
Walking ==
    /\ open_pc \in {"getaddrinfo", "socket"} => open = others /\ NoneWorked
    /\ open_pc = "getaddrinfo" => listp = 0
    /\ open_pc \in {"connect", "close"} => Owns /\ NoneWorked
    /\ open_pc = "connect" => p <= listp
    /\ open_pc = "clean up" => \/ p > listp /\ open = others /\ NoneWorked
                               \/ p <= listp /\ Owns /\ LastWorked
    /\ open_pc = "listen" => /\ Owns /\ LastWorked /\ listp = 0
                             /\ call = "open_listenfd"

\* What holds when it does.
Returning ==
    /\ rc >= 0 => Owns /\ rc = fd /\ LastWorked
    /\ rc < 0 => open \in {others, others \cup {fd}} /\ open \ others \subseteq unclosed
    /\ NoneWorked \/ LastWorked
    /\ rc = -1 /\ unclosed = {} /\ call = "open_clientfd" => NoneWorked
    /\ listp = 0 \/ unclosed # {}

FdInv == /\ others \subseteq {0, 1} /\ tried \in Seq(BOOLEAN)
         /\ p \in Int /\ listp \in Int /\ rc \in Int
         /\ \/ /\ open_pc \in {"getaddrinfo", "socket", "connect", "close",
                               "clean up", "listen"}
               /\ unclosed = {}
               /\ Walking
            \/ /\ open_pc \in {"return", "done", "exit"}
               /\ Returning

\* socket() finds a number that is free.
LEMMA SocketIsFree ==
    ASSUME FdHypothesis, others \subseteq {0, 1}
    PROVE  /\ OpenFd!Min(Descriptors \ others) \in Nat
           /\ OpenFd!Min(Descriptors \ others) \notin others
  <1> DEFINE F == Descriptors \ others
  <1>1. F \in SUBSET Nat /\ F # {}
    BY DEF FdHypothesis
  <1> HIDE DEF F
  <1>2. \E x \in F : \A y \in F : x <= y
    BY <1>1, LeastNumber
  <1>3. OpenFd!Min(F) \in F
    BY <1>2 DEF OpenFd!Min
  <1> QED
    BY <1>1, <1>3 DEF F

\* A byte more was tried.
LEMMA TriedAppend ==
    ASSUME tried \in Seq(BOOLEAN), NoneWorked, NEW ok \in BOOLEAN, tried' = Append(tried, ok)
    PROVE  /\ tried' \in Seq(BOOLEAN)
           /\ ok => LastWorked'
           /\ ~ok => NoneWorked'
  <1>1. Len(tried) \in Nat /\ DOMAIN tried = 1..Len(tried)
    OBVIOUS
  <1>2. /\ tried' \in Seq(BOOLEAN) /\ Len(tried') = Len(tried) + 1
        /\ DOMAIN tried' = 1..Len(tried) + 1
        /\ tried'[Len(tried) + 1] = ok
        /\ \A t \in 1..Len(tried) : tried'[t] = tried[t]
    BY <1>1
  <1>3. \A t \in DOMAIN tried' : t \in 1..Len(tried) \/ t = Len(tried) + 1
    BY <1>1, <1>2
  <1>4. \A t \in 1..Len(tried) : ~tried'[t]
    BY <1>1, <1>2 DEF NoneWorked
  <1>5. ok => LastWorked'
    <2> SUFFICES ASSUME ok PROVE LastWorked'
      OBVIOUS
    <2>1. tried'[Len(tried')]
      BY <1>2
    <2>2. \A t \in DOMAIN tried' : tried'[t] => t = Len(tried')
      BY <1>2, <1>3, <1>4
    <2>3. tried' # << >>
      <3>1. Len(tried') # 0
        BY <1>1, <1>2
      <3> QED
        BY <3>1
    <2> QED
      BY <2>1, <2>2, <2>3 DEF LastWorked
  <1>6. ~ok => NoneWorked'
    BY <1>2, <1>3, <1>4 DEF NoneWorked
  <1> QED
    BY <1>2, <1>5, <1>6

LEMMA FdStep ==
    ASSUME FdHypothesis, FdInv, [OpenFd!Next]_(OpenFd!vars)
    PROVE  FdInv'
  <1>1. /\ others \subseteq {0, 1} /\ tried \in Seq(BOOLEAN)
        /\ p \in Int /\ listp \in Int /\ rc \in Int
    BY DEF FdInv
  <1>2. CASE OpenFd!Getaddrinfo
    <2>1. /\ open_pc = "getaddrinfo"
          /\ UNCHANGED <<call, fd, others, open, tried, unclosed>>
      BY <1>2 DEF OpenFd!Getaddrinfo, OpenFd!history
    <2>2. unclosed = {} /\ open = others /\ NoneWorked /\ listp = 0
      BY <2>1 DEF FdInv, Walking
    <2>3. NoneWorked'
      BY <2>1, <2>2 DEF NoneWorked
    <2>4. CASE rc' = -2 /\ open_pc' = "return" /\ UNCHANGED <<listp, p>>
      BY <1>1, <2>1, <2>2, <2>3, <2>4 DEF FdInv, Returning
    <2>5. CASE \E n_ \in 1..MaxAddr : /\ listp' = n_ /\ p' = 1 /\ open_pc' = "socket"
                                     /\ UNCHANGED rc
      BY <1>1, <2>1, <2>2, <2>3, <2>5 DEF FdInv, Walking, FdHypothesis
    <2> QED
      BY <1>2, <2>4, <2>5 DEF OpenFd!Getaddrinfo, OpenFd!Return, OpenFd!list
  <1>3. CASE OpenFd!Socket
    <2>1. /\ open_pc = "socket" /\ p <= listp
          /\ UNCHANGED <<call, listp, rc, others, tried, unclosed>>
      BY <1>3 DEF OpenFd!Socket, OpenFd!history
    <2>2. unclosed = {} /\ open = others /\ NoneWorked
      BY <2>1 DEF FdInv, Walking
    <2>3. NoneWorked'
      BY <2>1, <2>2 DEF NoneWorked
    <2>4. CASE /\ fd' = OpenFd!Min(Descriptors \ open) /\ open' = open \cup {fd'}
               /\ open_pc' = "connect" /\ UNCHANGED p
      <3>1. Owns'
        BY <1>1, <2>1, <2>2, <2>4, SocketIsFree DEF Owns
      <3> QED
        BY <1>1, <2>1, <2>2, <2>3, <2>4, <3>1 DEF FdInv, Walking
    <2>5. CASE fd' = -1 /\ p' = p + 1 /\ UNCHANGED <<open_pc, open>>
      BY <1>1, <2>1, <2>2, <2>3, <2>5 DEF FdInv, Walking
    <2> QED
      BY <1>3, <2>4, <2>5 DEF OpenFd!Socket
  <1>4. CASE OpenFd!Connect
    <2>1. PICK ok \in BOOLEAN : /\ tried' = Append(tried, ok)
                                /\ open_pc' = IF ok THEN "clean up" ELSE "close"
      BY <1>4 DEF OpenFd!Connect
    <2>2. /\ open_pc = "connect" /\ UNCHANGED <<call, listp, p, fd, rc, others, open, unclosed>>
      BY <1>4 DEF OpenFd!Connect, OpenFd!list
    <2>3. unclosed = {} /\ Owns /\ NoneWorked /\ p <= listp
      BY <2>2 DEF FdInv, Walking
    <2>4. Owns'
      BY <2>2, <2>3 DEF Owns
    <2>5. tried' \in Seq(BOOLEAN) /\ (ok => LastWorked') /\ (~ok => NoneWorked')
      BY <1>1, <2>1, <2>3, TriedAppend
    <2> QED
      BY <1>1, <2>1, <2>2, <2>3, <2>4, <2>5 DEF FdInv, Walking
  <1>5. CASE OpenFd!Close
    <2>1. /\ open_pc = "close" /\ UNCHANGED <<call, listp, fd, others, tried>>
      BY <1>5 DEF OpenFd!Close
    <2>2. unclosed = {} /\ Owns /\ NoneWorked
      BY <2>1 DEF FdInv, Walking
    <2>3. NoneWorked'
      BY <2>1, <2>2 DEF NoneWorked
    <2>4. CASE /\ open' = open \ {fd} /\ p' = p + 1 /\ open_pc' = "socket"
               /\ UNCHANGED <<rc, unclosed>>
      <3>1. open' = others'
        BY <2>1, <2>2, <2>4 DEF Owns
      <3> QED
        BY <1>1, <2>1, <2>2, <2>3, <2>4, <3>1 DEF FdInv, Walking
    <2>5. CASE /\ open' \in {open, open \ {fd}} /\ unclosed' = unclosed \cup {fd}
               /\ rc' = -1 /\ open_pc' = "return" /\ UNCHANGED p
      <3>1. open' \in {others', others' \cup {fd'}} /\ open' \ others' \subseteq unclosed'
        BY <2>1, <2>2, <2>5 DEF Owns
      <3> QED
        BY <1>1, <2>1, <2>3, <2>5, <3>1 DEF FdInv, Returning
    <2> QED
      BY <1>5, <2>4, <2>5 DEF OpenFd!Close, OpenFd!Return
  <1>6. CASE OpenFd!ListEnds
    <2>1. /\ open_pc = "socket" /\ p > listp /\ open_pc' = "clean up"
          /\ UNCHANGED <<call, listp, p, fd, rc, others, open, tried, unclosed>>
      BY <1>6 DEF OpenFd!ListEnds, OpenFd!list, OpenFd!history
    <2>2. unclosed = {} /\ open = others /\ NoneWorked
      BY <2>1 DEF FdInv, Walking
    <2>3. NoneWorked'
      BY <2>1, <2>2 DEF NoneWorked
    <2> QED
      BY <1>1, <2>1, <2>2, <2>3 DEF FdInv, Walking
  <1>7. CASE OpenFd!CleanUp
    <2>1. /\ open_pc = "clean up" /\ listp' = 0
          /\ UNCHANGED <<call, p, fd, others, open, tried, unclosed>>
      BY <1>7 DEF OpenFd!CleanUp, OpenFd!history
    <2>2. /\ unclosed = {}
          /\ \/ p > listp /\ open = others /\ NoneWorked
             \/ p <= listp /\ Owns /\ LastWorked
      BY <2>1 DEF FdInv, Walking
    <2>3. listp' \in Int
      <3>1. listp' = 0
        BY <2>1
      <3> QED
        BY <3>1
    <2>4. NoneWorked' = NoneWorked /\ LastWorked' = LastWorked /\ Owns' = Owns
      BY <2>1 DEF NoneWorked, LastWorked, Owns
    <2>5. CASE p > listp /\ rc' = -1 /\ open_pc' = "return"
      <3>1. open = others /\ NoneWorked
        BY <1>1, <2>2, <2>5
      <3>2. open' = others' /\ NoneWorked' /\ listp' = 0
        BY <2>1, <2>4, <3>1
      <3>3. Returning'
        BY <2>5, <3>2 DEF Returning
      <3>4. rc' \in Int
        BY <2>5
      <3>5. /\ others' \subseteq {0, 1} /\ tried' \in Seq(BOOLEAN)
            /\ p' \in Int /\ listp' \in Int /\ rc' \in Int
        BY <1>1, <2>1, <2>3, <3>4
      <3> QED
        BY <2>1, <2>5, <3>3, <3>5 DEF FdInv
    <2>6. CASE p <= listp /\ rc' = fd /\ open_pc' = "return"
      <3>1. Owns /\ LastWorked /\ fd \in Nat
        BY <1>1, <2>2, <2>6 DEF Owns
      <3>2. Owns' /\ LastWorked' /\ rc' = fd' /\ rc' \in Nat /\ listp' = 0
        BY <2>1, <2>4, <2>6, <3>1
      <3>3. Returning'
        BY <3>2 DEF Returning
      <3>4. rc' \in Int
        BY <3>2
      <3>5. /\ others' \subseteq {0, 1} /\ tried' \in Seq(BOOLEAN)
            /\ p' \in Int /\ listp' \in Int /\ rc' \in Int
        BY <1>1, <2>1, <2>3, <3>4
      <3> QED
        BY <2>1, <2>6, <3>2, <3>3, <3>5 DEF FdInv
    <2>7. CASE p <= listp /\ call = "open_listenfd" /\ open_pc' = "listen" /\ UNCHANGED rc
      <3>1. Owns /\ LastWorked
        BY <1>1, <2>2, <2>7
      <3>2. Owns' /\ LastWorked' /\ listp' = 0 /\ call' = "open_listenfd" /\ unclosed' = {}
        BY <2>1, <2>2, <2>4, <2>7, <3>1
      <3>3. Walking'
        BY <2>7, <3>2 DEF Walking
      <3>4. /\ others' \subseteq {0, 1} /\ tried' \in Seq(BOOLEAN)
            /\ p' \in Int /\ listp' \in Int /\ rc' \in Int
        BY <1>1, <2>1, <2>7, <2>3
      <3> QED
        BY <2>1, <2>1, <2>7, <3>2, <3>3, <3>4 DEF FdInv
    <2> QED
      BY <1>7, <2>5, <2>6, <2>7 DEF OpenFd!CleanUp, OpenFd!Return
  <1>8. CASE OpenFd!Listen
    <2>1. /\ open_pc = "listen" /\ open_pc' = "return"
          /\ UNCHANGED <<call, listp, p, fd, others, tried>>
      BY <1>8 DEF OpenFd!Listen, OpenFd!Return, OpenFd!list
    <2>2. /\ unclosed = {} /\ Owns /\ LastWorked /\ listp = 0
          /\ call = "open_listenfd" /\ fd \in Nat
      BY <2>1 DEF FdInv, Walking, Owns
    <2>3. LastWorked'
      BY <2>1, <2>2 DEF LastWorked
    <2>4. CASE rc' = fd /\ UNCHANGED <<open, unclosed>>
      <3>1. Owns'
        BY <2>1, <2>2, <2>4 DEF Owns
      <3> QED
        BY <1>1, <2>1, <2>2, <2>3, <2>4, <3>1 DEF FdInv, Returning
    <2>5. CASE rc' = -1 /\ open' = open \ {fd} /\ UNCHANGED unclosed
      <3>1. open' = others'
        BY <2>1, <2>2, <2>5 DEF Owns
      <3> QED
        BY <1>1, <2>1, <2>2, <2>3, <2>5, <3>1 DEF FdInv, Returning
    <2>6. CASE rc' = -1 /\ UNCHANGED open /\ unclosed' = unclosed \cup {fd}
      <3>1. open' = others' \cup {fd'} /\ open' \ others' \subseteq unclosed'
        BY <2>1, <2>2, <2>6 DEF Owns
      <3> QED
        BY <1>1, <2>1, <2>2, <2>3, <2>6, <3>1 DEF FdInv, Returning
    <2> QED
      BY <1>8, <2>4, <2>5, <2>6 DEF OpenFd!Listen, OpenFd!Return
  <1>9. CASE OpenFd!Wrapper
    <2>1. /\ open_pc = "return" /\ open_pc' \in {"done", "exit"}
          /\ UNCHANGED <<call, listp, p, fd, rc, others, open, tried, unclosed>>
      BY <1>9 DEF OpenFd!Wrapper, OpenFd!list, OpenFd!history
    <2>2. Returning
      BY <2>1 DEF FdInv
    <2>3. NoneWorked' = NoneWorked /\ LastWorked' = LastWorked /\ Owns' = Owns
      BY <2>1 DEF NoneWorked, LastWorked, Owns
    <2>4. Returning'
      BY <2>1, <2>2, <2>3 DEF Returning
    <2> QED
      BY <1>1, <2>1, <2>4 DEF FdInv
  <1>10. CASE OpenFd!Ended \/ UNCHANGED OpenFd!vars
    <2>1. UNCHANGED <<call, open_pc, listp, p, fd, rc, others, open, tried, unclosed>>
      BY <1>10 DEF OpenFd!Ended, OpenFd!vars
    <2> QED
      BY <2>1 DEF FdInv, Walking, Returning, NoneWorked, LastWorked, Owns
  <1> QED
    BY <1>2, <1>3, <1>4, <1>5, <1>6, <1>7, <1>8, <1>9, <1>10 DEF OpenFd!Next

\* open_clientfd() and open_listenfd() leave open the descriptor they return, and
\* no other of theirs, whichever of the system calls fail, and for any number of
\* addresses.
THEOREM OpenFdKeepsDescriptors ==
    ASSUME FdHypothesis
    PROVE  OpenFd!Spec => []OpenFd!DescriptorsExact
  <1>1. ASSUME OpenFd!Init PROVE FdInv
    <2>1. tried = << >> /\ tried \in Seq(BOOLEAN) /\ NoneWorked
      BY <1>1 DEF OpenFd!Init, NoneWorked
    <2> QED
      BY <1>1, <2>1 DEF OpenFd!Init, FdInv, Walking
  <1>2. FdInv => OpenFd!DescriptorsExact
    <2> SUFFICES ASSUME FdInv PROVE OpenFd!DescriptorsExact
      OBVIOUS
    <2>1. NoneWorked \/ LastWorked
      BY DEF FdInv, Walking, Returning
    <2>2. \A t \in DOMAIN tried : tried[t] => t = Len(tried)
      BY <2>1 DEF NoneWorked, LastWorked
    <2>3. open \in {others, others \cup {fd}}
      <3>1. CASE /\ open_pc \in {"getaddrinfo", "socket", "connect", "close",
                                 "clean up", "listen"}
                 /\ Walking
        BY <3>1 DEF Walking, Owns
      <3>2. CASE Returning
        <4>1. rc \in Int
          BY DEF FdInv
        <4>2. rc >= 0 \/ rc < 0
          BY <4>1
        <4> QED
          BY <3>2, <4>2 DEF Returning, Owns
      <3> QED
        BY <3>1, <3>2 DEF FdInv
    <2>4. open_pc \in {"return", "done", "exit"} => Returning
      BY DEF FdInv
    <2> QED
      BY <2>2, <2>3, <2>4 DEF OpenFd!DescriptorsExact, Returning, Owns, LastWorked,
         NoneWorked
  <1>3. FdInv /\ [OpenFd!Next]_(OpenFd!vars) => FdInv'
    BY FdStep
  <1> QED
    BY <1>1, <1>2, <1>3, PTL DEF OpenFd!Spec

-----------------------------------------------------------------------------
(* The transfer from rio_writen() to rio_readn()                           *)

CONSTANTS Content, SOCKBUF, N

VARIABLES w_pc, w_left, socket, r_pc, r_buf, blocks

Socket == INSTANCE RioSocket

\* What is sent are bytes, and the reader asks for some.
SocketHypothesis == /\ Content \in Seq({Content[x] : x \in DOMAIN Content})
                    /\ SOCKBUF \in Nat /\ N \in Nat /\ N > 0

Sent == {Content[x] : x \in DOMAIN Content}

Types == /\ w_left \in 0..Len(Content)
         /\ socket \in Seq(Sent) /\ r_buf \in Seq(Sent) /\ blocks \in Seq(Seq(Sent))

\* A call in progress still wants bytes, and all that have returned have all
\* they asked for, but for the last one.
Sizes == /\ r_pc # "eof" => /\ Len(r_buf) < N
                            /\ \A b \in DOMAIN blocks : ~(Len(blocks[b]) < N)
         /\ r_pc = "eof" => \A b \in DOMAIN blocks : Len(blocks[b]) < N <=> b = Len(blocks)

\* What has arrived, is stored, or is on its way.
Transferred == (FlattenSeq(blocks) \o r_buf) \o socket

SocketInv == /\ Types
             /\ Sizes
             /\ Transferred = Socket!Written
             /\ w_pc = "returned" => w_left = 0

LEMMA Flattening == Socket!FlattenSeq(blocks) = FlattenSeq(blocks)
  BY DEF Socket!FlattenSeq, FlattenSeq

LEMMA FlattenType ==
    ASSUME Types
    PROVE  /\ FlattenSeq(blocks) \in Seq(Sent)
           /\ FlattenSeq(blocks) \o r_buf \in Seq(Sent)
  <1>1. << >> \in Seq(Sent)
    OBVIOUS
  <1>2. FlattenSeq(blocks) \in Seq(Sent)
    BY <1>1, FlattenAppend DEF Types
  <1> QED
    BY <1>2, ConcatProperties DEF Types

LEMMA LesserOf ==
    ASSUME NEW a \in Int, NEW b \in Int
    PROVE  Socket!Min({a, b}) \in Int /\ Socket!Min({a, b}) <= a /\ Socket!Min({a, b}) <= b
  <1> DEFINE Least(x) == x \in {a, b} /\ \A y \in {a, b} : x <= y
  <1>1. a <= b \/ b <= a
    OBVIOUS
  <1>2. Least(a) \/ Least(b)
    BY <1>1
  <1>3. Socket!Min({a, b}) = CHOOSE x \in {a, b} : \A y \in {a, b} : x <= y
    BY DEF Socket!Min
  <1>4. \E x \in {a, b} : \A y \in {a, b} : x <= y
    BY <1>2
  <1>5. Socket!Min({a, b}) \in {a, b} /\ \A y \in {a, b} : Socket!Min({a, b}) <= y
    BY <1>3, <1>4
  <1> QED
    BY <1>5

LEMMA RegroupSent ==
    \A x, y, z \in Seq(Sent) : (x \o y) \o z = x \o (y \o z)
  BY ConcatAssociative

LEMMA MoveOverSent ==
    \A f, x, a, b \in Seq(Sent) : (f \o x) \o (a \o b) = (f \o (x \o a)) \o b
  <1> SUFFICES ASSUME NEW f \in Seq(Sent), NEW x \in Seq(Sent),
                      NEW a \in Seq(Sent), NEW b \in Seq(Sent)
               PROVE  (f \o x) \o (a \o b) = (f \o (x \o a)) \o b
    OBVIOUS
  <1>1. f \o x \in Seq(Sent)
    BY ConcatProperties
  <1>2. ((f \o x) \o a) \o b = (f \o x) \o (a \o b)
    BY <1>1, RegroupSent
  <1>3. (f \o x) \o a = f \o (x \o a)
    BY RegroupSent
  <1> QED
    BY <1>2, <1>3

LEMMA WriteKeeps ==
    ASSUME SocketHypothesis, SocketInv, Socket!Write
    PROVE  SocketInv'
  <1>1. PICK k \in 1..Socket!Min({w_left, SOCKBUF - Len(socket)}) :
           /\ socket' = socket \o SubSeq(Content, Len(Socket!Written) + 1,
                                         Len(Socket!Written) + k)
           /\ w_left' = w_left - k
    BY DEF Socket!Write
  <1>2. /\ w_pc' = (IF w_left' = 0 THEN "returned" ELSE "write")
        /\ r_pc' = r_pc /\ r_buf' = r_buf /\ blocks' = blocks
    BY DEF Socket!Write
  <1>3. /\ w_left \in 0..Len(Content) /\ socket \in Seq(Sent) /\ r_buf \in Seq(Sent)
        /\ Len(socket) \in Nat /\ Content \in Seq(Sent) /\ Len(Content) \in Nat
        /\ SOCKBUF \in Nat
    BY LenProperties DEF SocketInv, Types, SocketHypothesis, Sent
  <1>4. k \in Nat /\ k >= 1 /\ k <= w_left
    <2>1. w_left \in Int /\ SOCKBUF - Len(socket) \in Int
      BY <1>3
    <2>2. /\ Socket!Min({w_left, SOCKBUF - Len(socket)}) \in Int
          /\ Socket!Min({w_left, SOCKBUF - Len(socket)}) <= w_left
      BY <2>1, LesserOf
    <2> HIDE DEF SocketInv
    <2> QED
      BY <1>3, <2>2
  <1> DEFINE h == Len(Content) - w_left
             part == SubSeq(Content, h + 1, h + k)
  <1>5. h \in 0..Len(Content) /\ h + k \in 0..Len(Content) /\ w_left - k \in 0..Len(Content)
        /\ Len(Content) - (w_left - k) = h + k
    BY <1>3, <1>4
  <1>6. Socket!Written = SubSeq(Content, 1, h) /\ Len(Socket!Written) = h
    <2>1. Len(SubSeq(Content, 1, h)) = h
      BY <1>3, <1>5, CutInTwo
    <2> QED
      BY <2>1 DEF Socket!Written
  <1>7. Socket!Written' = SubSeq(Content, 1, h + k)
    <2>1. Len(Content) - w_left' = h + k
      BY <1>1, <1>5
    <2> QED
      BY <2>1 DEF Socket!Written
  <1>8. socket' = socket \o part
    BY <1>1, <1>6
  <1> HIDE DEF h
  <1>9. SubSeq(Content, 1, h + k) = SubSeq(Content, 1, h) \o part
    <2>1. 1 \in 1..Len(Content) + 1 /\ h \in 1 - 1..Len(Content) /\ h + k \in h..Len(Content)
      BY <1>3, <1>4, <1>5
    <2> QED
      BY <1>3, <2>1, ConcatAdjacentSubSeq
  <1>10. part \in Seq(Sent)
    <2>1. \A x \in h + 1..h + k : x \in 1..Len(Content)
      BY <1>3, <1>4, <1>5
    <2>2. \A x \in h + 1..h + k : Content[x] \in Sent
      BY <1>3, <2>1, ElementOfSeq
    <2>3. h + 1 \in Int /\ h + k \in Int
      BY <1>4, <1>5
    <2> QED
      BY <1>3, <2>2, <2>3, SubSeqProperties
  <1> HIDE DEF part
  <1>11. Types'
    <2>1. socket' \in Seq(Sent)
      BY <1>3, <1>8, <1>10, CutOff
    <2>2. w_left' \in 0..Len(Content)
      BY <1>1, <1>5
    <2> QED
      BY <1>2, <2>1, <2>2 DEF SocketInv, Types
  <1>12. Transferred' = Transferred \o part
    <2>1. Transferred' = (FlattenSeq(blocks) \o r_buf) \o (socket \o part)
      BY <1>2, <1>8 DEF Transferred
    <2>2. FlattenSeq(blocks) \o r_buf \in Seq(Sent)
      BY FlattenType DEF SocketInv
    <2> DEFINE arrived == FlattenSeq(blocks) \o r_buf
    <2> HIDE DEF arrived
    <2>3. arrived \in Seq(Sent)
      BY <2>2 DEF arrived
    <2>4. (arrived \o socket) \o part = arrived \o (socket \o part)
      BY <1>3, <1>10, <2>3, RegroupSent
    <2> QED
      BY <2>1, <2>4 DEF arrived, Transferred
  <1>13. Transferred' = Socket!Written'
    BY <1>6, <1>7, <1>9, <1>12 DEF SocketInv
  <1>14. Sizes'
    BY <1>2 DEF SocketInv, Sizes
  <1>15. w_pc' = "returned" => w_left' = 0
    BY <1>2
  <1> QED
    BY <1>11, <1>13, <1>14, <1>15 DEF SocketInv

LEMMA ReadKeepsAll ==
    ASSUME SocketHypothesis, SocketInv, Socket!Read
    PROVE  SocketInv'
  <1> DEFINE part(k) == SubSeq(socket, 1, k)
  <1>1. PICK k \in 1..Socket!Min({N - Len(r_buf), Len(socket)}) :
           /\ socket' = SubSeq(socket, k + 1, Len(socket))
           /\ \/ /\ Len(r_buf \o part(k)) = N
                 /\ blocks' = Append(blocks, r_buf \o part(k)) /\ r_buf' = << >>
              \/ /\ Len(r_buf \o part(k)) < N
                 /\ r_buf' = r_buf \o part(k) /\ blocks' = blocks
    BY DEF Socket!Read
  <1>2. r_pc = "read" /\ w_pc' = w_pc /\ w_left' = w_left /\ r_pc' = r_pc
    BY DEF Socket!Read
  <1>3. /\ socket \in Seq(Sent) /\ r_buf \in Seq(Sent) /\ blocks \in Seq(Seq(Sent))
        /\ Len(socket) \in Nat /\ Len(r_buf) \in Nat /\ N \in Nat /\ N > 0
    BY LenProperties DEF SocketInv, Types, SocketHypothesis
  <1>4. k \in 0..Len(socket)
    <2>1. N - Len(r_buf) \in Int /\ Len(socket) \in Int
      BY <1>3
    <2>2. /\ Socket!Min({N - Len(r_buf), Len(socket)}) \in Int
          /\ Socket!Min({N - Len(r_buf), Len(socket)}) <= Len(socket)
      BY <2>1, LesserOf
    <2> QED
      BY <1>3, <2>2
  <1> DEFINE first == part(k)
             rest == SubSeq(socket, k + 1, Len(socket))
             stored == r_buf \o first
             flat == FlattenSeq(blocks)
  <1>5. first \in Seq(Sent) /\ rest \in Seq(Sent) /\ socket = first \o rest
    BY <1>3, <1>4, CutInTwo
  <1>6. flat \in Seq(Sent) /\ Socket!Written' = Socket!Written
    BY <1>2, FlattenType DEF SocketInv, Socket!Written
  <1>7. /\ socket' = rest
        /\ \/ /\ Len(stored) = N
              /\ blocks' = Append(blocks, stored) /\ r_buf' = << >>
           \/ /\ Len(stored) < N
              /\ r_buf' = stored /\ blocks' = blocks
    BY <1>1
  <1> HIDE DEF first, rest, flat
  <1>8. stored \in Seq(Sent)
    BY <1>3, <1>5, CutOff
  <1>9. Transferred = (flat \o stored) \o rest
    <2>1. (flat \o r_buf) \o (first \o rest) = (flat \o (r_buf \o first)) \o rest
      <3>1. /\ flat \in Seq(Sent) /\ r_buf \in Seq(Sent) /\ first \in Seq(Sent)
            /\ rest \in Seq(Sent)
        BY <1>3, <1>5, <1>6
      <3>2. \A a, b \in Seq(Sent) :
               (flat \o r_buf) \o (a \o b) = (flat \o (r_buf \o a)) \o b
        BY <3>1, MoveOverSent
      <3> QED
        BY <3>1, <3>2
    <2>2. Transferred = (flat \o r_buf) \o socket
      BY DEF Transferred, flat
    <2> QED
      BY <1>5, <2>1, <2>2
  <1> HIDE DEF stored
  <1>10. CASE Len(stored) = N /\ blocks' = Append(blocks, stored) /\ r_buf' = << >>
    <2>1. FlattenSeq(blocks') = flat \o stored /\ flat \o stored \in Seq(Sent)
      BY <1>3, <1>6, <1>8, <1>10, FlattenAppend, CutOff DEF flat
    <2>2. Transferred' = ((flat \o stored) \o << >>) \o rest
      BY <1>7, <1>10, <2>1 DEF Transferred
    <2>3. (flat \o stored) \o << >> = flat \o stored
      BY <2>1, ConcatEmptySeq
    <2>4. Transferred' = Socket!Written'
      BY <1>6, <1>9, <2>2, <2>3 DEF SocketInv
    <2>5. << >> \in Seq(Sent) /\ Len(<< >>) = 0
      OBVIOUS
    <2>6. blocks' \in Seq(Seq(Sent))
      BY <1>3, <1>8, <1>10, AppendProperties
    <2>7. Types'
      BY <1>2, <1>5, <1>7, <1>10, <2>5, <2>6 DEF SocketInv, Types
    <2>8. \A b \in DOMAIN blocks : ~(Len(blocks[b]) < N)
      BY <1>2 DEF SocketInv, Sizes
    <2>9. \A b \in DOMAIN blocks' : ~(Len(blocks'[b]) < N)
      <3>1. /\ DOMAIN blocks' = 1..Len(blocks) + 1 /\ DOMAIN blocks = 1..Len(blocks)
            /\ Len(blocks) \in Nat
            /\ blocks'[Len(blocks) + 1] = stored
            /\ \A b \in 1..Len(blocks) : blocks'[b] = blocks[b]
        BY <1>3, <1>8, <1>10
      <3>2. \A b \in DOMAIN blocks' : b \in DOMAIN blocks \/ b = Len(blocks) + 1
        BY <3>1
      <3>3. ~(Len(stored) < N)
        BY <1>3, <1>10
      <3> QED
        BY <2>8, <3>1, <3>2, <3>3
    <2>10. Len(r_buf') < N
      BY <1>3, <1>10, <2>5
    <2>11. Sizes'
      BY <1>2, <2>9, <2>10 DEF Sizes
    <2> QED
      BY <1>2, <2>4, <2>7, <2>11 DEF SocketInv
  <1>11. CASE Len(stored) < N /\ r_buf' = stored /\ blocks' = blocks
    <2>1. Transferred' = Socket!Written'
      BY <1>6, <1>7, <1>9, <1>11 DEF SocketInv, Transferred, flat
    <2>2. Types'
      BY <1>2, <1>5, <1>7, <1>8, <1>11 DEF SocketInv, Types
    <2>3. Sizes'
      BY <1>2, <1>11 DEF SocketInv, Sizes
    <2> QED
      BY <1>2, <2>1, <2>2, <2>3 DEF SocketInv
  <1> QED
    BY <1>7, <1>10, <1>11

LEMMA SocketEOFKeeps ==
    ASSUME SocketHypothesis, SocketInv, Socket!ReadEOF
    PROVE  SocketInv'
  <1>1. /\ r_pc = "read" /\ socket = << >> /\ r_pc' = "eof"
        /\ blocks' = Append(blocks, r_buf) /\ r_buf' = << >>
        /\ w_pc' = w_pc /\ w_left' = w_left /\ socket' = socket
    BY DEF Socket!ReadEOF
  <1>2. /\ r_buf \in Seq(Sent) /\ blocks \in Seq(Seq(Sent)) /\ socket \in Seq(Sent)
        /\ Socket!Written' = Socket!Written
    BY <1>1 DEF SocketInv, Types, Socket!Written
  <1>3. FlattenSeq(blocks) \o r_buf \in Seq(Sent)
    BY FlattenType DEF SocketInv
  <1>4. FlattenSeq(blocks') = FlattenSeq(blocks) \o r_buf
    BY <1>1, <1>2, FlattenAppend
  <1>5. Transferred' = Transferred
    <2>1. FlattenSeq(blocks') \o << >> = FlattenSeq(blocks')
      BY <1>3, <1>4, ConcatEmptySeq
    <2> QED
      BY <1>1, <1>4, <2>1 DEF Transferred
  <1>6. << >> \in Seq(Sent)
    OBVIOUS
  <1>7. Types'
    BY <1>1, <1>2, <1>6, AppendProperties DEF SocketInv, Types
  <1>8. Sizes'
    <2>1. Len(r_buf) < N /\ \A b \in DOMAIN blocks : ~(Len(blocks[b]) < N)
      BY <1>1 DEF SocketInv, Sizes
    <2>2. /\ DOMAIN blocks' = 1..Len(blocks) + 1 /\ DOMAIN blocks = 1..Len(blocks)
          /\ Len(blocks) \in Nat /\ Len(blocks') = Len(blocks) + 1
          /\ blocks'[Len(blocks) + 1] = r_buf
          /\ \A b \in 1..Len(blocks) : blocks'[b] = blocks[b]
      BY <1>1, <1>2
    <2>3. \A b \in DOMAIN blocks' : \/ b \in DOMAIN blocks /\ b # Len(blocks')
                                   \/ b = Len(blocks) + 1
      BY <2>2
    <2>4. \A b \in DOMAIN blocks' : Len(blocks'[b]) < N <=> b = Len(blocks')
      BY <2>1, <2>2, <2>3
    <2> QED
      BY <1>1, <2>4 DEF Sizes
  <1> QED
    BY <1>1, <1>2, <1>5, <1>7, <1>8 DEF SocketInv

\* rio_writen() and rio_readn() lose, repeat and exchange no byte, and return
\* what they promise, for any content and sizes.
THEOREM SocketTransfersAll ==
    ASSUME SocketHypothesis
    PROVE  Socket!Spec => []Socket!TransferExact
  <1>1. ASSUME Socket!Init PROVE SocketInv
    <2>1. Content \in Seq(Sent) /\ Len(Content) \in Nat /\ 0 \in 0..Len(Content)
      BY LenProperties DEF SocketHypothesis, Sent
    <2>2. /\ w_pc = "write" /\ w_left = Len(Content) /\ socket = << >>
          /\ r_pc = "read" /\ r_buf = << >> /\ blocks = << >>
      BY <1>1 DEF Socket!Init
    <2>3. Types
      BY <2>1, <2>2 DEF Types
    <2>4. Sizes
      BY <2>2 DEF Sizes, SocketHypothesis
    <2>5. FlattenSeq(blocks) = << >>
      BY <2>2 DEF FlattenSeq
    <2>6. Transferred = << >>
      BY <2>2, <2>5, ConcatEmptySeq DEF Transferred
    <2>7. Socket!Written = << >>
      <3>1. Len(Content) - w_left = 0
        BY <2>1, <2>2
      <3>2. SubSeq(Content, 1, 0) = << >>
        BY <2>1, SubSeqEmpty
      <3> QED
        BY <3>1, <3>2 DEF Socket!Written
    <2> QED
      BY <2>2, <2>3, <2>4, <2>6, <2>7 DEF SocketInv
  <1>2. SocketInv /\ [Socket!Next]_(Socket!vars) => SocketInv'
    <2> SUFFICES ASSUME SocketInv, [Socket!Next]_(Socket!vars) PROVE SocketInv'
      OBVIOUS
    <2>1. ASSUME UNCHANGED <<w_left, socket, r_buf, blocks>>,
                 w_pc' = w_pc \/ w_pc' = "error",
                 r_pc' = r_pc \/ (r_pc = "read" /\ r_pc' = "error")
          PROVE  SocketInv'
      BY <2>1 DEF SocketInv, Types, Sizes, Transferred, Socket!Written
    <2>2. CASE Socket!WriteFails \/ Socket!ReadFails
      <3>1. /\ UNCHANGED <<w_left, socket, r_buf, blocks>>
            /\ w_pc' = w_pc \/ w_pc' = "error"
            /\ r_pc' = r_pc \/ (r_pc = "read" /\ r_pc' = "error")
        BY <2>2 DEF Socket!WriteFails, Socket!ReadFails
      <3> QED
        BY <2>1, <3>1
    <2>3. CASE UNCHANGED Socket!vars
      <3>1. UNCHANGED <<w_left, socket, r_buf, blocks, w_pc, r_pc>>
        BY <2>3 DEF Socket!vars
      <3> QED
        BY <2>1, <3>1
    <2> QED
      BY <2>2, <2>3, WriteKeeps, ReadKeepsAll, SocketEOFKeeps DEF Socket!Next,
         Socket!Writer, Socket!Reader, Socket!WriteInterrupted, Socket!ReadInterrupted,
         Socket!Ended
  <1>3. SocketInv => Socket!TransferExact
    <2> SUFFICES ASSUME SocketInv PROVE Socket!TransferExact
      OBVIOUS
    <2>1. (Socket!FlattenSeq(blocks) \o r_buf) \o socket = Socket!Written
      BY Flattening DEF SocketInv, Transferred
    <2>2. w_pc = "returned" => Socket!Written = Content
      <3> SUFFICES ASSUME w_pc = "returned" PROVE Socket!Written = Content
        OBVIOUS
      <3>1. Content \in Seq(Sent) /\ Len(Content) \in Nat /\ w_left = 0
        BY LenProperties DEF SocketInv, SocketHypothesis, Sent
      <3>2. Len(Content) - w_left = Len(Content) /\ SubSeq(Content, 1, Len(Content)) = Content
        BY <3>1, SubSeqFull
      <3> QED
        BY <3>2 DEF Socket!Written
    <2>3. \A b \in DOMAIN blocks : Len(blocks[b]) < N <=> r_pc = "eof" /\ b = Len(blocks)
      BY DEF SocketInv, Sizes
    <2> QED
      BY <2>1, <2>2, <2>3 DEF Socket!TransferExact
  <1> QED
    BY <1>1, <1>2, <1>3, PTL DEF Socket!Spec

-----------------------------------------------------------------------------
(* The lines of bupt_getline()                                             *)

CONSTANTS Files, FF

VARIABLES file, file_stream, chars, strings, file_pc

File == INSTANCE LineReader WITH stream <- file_stream, s <- chars, pc <- file_pc

\* A file is a sequence.
FilesHypothesis == \A f \in Files : f \in Seq({f[x] : x \in DOMAIN f})

AnyChar == {NL} \cup UNION {{f[x] : x \in DOMAIN f} : f \in Files}

Flat == File!Lines(strings)

HasNoFF == \A x \in 1..Len(file) : file[x] # FF

\* Nothing is lost yet, or the last character is, where a newline should be.
Whole == (Flat \o chars) \o file_stream = file

LastLost == /\ file_stream = << >> /\ chars = << >>
            /\ file # << >> /\ file[Len(file)] # NL
            /\ Flat = Append(SubSeq(file, 1, Len(file) - 1), NL)

LineTypes == /\ file \in Seq(AnyChar) /\ file_stream \in Seq(AnyChar)
             /\ chars \in Seq(AnyChar) /\ strings \in Seq(Seq(AnyChar))

NoNewlines == /\ \A x \in 1..Len(chars) : chars[x] # NL
              /\ \A k \in DOMAIN strings :
                    \A x \in 1..Len(strings[k]) : strings[k][x] # NL

LineInv == /\ LineTypes
           /\ NoNewlines
           /\ Flat = << >> \/ Flat[Len(Flat)] = NL
           /\ HasNoFF => \/ Whole /\ (file_pc = "done" => file_stream = << >>)
                         \/ LastLost
           /\ file_pc = "done" => chars = << >>

LEMMA NewlineIsChar == NL \in AnyChar
  BY DEF AnyChar

LEMMA RegroupChars ==
    \A x, y, z \in Seq(AnyChar) : (x \o y) \o z = x \o (y \o z)
  BY ConcatAssociative

LEMMA MoveOverChars ==
    \A f, x, a, b \in Seq(AnyChar) : (f \o x) \o (a \o b) = (f \o (x \o a)) \o b
  <1> SUFFICES ASSUME NEW f \in Seq(AnyChar), NEW x \in Seq(AnyChar),
                      NEW a \in Seq(AnyChar), NEW b \in Seq(AnyChar)
               PROVE  (f \o x) \o (a \o b) = (f \o (x \o a)) \o b
    OBVIOUS
  <1>1. f \o x \in Seq(AnyChar)
    BY ConcatProperties
  <1>2. ((f \o x) \o a) \o b = (f \o x) \o (a \o b)
    BY <1>1, RegroupChars
  <1>3. (f \o x) \o a = f \o (x \o a)
    BY RegroupChars
  <1> QED
    BY <1>2, <1>3

\* What a string more does to the lines.
LEMMA LinesAppend ==
    ASSUME NEW q \in Seq(Seq(AnyChar)), NEW e \in Seq(AnyChar)
    PROVE  /\ File!Lines(q) \in Seq(AnyChar)
           /\ Append(e, NL) \in Seq(AnyChar)
           /\ File!Lines(Append(q, e)) = File!Lines(q) \o Append(e, NL)
  <1> DEFINE L(w) == [k \in DOMAIN w |-> Append(w[k], NL)]
  <1>1. NL \in AnyChar
    BY NewlineIsChar
  <1>2. Append(e, NL) \in Seq(AnyChar)
    BY <1>1, AppendProperties
  <1>3. L(q) \in Seq(Seq(AnyChar)) /\ Len(L(q)) = Len(q)
    <2>1. Len(q) \in Nat /\ DOMAIN q = 1..Len(q)
      BY LenProperties
    <2>2. \A k \in 1..Len(q) : q[k] \in Seq(AnyChar)
      BY ElementOfSeq
    <2>3. \A k \in 1..Len(q) : Append(q[k], NL) \in Seq(AnyChar)
      BY <1>1, <2>2, AppendProperties
    <2> QED
      BY <2>1, <2>3
  <1>4. L(Append(q, e)) = Append(L(q), Append(e, NL))
    <2>1. /\ Append(q, e) \in Seq(Seq(AnyChar)) /\ Len(Append(q, e)) = Len(q) + 1
          /\ Len(q) \in Nat /\ Append(q, e)[Len(q) + 1] = e
          /\ DOMAIN Append(q, e) = 1..Len(q) + 1 /\ DOMAIN q = 1..Len(q)
          /\ \A k \in 1..Len(q) : Append(q, e)[k] = q[k]
      BY AppendProperties, LenProperties
    <2>2. \A k \in 1..Len(q) + 1 : k \in 1..Len(q) \/ k = Len(q) + 1
      BY <2>1
    <2>3. /\ DOMAIN Append(L(q), Append(e, NL)) = 1..Len(q) + 1
          /\ Append(L(q), Append(e, NL))[Len(q) + 1] = Append(e, NL)
          /\ \A k \in 1..Len(q) : Append(L(q), Append(e, NL))[k] = L(q)[k]
          /\ Append(L(q), Append(e, NL)) \in Seq(Seq(AnyChar))
      <3> DEFINE z == L(q)
      <3> HIDE DEF L
      <3>1. z \in Seq(Seq(AnyChar)) /\ Len(z) = Len(q) /\ Len(q) \in Nat
        BY <1>3, <2>1
      <3> HIDE DEF z
      <3>2. /\ DOMAIN Append(z, Append(e, NL)) = 1..Len(q) + 1
            /\ Append(z, Append(e, NL))[Len(q) + 1] = Append(e, NL)
            /\ \A k \in 1..Len(q) : Append(z, Append(e, NL))[k] = z[k]
            /\ Append(z, Append(e, NL)) \in Seq(Seq(AnyChar))
        BY <1>2, <3>1, AppendProperties, LenProperties
      <3> QED
        BY <3>2 DEF z
    <2>4. \A k \in 1..Len(q) : L(q)[k] = Append(q[k], NL)
      BY <2>1
    <2>5. \A k \in 1..Len(q) + 1 :
             L(Append(q, e))[k] = Append(L(q), Append(e, NL))[k]
      BY <2>1, <2>2, <2>3, <2>4
    <2>6. DOMAIN L(Append(q, e)) = 1..Len(q) + 1
      BY <2>1
    <2>7. Append(L(q), Append(e, NL)) =
             [k \in 1..Len(q) + 1 |-> Append(L(q), Append(e, NL))[k]]
      BY <2>3, LenProperties
    <2> QED
      BY <2>5, <2>6, <2>7
  <1>5. \A w : File!Lines(w) = FlattenSeq(L(w))
    BY DEF File!Lines, File!FlattenSeq, FlattenSeq
  <1> HIDE DEF L
  <1>6. /\ FlattenSeq(L(q)) \in Seq(AnyChar)
        /\ FlattenSeq(Append(L(q), Append(e, NL))) = FlattenSeq(L(q)) \o Append(e, NL)
    BY <1>2, <1>3, FlattenAppend
  <1> QED
    BY <1>2, <1>4, <1>5, <1>6

\* What is behind a sequence does not touch it.
LEMMA AppendBehind ==
    ASSUME NEW S, NEW f \in Seq(S), NEW q \in Seq(S), NEW c \in S
    PROVE  /\ f \o Append(q, c) = Append(f \o q, c)
           /\ f \o Append(q, c) \in Seq(S) /\ f \o Append(q, c) # << >>
           /\ (f \o Append(q, c))[Len(f \o Append(q, c))] = c
  <1>1. << c >> \in Seq(S)
    OBVIOUS
  <1>2. Append(q, c) = q \o << c >>
    BY AppendIsConcat
  <1>3. f \o q \in Seq(S)
    BY ConcatProperties
  <1>4. Append(f \o q, c) = (f \o q) \o << c >>
    BY <1>3, AppendIsConcat
  <1>5. (f \o q) \o << c >> = f \o (q \o << c >>)
    BY <1>1, ConcatAssociative
  <1>6. f \o Append(q, c) = Append(f \o q, c)
    BY <1>2, <1>4, <1>5
  <1> QED
    BY <1>3, <1>6, AppendProperties

\* Without its last element.
LEMMA DropLast ==
    ASSUME NEW S, NEW d \in Seq(S), NEW c \in S
    PROVE  SubSeq(Append(d, c), 1, Len(Append(d, c)) - 1) = d
  <1>1. /\ Append(d, c) \in Seq(S) /\ Len(Append(d, c)) = Len(d) + 1 /\ Len(d) \in Nat
        /\ \A x \in 1..Len(d) : Append(d, c)[x] = d[x]
    BY AppendProperties, LenProperties
  <1>2. Len(Append(d, c)) - 1 = Len(d) /\ Len(d) \in 0..Len(Append(d, c))
    BY <1>1
  <1>3. /\ SubSeq(Append(d, c), 1, Len(d)) \in Seq(S)
        /\ Len(SubSeq(Append(d, c), 1, Len(d))) = Len(d)
    BY <1>1, <1>2, CutInTwo
  <1>4. \A x \in 1..Len(d) : SubSeq(Append(d, c), 1, Len(d))[x] = d[x]
    BY <1>1
  <1> QED
    BY <1>2, <1>3, <1>4, SeqEqual

\* The end of a sequence is the end of what is behind another.
LEMMA EndBehind ==
    ASSUME NEW S, NEW f \in Seq(S), NEW q \in Seq(S), q # << >>
    PROVE  /\ SubSeq(q, 1, Len(q) - 1) \in Seq(S)
           /\ SubSeq(f \o q, 1, Len(f \o q) - 1) = f \o SubSeq(q, 1, Len(q) - 1)
           /\ f \o q # << >> /\ (f \o q)[Len(f \o q)] = q[Len(q)]
           /\ \A x \in 1..Len(SubSeq(q, 1, Len(q) - 1)) :
                 x \in 1..Len(q) /\ SubSeq(q, 1, Len(q) - 1)[x] = q[x]
  <1>1. PICK d \in Seq(S), c \in S : q = Append(d, c)
    BY SequenceEmptyOrAppend
  <1>2. Len(d) \in Nat /\ Len(q) = Len(d) + 1 /\ q[Len(q)] = c
        /\ \A x \in 1..Len(d) : x \in 1..Len(q) /\ q[x] = d[x]
    BY <1>1, AppendProperties, LenProperties
  <1>3. SubSeq(q, 1, Len(q) - 1) = d
    BY <1>1, <1>2, DropLast
  <1>4. f \o q = Append(f \o d, c) /\ f \o d \in Seq(S)
    BY <1>1, AppendBehind, ConcatProperties
  <1>5. SubSeq(f \o q, 1, Len(f \o q) - 1) = f \o d
    BY <1>4, DropLast
  <1>6. f \o q # << >> /\ (f \o q)[Len(f \o q)] = c
    BY <1>4, AppendProperties
  <1> QED
    BY <1>1, <1>2, <1>3, <1>5, <1>6

LEMMA HeadAndTail ==
    ASSUME NEW S, NEW q \in Seq(S), q # << >>
    PROVE  q = << Head(q) >> \o Tail(q)
  <1>1. Len(q) \in Nat /\ Len(q) # 0
    BY LenProperties
  <1>2. 1 \in 0..Len(q)
    BY <1>1
  <1>3. SubSeq(q, 1, 1) \o SubSeq(q, 1 + 1, Len(q)) = q
    BY <1>2, CutInTwo
  <1>4. SubSeq(q, 1, 1) = << Head(q) >>
    <2>1. /\ SubSeq(q, 1, 1) \in Seq(S) /\ Len(SubSeq(q, 1, 1)) = 1
          /\ SubSeq(q, 1, 1)[1] = Head(q)
      BY <1>1
    <2>2. << Head(q) >> \in Seq(S) /\ Len(<< Head(q) >>) = 1 /\ << Head(q) >>[1] = Head(q)
      BY HeadTailProperties
    <2>3. \A x \in 1..1 : SubSeq(q, 1, 1)[x] = << Head(q) >>[x]
      BY <2>1, <2>2
    <2> QED
      BY <2>1, <2>2, <2>3, SeqEqual
  <1>5. Tail(q) = SubSeq(q, 2, Len(q))
    BY TailIsSubSeq
  <1> QED
    BY <1>3, <1>4, <1>5

\* A string is stored without what came last.
LEMMA StringStored ==
    ASSUME LineInv, NEW q \in Seq(AnyChar), q # << >>,
           \A x \in 1..Len(q) - 1 : q[x] # NL,
           strings' = Append(strings, SubSeq(q, 1, Len(q) - 1)), chars' = << >>
    PROVE  /\ strings' \in Seq(Seq(AnyChar)) /\ chars' \in Seq(AnyChar)
           /\ NoNewlines'
           /\ Flat' = Flat \o Append(SubSeq(q, 1, Len(q) - 1), NL)
           /\ Flat' # << >> /\ Flat'[Len(Flat')] = NL
           /\ SubSeq(q, 1, Len(q) - 1) \in Seq(AnyChar)
  <1> DEFINE e == SubSeq(q, 1, Len(q) - 1)
  <1>1. strings \in Seq(Seq(AnyChar)) /\ << >> \in Seq(AnyChar) /\ NL \in AnyChar
    BY NewlineIsChar DEF LineInv, LineTypes
  <1>2. Flat \in Seq(AnyChar)
    BY <1>1, LinesAppend DEF Flat
  <1>3. /\ e \in Seq(AnyChar)
        /\ \A x \in 1..Len(e) : x \in 1..Len(q) /\ e[x] = q[x]
    BY <1>1, EndBehind
  <1>4. \A x \in 1..Len(e) : e[x] # NL
    <2>1. Len(q) \in Nat /\ Len(q) # 0
      BY LenProperties
    <2>2. Len(e) = Len(q) - 1
      <3>1. Len(q) - 1 \in 0..Len(q)
        BY <2>1
      <3> QED
        BY <3>1, CutInTwo
    <2> QED
      BY <1>3, <2>1, <2>2
  <1> HIDE DEF e
  <1>5. strings' = Append(strings, e)
    BY DEF e
  <1>6. strings' \in Seq(Seq(AnyChar))
    BY <1>1, <1>3, <1>5, AppendProperties
  <1>7. Flat' = Flat \o Append(e, NL)
    <2>1. File!Lines(strings') = File!Lines(strings) \o Append(e, NL)
      BY <1>1, <1>3, <1>5, LinesAppend
    <2> QED
      BY <2>1 DEF Flat
  <1>8. Flat' # << >> /\ Flat'[Len(Flat')] = NL
    BY <1>1, <1>2, <1>3, <1>7, AppendBehind
  <1>9. NoNewlines'
    <2>1. \A k \in DOMAIN strings : \A x \in 1..Len(strings[k]) : strings[k][x] # NL
      BY DEF LineInv, NoNewlines
    <2>2. /\ DOMAIN strings' = 1..Len(strings) + 1 /\ DOMAIN strings = 1..Len(strings)
          /\ strings'[Len(strings) + 1] = e
          /\ \A k \in 1..Len(strings) : strings'[k] = strings[k]
          /\ Len(strings) \in Nat
      BY <1>1, <1>3, <1>5
    <2>3. \A k \in DOMAIN strings' : k \in DOMAIN strings \/ k = Len(strings) + 1
      BY <2>2
    <2>4. \A k \in DOMAIN strings' : \A x \in 1..Len(strings'[k]) : strings'[k][x] # NL
      BY <1>4, <2>1, <2>2, <2>3
    <2>5. \A x \in 1..Len(chars') : chars'[x] # NL
      OBVIOUS
    <2> QED
      BY <2>4, <2>5 DEF NoNewlines
  <1> QED
    BY <1>1, <1>3, <1>6, <1>7, <1>8, <1>9 DEF e

\* The next character is told from the end of the file.
LEMMA GetcKeeps ==
    ASSUME LineInv, File!Getc
    PROVE  LineInv'
  <1> DEFINE c == Head(file_stream)
             stored == Append(chars, c)
  <1>1. /\ file_pc = "read" /\ file_pc' = file_pc /\ file' = file
        /\ file_stream # << >> /\ file_stream' = Tail(file_stream)
        /\ \/ /\ c = NL /\ chars' = << >>
              /\ strings' = Append(strings, File!Front(stored))
           \/ c # NL /\ chars' = stored /\ strings' = strings
    BY DEF File!Getc, File!AtEOF, File!Return
  <1>2. /\ file \in Seq(AnyChar) /\ file_stream \in Seq(AnyChar)
        /\ chars \in Seq(AnyChar) /\ strings \in Seq(Seq(AnyChar))
    BY DEF LineInv, LineTypes
  <1>3. c \in AnyChar /\ Tail(file_stream) \in Seq(AnyChar)
        /\ file_stream = << c >> \o Tail(file_stream)
    <2>1. c \in AnyChar /\ Tail(file_stream) \in Seq(AnyChar)
      BY <1>1, <1>2, HeadTailProperties
    <2> QED
      BY <1>1, <1>2, <2>1, HeadAndTail
  <1>4. stored = chars \o << c >> /\ stored \in Seq(AnyChar) /\ << c >> \in Seq(AnyChar)
    BY <1>2, <1>3, AppendIsConcat, AppendProperties
  <1>5. Flat \in Seq(AnyChar) /\ NL \in AnyChar
    BY <1>2, LinesAppend, NewlineIsChar DEF Flat
  <1>6. (Flat \o chars) \o file_stream = (Flat \o stored) \o Tail(file_stream)
    <2> DEFINE t == Tail(file_stream)
               h == << c >>
    <2>1. t \in Seq(AnyChar) /\ h \in Seq(AnyChar) /\ file_stream = h \o t
          /\ stored = chars \o h
      BY <1>3, <1>4
    <2> HIDE DEF t, h
    <2>2. \A a, b \in Seq(AnyChar) :
             (Flat \o chars) \o (a \o b) = (Flat \o (chars \o a)) \o b
      BY <1>2, <1>5, MoveOverChars
    <2>3. (Flat \o chars) \o (h \o t) = (Flat \o (chars \o h)) \o t
      BY <2>1, <2>2
    <2> QED
      BY <2>1, <2>3 DEF t
  <1>7. HasNoFF => Whole
    BY <1>1 DEF LineInv, LastLost
  <1>8. /\ Len(chars) \in Nat /\ Len(stored) = Len(chars) + 1 /\ stored # << >>
        /\ stored[Len(chars) + 1] = c
        /\ \A x \in 1..Len(chars) : stored[x] = chars[x] /\ chars[x] # NL
    <2>1. \A x \in 1..Len(chars) : chars[x] # NL
      BY DEF LineInv, NoNewlines
    <2> QED
      BY <1>2, <1>3, <2>1, AppendProperties, LenProperties
  <1> HIDE DEF c, stored
  <1>9. CASE c = NL /\ chars' = << >> /\ strings' = Append(strings, File!Front(stored))
    <2>1. File!Front(stored) = SubSeq(stored, 1, Len(stored) - 1)
      BY DEF File!Front
    <2>2. \A x \in 1..Len(stored) - 1 : stored[x] # NL
      <3>1. \A x \in 1..Len(stored) - 1 : x \in 1..Len(chars)
        BY <1>8
      <3> QED
        BY <1>8, <3>1
    <2>3. strings' = Append(strings, SubSeq(stored, 1, Len(stored) - 1))
      BY <1>9, <2>1
    <2>4. /\ strings' \in Seq(Seq(AnyChar)) /\ chars' \in Seq(AnyChar)
          /\ NoNewlines'
          /\ Flat' = Flat \o Append(SubSeq(stored, 1, Len(stored) - 1), NL)
          /\ Flat'[Len(Flat')] = NL
      BY <1>4, <1>8, <1>9, <2>2, <2>3, StringStored
    <2>5. Append(SubSeq(stored, 1, Len(stored) - 1), NL) = stored
      <3>1. stored = Append(chars, NL)
        BY <1>9 DEF stored
      <3>2. SubSeq(stored, 1, Len(stored) - 1) = chars
        BY <1>2, <1>5, <3>1, DropLast
      <3> QED
        BY <3>1, <3>2
    <2>6. HasNoFF' => Whole'
      <3>1. Flat' \o chars' = Flat \o stored
        <4>1. Flat \o stored \in Seq(AnyChar)
          BY <1>4, <1>5, CutOff
        <4> QED
          BY <1>9, <2>4, <2>5, <4>1, ConcatEmptySeq
      <3>2. HasNoFF' = HasNoFF
        BY <1>1 DEF HasNoFF
      <3> QED
        BY <1>1, <1>6, <1>7, <3>1, <3>2 DEF Whole
    <2>7. LineTypes'
      BY <1>1, <1>2, <1>3, <2>4 DEF LineTypes
    <2>8. file_pc' # "done"
      BY <1>1
    <2> QED
      BY <2>4, <2>6, <2>7, <2>8 DEF LineInv
  <1>10. CASE c # NL /\ chars' = stored /\ strings' = strings
    <2>1. Flat' = Flat
      BY <1>10 DEF Flat
    <2>2. HasNoFF' => Whole'
      <3>1. HasNoFF' = HasNoFF
        BY <1>1 DEF HasNoFF
      <3> QED
        BY <1>1, <1>6, <1>7, <1>10, <2>1, <3>1 DEF Whole
    <2>3. NoNewlines'
      <3>1. \A x \in 1..Len(stored) : x \in 1..Len(chars) \/ x = Len(chars) + 1
        BY <1>8
      <3>2. \A x \in 1..Len(stored) : stored[x] # NL
        BY <1>8, <1>10, <3>1
      <3> QED
        BY <1>10, <3>2 DEF LineInv, NoNewlines
    <2>4. LineTypes'
      BY <1>1, <1>2, <1>3, <1>4, <1>10 DEF LineTypes
    <2>5. file_pc' # "done"
      BY <1>1
    <2> QED
      BY <2>1, <2>2, <2>3, <2>4, <2>5 DEF LineInv
  <1> QED
    BY <1>1, <1>9, <1>10 DEF stored

LEMMA HeadBehind ==
    ASSUME NEW S, NEW a \in Seq(S), NEW b \in Seq(S), b # << >>
    PROVE  Len(a) + 1 \in 1..Len(a \o b) /\ (a \o b)[Len(a) + 1] = Head(b)
  <1>1. Len(a) \in Nat /\ Len(b) \in Nat /\ Len(b) # 0
    BY LenProperties
  <1>2. /\ Len(a \o b) = Len(a) + Len(b)
        /\ \A x \in 1..Len(a) + Len(b) :
              (a \o b)[x] = IF x <= Len(a) THEN a[x] ELSE b[x - Len(a)]
    BY ConcatProperties
  <1>3. /\ Len(a) + 1 \in 1..Len(a) + Len(b) /\ ~(Len(a) + 1 <= Len(a))
        /\ Len(a) + 1 - Len(a) = 1
    BY <1>1
  <1>4. (a \o b)[Len(a) + 1] = b[1]
    BY <1>2, <1>3
  <1> QED
    BY <1>2, <1>3, <1>4

\* The file has ended, or a character is taken for its end.
LEMMA EndOfFileKeeps ==
    ASSUME LineInv, File!EndOfFile
    PROVE  LineInv'
  <1>1. /\ file_pc = "read" /\ file' = file
        /\ file_stream # << >> => Head(file_stream) = FF
        /\ file_stream' = (IF file_stream = << >> THEN file_stream ELSE Tail(file_stream))
        /\ \/ /\ chars # << >> /\ strings' = Append(strings, File!Front(chars))
              /\ chars' = << >> /\ file_pc' = file_pc
           \/ /\ chars = << >> /\ file_pc' = "done"
              /\ chars' = chars /\ strings' = strings
    BY DEF File!EndOfFile, File!AtEOF, File!Return
  <1>2. /\ file \in Seq(AnyChar) /\ file_stream \in Seq(AnyChar)
        /\ chars \in Seq(AnyChar) /\ strings \in Seq(Seq(AnyChar))
    BY DEF LineInv, LineTypes
  <1>3. Flat \in Seq(AnyChar) /\ NL \in AnyChar /\ Flat \o chars \in Seq(AnyChar)
    <2>1. Flat \in Seq(AnyChar)
      BY <1>2, LinesAppend DEF Flat
    <2> QED
      BY <1>2, <2>1, NewlineIsChar, CutOff
  <1>4. HasNoFF => file_stream = << >>
    <2> SUFFICES ASSUME HasNoFF, file_stream # << >> PROVE FALSE
      OBVIOUS
    <2>1. Whole
      BY DEF LineInv, LastLost
    <2> DEFINE before == Flat \o chars
    <2>2. before \o file_stream = file /\ before \in Seq(AnyChar)
      BY <1>3, <2>1 DEF Whole
    <2> HIDE DEF before
    <2>3. /\ Len(before) + 1 \in 1..Len(before \o file_stream)
          /\ (before \o file_stream)[Len(before) + 1] = Head(file_stream)
      BY <1>2, <2>2, HeadBehind
    <2> QED
      BY <1>1, <2>2, <2>3 DEF HasNoFF
  <1>5. file_stream' \in Seq(AnyChar) /\ (HasNoFF => file_stream' = << >>)
    <2>1. file_stream # << >> => Tail(file_stream) \in Seq(AnyChar)
      BY <1>2, HeadTailProperties
    <2> QED
      BY <1>1, <1>2, <1>4, <2>1
  <1>6. HasNoFF' = HasNoFF
    BY <1>1 DEF HasNoFF
  <1>7. CASE /\ chars # << >> /\ strings' = Append(strings, File!Front(chars))
             /\ chars' = << >> /\ file_pc' = file_pc
    <2> DEFINE e == SubSeq(chars, 1, Len(chars) - 1)
    <2>1. \A x \in 1..Len(chars) : chars[x] # NL
      BY DEF LineInv, NoNewlines
    <2>2. Len(chars) \in Nat /\ Len(chars) # 0 /\ Len(chars) \in 1..Len(chars)
      <3>1. Len(chars) \in Nat /\ Len(chars) # 0
        BY <1>2, <1>7, LenProperties
      <3> QED
        BY <3>1
    <2>3. \A x \in 1..Len(chars) - 1 : chars[x] # NL
      <3>1. \A x \in 1..Len(chars) - 1 : x \in 1..Len(chars)
        BY <2>2
      <3> QED
        BY <2>1, <3>1
    <2>4. strings' = Append(strings, e)
      BY <1>7 DEF File!Front
    <2>5. /\ strings' \in Seq(Seq(AnyChar)) /\ chars' \in Seq(AnyChar)
          /\ NoNewlines'
          /\ Flat' = Flat \o Append(e, NL)
          /\ Flat'[Len(Flat')] = NL
          /\ e \in Seq(AnyChar)
      BY <1>2, <1>7, <2>3, <2>4, StringStored
    <2>6. ASSUME HasNoFF PROVE LastLost'
      <3>1. Whole /\ file_stream = << >>
        BY <1>4, <1>7, <2>6 DEF LineInv, LastLost
      <3>2. file = Flat \o chars
        BY <1>3, <3>1, ConcatEmptySeq DEF Whole
      <3>3. /\ file # << >> /\ file[Len(file)] = chars[Len(chars)]
            /\ SubSeq(file, 1, Len(file) - 1) = Flat \o e
        <4>1. Flat \in Seq(AnyChar) /\ chars \in Seq(AnyChar) /\ chars # << >>
          BY <1>2, <1>3, <1>7
        <4>2. /\ SubSeq(Flat \o chars, 1, Len(Flat \o chars) - 1) = Flat \o e
              /\ Flat \o chars # << >>
              /\ (Flat \o chars)[Len(Flat \o chars)] = chars[Len(chars)]
          BY <4>1, EndBehind
        <4> QED
          BY <3>2, <4>2
      <3>4. Flat' = Append(SubSeq(file, 1, Len(file) - 1), NL)
        <4>1. Flat \in Seq(AnyChar) /\ e \in Seq(AnyChar) /\ NL \in AnyChar
          BY <1>3, <2>5
        <4> HIDE DEF e
        <4>2. Flat \o Append(e, NL) = Append(Flat \o e, NL)
          BY <4>1, AppendBehind
        <4> QED
          BY <2>5, <3>3, <4>2
      <3>5. file[Len(file)] # NL
        BY <2>1, <2>2, <3>3
      <3> QED
        BY <1>1, <1>5, <1>7, <2>6, <3>3, <3>4, <3>5 DEF LastLost
    <2>7. LineTypes'
      BY <1>1, <1>2, <1>5, <2>5 DEF LineTypes
    <2>8. file_pc' # "done"
      BY <1>1, <1>7
    <2> QED
      BY <1>6, <2>5, <2>6, <2>7, <2>8 DEF LineInv
  <1>8. CASE /\ chars = << >> /\ file_pc' = "done" /\ chars' = chars /\ strings' = strings
    <2>1. Flat' = Flat
      BY <1>8 DEF Flat
    <2>2. ASSUME HasNoFF PROVE file_stream' = << >> /\ (Whole' \/ LastLost')
      <3>1. file_stream = << >> /\ file_stream' = << >> /\ (Whole \/ LastLost)
        BY <1>4, <1>5, <2>2 DEF LineInv
      <3>2. Whole => Whole'
        BY <1>1, <1>8, <2>1, <3>1 DEF Whole
      <3>3. LastLost => LastLost'
        BY <1>1, <1>8, <2>1, <3>1 DEF LastLost
      <3> QED
        BY <3>1, <3>2, <3>3
    <2>3. NoNewlines'
      BY <1>8 DEF LineInv, NoNewlines
    <2>4. LineTypes'
      BY <1>1, <1>2, <1>5, <1>8 DEF LineTypes
    <2>5. Flat' = << >> \/ Flat'[Len(Flat')] = NL
      BY <2>1 DEF LineInv
    <2> QED
      BY <1>6, <1>8, <2>2, <2>3, <2>4, <2>5 DEF LineInv
  <1> QED
    BY <1>1, <1>7, <1>8

\* bupt_getline() cuts any file into its lines, and where the file does not end
\* with a newline it loses the last character, and no other.
THEOREM GetlineReturnsLines ==
    ASSUME FilesHypothesis
    PROVE  File!Spec => []File!StringsAreLines
  <1>1. ASSUME File!Init PROVE LineInv
    <2>1. /\ file \in Files /\ file_stream = file /\ chars = << >> /\ strings = << >>
          /\ file_pc = "read"
      BY <1>1 DEF File!Init
    <2>2. file \in Seq(AnyChar)
      <3>1. file \in Seq({file[x] : x \in DOMAIN file})
        BY <2>1 DEF FilesHypothesis
      <3>2. {file[x] : x \in DOMAIN file} \subseteq AnyChar
        BY <2>1 DEF AnyChar
      <3> QED
        BY <3>1, <3>2, SeqMonotonic
    <2>3. LineTypes
      BY <2>1, <2>2 DEF LineTypes
    <2>4. Flat = << >>
      <3> DEFINE L == [k \in DOMAIN strings |-> Append(strings[k], NL)]
      <3>1. L = << >>
        BY <2>1
      <3>2. Flat = FlattenSeq(L)
        BY DEF Flat, File!Lines, File!FlattenSeq, FlattenSeq
      <3> HIDE DEF L
      <3> QED
        BY <3>1, <3>2 DEF FlattenSeq
    <2>5. Whole
      BY <2>1, <2>2, <2>4, ConcatEmptySeq DEF Whole
    <2>6. NoNewlines
      BY <2>1 DEF NoNewlines
    <2> QED
      BY <2>1, <2>3, <2>4, <2>5, <2>6 DEF LineInv
  <1>2. LineInv /\ [File!Next]_(File!vars) => LineInv'
    <2> SUFFICES ASSUME LineInv, [File!Next]_(File!vars) PROVE LineInv'
      OBVIOUS
    <2>1. CASE UNCHANGED File!vars
      BY <2>1 DEF File!vars, LineInv, LineTypes, NoNewlines, HasNoFF, Whole, LastLost, Flat
    <2> QED
      BY <2>1, GetcKeeps, EndOfFileKeeps DEF File!Next, File!Done
  <1>3. LineInv => File!StringsAreLines
    <2> SUFFICES ASSUME LineInv PROVE File!StringsAreLines
      OBVIOUS
    <2>1. \A k \in DOMAIN strings : ~File!Contains(strings[k], NL)
      BY DEF LineInv, NoNewlines, File!Contains
    <2>2. ~File!Contains(file, FF) => HasNoFF
      BY DEF HasNoFF, File!Contains
    <2>3. file[Len(file)] = File!Last(file)
      BY DEF File!Last
    <2>4. ASSUME File!TextFile PROVE (File!Lines(strings) \o chars) \o file_stream = file
      <3>1. HasNoFF /\ ~LastLost
        BY <2>2, <2>3, <2>4 DEF File!TextFile, LastLost
      <3> QED
        BY <3>1 DEF LineInv, Whole, Flat
    <2>5. ASSUME file_pc = "done", ~File!TextFile, ~File!Contains(file, FF)
          PROVE  File!Lines(strings) = Append(File!Front(file), NL)
      <3>1. HasNoFF /\ file # << >> /\ file[Len(file)] # NL
        BY <2>2, <2>3, <2>5 DEF File!TextFile
      <3>2. ~(Whole /\ file_stream = << >>)
        <4> SUFFICES ASSUME Whole, file_stream = << >> PROVE FALSE
          OBVIOUS
        <4>1. chars = << >> /\ Flat \in Seq(AnyChar)
          BY <2>5, LinesAppend DEF LineInv, LineTypes, Flat
        <4>2. file = Flat
          BY <4>1, ConcatEmptySeq DEF Whole
        <4> QED
          BY <3>1, <4>2 DEF LineInv
      <3>3. LastLost
        BY <2>5, <3>1, <3>2 DEF LineInv
      <3> QED
        BY <3>3 DEF LastLost, Flat, File!Front
    <2> QED
      BY <2>1, <2>4, <2>5 DEF File!StringsAreLines
  <1> QED
    BY <1>1, <1>2, <1>3, PTL DEF File!Spec

=============================================================================

--------------------------- MODULE MatchingProofs ---------------------------
(***************************************************************************)
(* Induction over the numbers and lemmas about sequences, which several of *)
(* the proof modules use, and lemmas about the operators of Matching, for  *)
(* the proofs about the matchers of lab3 in ScanProofs and AcAutoProofs.   *)
(***************************************************************************)
EXTENDS Matching, FiniteSetTheorems, SequenceTheorems, WellFoundedInduction, TLAPS

-----------------------------------------------------------------------------
(* Natural numbers                                                         *)

\* A set of numbers has a least one.
LEMMA LeastNumber ==
    ASSUME NEW T \in SUBSET Nat, T # {}
    PROVE  \E x \in T : \A y \in T : x <= y
  <1> DEFINE R == {p \in Nat \X Nat : p[1] < p[2]}
  <1>1. IsWellFoundedOn(R, Nat)
    BY NatLessThanWellFounded DEF OpToRel
  <1>2. \A x, y \in Nat : x < y => <<x, y>> \in R
    OBVIOUS
  <1> HIDE DEF R
  <1>3. PICK x \in T : \A y \in T : ~ (<<y, x>> \in R)
    BY <1>1, WFMin
  <1>4. x \in Nat /\ \A y \in T : y \in Nat /\ ~ (y < x)
    BY <1>2, <1>3
  <1> QED
    BY <1>4

\* Induction over the numbers, for a set of them in place of a predicate.
LEMMA SetInduction ==
    ASSUME NEW S \in SUBSET Nat, 0 \in S, \A n \in S : n + 1 \in S
    PROVE  S = Nat
  <1> SUFFICES ASSUME Nat \ S # {} PROVE FALSE
    OBVIOUS
  <1>1. PICK m \in Nat \ S : \A y \in Nat \ S : m <= y
    BY LeastNumber
  <1>2. m # 0 /\ m - 1 \in Nat
    OBVIOUS
  <1>3. m - 1 \in S
    BY <1>1, <1>2
  <1> QED
    BY <1>1, <1>3

-----------------------------------------------------------------------------
(* Sequences                                                               *)

\* What Append makes of a string.
LEMMA Appended ==
    ASSUME NEW S, NEW s \in Seq(S), NEW c \in S
    PROVE  Len(Append(s, c)) = Len(s) + 1 /\ Append(s, c) \in Seq(S) /\ Append(s, c) # << >>
  <1>1. /\ Len(s) \in Nat
        /\ Len(Append(s, c)) = Len(s) + 1 /\ Append(s, c) \in Seq(S)
    BY LenProperties
  <1> QED
    BY <1>1, EmptySeq

\* A list with one more at its head.
LEMMA ConsAdds ==
    ASSUME NEW T, NEW list \in Seq(T), NEW s \in T
    PROVE  /\ << s >> \o list \in Seq(T)
           /\ DOMAIN (<< s >> \o list) = 1..Len(list) + 1
           /\ (<< s >> \o list)[1] = s
           /\ \A x \in 2..Len(list) + 1 : (<< s >> \o list)[x] = list[x - 1]
           /\ ToSet(<< s >> \o list) = ToSet(list) \cup {s}
  <1> DEFINE n == Len(list)
             new == << s >> \o list
  <1>1. n \in Nat /\ DOMAIN list = 1..n
    BY LenProperties
  <1>2. << s >> \in Seq(T) /\ Len(<< s >>) = 1 /\ << s >>[1] = s
    OBVIOUS
  <1>3. /\ new \in Seq(T) /\ DOMAIN new = 1..n + 1 /\ new[1] = s
        /\ \A x \in 2..n + 1 : new[x] = list[x - 1]
    <2>1. new \in Seq(T) /\ Len(new) = n + 1
      BY <1>1, <1>2, ConcatProperties
    <2>2. \A x \in 1..n + 1 : new[x] = IF x <= 1 THEN << s >>[x] ELSE list[x - 1]
      BY <1>1, <1>2, ConcatProperties
    <2> QED
      BY <1>1, <1>2, <2>1, <2>2, LenProperties
  <1> HIDE DEF new
  <1>4. \A x \in 1..n + 1 : x = 1 \/ (x \in 2..n + 1 /\ x - 1 \in 1..n)
    BY <1>1
  <1>5. \A x \in 1..n : x + 1 \in 2..n + 1 /\ x + 1 \in 1..n + 1 /\ (x + 1) - 1 = x
    BY <1>1
  <1>6. ToSet(new) = {new[x] : x \in 1..n + 1} /\ ToSet(list) = {list[x] : x \in 1..n}
    BY <1>1, <1>3 DEF ToSet
  <1>7. ToSet(new) \subseteq ToSet(list) \cup {s}
    <2>1. \A x \in 1..n + 1 : new[x] \in {list[y] : y \in 1..n} \cup {s}
      BY <1>3, <1>4
    <2> QED
      BY <1>6, <2>1
  <1>8. s \in ToSet(new)
    <2>1. 1 \in 1..n + 1
      BY <1>1
    <2> QED
      BY <1>3, <1>6, <2>1
  <1>9. ToSet(list) \subseteq ToSet(new)
    <2>1. \A x \in 1..n : list[x] = new[x + 1]
      BY <1>3, <1>5
    <2>2. \A x \in 1..n : list[x] \in {new[y] : y \in 1..n + 1}
      BY <1>5, <2>1
    <2> QED
      BY <1>6, <2>2
  <1>10. ToSet(new) = ToSet(list) \cup {s}
    BY <1>7, <1>8, <1>9
  <1> QED
    BY <1>3, <1>10 DEF new

\* Nothing is twice in it when the list lacked the new one.
LEMMA ConsInjective ==
    ASSUME NEW T, NEW list \in Seq(T), NEW s \in T, IsInjective(list), ~Contains(list, s)
    PROVE  IsInjective(<< s >> \o list)
  <1> DEFINE n == Len(list)
             new == << s >> \o list
  <1>1. n \in Nat /\ DOMAIN list = 1..n
    BY LenProperties
  <1>2. \A x \in 1..n : list[x] # s
    BY <1>1 DEF Contains
  <1>3. /\ DOMAIN new = 1..n + 1 /\ new[1] = s
        /\ \A x \in 2..n + 1 : new[x] = list[x - 1]
    BY ConsAdds
  <1> HIDE DEF new
  <1>4. \A x \in 1..n + 1 : x = 1 \/ (x \in 2..n + 1 /\ x - 1 \in 1..n)
    BY <1>1
  <1> SUFFICES ASSUME NEW x \in 1..n + 1, NEW y \in 1..n + 1, new[x] = new[y]
               PROVE  x = y
    BY <1>3 DEF IsInjective, new
  <1>5. CASE x = 1 /\ y = 1
    BY <1>5
  <1>6. CASE x = 1 /\ y \in 2..n + 1 /\ y - 1 \in 1..n
    BY <1>2, <1>3, <1>6
  <1>7. CASE y = 1 /\ x \in 2..n + 1 /\ x - 1 \in 1..n
    BY <1>2, <1>3, <1>7
  <1>8. CASE x \in 2..n + 1 /\ y \in 2..n + 1 /\ x - 1 \in 1..n /\ y - 1 \in 1..n
    <2>1. x - 1 = y - 1
      BY <1>1, <1>3, <1>8 DEF IsInjective
    <2> QED
      BY <1>8, <2>1
  <1> QED
    BY <1>4, <1>5, <1>6, <1>7, <1>8

\* What has been read of a string, and one character more.
LEMMA OneMoreRead ==
    ASSUME NEW S, NEW s \in Seq(S), NEW k \in 0..Len(s), k < Len(s)
    PROVE  /\ s[k + 1] \in S /\ k + 1 \in 0..Len(s)
           /\ SubSeq(s, 1, k) \in Seq(S)
           /\ SubSeq(s, 1, k + 1) = Append(SubSeq(s, 1, k), s[k + 1])
  <1>1. Len(s) \in Nat /\ k \in Nat /\ k + 1 \in 1..Len(s) /\ k + 1 \in 0..Len(s)
    BY LenProperties
  <1> DEFINE a == SubSeq(s, 1, k)
             b == SubSeq(s, 1, k + 1)
  <1>2. /\ a \in Seq(S) /\ Len(a) = k /\ b \in Seq(S) /\ Len(b) = k + 1
        /\ (\A x \in 1..k : a[x] = s[x]) /\ (\A x \in 1..k + 1 : b[x] = s[x])
    BY <1>1
  <1>3. s[k + 1] \in S
    BY <1>1, ElementOfSeq
  <1> HIDE DEF a, b
  <1>4. /\ Append(a, s[k + 1]) \in Seq(S) /\ Len(Append(a, s[k + 1])) = k + 1
        /\ Append(a, s[k + 1])[k + 1] = s[k + 1]
        /\ \A x \in 1..k : Append(a, s[k + 1])[x] = a[x]
    BY <1>1, <1>2, <1>3
  <1>5. \A x \in 1..k + 1 : x = k + 1 \/ x \in 1..k
    BY <1>1
  <1>6. \A x \in 1..k + 1 : b[x] = Append(a, s[k + 1])[x]
    BY <1>2, <1>4, <1>5
  <1>7. b = Append(a, s[k + 1])
    BY <1>2, <1>4, <1>6, SeqEqual
  <1> QED
    BY <1>1, <1>2, <1>3, <1>7 DEF a, b

-----------------------------------------------------------------------------
(* Occurrences                                                             *)

\* The positions that OccurrencesBefore counts.
Positions(t, p, n) == {at_ \in 0..n - 1 : Occurs(t, p, at_)}

\* They are finitely many.
LEMMA PositionsFinite ==
    ASSUME NEW t, NEW p, NEW n \in Nat
    PROVE  /\ IsFiniteSet(Positions(t, p, n))
           /\ OccurrencesBefore(t, p, n) = Cardinality(Positions(t, p, n))
           /\ OccurrencesBefore(t, p, n) \in Nat
  <1>1. IsFiniteSet(0..n - 1) /\ Positions(t, p, n) \in SUBSET (0..n - 1)
    BY FS_Interval DEF Positions
  <1>2. IsFiniteSet(Positions(t, p, n))
    BY <1>1, FS_Subset
  <1>3. OccurrencesBefore(t, p, n) = Cardinality(Positions(t, p, n))
    BY DEF OccurrencesBefore, Positions
  <1> QED
    BY <1>2, <1>3, FS_CardinalityType

\* Nothing begins before the beginning.
LEMMA NoneBeforeZero ==
    ASSUME NEW t, NEW p
    PROVE  OccurrencesBefore(t, p, 0) = 0
  <1>1. Positions(t, p, 0) = {}
    BY DEF Positions
  <1> QED
    BY <1>1, PositionsFinite, FS_EmptySet

\* One position more is one occurrence more or none.
LEMMA OneMore ==
    ASSUME NEW t, NEW p, NEW n \in Nat
    PROVE  OccurrencesBefore(t, p, n + 1) =
              OccurrencesBefore(t, p, n) + (IF Occurs(t, p, n) THEN 1 ELSE 0)
  <1>1. CASE Occurs(t, p, n)
    <2>1. Positions(t, p, n + 1) = Positions(t, p, n) \cup {n} /\ n \notin Positions(t, p, n)
      BY <1>1 DEF Positions
    <2> QED
      BY <1>1, <2>1, PositionsFinite, FS_AddElement
  <1>2. CASE ~Occurs(t, p, n)
    <2>1. Positions(t, p, n + 1) = Positions(t, p, n)
      BY <1>2 DEF Positions
    <2> QED
      BY <1>2, <2>1, PositionsFinite
  <1> QED
    BY <1>1, <1>2

\* Where no occurrence begins none is counted.
LEMMA NoMore ==
    ASSUME NEW t, NEW p, NEW m \in Nat, NEW n \in Nat, m <= n,
           \A x \in m..n - 1 : ~Occurs(t, p, x)
    PROVE  OccurrencesBefore(t, p, n) = OccurrencesBefore(t, p, m)
  <1>1. Positions(t, p, n) = Positions(t, p, m)
    BY DEF Positions
  <1> QED
    BY <1>1, PositionsFinite

\* At the end of the text an attempt is b characters long: it is an occurrence
\* if that is the pattern's length, and no other fits behind it.
LEMMA LastOnes ==
    ASSUME NEW t, NEW p, Len(t) \in Nat, Len(p) \in Nat, Len(p) >= 1,
           NEW b \in 0..Len(p), b <= Len(t),
           \A x \in 0..b - 1 : CharAt(t, Len(t) - b + x) = CharAt(p, x)
    PROVE  Occurrences(t, p) = OccurrencesBefore(t, p, Len(t) - b)
                               + (IF b = Len(p) THEN 1 ELSE 0)
  <1> DEFINE n == Len(t) - b
             m == IF b = Len(p) THEN n + 1 ELSE n
  <1>1. n \in Nat /\ m \in Nat /\ m <= Len(t)
    OBVIOUS
  <1>2. b = Len(p) => Occurs(t, p, n)
    BY <1>1 DEF Occurs
  <1>3. OccurrencesBefore(t, p, m) = OccurrencesBefore(t, p, n)
                                     + (IF b = Len(p) THEN 1 ELSE 0)
    BY <1>1, <1>2, OneMore, PositionsFinite
  <1>4. \A x \in m..Len(t) - 1 : ~Occurs(t, p, x)
    BY <1>1 DEF Occurs
  <1>5. OccurrencesBefore(t, p, Len(t)) = OccurrencesBefore(t, p, m)
    BY <1>1, <1>4, NoMore
  <1> QED
    BY <1>3, <1>5 DEF Occurrences

\* The end of a string is where its NUL is.
LEMMA EndOfString ==
    ASSUME NEW s \in Seq(Nat), \A y \in DOMAIN s : s[y] # 0, NEW x \in Nat
    PROVE  /\ Len(s) \in Nat
           /\ CharAt(s, x) = 0 <=> x >= Len(s)
  BY DEF CharAt

-----------------------------------------------------------------------------
(* qsort()                                                                 *)

\* In an array that cmp() finds in order at each place, no element stands
\* before one with more.
LEMMA SortedByCount ==
    ASSUME NEW b, NEW n \in Nat, \A x \in 1..n : b[x].count \in Nat,
           \A x \in 1..n - 1 : cmp(b[x], b[x + 1]) <= 0
    PROVE  \A x, y \in 1..n : x < y => b[x].count >= b[y].count
  <1> DEFINE S == {d \in Nat : \A x \in 1..n : x + d \in 1..n =>
                                  b[x].count >= b[x + d].count}
  <1>1. 0 \in S
    OBVIOUS
  <1>2. \A d \in S : d + 1 \in S
    <2> SUFFICES ASSUME NEW d \in S PROVE d + 1 \in S
      OBVIOUS
    <2> SUFFICES ASSUME NEW x \in 1..n, x + (d + 1) \in 1..n
                 PROVE  b[x].count >= b[x + (d + 1)].count
      OBVIOUS
    <2>1. x + d \in 1..n - 1 /\ x + d \in 1..n /\ (x + d) + 1 = x + (d + 1)
      OBVIOUS
    <2>2. b[x].count >= b[x + d].count
      BY <2>1
    <2>3. cmp(b[x + d], b[(x + d) + 1]) <= 0
      BY <2>1
    <2>4. b[x + d].count \in Nat /\ b[x + (d + 1)].count \in Nat /\ b[x].count \in Nat
      BY <2>1
    <2>5. b[x + d].count >= b[x + (d + 1)].count
      BY <2>1, <2>3, <2>4 DEF cmp
    <2> QED
      BY <2>2, <2>4, <2>5
  <1>3. S = Nat
    <2> HIDE DEF S
    <2>1. S \in SUBSET Nat
      BY DEF S
    <2> QED
      BY <1>1, <1>2, <2>1, SetInduction
  <1> SUFFICES ASSUME NEW x \in 1..n, NEW y \in 1..n, x < y
               PROVE  b[x].count >= b[y].count
    OBVIOUS
  <1> HIDE DEF S
  <1>4. y - x \in S /\ x + (y - x) = y
    BY <1>3
  <1> QED
    BY <1>4 DEF S

\* If every pattern has its count before qsort(), the sorted array is exact.
LEMMA SortedIsExact ==
    ASSUME NEW t, NEW list \in Seq(Seq(Nat)), NEW n, t \in Seq(Nat),
           \A x \in DOMAIN list : n[x] = Occurrences(t, list[x]),
           NEW r \in qsort([x \in DOMAIN list |-> [p |-> list[x], count |-> n[x]]])
    PROVE  ResultExact(r, t, list)
  <1> DEFINE D == DOMAIN list
             a == [x \in D |-> [p |-> list[x], count |-> n[x]]]
  <1>1. PICK f \in Bijection(D, D) :
           /\ r = [x \in D |-> a[f[x]]]
           /\ \A x \in 1..Len(r) - 1 : cmp(r[x], r[x + 1]) <= 0
    BY DEF qsort
  <1>2. D = 1..Len(list) /\ Len(list) \in Nat
    OBVIOUS
  <1>3. f \in [D -> D]
    BY <1>1 DEF Bijection, Injection
  <1>4. DOMAIN r = D /\ \A x \in D : r[x] = [p |-> list[f[x]],
                                             count |-> Occurrences(t, list[f[x]])]
    BY <1>1, <1>3
  <1>5. r \in Seq([p : {list[x] : x \in D}, count : {n[x] : x \in D}]) /\ Len(r) = Len(list)
    BY <1>1, <1>2, <1>3
  <1>6. \A x \in D : r[x].count \in Nat
    <2>1. Len(t) \in Nat
      OBVIOUS
    <2> QED
      BY <1>4, <2>1, PositionsFinite DEF Occurrences
  <1>7. \A x, y \in 1..Len(list) : x < y => r[x].count >= r[y].count
    BY <1>1, <1>2, <1>5, <1>6, SortedByCount
  <1> QED
    BY <1>1, <1>2, <1>4, <1>7 DEF ResultExact

-----------------------------------------------------------------------------
(* The strings that are read                                               *)

\* What is assumed of texts and lists of patterns, said of one of each.
LEMMA OfStrings ==
    ASSUME NEW texts, NEW lists, AreStrings(texts, lists),
           NEW t \in texts, NEW list \in lists
    PROVE  /\ t \in Seq(Nat) /\ Len(t) \in Nat
           /\ \A y \in Nat : CharAt(t, y) = 0 <=> y >= Len(t)
           /\ list \in Seq(Seq(Nat)) /\ Len(list) \in Nat /\ Len(list) >= 1
           /\ DOMAIN list = 1..Len(list)
           /\ \A x \in DOMAIN list :
                 /\ list[x] \in Seq(Nat) /\ Len(list[x]) \in Nat /\ Len(list[x]) >= 1
                 /\ \A y \in Nat : CharAt(list[x], y) = 0 <=> y >= Len(list[x])
  <1>1. t \in Seq(Nat) /\ (\A y \in DOMAIN t : t[y] # 0)
    BY DEF AreStrings
  <1>2. list \in Seq(Seq(Nat)) /\ list # << >>
    BY DEF AreStrings
  <1>3. \A x \in DOMAIN list : /\ list[x] \in Seq(Nat) /\ list[x] # << >>
                               /\ \A y \in DOMAIN list[x] : list[x][y] # 0
    BY <1>2 DEF AreStrings
  <1>4. \A x \in DOMAIN list : Len(list[x]) \in Nat /\ Len(list[x]) >= 1
    BY <1>3
  <1>5. Len(t) \in Nat /\ \A y \in Nat : CharAt(t, y) = 0 <=> y >= Len(t)
    BY <1>1, EndOfString
  <1>6. \A x \in DOMAIN list : \A y \in Nat :
           CharAt(list[x], y) = 0 <=> y >= Len(list[x])
    BY <1>3, EndOfString
  <1>7. DOMAIN list = 1..Len(list) /\ Len(list) \in Nat /\ Len(list) >= 1
    BY <1>2
  <1> QED
    BY <1>1, <1>2, <1>3, <1>4, <1>5, <1>6, <1>7
=============================================================================

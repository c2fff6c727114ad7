-------------------------------- MODULE Utf8 --------------------------------
(***************************************************************************)
(* The functions of lab1-hash/utf8/utf8.h.  A string is the sequence of    *)
(* its bytes before the NUL.  A pointer into it is an index, that of the   *)
(* NUL being Len + 1, and 0 is the null pointer.  char is signed.          *)
(***************************************************************************)
EXTENDS Integers, Sequences, SequencesExt, FiniteSetsExt

\* *(s + i - 1); the functions do not read beyond the NUL of a valid string.
Byte(s, i) == IF i <= Len(s) THEN s[i] ELSE 0

Sign(n) == IF n < 0 THEN -1 ELSE IF n > 0 THEN 1 ELSE 0

\* 0x80 == (0xc0 & b): not the first byte of a code point.
IsContinuation(b) == b \div 64 = 2

\* How many bytes the first byte of a code point announces.
Width(b) == CASE b \div 8 = 30 -> 4
              [] b \div 16 = 14 -> 3
              [] b \div 32 = 6 -> 2
              [] OTHER -> 1

\* do i++; while (0x80 == (0xc0 & s[i])): the next code point.
March(s, i) == Min({j \in i + 1 .. Len(s) + 1 : ~IsContinuation(Byte(s, j))})

-----------------------------------------------------------------------------
(* Code points *)

\* The code point at i, and where the next one begins.
utf8codepoint(s, i) ==
    LET b == Byte(s, i)
        w == Width(b)
        low(k) == Byte(s, i + k) % 64
    IN  [next |-> i + w,
         cp |-> CASE w = 4 -> (b % 8) * 64^3 + low(1) * 64^2 + low(2) * 64 + low(3)
                  [] w = 3 -> (b % 16) * 64^2 + low(1) * 64 + low(2)
                  [] w = 2 -> (b % 32) * 64 + low(1)
                  [] OTHER -> IF b < 128 THEN b ELSE b - 256]

utf8codepointsize(chr) == CASE chr \in 0 .. 2^7 - 1 -> 1
                            [] chr \in 2^7 .. 2^11 - 1 -> 2
                            [] chr \in 2^11 .. 2^16 - 1 -> 3
                            [] OTHER -> 4

\* Mutant: the six bits of the last byte are written first.
EncodedLowFirst(chr) ==
    LET n == utf8codepointsize(chr)
        mark == << 0, 192, 224, 240 >>[n]
    IN  << mark + chr \div 64^(n - 1) >>
        \o [k \in 1..n - 1 |-> 128 + ((chr \div 64^(k - 1)) % 64)]

\* The bytes of a code point, as utf8chr(), utf8rchr() and utf8catcodepoint()
\* compute them.
Encoded(chr) ==
    LET n == utf8codepointsize(chr)
        mark == << 0, 192, 224, 240 >>[n]
    IN  << mark + chr \div 64^(n - 1) >>
        \o [k \in 1..n - 1 |-> 128 + ((chr \div 64^(n - 1 - k)) % 64)]

\* What s holds when chr has been written at i, where n bytes are left.
utf8catcodepoint(s, i, chr, n) ==
    LET c == Encoded(chr)
    IN  IF n < Len(c) THEN s
        ELSE SubSeq(s, 1, i - 1) \o c \o SubSeq(s, i + Len(c), Len(s))

RECURSIVE Length(_, _)
Length(s, i) == IF Byte(s, i) = 0 THEN 0 ELSE 1 + Length(s, i + Width(Byte(s, i)))
utf8len(s) == Length(s, 1)

utf8size(s) == Len(s) + 1

\* A code point that a shorter encoding could hold.
Overlong(s, i) ==
    LET b == s[i]
    IN  CASE Width(b) = 4 -> b % 8 = 0 /\ (s[i + 1] \div 16) % 4 = 0
          [] Width(b) = 3 -> b % 16 = 0 /\ (s[i + 1] \div 32) % 2 = 0
          [] Width(b) = 2 -> (b \div 2) % 16 = 0
          [] OTHER -> FALSE

\* Mutant: E0 and F0 are tested for shorter encodings only as C0 and C1 are.
InvalidAtLax(s, i) ==
    LET w == Width(s[i])
    IN  \/ w = 1 /\ s[i] >= 128
        \/ \E k \in 1..w - 1 : ~IsContinuation(Byte(s, i + k))
        \/ w > 1 /\ IsContinuation(Byte(s, i + w))
        \/ w = 2 /\ Overlong(s, i)

\* utf8valid() stops at the code point at i.
InvalidAt(s, i) ==
    LET w == Width(s[i])
    IN  \/ w = 1 /\ s[i] >= 128
        \/ \E k \in 1..w - 1 : ~IsContinuation(Byte(s, i + k))
        \/ w > 1 /\ IsContinuation(Byte(s, i + w))
        \/ Overlong(s, i)

utf8valid(s) ==
    LET from[i \in 1..Len(s) + 1] == CASE i > Len(s) -> 0
                                       [] i <= Len(s) /\ InvalidAt(s, i) -> i
                                       [] OTHER -> from[i + Width(s[i])]
    IN  from[1]

-----------------------------------------------------------------------------
(* Case *)

In(cp, ranges) == \E r \in ranges : cp \in r[1] .. r[2]

\* The letters whose cases are 32 apart, ...
Upper32 == { <<65, 90>>, <<192, 214>>, <<216, 222>>, <<913, 929>>, <<931, 939>> }
Lower32 == { << r[1] + 32, r[2] + 32 >> : r \in Upper32 }

\* ... those of which the upper case is even, ...
EvenUpper == { <<256, 303>>, <<306, 311>>, <<330, 375>>, <<386, 389>>, <<416, 421>>,
               <<478, 495>>, <<504, 543>>, <<546, 563>>, <<582, 591>>, <<984, 1007>> }

\* ... those of which the upper case is odd, ...
OddUpper == { <<313, 328>>, <<377, 382>>, <<431, 432>>, <<435, 438>>, <<461, 476>> }

\* ... and the other ones: upper case to lower case.
Others ==
    { <<376, 255>>, <<579, 384>>, <<398, 477>>, <<573, 410>>, <<544, 414>>, <<439, 658>>,
      <<452, 454>>, <<455, 457>>, <<458, 460>>, <<497, 499>>, <<503, 447>>, <<391, 392>>,
      <<395, 396>>, <<401, 402>>, <<408, 409>>, <<423, 424>>, <<428, 429>>, <<431, 432>>,
      <<440, 441>>, <<444, 445>>, <<500, 501>>, <<571, 572>>, <<577, 578>>, <<1021, 891>>,
      <<1022, 892>>, <<1023, 893>>, <<895, 1011>>, <<902, 940>>, <<904, 941>>, <<905, 942>>,
      <<906, 943>>, <<908, 972>>, <<910, 973>>, <<911, 974>>, <<880, 881>>, <<882, 883>>,
      <<886, 887>>, <<1012, 977>>, <<975, 983>>, <<1017, 1010>>, <<1015, 1016>>, <<1018, 1019>> }

utf8lwrcodepoint(cp) ==
    CASE In(cp, Upper32) -> cp + 32
      [] In(cp, EvenUpper) -> cp + 1 - (cp % 2)
      [] In(cp, OddUpper) -> cp + (cp % 2)
      [] OTHER -> IF \E o \in Others : o[1] = cp
                  THEN (CHOOSE o \in Others : o[1] = cp)[2] ELSE cp

\* Mutant: the ranges with an odd upper case are taken for those with an even one.
utf8uprcodepointEven(cp) ==
    CASE In(cp, Lower32) -> cp - 32
      [] In(cp, EvenUpper \cup OddUpper) -> cp - (cp % 2)
      [] OTHER -> IF \E o \in Others : o[2] = cp
                  THEN (CHOOSE o \in Others : o[2] = cp)[1] ELSE cp

utf8uprcodepoint(cp) ==
    CASE In(cp, Lower32) -> cp - 32
      [] In(cp, EvenUpper) -> cp - (cp % 2)
      [] In(cp, OddUpper) -> cp - 1 + (cp % 2)
      [] OTHER -> IF \E o \in Others : o[2] = cp
                  THEN (CHOOSE o \in Others : o[2] = cp)[1] ELSE cp

utf8islower(chr) == chr # utf8uprcodepoint(chr)
utf8isupper(chr) == chr # utf8lwrcodepoint(chr)

\* Both walk over the code points and write each new one in the place of the old.
RECURSIVE LwrFrom(_, _), UprFrom(_, _)
LwrFrom(s, i) ==
    IF Byte(s, i) = 0 THEN s
    ELSE LET p == utf8codepoint(s, i)
             lwr == utf8lwrcodepoint(p.cp)
         IN  LwrFrom(utf8catcodepoint(s, i, lwr, utf8codepointsize(lwr)), p.next)
UprFrom(s, i) ==
    IF Byte(s, i) = 0 THEN s
    ELSE LET p == utf8codepoint(s, i)
             upr == utf8uprcodepoint(p.cp)
         IN  UprFrom(utf8catcodepoint(s, i, upr, utf8codepointsize(upr)), p.next)
utf8lwr(s) == LwrFrom(s, 1)
utf8upr(s) == UprFrom(s, 1)

-----------------------------------------------------------------------------
(* Comparing *)

\* The first difference decides, if there is one in the first n bytes.
utf8ncmp(s1, s2, n) ==
    LET differ == {i \in 1..n : Byte(s1, i) # Byte(s2, i)}
    IN  IF differ = {} THEN 0
        ELSE Sign(Byte(s1, Min(differ)) - Byte(s2, Min(differ)))

utf8cmp(s1, s2) == utf8ncmp(s1, s2, Max({Len(s1), Len(s2)}))

RECURSIVE CaseCmp(_, _, _, _)
CaseCmp(s1, i, s2, j) ==
    LET p == utf8codepoint(s1, i)
        q == utf8codepoint(s2, j)
    IN  CASE p.cp = 0 /\ q.cp = 0 -> 0
          [] utf8lwrcodepoint(p.cp) # utf8lwrcodepoint(q.cp) -> Sign(p.cp - q.cp)
          [] OTHER -> CaseCmp(s1, p.next, s2, q.next)
utf8casecmp(s1, s2) == CaseCmp(s1, 1, s2, 1)

\* The bits by which b says that w bytes begin.
Announced(b, w) == b - (b % 2^(7 - w))

\* Mutant: a code point of which one byte is missing is decoded all the same.
CutOff1(b, c, n) == {w \in {Width(b), Width(c)} \ {1} : n + 1 < w}

\* The widths of code points that do not fit into the n bytes left.
CutOff(b, c, n) == {w \in {Width(b), Width(c)} \ {1} : n < w}

RECURSIVE NCaseCmp(_, _, _, _, _)
NCaseCmp(s1, i, s2, j, n) ==
    LET b == Byte(s1, i)
        c == Byte(s2, j)
        w == Min(CutOff(b, c, n))
        p == utf8codepoint(s1, i)
        q == utf8codepoint(s2, j)
    IN  CASE n = 0 -> 0
          [] CutOff(b, c, n) # {} -> Sign(Announced(b, w) - Announced(c, w))
          [] p.cp = 0 /\ q.cp = 0 -> 0
          [] utf8lwrcodepoint(p.cp) # utf8lwrcodepoint(q.cp) -> Sign(p.cp - q.cp)
          [] OTHER -> NCaseCmp(s1, p.next, s2, q.next, n - utf8codepointsize(p.cp))
utf8ncasecmp(s1, s2, n) == NCaseCmp(s1, 1, s2, 1, n)

-----------------------------------------------------------------------------
(* Searching *)

RECURSIVE StrFrom(_, _, _)
StrFrom(h, n, i) ==
    CASE Byte(h, i) = 0 -> 0
      [] \A k \in DOMAIN n : Byte(h, i + k - 1) = n[k] -> i
      [] OTHER -> StrFrom(h, n, utf8codepoint(h, i).next)
utf8str(haystack, needle) == IF needle = << >> THEN 1 ELSE StrFrom(haystack, needle, 1)

utf8chr(s, chr) == IF chr = 0 THEN Len(s) + 1 ELSE utf8str(s, Encoded(chr))

\* The inner loop of utf8casestr(): the code points at the first mismatch, or
\* at the end of one of the strings.
RECURSIVE CaseMatch(_, _, _, _)
CaseMatch(h, i, n, j) ==
    LET p == utf8codepoint(h, i)
        q == utf8codepoint(n, j)
    IN  IF p.cp # 0 /\ q.cp # 0 /\ utf8lwrcodepoint(p.cp) = utf8lwrcodepoint(q.cp)
        THEN CaseMatch(h, p.next, n, q.next)
        ELSE [h_cp |-> p.cp, n_cp |-> q.cp]

RECURSIVE CaseStrFrom(_, _, _)
CaseStrFrom(h, n, i) ==
    LET m == CaseMatch(h, i, n, 1)
    IN  CASE m.n_cp = 0 -> i
          [] m.n_cp # 0 /\ m.h_cp = 0 -> 0
          [] OTHER -> CaseStrFrom(h, n, utf8codepoint(h, i).next)
utf8casestr(haystack, needle) ==
    IF needle = << >> THEN 1 ELSE CaseStrFrom(haystack, needle, 1)

\* The loop that holds the code point at i of s against those of set: whether
\* it found one before the end of set, and how many bytes are matched then.
RECURSIVE HeldAgainst(_, _, _, _, _)
HeldAgainst(s, i, set, a, offset) ==
    LET b == Byte(set, a)
    IN  CASE b = 0 -> [found |-> FALSE, offset |-> offset]
          [] b # 0 /\ ~IsContinuation(b) /\ offset > 0 -> [found |-> TRUE, offset |-> offset]
          [] b = Byte(s, i + offset) -> HeldAgainst(s, i, set, a + 1, offset + 1)
          [] OTHER -> HeldAgainst(s, i, set, March(set, a), 0)

RECURSIVE CSpnFrom(_, _, _), SpnFrom(_, _, _)
CSpnFrom(s, reject, i) ==
    IF Byte(s, i) = 0 \/ HeldAgainst(s, i, reject, 1, 0).found THEN 0
    ELSE 1 + CSpnFrom(s, reject, March(s, i))

SpnFrom(s, accept, i) ==
    LET m == HeldAgainst(s, i, accept, 1, 0)
    IN  IF Byte(s, i) = 0 \/ ~m.found THEN 0 ELSE 1 + SpnFrom(s, accept, i + m.offset)

\* Mutant: a match with the last code point of accept is missed.
PBrkHitInside(m) == m.found

\* Only utf8pbrk() looks at offset after the loop, too.
PBrkHit(m) == m.found \/ m.offset > 0

RECURSIVE PBrkFrom(_, _, _)
PBrkFrom(s, accept, i) ==
    CASE Byte(s, i) = 0 -> 0
      [] Byte(s, i) # 0 /\ PBrkHit(HeldAgainst(s, i, accept, 1, 0)) -> i
      [] OTHER -> PBrkFrom(s, accept, March(s, i))

utf8cspn(s, reject) == CSpnFrom(s, reject, 1)
utf8spn(s, accept) == SpnFrom(s, accept, 1)
utf8pbrk(s, accept) == PBrkFrom(s, accept, 1)

\* A match is stepped over as a whole, a mismatch up to the next code point.
\* (Where s ends in c, the code goes on comparing beyond both NULs.)
RECURSIVE RChrFrom(_, _, _, _)
RChrFrom(s, c, i, match) ==
    LET offset == Max({k \in 0..Len(c) : \A m \in 1..k : Byte(s, i + m - 1) = c[m]})
    IN  CASE Byte(s, i) = 0 -> match
          [] Byte(s, i) # 0 /\ offset = Len(c) -> RChrFrom(s, c, i + offset, i)
          [] OTHER -> RChrFrom(s, c, March(s, i + offset), match)
utf8rchr(s, chr) == IF chr = 0 THEN Len(s) + 1 ELSE RChrFrom(s, Encoded(chr), 1, 0)

-----------------------------------------------------------------------------
(* Copying: what the destination holds up to its NUL *)

utf8cat(d, s) == d \o s
utf8cpy(d, s) == s
utf8dup(s) == SubSeq(s, 1, utf8size(s) - 1)
utf8ndup(s, n) == SubSeq(s, 1, Min({n, Len(s)}))

\* The loop copies a byte before it counts down: 0 would copy all.  (s is not
\* empty; its NUL would be copied, and what follows it.)
utf8ncat(d, s, n) == d \o SubSeq(s, 1, IF n = 0 THEN Len(s) ELSE Min({n, Len(s)}))

\* The n bytes written.
utf8ncpy(s, n) == [i \in 1..n |-> Byte(s, i)]
=============================================================================

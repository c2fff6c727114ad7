---------------------------- MODULE Utf8Buffers -----------------------------
(***************************************************************************)
(* A caller of lab1-hash/utf8/utf8.h with two buffers, which are strings   *)
(* of bytes, and the answers of the functions that only read them.  The    *)
(* caller asks utf8valid() before it lets a string be read as characters,  *)
(* which utf8ncpy(), utf8ncat() and utf8ndup() may have cut short.         *)
(***************************************************************************)
EXTENDS Utf8

CONSTANTS Char,       \* the code points the caller writes
          CAPACITY    \* the bytes a buffer holds beside the NUL

VARIABLES dst, src    \* the buffers up to their NULs

vars == <<dst, src>>

Init == dst = << >> /\ src = << >>

Valid(s) == utf8valid(s) = 0

Write(s) == /\ Len(s) <= CAPACITY
            /\ dst' = s
            /\ UNCHANGED src

\* A code point is written into an empty buffer and appended.
CatCodepoint(chr) ==
    Valid(dst) /\ Write(utf8cat(dst, utf8catcodepoint(<< >>, 1, chr, CAPACITY - Len(dst))))

Cat == Valid(dst) /\ Write(utf8cat(dst, src))

NCat(n) == Valid(dst) /\ src # << >> /\ Write(utf8ncat(dst, src, n))

Cpy == Write(utf8cpy(dst, src))

\* The caller writes a NUL behind the n bytes.
NCpy(n) == LET bytes == Append(utf8ncpy(src, n), 0)
           IN  Write(SubSeq(bytes, 1, Min({i \in DOMAIN bytes : bytes[i] = 0}) - 1))

NDup(n) == Write(utf8ndup(src, n))

Dup == /\ Valid(dst)
       /\ src' = utf8dup(dst)
       /\ UNCHANGED dst

Lwr == Valid(dst) /\ Write(utf8lwr(dst))
Upr == Valid(dst) /\ Write(utf8upr(dst))

Next == \/ \E chr \in Char : CatCodepoint(chr)
        \/ \E n \in 1..CAPACITY : NCat(n) \/ NCpy(n) \/ NDup(n)
        \/ Cat \/ Cpy \/ Dup \/ Lwr \/ Upr

Spec == Init /\ [][Next]_vars

-----------------------------------------------------------------------------
(* Properties                                                              *)

\* The code points of a string, and where the kth one begins.
Codepoints(s) ==
    LET from[i \in 1..Len(s) + 4] ==
            IF i > Len(s) THEN << >>
            ELSE << utf8codepoint(s, i).cp >> \o from[utf8codepoint(s, i).next]
    IN  from[1]

RECURSIVE Encoding(_)
Encoding(cps) == IF cps = << >> THEN << >> ELSE Encoded(Head(cps)) \o Encoding(Tail(cps))

Place(cps, k) == Len(Encoding(SubSeq(cps, 1, k - 1))) + 1

Lowered(cps) == [k \in DOMAIN cps |-> utf8lwrcodepoint(cps[k])]

\* utf8valid() accepts a string exactly when it is the encoding of what it
\* decodes to; otherwise it points at the first byte that neither begins the
\* encoding of a code point nor is part of one.
ValidExact(s) ==
    LET i == utf8valid(s)
        encodes(from, to) == SubSeq(s, from, to) = Encoding(Codepoints(SubSeq(s, from, to)))
    IN  /\ i = 0 <=> encodes(1, Len(s))
        /\ i # 0 => /\ encodes(1, i - 1)
                    /\ \A to \in i..Len(s) :
                          encodes(i, to) => to < Len(s) /\ IsContinuation(s[to + 1])

\* utf8lwr() and utf8upr() write in place, so both cases of a letter have the
\* same size; they undo each other as far as case goes, and to utf8casecmp()
\* case makes no difference.  No letter is of both cases.
CaseExact(s) ==
    Valid(s) =>
        LET lwr == utf8lwr(s)
            upr == utf8upr(s)
        IN  /\ Valid(lwr) /\ Codepoints(lwr) = Lowered(Codepoints(s))
            /\ Valid(upr) /\ Len(upr) = Len(s)
            /\ utf8lwr(upr) = lwr /\ utf8upr(lwr) = upr
            /\ utf8casecmp(s, lwr) = 0 /\ utf8casecmp(upr, s) = 0
            /\ \A c \in ToSet(Codepoints(s)) : ~(utf8islower(c) /\ utf8isupper(c))

\* Lexicographic order of sequences of code points.
Less(c, d) == \/ IsStrictPrefix(c, d)
              \/ \E k \in DOMAIN c \cap DOMAIN d :
                    c[k] < d[k] /\ SubSeq(c, 1, k - 1) = SubSeq(d, 1, k - 1)

Bytes(s, n) == SubSeq(s, 1, Min({n, Len(s)}))

\* The order of the bytes is the order of the code points; the functions with
\* a limit look at no byte beyond it, and differ from the others only in
\* taking for equal what differs beyond the limit.
OrderExact ==
    Valid(dst) =>
        /\ utf8cmp(dst, src) = CASE Less(Codepoints(dst), Codepoints(src)) -> -1
                                 [] Less(Codepoints(src), Codepoints(dst)) -> 1
                                 [] OTHER -> 0
        /\ utf8casecmp(dst, src) = -utf8casecmp(src, dst)
        /\ utf8casecmp(dst, src) = 0 <=>
              Lowered(Codepoints(dst)) = Lowered(Codepoints(src))
        /\ \A n \in 0..CAPACITY :
              /\ utf8ncmp(dst, src, n) = utf8cmp(Bytes(dst, n), Bytes(src, n))
              /\ utf8ncasecmp(dst, src, n) = utf8ncasecmp(Bytes(dst, n), Bytes(src, n), n)
              /\ utf8ncasecmp(dst, src, n) \in {0, utf8casecmp(dst, src)}
        /\ utf8ncasecmp(dst, src, CAPACITY) = utf8casecmp(dst, src)

\* The searches find the first (utf8rchr(): the last) place of a code point,
\* a string, a string in any case, or a code point of a set, and no place in
\* the middle of a code point.  Of utf8rchr() this is not asked when the last
\* code point is the one sought.
SearchesExact ==
    Valid(dst) =>
        LET h == Codepoints(dst)
            n == Codepoints(src)
            PlaceOf(K, Pick(_)) == IF K = {} THEN 0 ELSE Place(h, Pick(K))
            Places(c, d) == {k \in 1..Len(c) + 1 : IsPrefix(d, SubSeq(c, k, Len(c)))}
        IN  /\ utf8len(dst) = Len(h)
            /\ \A c \in Char :
                  /\ utf8chr(dst, c) = PlaceOf(Places(h, << c >>), Min)
                  /\ ~IsSuffix(<< c >>, h) => utf8rchr(dst, c) = PlaceOf(Places(h, << c >>), Max)
            /\ utf8str(dst, src) = PlaceOf(Places(h, n), Min)
            /\ utf8casestr(dst, src) = PlaceOf(Places(Lowered(h), Lowered(n)), Min)
            /\ utf8pbrk(dst, src) = PlaceOf({k \in DOMAIN h : h[k] \in ToSet(n)}, Min)

\* utf8.h:104-105 and 166-167: the code points before the first one from
\* reject (utf8cspn()) or not from accept (utf8spn()).
SpansExact ==
    Valid(dst) =>
        LET h == Codepoints(dst)
            Before(K) == Min(K \cup {Len(h) + 1}) - 1
            isIn == {k \in DOMAIN h : h[k] \in ToSet(Codepoints(src))}
        IN  /\ utf8cspn(dst, src) = Before(isIn)
            /\ utf8spn(dst, src) = Before(DOMAIN h \ isIn)

Characters == INSTANCE Text
    WITH Limit <- 1..CAPACITY, Size <- utf8codepointsize,
         Lower <- utf8lwrcodepoint, Upper <- utf8uprcodepoint,
         dst <- IF Valid(dst) THEN Codepoints(dst) ELSE << -1 >>,
         src <- Codepoints(src)

\* The functions that write bytes write characters.
ImplementsText == Characters!Spec
=============================================================================

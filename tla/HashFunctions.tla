--------------------------- MODULE HashFunctions ----------------------------
(***************************************************************************)
(* The hash functions of lab1-hash/GeneralHashFunctions.c and              *)
(* MurmurHash.h.  An unsigned int is the set of the positions of its 1     *)
(* bits, 0 being the lowest; a string is a sequence of char, -128 .. 127.  *)
(***************************************************************************)
EXTENDS Integers, Sequences, SequencesExt, FiniteSets, FiniteSetsExt

BitsInUnsignedInt == 32
Bits == 0..BitsInUnsignedInt - 1

Shl(a, n) == {b + n : b \in {x \in a : x + n < BitsInUnsignedInt}}
Shr(a, n) == {b - n : b \in {x \in a : x >= n}}
Xor(a, b) == SymDiff(a, b)
Not(a) == Bits \ a

\* The carries are added until none is left.
Add(a, b) ==
    LET sum[x, y \in SUBSET Bits] == IF y = {} THEN x ELSE sum[Xor(x, y), Shl(x \cap y, 1)]
    IN  sum[a, b]

Minus(a) == Add(Not(a), {0})
Mul(a, b) == FoldSet(LAMBDA n, sum : Add(Shl(a, n), sum), {}, b)

\* The unsigned int of a number below 2^31, and of a char, which is extended.
Word(n) == {b \in 0..30 : (n \div 2^b) % 2 = 1}
Char(c) == IF c < 0 THEN Word(c + 256) \cup (8..31) ELSE Word(c)
Byte(c) == Char(c) \cap (0..7)

\* The remainder of an unsigned int.
Mod(a, n) ==
    LET power2[b \in Bits] == IF b = 0 THEN 1 % n ELSE (2 * power2[b - 1]) % n
    IN  MapThenSumSet(LAMBDA b : power2[b], a) % n

\* for(i = 0; i < len; str++, i++) hash = Turn(hash, *str, i);
Loop(Turn(_, _, _), hash, str) ==
    FoldLeftDomain(LAMBDA h, i : Turn(h, Char(str[i]), i - 1), hash, str)

RSHash(str) ==
    LET a[i \in Nat] == IF i = 0 THEN Word(63689) ELSE Mul(a[i - 1], Word(378551))
    IN  Loop(LAMBDA hash, c, i : Add(Mul(hash, a[i]), c), {}, str)

JSHash(str) ==
    Loop(LAMBDA hash, c, i : Xor(hash, Add(Add(Shl(hash, 5), c), Shr(hash, 2))),
         Word(1315423911), str)

HighBits == 28..31

PJWHash(str) ==
    LET Fold(hash) == Xor(hash, Shr(hash \cap HighBits, 24)) \ HighBits
    IN  Loop(LAMBDA hash, c, i : LET next == Add(Shl(hash, 4), c)
                                 IN  IF next \cap HighBits # {} THEN Fold(next) ELSE next,
             {}, str)

ELFHash(str) ==
    LET Fold(hash, x) == (IF x # {} THEN Xor(hash, Shr(x, 24)) ELSE hash) \ x
    IN  Loop(LAMBDA hash, c, i : LET next == Add(Shl(hash, 4), c)
                                 IN  Fold(next, next \cap HighBits),
             {}, str)

BKDRHash(str) == Loop(LAMBDA hash, c, i : Add(Mul(hash, Word(131)), c), {}, str)

SDBMHash(str) ==
    Loop(LAMBDA hash, c, i : Add(Add(Add(c, Shl(hash, 6)), Shl(hash, 16)), Minus(hash)),
         {}, str)

DJBHash(str) == Loop(LAMBDA hash, c, i : Add(Add(Shl(hash, 5), hash), c), Word(5381), str)

DEKHash(str) ==
    Loop(LAMBDA hash, c, i : Xor(Xor(Shl(hash, 5), Shr(hash, 27)), c), Word(Len(str)), str)

BPHash(str) == Loop(LAMBDA hash, c, i : Xor(Shl(hash, 7), c), {}, str)

fnv_prime == Shl(Word(\h811C), 16) \cup Word(\h9DC5)
FNVHash(str) == Loop(LAMBDA hash, c, i : Xor(Mul(hash, fnv_prime), c), {}, str)

APHash(str) ==
    Loop(LAMBDA hash, c, i :
            Xor(hash, IF i % 2 = 0 THEN Xor(Shl(hash, 7), Mul(c, Shr(hash, 3)))
                      ELSE Not(Add(Shl(hash, 11), Xor(c, Shr(hash, 5))))),
         {b \in 0..31 : b % 2 = 1}, str)

-----------------------------------------------------------------------------
(* MurmurHash2() reads the string as unsigned chars, four at a time, the   *)
(* first of them the lowest.                                               *)

multiplier == Word(\h5bd1e995)

Little(str) == UNION {Shl(Byte(str[b]), 8 * (b - 1)) : b \in DOMAIN str}

\* What becomes of four bytes.
Mixed(k) == LET k1 == Mul(k, multiplier)
            IN  Mul(Xor(k1, Shr(k1, 24)), multiplier)

Murmur(h, data) ==
    LET words == Len(data) \div 4
        word(w) == Little(SubSeq(data, 4 * w - 3, 4 * w))
        mixed == FoldLeft(LAMBDA x, w : Xor(Mul(x, multiplier), Mixed(word(w))),
                          h, [w \in 1..words |-> w])
        rest == SubSeq(data, 4 * words + 1, Len(data))
    IN  IF rest = << >> THEN mixed ELSE Mul(Xor(mixed, Little(rest)), multiplier)

\* Mutant: the seed goes where the length overwrites it.
StartWithoutSeed(len, seed) == Word(len)

Start(len, seed) == Xor(Word(seed), Word(len))

MurmurHash2(key, seed) ==
    LET h1 == Murmur(Start(Len(key), seed), key)
        h2 == Mul(Xor(h1, Shr(h1, 13)), multiplier)
    IN  Xor(h2, Shr(h2, 15))

-----------------------------------------------------------------------------
(* What makes these functions good enough for a table or a filter          *)

\* One character that differs, wherever it is, changes the hash: the arithmetic
\* of 32 bits loses none.  JSHash(), PJWHash(), ELFHash(), APHash() and
\* BPHash() do not promise it.
SensitiveHashes(str) ==
    <<RSHash(str), BKDRHash(str), SDBMHash(str), DJBHash(str), DEKHash(str),
      FNVHash(str), MurmurHash2(str, 0)>>

OneCharacterMatters(str, chars) ==
    LET hashes == SensitiveHashes(str)
    IN  \A n \in DOMAIN str : \A c \in chars \ {str[n]} :
            LET others == SensitiveHashes([str EXCEPT ![n] = c])
            IN  \A f \in DOMAIN hashes : hashes[f] # others[f]

\* The seeds make functions of their own out of MurmurHash2().
SeedsMatter(str, k) ==
    Cardinality({MurmurHash2(str, seed) : seed \in 0..k - 1}) = k

\* PJWHash() and ELFHash(), written differently, are one function, whose results
\* have 28 bits; BPHash() is one of the last five characters.
HashesOfFewBits(str) ==
    /\ PJWHash(str) = ELFHash(str) /\ ELFHash(str) \cap HighBits = {}
    /\ Len(str) > 5 => BPHash(str) = BPHash(SubSeq(str, Len(str) - 4, Len(str)))
=============================================================================

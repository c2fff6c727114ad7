------------------------------ MODULE MCBloom -------------------------------
(* TLC instance of Bloom with the real hash functions: ten bits in two     *)
(* bytes and two seeds.  The bits of "a" are one, those of the character   *)
(* in three bytes are bits of two other strings, and one string has the    *)
(* last bit of the first byte, one a bit of the second.                    *)
(*                                                                         *)
(* A behaviour either runs bf_search.c, or hands a string to the hash      *)
(* functions.                                                              *)
EXTENDS Bloom, TLC

VARIABLE given      \* the string that is hashed, << >> when the filter runs

Lib == INSTANCE HashFunctions

\* "a", "aa", "bcda", "z" and a Chinese character
Words == { <<97>>, <<97, 97>>, <<98, 99, 100, 97>>, <<122>>, <<-28, -72, -83>> }
MCHash == [s \in Words |-> [seed \in 0..1 |-> Lib!Mod(Lib!MurmurHash2(s, seed), 10)]]

\* Prefixes: lengths of which four is no divisor, and of more than eight.
Characters == {97, 98, -28}
Samples == UNION {{SubSeq(s, 1, n) : n \in 1..9} :
                  s \in { <<97, 97, 97, 97, 97, 97, 97, 97, 97>>,
                          <<-28, -72, -83, -26, -106, -121, -28, -72, -83>>,
                          <<98, 121, 98, 101, 46, 99, 110, 47, 98>> }}

MCInit == Init /\ given \in {<< >>} \cup Samples
MCNext == /\ IF given = << >> THEN Next ELSE UNCHANGED vars
          /\ UNCHANGED given
MCSpec == MCInit /\ [][MCNext]_<<vars, given>>

\* GeneralHashFunctions.c, MurmurHash.h: no character and no seed is lost in the
\* arithmetic of 32 bits; what is lost is known.
HashesTellApart ==
    given # << >> => /\ Lib!OneCharacterMatters(given, Characters)
                     /\ Lib!SeedsMatter(given, k)
                     /\ Lib!HashesOfFewBits(given)
=============================================================================

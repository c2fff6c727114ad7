------------------------------- MODULE Bloom --------------------------------
(***************************************************************************)
(* lab1-hash/bf_search.c: a Bloom filter of m bits, kept in an array of    *)
(* bytes, and k hash functions, MurmurHash2() with the seeds 0 .. k-1.  A  *)
(* byte is the set of the positions (7 = most significant) of its 1s.      *)
(*                                                                         *)
(* The hash functions are a constant: nothing below depends on which they  *)
(* are.  m and k, which the code computes from the number of patterns and  *)
(* the wanted rate of false answers, are constants too.                    *)
(***************************************************************************)
EXTENDS Integers, Sequences, FiniteSets

CONSTANTS Str,        \* the strings in the two files
          m, k,
          Hash,       \* Hash[s][j]: MurmurHash2(s, strlen(s), j) % m
          MaxLines,   \* bound: the patterns that fit in the array (STORAGE)
          MaxWords    \* bound: the words of the other file

ASSUME BloomAssumption == /\ m \in Nat \ {0} /\ k \in Nat \ {0}
                          /\ Hash \in [Str -> [0..k - 1 -> 0..m - 1]]
                          /\ MaxLines \in Nat /\ MaxWords \in Nat

VARIABLES pp,         \* the array of the patterns
          filter,     \* filter[n]: byte n
          i, j,       \* the loops over patterns and over hash functions
          pc,         \* main(): "load", "build", "read" or "test"
          pw,         \* the word read last
          wordcount,
          results     \* the result file

vars == <<pp, filter, i, j, pc, pw, wordcount, results>>

\* ceil(m / 8.0)
bytes == (m + 7) \div 8

Init == /\ pp = << >>
        /\ filter = [n \in 0..bytes - 1 |-> {}]
        /\ i = 0 /\ j = 0
        /\ pc = "load"
        /\ pw \in Str
        /\ wordcount = 0
        /\ results = << >>

Load(s) == /\ pc = "load" /\ Len(pp) < MaxLines
           /\ pp' = Append(pp, s)
           /\ UNCHANGED <<filter, i, j, pc, pw, wordcount, results>>

\* Without a pattern m would be 0 and k undefined.
LoadEnd == /\ pc = "load" /\ pp # << >>
           /\ pc' = "build"
           /\ UNCHANGED <<pp, filter, i, j, pw, wordcount, results>>

\* Mutant: seven bits a byte.
BitOfSeven(pos) == 7 - (pos % 7)

\* The position in its byte of bit pos of the filter.
Bit(pos) == 7 - (pos % 8)

IsSet(pos) == Bit(pos) \in filter[pos \div 8]

\* Mutant: the byte is overwritten.
SetBitAlone ==
    /\ pc = "build" /\ i < Len(pp)
    /\ LET pos == Hash[pp[i + 1]][j]
       IN  filter' = [filter EXCEPT ![pos \div 8] = {Bit(pos)}]
    /\ IF j + 1 < k THEN j' = j + 1 /\ i' = i ELSE j' = 0 /\ i' = i + 1
    /\ UNCHANGED <<pp, pc, pw, wordcount, results>>

\* One turn of the inner loop that builds the filter.
SetBit ==
    /\ pc = "build" /\ i < Len(pp)
    /\ LET pos == Hash[pp[i + 1]][j]
       IN  filter' = [filter EXCEPT ![pos \div 8] = @ \cup {Bit(pos)}]
    /\ IF j + 1 < k THEN j' = j + 1 /\ i' = i ELSE j' = 0 /\ i' = i + 1
    /\ UNCHANGED <<pp, pc, pw, wordcount, results>>

BuildEnd == /\ pc = "build" /\ i = Len(pp)
            /\ pc' = "read"
            /\ UNCHANGED <<pp, filter, i, j, pw, wordcount, results>>

ReadWord(w) == /\ pc = "read" /\ wordcount < MaxWords
               /\ pw' = w /\ j' = 0
               /\ wordcount' = wordcount + 1
               /\ pc' = "test"
               /\ UNCHANGED <<pp, filter, i, results>>

\* One turn of the loop that tests the word's bits: go on, or answer "no".
BitIsSet == /\ pc = "test" /\ j < k
            /\ IsSet(Hash[pw][j])
            /\ j' = j + 1
            /\ UNCHANGED <<pp, filter, i, pc, pw, wordcount, results>>

BitIsClear == /\ pc = "test" /\ j < k
              /\ ~IsSet(Hash[pw][j])
              /\ results' = Append(results, << pw, "no" >>)
              /\ pc' = "read"
              /\ UNCHANGED <<pp, filter, i, j, pw, wordcount>>

AllSet == /\ pc = "test" /\ j = k
          /\ results' = Append(results, << pw, "yes" >>)
          /\ pc' = "read"
          /\ UNCHANGED <<pp, filter, i, j, pw, wordcount>>

Done == pc = "read" /\ UNCHANGED vars

Next == \/ \E s \in Str : Load(s) \/ ReadWord(s)
        \/ LoadEnd \/ SetBit \/ BuildEnd
        \/ BitIsSet \/ BitIsClear \/ AllSet \/ Done

Spec == Init /\ [][Next]_vars

-----------------------------------------------------------------------------
(* Properties                                                              *)

\* The bits of the patterns dealt with so far.
BitsSoFar == {Hash[pp[n]][h] : n \in 1..i, h \in 0..k - 1}
             \cup (IF pc = "build" /\ i < Len(pp)
                   THEN {Hash[pp[i + 1]][h] : h \in 0..j - 1} ELSE {})

\* The bytes hold the filter: a position is set exactly when some pattern has
\* it, so no two positions share a bit, across the borders of bytes.
FilterExact == \A pos \in 0..m - 1 : IsSet(pos) <=> pos \in BitsSoFar

\* A pattern is never answered "no".
NoPatternDenied ==
    \A n \in DOMAIN results :
        results[n][2] = "no" => \A x \in DOMAIN pp : pp[x] # results[n][1]

\* A word is answered "yes" only when each of its bits is the bit of a pattern.
YesHasReasons ==
    \A n \in DOMAIN results :
        results[n][2] = "yes" =>
            \A h \in 0..k - 1 : \E x \in DOMAIN pp : \E g \in 0..k - 1 :
                Hash[results[n][1]][h] = Hash[pp[x]][g]
=============================================================================

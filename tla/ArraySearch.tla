---------------------------- MODULE ArraySearch -----------------------------
(***************************************************************************)
(* lab1-hash/array_search.c: each word is compared with the patterns of    *)
(* an array, from the last to the first.                                   *)
(***************************************************************************)
EXTENDS Integers, Sequences, Functions

CONSTANTS Str,        \* the strings in the two files
          MaxLines,   \* bound: the patterns that fit in the array (STORAGE)
          MaxWords    \* bound: the words of the other file

VARIABLES pp,         \* the array of the patterns
          pc,         \* main(): "load", "read" or "compare"
          pw,         \* the word read last
          i,          \* how many patterns it was compared with
          wordcount,
          results     \* the result file

vars == <<pp, pc, pw, i, wordcount, results>>

length == Len(pp)

Init == /\ pp = << >>
        /\ pc = "load"
        /\ pw \in Str /\ i = 0
        /\ wordcount = 0
        /\ results = << >>

Load(s) == /\ pc = "load" /\ length < MaxLines
           /\ pp' = Append(pp, s)
           /\ UNCHANGED <<pc, pw, i, wordcount, results>>

LoadEnd == /\ pc = "load"
           /\ pc' = "read"
           /\ UNCHANGED <<pp, pw, i, wordcount, results>>

ReadWord(w) == /\ pc = "read" /\ wordcount < MaxWords
               /\ pw' = w /\ i' = 0
               /\ wordcount' = wordcount + 1
               /\ pc' = "compare"
               /\ UNCHANGED <<pp, results>>

Same == /\ pc = "compare" /\ i < length
        /\ pp[length - i] = pw
        /\ results' = Append(results, << pw, "yes" >>)
        /\ pc' = "read"
        /\ UNCHANGED <<pp, pw, i, wordcount>>

Different == /\ pc = "compare" /\ i < length
             /\ pp[length - i] # pw
             /\ i' = i + 1
             /\ UNCHANGED <<pp, pc, pw, wordcount, results>>

\* Mutant: the first pattern is not looked at.
NotFoundEarly == /\ pc = "compare" /\ i >= length - 1
                 /\ results' = Append(results, << pw, "no" >>)
                 /\ pc' = "read"
                 /\ UNCHANGED <<pp, pw, i, wordcount>>

NotFound == /\ pc = "compare" /\ i = length
            /\ results' = Append(results, << pw, "no" >>)
            /\ pc' = "read"
            /\ UNCHANGED <<pp, pw, i, wordcount>>

Done == pc = "read" /\ UNCHANGED vars

Next == \/ \E s \in Str : Load(s) \/ ReadWord(s)
        \/ LoadEnd \/ Same \/ Different \/ NotFound \/ Done

Spec == Init /\ [][Next]_vars

-----------------------------------------------------------------------------
(* Properties                                                              *)

Abstract == INSTANCE Membership WITH loaded <- Range(pp)

\* A word is answered "yes" exactly when it is one of the patterns, the first
\* and the last included.
ImplementsMembership == Abstract!Spec
=============================================================================

----------------------------- MODULE HashTable ------------------------------
(***************************************************************************)
(* lab1-hash/hashtable_search.c: the patterns are loaded into an array,    *)
(* chained in a hash table, and looked up word by word.  A chain is the    *)
(* sequence of the array indexes that the `next' pointers lead through.    *)
(*                                                                         *)
(* The hash function is a constant: nothing below depends on which it is.  *)
(***************************************************************************)
EXTENDS Integers, Sequences, Functions

CONSTANTS Str,        \* the strings in the two files
          HLEN,       \* the number of chains
          Hash,       \* APHash() % HLEN
          MaxLines,   \* bound: the patterns that fit in the array (STORAGE)
          MaxWords    \* bound: the words of the other file

ASSUME HashAssumption == /\ HLEN \in Nat \ {0}
                         /\ Hash \in [Str -> 0..HLEN - 1]
                         /\ MaxLines \in Nat /\ MaxWords \in Nat

VARIABLES pp,         \* the array of the patterns
          hash,       \* hash[b]: the chain of bucket b
          i,          \* the patterns that have been chained
          pc,         \* main(): "load", "build", "read" or "compare"
          pw,         \* the word read last
          pi,         \* how far the search is in the word's chain
          wordcount,
          results     \* the result file

vars == <<pp, hash, i, pc, pw, pi, wordcount, results>>

Init == /\ pp = << >>
        /\ hash = [b \in 0..HLEN - 1 |-> << >>]
        /\ i = 0
        /\ pc = "load"
        /\ pw \in Str /\ pi = 1
        /\ wordcount = 0
        /\ results = << >>

Load(s) == /\ pc = "load" /\ Len(pp) < MaxLines
           /\ pp' = Append(pp, s)
           /\ UNCHANGED <<hash, i, pc, pw, pi, wordcount, results>>

LoadEnd == /\ pc = "load"
           /\ pc' = "build"
           /\ UNCHANGED <<pp, hash, i, pw, pi, wordcount, results>>

\* Mutant: the pattern becomes the chain.
BuildOver ==
    /\ pc = "build" /\ i < Len(pp)
    /\ hash' = [hash EXCEPT ![Hash[pp[i + 1]]] = << i + 1 >>]
    /\ i' = i + 1
    /\ UNCHANGED <<pp, pc, pw, pi, wordcount, results>>

\* The next pattern goes to the end of its chain.
Build ==
    /\ pc = "build" /\ i < Len(pp)
    /\ hash' = [hash EXCEPT ![Hash[pp[i + 1]]] = Append(@, i + 1)]
    /\ i' = i + 1
    /\ UNCHANGED <<pp, pc, pw, pi, wordcount, results>>

BuildEnd == /\ pc = "build" /\ i = Len(pp)
            /\ pc' = "read"
            /\ UNCHANGED <<pp, hash, i, pw, pi, wordcount, results>>

\* A word whose chain is empty is answered at once.
ReadWord(w) ==
    /\ pc = "read" /\ wordcount < MaxWords
    /\ pw' = w /\ pi' = 1
    /\ wordcount' = wordcount + 1
    /\ \/ /\ hash[Hash[w]] = << >>
          /\ results' = Append(results, << w, "no" >>)
          /\ UNCHANGED pc
       \/ /\ hash[Hash[w]] # << >>
          /\ pc' = "compare"
          /\ UNCHANGED results
    /\ UNCHANGED <<pp, hash, i>>

\* Mutant: a pattern with the word's hash is taken for the word.
SameHash == /\ pc = "compare" /\ pi <= Len(hash[Hash[pw]])
            /\ results' = Append(results, << pw, "yes" >>)
            /\ pc' = "read"
            /\ UNCHANGED <<pp, hash, i, pw, pi, wordcount>>

\* The word is compared with the patterns of its chain, up to the first that
\* is the same ...
Same == /\ pc = "compare" /\ pi <= Len(hash[Hash[pw]])
        /\ pp[hash[Hash[pw]][pi]] = pw
        /\ results' = Append(results, << pw, "yes" >>)
        /\ pc' = "read"
        /\ UNCHANGED <<pp, hash, i, pw, pi, wordcount>>

Different == /\ pc = "compare" /\ pi <= Len(hash[Hash[pw]])
             /\ pp[hash[Hash[pw]][pi]] # pw
             /\ pi' = pi + 1
             /\ UNCHANGED <<pp, hash, i, pc, pw, wordcount, results>>

\* ... or to its end.
NotFound == /\ pc = "compare" /\ pi > Len(hash[Hash[pw]])
            /\ results' = Append(results, << pw, "no" >>)
            /\ pc' = "read"
            /\ UNCHANGED <<pp, hash, i, pw, pi, wordcount>>

Done == pc = "read" /\ UNCHANGED vars

Next == \/ \E s \in Str : Load(s) \/ ReadWord(s)
        \/ LoadEnd \/ Build \/ BuildEnd
        \/ Same \/ Different \/ NotFound \/ Done

Spec == Init /\ [][Next]_vars

-----------------------------------------------------------------------------
(* Properties                                                              *)

\* Every variable has its type.
TypeOK == /\ pp \in Seq(Str)
          /\ hash \in [0..HLEN - 1 -> Seq(Nat)]
          /\ i \in 0..Len(pp)
          /\ pc \in {"load", "build", "read", "compare"}
          /\ pw \in Str /\ pi \in Nat \ {0}
          /\ wordcount \in Nat
          /\ results \in Seq(Str \X {"yes", "no"})

\* The chain of a bucket leads through the patterns chained so far that hash
\* to it, and no others.
ChainsHold ==
    \A b \in 0..HLEN - 1 : Range(hash[b]) = {n \in 1..i : Hash[pp[n]] = b}

\* Words are looked up when all patterns are chained, and a word is none of the
\* patterns of its chain that the search has passed.
SearchedInVain ==
    /\ pc \in {"read", "compare"} => i = Len(pp)
    /\ pc = "compare" =>
          LET chain == hash[Hash[pw]]
          IN  /\ pi <= Len(chain) + 1
              /\ \A x \in 1..pi - 1 : pp[chain[x]] # pw

\* Every word gets one answer, although "no" is printed in two places.
OneAnswerEach ==
    wordcount = Len(results) + (IF pc = "compare" THEN 1 ELSE 0)

\* The inductive invariant: what the loops have done and what is left agree.
IInv == TypeOK /\ ChainsHold /\ SearchedInVain /\ OneAnswerEach

Patterns == Range(pp)

Abstract == INSTANCE Membership WITH loaded <- Patterns

\* A word is answered "yes" exactly when it is one of the patterns, whatever
\* the hash function is.
ImplementsMembership == Abstract!Spec
=============================================================================

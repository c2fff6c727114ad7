----------------------------- MODULE Membership -----------------------------
(***************************************************************************)
(* What a dictionary search of lab1 promises: patterns are loaded from one *)
(* file, then each word of another is answered with "yes" or "no".         *)
(***************************************************************************)
EXTENDS Sequences

CONSTANT Str          \* the strings in the two files

VARIABLES loaded,     \* the patterns
          results     \* the result file: a sequence of << word, answer >>

vars == <<loaded, results>>

Init == /\ loaded = {}
        /\ results = << >>

Load(s) == /\ loaded' = loaded \cup {s}
           /\ UNCHANGED results

Search(w) == /\ results' = Append(results, << w, IF w \in loaded THEN "yes" ELSE "no" >>)
             /\ UNCHANGED loaded

Next == \E s \in Str : Load(s) \/ Search(s)

Spec == Init /\ [][Next]_vars
=============================================================================

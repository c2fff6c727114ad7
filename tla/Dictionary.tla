----------------------------- MODULE Dictionary -----------------------------
(***************************************************************************)
(* What the trees of lab2 promise to their main programs: a set of strings *)
(* that grows by insertion.  An insertion tells whether the string was     *)
(* new, and a search afterwards finds exactly the strings inserted.  Each  *)
(* tree is shown to implement this specification, with `stored' mapped to  *)
(* the strings its search function finds.                                  *)
(***************************************************************************)
CONSTANT Str          \* the strings that may be inserted or searched

VARIABLES stored,     \* the strings a search finds
          last        \* the last insertion: << the string, was it new >>

vars == <<stored, last>>

Init == /\ stored = {}
        /\ last = << >>

Insert(s) == /\ last' = << s, s \notin stored >>
             /\ stored' = stored \cup {s}

Next == \E s \in Str : Insert(s)

Spec == Init /\ [][Next]_vars
=============================================================================

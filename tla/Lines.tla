------------------------------- MODULE Lines --------------------------------
(***************************************************************************)
(* What a reader of lines and blocks promises to the program that calls    *)
(* it: the text comes in order and complete, a call returns one line with  *)
(* its newline or one block, a line too long for the caller's array comes  *)
(* in pieces, a last line needs no newline and a last block may be short,  *)
(* and the end is reported after it.  Rio is shown to implement this       *)
(* specification.                                                          *)
(***************************************************************************)
EXTENDS Integers, Sequences

CONSTANTS NL,       \* the newline
          Longest,  \* how many characters fit the caller's array
          Block     \* how many a caller of blocks asks for

VARIABLES rest,     \* the text not yet handed out
          lines,    \* history: what the calls returned
          outcome   \* "reading", "eof" or "error"

vars == <<rest, lines, outcome>>

\* The first line of the text t, or the first piece of it, ends at k.
LineEnds(t, k) == /\ k <= Longest
                  /\ \A i \in 1..k - 1 : t[i] # NL
                  /\ t[k] = NL \/ k = Longest \/ k = Len(t)

BlockEnds(t, k) == k = Block \/ (k < Block /\ k = Len(t))

Piece == /\ outcome = "reading"
         /\ \E k \in 1..Len(rest) :
               /\ LineEnds(rest, k) \/ BlockEnds(rest, k)
               /\ lines' = Append(lines, SubSeq(rest, 1, k))
               /\ rest' = SubSeq(rest, k + 1, Len(rest))
         /\ UNCHANGED outcome

End == /\ outcome = "reading" /\ rest = << >>
       /\ outcome' = "eof"
       /\ UNCHANGED <<rest, lines>>

Fail == /\ outcome = "reading"
        /\ outcome' = "error"
        /\ UNCHANGED <<rest, lines>>

Init == /\ lines = << >>
        /\ outcome = "reading"

Next == Piece \/ End \/ Fail

\* Whatever the text, it is read to its end unless reading fails.
Spec == Init /\ [][Next]_vars /\ WF_vars(Piece \/ End)
=============================================================================

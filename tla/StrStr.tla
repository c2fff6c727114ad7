------------------------------- MODULE StrStr -------------------------------
(***************************************************************************)
(* lab3-patmatch/strstr/strstr.c: for each pattern main() scans the text   *)
(* with two pointers and sets both back when the characters differ, which  *)
(* they also do after a match, at the pattern's NUL; in the end it sorts   *)
(* the patterns by what it has counted.                                    *)
(***************************************************************************)
EXTENDS Matching

CONSTANTS Texts,              \* sequences of characters, which are not 0
          PatternLists        \* sequences of such sequences; no pattern is empty

VARIABLES text, patterns,
          pc,                 \* "scan", "sort" or "done"
          at,                 \* the pattern being looked for, from 1
          sp, pp,             \* indexes of the two pointers
          count,              \* count[x]: patterns[x - 1].count
          result              \* the array after qsort()

vars == <<text, patterns, pc, at, sp, pp, count, result>>

Init == /\ text \in Texts /\ patterns \in PatternLists
        /\ pc = "scan"
        /\ at = 1 /\ sp = 0 /\ pp = 0
        /\ count = [x \in DOMAIN patterns |-> 0]
        /\ result = << >>

pattern == patterns[at]

\* if (*pp == '\0') patterns[i].count++
Count == count' = IF pp = Len(pattern) THEN [count EXCEPT ![at] = @ + 1] ELSE count

\* Mutant: the text is not set back.
ScanOnward ==
    /\ pc = "scan" /\ CharAt(text, sp) # 0
    /\ Count
    /\ IF CharAt(pattern, pp) = CharAt(text, sp)
       THEN sp' = sp + 1 /\ pp' = pp + 1
       ELSE sp' = (IF pp = 0 THEN sp + 1 ELSE sp) /\ pp' = 0
    /\ UNCHANGED <<text, patterns, pc, at, result>>

\* One turn of the loop.
Scan ==
    /\ pc = "scan" /\ CharAt(text, sp) # 0
    /\ Count
    /\ IF CharAt(pattern, pp) = CharAt(text, sp)
       THEN sp' = sp + 1 /\ pp' = pp + 1
       ELSE sp' = sp - pp + 1 /\ pp' = 0
    /\ UNCHANGED <<text, patterns, pc, at, result>>

\* The text is at its end; the next pattern is looked for from its beginning.
Finish ==
    /\ pc = "scan" /\ CharAt(text, sp) = 0
    /\ Count
    /\ at' = at + 1 /\ sp' = 0 /\ pp' = 0
    /\ pc' = IF at = Len(patterns) THEN "sort" ELSE "scan"
    /\ UNCHANGED <<text, patterns, result>>

Output ==
    /\ pc = "sort"
    /\ result' \in qsort([x \in DOMAIN patterns |-> [p |-> patterns[x], count |-> count[x]]])
    /\ pc' = "done"
    /\ UNCHANGED <<text, patterns, at, sp, pp, count>>

Done == pc = "done" /\ UNCHANGED vars

Next == Scan \/ Finish \/ Output \/ Done

Spec == Init /\ [][Next]_vars

-----------------------------------------------------------------------------
(* Properties                                                              *)

\* Every occurrence, those that overlap included, is counted for its pattern:
\* while the scan goes on, those that begin before the attempt it is in the
\* middle of, and no other; in the end all, although it stops in the middle of
\* an attempt.  The sorted array has them all.
CountExact ==
    /\ pc = "scan" =>
          /\ pp \in 0..Len(pattern) /\ sp \in pp..Len(text)
          /\ \A x \in 0..pp - 1 : CharAt(text, sp - pp + x) = CharAt(pattern, x)
          /\ count[at] = OccurrencesBefore(text, pattern, sp - pp)
    /\ \A x \in 1..at - 1 : count[x] = Occurrences(text, patterns[x])
    /\ pc = "done" => ResultExact(result, text, patterns)
=============================================================================

-------------------------------- MODULE Kmp ---------------------------------
(***************************************************************************)
(* lab3-patmatch/Multikmp/multikmp.c: get_next(), which fills for each     *)
(* pattern the table of the places to go on at after a mismatch, and the   *)
(* scans of main(), one turn of a loop per step.  After a match a scan     *)
(* does not use the table: it goes back to the character after the one the *)
(* match began with.  In the end the patterns are sorted by their counts.  *)
(***************************************************************************)
EXTENDS Matching

CONSTANTS Texts,              \* sequences of characters, which are not 0
          PatternLists        \* sequences of such sequences; no pattern is empty

ASSUME KmpAssumption == AreStrings(Texts, PatternLists)

VARIABLES text, patterns,
          pc,                 \* "get_next", "scan", "sort" or "done"
          at,                 \* the pattern that is dealt with, from 1
          i, j,               \* locals of get_next()
          tables,             \* tables[x][y + 1]: patterns[x - 1].next[y]; filled so far
          k, v,               \* main(): positions in the text and the pattern
          count,              \* count[x]: patterns[x - 1].count
          result              \* the array after qsort()

vars == <<text, patterns, pc, at, i, j, tables, k, v, count, result>>
get_next_vars == <<i, j, tables>>
scan_vars == <<k, v, count>>

\* get_next() is entered.
Init == /\ text \in Texts /\ patterns \in PatternLists
        /\ pc = "get_next"
        /\ at = 1 /\ i = 0 /\ j = -1 /\ tables = << << -1 >> >>
        /\ k = 0 /\ v = 0
        /\ count = [x \in DOMAIN patterns |-> 0]
        /\ result = << >>

pattern == patterns[at]
next == tables[at]

\* Mutant: the next character is not compared.
ExtendPlain ==
    /\ pc = "get_next" /\ i < Len(pattern)
    /\ j # -1 => CharAt(pattern, i) = CharAt(pattern, j)
    /\ i' = i + 1 /\ j' = j + 1
    /\ tables' = [tables EXCEPT ![at] = Append(@, j + 1)]
    /\ UNCHANGED <<text, patterns, pc, at, scan_vars, result>>

\* The border of length j grows by a character.
Extend ==
    /\ pc = "get_next" /\ i < Len(pattern)
    /\ j # -1 => CharAt(pattern, i) = CharAt(pattern, j)
    /\ i' = i + 1 /\ j' = j + 1
    /\ tables' = [tables EXCEPT ![at] =
                    Append(@, IF CharAt(pattern, i + 1) # CharAt(pattern, j + 1)
                              THEN j + 1 ELSE next[j + 2])]
    /\ UNCHANGED <<text, patterns, pc, at, scan_vars, result>>

\* It does not: try a shorter one.
Shorten ==
    /\ pc = "get_next" /\ i < Len(pattern)
    /\ j # -1 /\ CharAt(pattern, i) # CharAt(pattern, j)
    /\ j' = next[j + 1]
    /\ UNCHANGED <<text, patterns, pc, at, i, tables, scan_vars, result>>

\* get_next() returns; the next pattern, or the scan of the text for the first.
NextTable ==
    /\ pc = "get_next" /\ i = Len(pattern)
    /\ IF at < Len(patterns)
       THEN at' = at + 1 /\ i' = 0 /\ j' = -1 /\ tables' = Append(tables, << -1 >>)
            /\ UNCHANGED pc
       ELSE at' = 1 /\ pc' = "scan" /\ UNCHANGED get_next_vars
    /\ UNCHANGED <<text, patterns, scan_vars, result>>

\* Mutant: the scan goes on behind the match.
RewindNot(x) == << x, 0 >>

\* Where a turn goes on after a match that ends before index x.
Rewind(x) == << x - (Len(pattern) - 1), 0 >>

\* Mutant: after next[v] = -1 the position in the text stays.
ScanStaying ==
    /\ pc = "scan" /\ k < Len(text)
    /\ LET found == v = Len(pattern)
           from == IF found THEN Rewind(k) ELSE << k, v >>
           same == CharAt(text, from[1]) = CharAt(pattern, from[2])
           other == next[from[2] + 1]
       IN  /\ count' = IF found THEN [count EXCEPT ![at] = @ + 1] ELSE count
           /\ k' = IF same THEN from[1] + 1 ELSE from[1]
           /\ v' = IF same THEN from[2] + 1 ELSE IF other = -1 THEN 0 ELSE other
    /\ UNCHANGED <<text, patterns, pc, at, get_next_vars, result>>

\* One turn of the loop: a match is counted, then a character is compared.
Scan ==
    /\ pc = "scan" /\ k < Len(text)
    /\ LET found == v = Len(pattern)
           from == IF found THEN Rewind(k) ELSE << k, v >>
           same == CharAt(text, from[1]) = CharAt(pattern, from[2])
           other == next[from[2] + 1]
       IN  /\ count' = IF found THEN [count EXCEPT ![at] = @ + 1] ELSE count
           /\ k' = IF same \/ other = -1 THEN from[1] + 1 ELSE from[1]
           /\ v' = IF same THEN from[2] + 1 ELSE IF other = -1 THEN 0 ELSE other
    /\ UNCHANGED <<text, patterns, pc, at, get_next_vars, result>>

\* The text is at its end: a match may end there, too.
Finish ==
    /\ pc = "scan" /\ k >= Len(text)
    /\ count' = IF v = Len(pattern) THEN [count EXCEPT ![at] = @ + 1] ELSE count
    /\ at' = at + 1 /\ k' = 0 /\ v' = 0
    /\ pc' = IF at = Len(patterns) THEN "sort" ELSE "scan"
    /\ UNCHANGED <<text, patterns, get_next_vars, result>>

Output ==
    /\ pc = "sort"
    /\ result' \in qsort([x \in DOMAIN patterns |-> [p |-> patterns[x], count |-> count[x]]])
    /\ pc' = "done"
    /\ UNCHANGED <<text, patterns, at, get_next_vars, scan_vars>>

Done == pc = "done" /\ UNCHANGED vars

Next == Extend \/ Shorten \/ NextTable \/ Scan \/ Finish \/ Output \/ Done

Spec == Init /\ [][Next]_vars

-----------------------------------------------------------------------------
(* Properties                                                              *)

\* The first n characters of the pattern p end its first m characters.
Border(p, n, m) == \A x \in 0..n - 1 : CharAt(p, x) = CharAt(p, m - n + x)

\* Where the scan may go on when the character after m matched ones differs:
\* shorter borders followed by another character.
GoOn(p, m) == {n \in 0..m - 1 : Border(p, n, m) /\ CharAt(p, n) # CharAt(p, m)}

\* The tables have the longest of them, at each place filled so far; none is
\* skipped, and the character that failed is not tried again.
NextIsLongest ==
    \A x \in DOMAIN tables : \A m \in 0..Len(tables[x]) - 1 :
        /\ tables[x][m + 1] \in GoOn(patterns[x], m) \cup {-1}
        /\ \A n \in GoOn(patterns[x], m) : n <= tables[x][m + 1]

\* The last v characters read are those the pattern begins with, and every
\* occurrence that begins before them, and no other, is counted for it; in the
\* end all are, those that overlap included, and the sorted array has them.
CountExact ==
    /\ pc = "scan" =>
          /\ k <= Len(text) /\ v <= Len(pattern)
          /\ \A x \in 0..v - 1 : CharAt(text, k - v + x) = CharAt(pattern, x)
          /\ count[at] = OccurrencesBefore(text, pattern, k - v)
    /\ pc # "get_next" =>
          \A x \in 1..at - 1 : count[x] = Occurrences(text, patterns[x])
    /\ pc = "done" => ResultExact(result, text, patterns)

\* The tables are right, and the scans that use them count right.
KmpExact == NextIsLongest /\ CountExact

\* Although the scans go back after a match they get to the end.
Terminates == <>(pc = "done")
=============================================================================

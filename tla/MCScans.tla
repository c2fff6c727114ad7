------------------------------ MODULE MCScans -------------------------------
(* TLC instance of lab3-patmatch's scans: the ones of strstr.c and then    *)
(* those of multikmp.c over the same text for the same patterns.           *)
EXTENDS Kmp

VARIABLES naive_pc, naive_at, sp, pp, naive_count, naive_result

\* All texts and patterns over two characters up to a length at which patterns
\* overlap themselves, have borders of borders, and occur more than twice, and
\* lists of patterns that begin or end each other.
ShortTexts == SeqOf({1, 2}, 6)
ShortPatterns == { << p >> : p \in SeqOf({1, 2}, 5) \ {<< >>} }
                 \cup { << <<1, 2>>, <<2>>, <<2, 1, 2>> >>, << <<1>>, <<1, 1>>, <<1>> >> }

Naive == INSTANCE StrStr WITH pc <- naive_pc, at <- naive_at, count <- naive_count,
                              result <- naive_result

kmp_vars == <<pc, at, get_next_vars, scan_vars, result>>
naive_vars == <<naive_pc, naive_at, sp, pp, naive_count, naive_result>>
mc_vars == <<vars, naive_vars>>

MCInit == Init /\ Naive!Init

MCNext == \/ Naive!Next /\ UNCHANGED kmp_vars
          \/ naive_pc = "done" /\ Next /\ UNCHANGED naive_vars

\* Both programs run to their ends.
MCSpec == MCInit /\ [][MCNext]_mc_vars /\ WF_mc_vars(MCNext)

\* strstr.c: every occurrence is counted for its pattern, those that overlap
\* included, although both pointers are set back after a match as after a mismatch
\* and the scan stops in the middle of an attempt.
NaiveExact == Naive!CountExact
=============================================================================

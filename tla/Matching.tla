------------------------------ MODULE Matching ------------------------------
(***************************************************************************)
(* What the matchers of lab3 are to find: the places of a text at which a  *)
(* pattern begins, overlapping ones included.  A string is a sequence of   *)
(* characters; the code's arrays are indexed from 0 and end with a NUL.    *)
(***************************************************************************)
EXTENDS Integers, Sequences, SequencesExt, FiniteSets

\* The character at index i of string s: NUL, which is 0, at its end.
CharAt(s, i) == IF i < Len(s) THEN s[i + 1] ELSE 0

\* What is read from the files of texts and patterns: strings without a NUL, and
\* lists of BF_KMP_PATTERN_LINES patterns, so of one at least, none of them empty.
AreStrings(texts, lists) ==
    /\ \A t \in texts : t \in Seq(Nat) /\ \A y \in DOMAIN t : t[y] # 0
    /\ \A list \in lists :
          /\ list \in Seq(Seq(Nat)) /\ list # << >>
          /\ \A x \in DOMAIN list :
                list[x] # << >> /\ \A y \in DOMAIN list[x] : list[x][y] # 0

Occurs(text, pattern, at) ==
    /\ at + Len(pattern) <= Len(text)
    /\ \A i \in 0..Len(pattern) - 1 : CharAt(text, at + i) = CharAt(pattern, i)

\* Those that begin before index n.
OccurrencesBefore(text, pattern, n) ==
    Cardinality({at \in 0..n - 1 : Occurs(text, pattern, at)})

Occurrences(text, pattern) == OccurrencesBefore(text, pattern, Len(text))

-----------------------------------------------------------------------------
(* The results of strstr.c and multikmp.c: records with the pattern, p, and *)
(* the number of its occurrences, count.                                    *)

cmp(a, b) == b.count - a.count

\* What qsort() may leave of the records a: an order that cmp() allows.
qsort(a) ==
    {b \in {[x \in DOMAIN a |-> a[f[x]]] : f \in Bijection(DOMAIN a, DOMAIN a)} :
        \A x \in 1..Len(b) - 1 : cmp(b[x], b[x + 1]) <= 0}

\* Every pattern comes with the number of its occurrences, and none before one
\* with more.
ResultExact(result, text, patterns) ==
    /\ \A x, y \in DOMAIN result : x < y => result[x].count >= result[y].count
    /\ \E f \in Bijection(DOMAIN result, DOMAIN patterns) :
          \A x \in DOMAIN result :
              result[x] = [p |-> patterns[f[x]],
                           count |-> Occurrences(text, patterns[f[x]])]
=============================================================================

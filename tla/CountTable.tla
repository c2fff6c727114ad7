----------------------------- MODULE CountTable -----------------------------
(***************************************************************************)
(* The hash table of lab3-patmatch/ac_auto/hash.h, in which main() of      *)
(* ac_auto.c counts the matches of each pattern, and the merges by which   *)
(* it makes one sorted list of all buckets.  A bucket is a sequence of     *)
(* entries, the one with the greatest count first.                         *)
(*                                                                         *)
(* The text has been read when the merges begin.  In round after round the *)
(* list of every second bucket left is merged into the one before it.  A   *)
(* merge is modelled turn by turn.                                         *)
(***************************************************************************)
EXTENDS Integers, Sequences

CONSTANTS Key,          \* the patterns, which are known by their addresses
          HASH_LENGTH,  \* how many buckets there are, at least one
          Hash,         \* the bucket of a pattern: APHash() % HASH_LENGTH
          MaxPuts       \* bound: the number of matches

VARIABLES hashtable,    \* hashtable[b]: the list of bucket b
          count,        \* main(): how often put() returned 1
          puts,         \* history: puts[s]: how often put(s) was called
          pc,           \* main(): "match", "round", "pair", "merge", "output"
          group, stride, i,     \* main(): the variables of the merge loops
          pa, pb, lc    \* merge(): what is left of the two lists, and the
                        \* merged list so far

vars == <<hashtable, count, puts, pc, group, stride, i, pa, pb, lc>>
table == <<hashtable, count, puts>>
loops == <<group, stride, i>>
lists == <<pa, pb, lc>>

Bucket == 0..HASH_LENGTH - 1

Init == /\ hashtable = [b \in Bucket |-> << >>]
        /\ count = 0
        /\ puts = [s \in Key |-> 0]
        /\ pc = "match"
        /\ group = HASH_LENGTH /\ stride = 1 /\ i = 0
        /\ pa = << >> /\ pb = << >> /\ lc = << >>

-----------------------------------------------------------------------------
(* put()                                                                   *)

Has(list, s) == \E x \in DOMAIN list : list[x].key = s
Place(list, s) == CHOOSE x \in DOMAIN list : list[x].key = s

\* The list in which the entry at e has value v and stands behind p < e others.
Moved(list, e, p, v) ==
    [x \in DOMAIN list |-> IF x <= p \/ x > e THEN list[x]
                           ELSE IF x = p + 1 THEN [list[e] EXCEPT !.value = v]
                           ELSE list[x - 1]]

\* The entry at x keeps its place before one with the value v.
Before(list, e, x, v) == x < e /\ list[x].value > v

\* Mutant: the entry always moves to the place behind the head.
BehindHead(list, e, v) == IF e = 1 \/ list[1].value < v THEN 0 ELSE 1

\* How many entries stand before the one at e, now of value v: it stays the
\* head, it becomes the head, or the loop finds the place.
Behind(list, e, v) ==
    IF e = 1 \/ list[1].value < v THEN 0
    ELSE CHOOSE p \in 1..e - 1 :
            /\ ~(Before(list, e, p, v) /\ Before(list, e, p + 1, v))
            /\ \A q \in 1..p - 1 : Before(list, e, q, v) /\ Before(list, e, q + 1, v)

\* A new key goes to the end of its list, a known one forward to its place.
put(s) ==
    LET b == Hash[s]
        list == hashtable[b]
        e == Place(list, s)
        v == list[e].value + 1
    IN  IF Has(list, s)
        THEN /\ hashtable' = [hashtable EXCEPT ![b] = Moved(list, e, Behind(list, e, v), v)]
             /\ UNCHANGED count
        ELSE /\ hashtable' = [hashtable EXCEPT ![b] = Append(list, [key |-> s, value |-> 1])]
             /\ count' = count + 1

Match(s) ==
    /\ pc = "match" /\ puts[s] < MaxPuts
    /\ put(s)
    /\ puts' = [puts EXCEPT ![s] = @ + 1]
    /\ UNCHANGED <<pc, loops, lists>>

EndOfText == /\ pc = "match"
             /\ pc' = "round"
             /\ UNCHANGED <<table, loops, lists>>

-----------------------------------------------------------------------------
(* The merge loops of main()                                               *)

\* group = ceil(group / 2.0)
RoundStart ==
    /\ pc = "round" /\ group # 1
    /\ group' = (group + 1) \div 2
    /\ i' = 0
    /\ pc' = "pair"
    /\ UNCHANGED <<table, stride, lists>>

RoundEnd ==
    /\ pc = "pair" /\ i = group
    /\ stride' = stride * 2
    /\ pc' = "round"
    /\ UNCHANGED <<table, group, i, lists>>

Output == /\ pc = "round" /\ group = 1
          /\ pc' = "output"
          /\ UNCHANGED <<table, loops, lists>>

\* The two buckets that the turn i merges, of which the second may not exist.
ea == i * 2 * stride
eb == i * 2 * stride + stride

NoPair ==
    /\ pc = "pair" /\ i < group /\ eb >= HASH_LENGTH
    /\ i' = i + 1
    /\ UNCHANGED <<table, pc, group, stride, lists>>

\* merge() with an empty first list.
MergeMove ==
    /\ pc = "pair" /\ i < group /\ eb < HASH_LENGTH
    /\ hashtable[ea] = << >>
    /\ hashtable' = [hashtable EXCEPT ![ea] = hashtable[eb], ![eb] = << >>]
    /\ i' = i + 1
    /\ UNCHANGED <<count, puts, pc, group, stride, lists>>

MergeStart ==
    /\ pc = "pair" /\ i < group /\ eb < HASH_LENGTH
    /\ hashtable[ea] # << >>
    /\ pa' = hashtable[ea] /\ pb' = hashtable[eb] /\ lc' = << >>
    /\ pc' = "merge"
    /\ UNCHANGED <<table, loops>>

\* One turn of its loop: the greater of the two heads is next.
MergeTurn ==
    /\ pc = "merge" /\ pa # << >> /\ pb # << >>
    /\ \/ /\ Head(pa).value > Head(pb).value
          /\ lc' = Append(lc, Head(pa)) /\ pa' = Tail(pa) /\ UNCHANGED pb
       \/ /\ Head(pa).value <= Head(pb).value
          /\ lc' = Append(lc, Head(pb)) /\ pb' = Tail(pb) /\ UNCHANGED pa
    /\ UNCHANGED <<table, pc, loops>>

\* *eb keeps pointing at an entry that is now within the list of *ea.
Stale(list, old) == IF old = << >> THEN << >>
                    ELSE SubSeq(list, Place(list, Head(old).key), Len(list))

\* What is left of one list is appended.
MergeEnd ==
    /\ pc = "merge" /\ (pa = << >> \/ pb = << >>)
    /\ LET merged == lc \o pa \o pb
       IN  hashtable' = [hashtable EXCEPT ![ea] = merged, ![eb] = Stale(merged, @)]
    /\ i' = i + 1
    /\ pc' = "pair"
    /\ pa' = << >> /\ pb' = << >> /\ lc' = << >>
    /\ UNCHANGED <<count, puts, group, stride>>

Done == pc = "output" /\ UNCHANGED vars

Next == \/ \E s \in Key : Match(s)
        \/ EndOfText
        \/ RoundStart \/ RoundEnd \/ Output
        \/ NoPair \/ MergeMove \/ MergeStart \/ MergeTurn \/ MergeEnd
        \/ Done

Spec == Init /\ [][Next]_vars

-----------------------------------------------------------------------------
(* Properties                                                              *)

Sorted(list) ==
    \A x, y \in DOMAIN list : x <= y => list[x].value >= list[y].value

\* The buckets that hold the entries: the rounds so far have left those at
\* multiples of stride, and this round has dealt with its first i pairs.
Live == {b \in Bucket : /\ b % stride = 0
                        /\ pc \in {"pair", "merge"} /\ b < ea => b % (2 * stride) = 0}

\* The lists, with the one that is being made in the place it is made for.
Lists == IF pc = "merge"
         THEN [hashtable EXCEPT ![ea] = lc \o pa \o pb, ![eb] = << >>]
         ELSE hashtable

\* The buckets b and places x at which s has an entry.
Places(s) == {p \in UNION {{b} \X DOMAIN Lists[b] : b \in Live} :
                 Lists[p[1]][p[2]].key = s}

\* An entry that is moved is neither lost nor doubled, nor is one of the lists
\* being merged: each pattern found has one entry, with the number of its
\* matches, and the others have none.
OneEntryEach ==
    \A s \in Key :
        IF puts[s] = 0 THEN Places(s) = {}
        ELSE \E p \in Places(s) : /\ Places(s) = {p}
                                  /\ Lists[p[1]][p[2]].value = puts[s]

\* "keep the order according to value" (put()): no sequence of increments and
\* no merge leaves a smaller count before a greater one.
OrderKept ==
    /\ pc # "merge" => \A b \in Live : Sorted(hashtable[b])
    /\ pc = "merge" => Sorted(lc \o pa) /\ Sorted(lc \o pb)

\* The rounds of merges end with all entries in the first list, whatever the
\* number of buckets: what main() writes is complete and in order.
OutputComplete ==
    pc = "output" => Live = {0} /\ Len(hashtable[0]) = count

\* Through put() and all rounds of merge() the table holds the counts.
CountsKept == OneEntryEach /\ OrderKept /\ OutputComplete
=============================================================================

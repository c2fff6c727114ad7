------------------------------- MODULE AcAuto -------------------------------
(***************************************************************************)
(* The automaton of lab3-patmatch/ac_auto: build_pattern() makes a trie of *)
(* the patterns, set_fs() gives every node the state to fall back to, in   *)
(* breadth-first order, and processing() reads the text, one character a   *)
(* call.  Each turn of a loop is a step.  What put() (hash.h) does with    *)
(* the matches is count them; module CountTable models how.                *)
(*                                                                         *)
(* The root is tagged by a matchlist of 1, a list that is never followed   *)
(* nor changed; here it is empty, and the root is known by its address.    *)
(***************************************************************************)
EXTENDS Matching, SequencesExt

CONSTANTS Lines,        \* the lines of pattern.txt, sequences of characters
          Char,         \* the characters of string.txt before its NUL
          MaxText       \* bound: how many of them there are at most

\* A character is a number, and not 0.
ASSUME AcAutoAssumption == Lines \subseteq Seq(Nat \ {0}) /\ Char \subseteq Nat \ {0}

VARIABLES node,         \* node[n]: the NODE at n; 1, 2, ... as allocated; its
                        \* str (history) is the string that leads to it
          pc,           \* where main() is: "build" a line, or "advance" in
                        \* build_pattern(); "set_fs", or "fail" in its walk; to
                        \* "match" a text, or "process" in processing(); "done"
          str,          \* build_pattern(): the pattern
          current_node, \* build_pattern(), set_fs(): as in the code
          i,            \* build_pattern(): how much of str has been read
          queue,        \* Q of set_fs()
          edges,        \* set_fs(): the edges of current_node still to do
          fail_state,   \* set_fs(): as in the code; processing(): state
          char,         \* the character that the walk over fail states is for
          state,        \* next_state of main()
          count,        \* count[s]: how often put(s) was called
          lines,        \* history: the strings passed to build_pattern()
          text          \* history: the characters processed

vars == <<node, pc, str, current_node, i, queue, edges, fail_state, char,
          state, count, lines, text>>
build_vars == <<str, current_node, i>>
set_fs_vars == <<queue, edges>>
walk_vars == <<fail_state, char>>
match_vars == <<state, count, text>>

Null == 0
Root == 1

NewNode(s) == [str |-> s, fs |-> Null, edgelist |-> << >>, matchlist |-> << >>]

Init == /\ node = << [NewNode(<< >>) EXCEPT !.fs = Root] >>
        /\ pc = "build"
        /\ str = << >> /\ current_node = Root /\ i = 0
        /\ queue = << >> /\ edges = << >>
        /\ fail_state = Root /\ char = 0
        /\ state = Root
        /\ count = [s \in Lines |-> 0]
        /\ lines = {}
        /\ text = << >>

\* Where c leads from node n.
ac_goto(n, c) ==
    LET hits == {x \in DOMAIN node[n].edgelist : node[n].edgelist[x].c = c}
    IN  IF hits # {} THEN node[n].edgelist[Min(hits)].p
        ELSE IF n = Root THEN Root ELSE Null

no_such_string(list, s) == ~Contains(list, s)

\* Mutant: only an empty list is added to.
PutIfEmpty(list, s) == IF list = << >> THEN << s >> ELSE list

\* The list with the string s at its head, unless it has it.
Put(list, s) == IF no_such_string(list, s) THEN << s >> \o list ELSE list

-----------------------------------------------------------------------------
(* build_pattern()                                                         *)

\* main() passes it a line of the pattern file.
ReadLine(s) ==
    /\ pc = "build"
    /\ str' = s /\ current_node' = Root /\ i' = 0
    /\ pc' = "advance"
    /\ UNCHANGED <<node, set_fs_vars, walk_vars, match_vars, lines>>

\* The next character has an edge,
FollowEdge ==
    /\ pc = "advance" /\ i < Len(str)
    /\ LET temp == ac_goto(current_node, str[i + 1])
       IN  /\ temp \notin {Null, current_node}
           /\ current_node' = temp
    /\ i' = i + 1
    /\ UNCHANGED <<node, pc, str, set_fs_vars, walk_vars, match_vars, lines>>

\* or gets one, which leads to a new node.
AddEdge ==
    /\ pc = "advance" /\ i < Len(str)
    /\ LET c == str[i + 1]
           new == Len(node) + 1
       IN  /\ ac_goto(current_node, c) \in {Null, current_node}
           /\ node' = Append([node EXCEPT ![current_node].edgelist =
                                 << [c |-> c, p |-> new] >> \o @],
                             NewNode(Append(node[current_node].str, c)))
           /\ current_node' = new
    /\ i' = i + 1
    /\ UNCHANGED <<pc, str, set_fs_vars, walk_vars, match_vars, lines>>

\* A string that is known, or empty, adds nothing.
EndOfLine ==
    /\ pc = "advance" /\ i = Len(str)
    /\ node' = IF current_node = Root THEN node
               ELSE [node EXCEPT ![current_node].matchlist = Put(@, str)]
    /\ lines' = lines \cup {str}
    /\ str' = << >> /\ current_node' = Root /\ i' = 0
    /\ pc' = "build"
    /\ UNCHANGED <<set_fs_vars, walk_vars, match_vars>>

-----------------------------------------------------------------------------
(* set_fs()                                                                *)

Targets(n) == [x \in DOMAIN node[n].edgelist |-> node[n].edgelist[x].p]

\* The nodes next to the root fall back to it.
SetFirstLevel ==
    /\ pc = "build"
    /\ node' = [n \in DOMAIN node |-> IF Contains(Targets(Root), n)
                                      THEN [node[n] EXCEPT !.fs = Root] ELSE node[n]]
    /\ queue' = Targets(Root)
    /\ pc' = "set_fs"
    /\ UNCHANGED <<build_vars, edges, walk_vars, match_vars, lines>>

\* dequeue(), and the loop over the edges begins.
Dequeue ==
    /\ pc = "set_fs" /\ edges = << >> /\ queue # << >>
    /\ current_node' = Head(queue) /\ queue' = Tail(queue)
    /\ edges' = node[Head(queue)].edgelist
    /\ UNCHANGED <<node, pc, str, i, walk_vars, match_vars, lines>>

\* The walk for an edge begins at the fail state of its source.
NextEdge ==
    /\ pc = "set_fs" /\ edges # << >>
    /\ fail_state' = node[current_node].fs /\ char' = Head(edges).c
    /\ pc' = "fail"
    /\ UNCHANGED <<node, build_vars, set_fs_vars, match_vars, lines>>

\* A turn of the loop over fail states, in set_fs() and in processing(): char
\* leads nowhere.  (In set_fs() the fs of the edge's target becomes NULL, which it
\* is already.)
FallBack ==
    /\ pc \in {"fail", "process"} /\ ac_goto(fail_state, char) = Null
    /\ fail_state' = node[fail_state].fs
    /\ UNCHANGED <<node, pc, build_vars, set_fs_vars, char, match_vars, lines>>

merge_matchlist(target, source) ==
    LET merged[k \in 0..Len(source)] ==
            IF k = 0 THEN target ELSE Put(merged[k - 1], source[k])
    IN  merged[Len(source)]

\* Mutant: the queue is a stack.
PushInstead(q, n) == << n >> \o q

enqueue(q, n) == Append(q, n)

\* It leads somewhere: that is the fail state of the edge's target.
SetFail ==
    /\ pc = "fail" /\ ac_goto(fail_state, char) # Null
    /\ LET child == Head(edges).p
           fs == ac_goto(fail_state, char)
       IN  /\ node' = [node EXCEPT ![child].fs = fs,
                                   ![child].matchlist = merge_matchlist(@, node[fs].matchlist)]
           /\ queue' = enqueue(queue, child)
    /\ edges' = Tail(edges)
    /\ pc' = "set_fs"
    /\ UNCHANGED <<build_vars, walk_vars, match_vars, lines>>

EmptyQueue ==
    /\ pc = "set_fs" /\ edges = << >> /\ queue = << >>
    /\ pc' = "match"
    /\ UNCHANGED <<node, build_vars, set_fs_vars, walk_vars, match_vars, lines>>

-----------------------------------------------------------------------------
(* The loop over the text                                                  *)

\* processing() is called with the next character.
ReadChar(c) ==
    /\ pc = "match" /\ Len(text) < MaxText
    /\ fail_state' = state /\ char' = c
    /\ pc' = "process"
    /\ UNCHANGED <<node, build_vars, set_fs_vars, match_vars, lines>>

\* It returns the matchlist of the new state, whose strings are counted.
Match ==
    /\ pc = "process" /\ ac_goto(fail_state, char) # Null
    /\ state' = ac_goto(fail_state, char)
    /\ LET list == node[state'].matchlist
       IN  count' = [s \in Lines |->
                       count[s] + Cardinality({x \in DOMAIN list : list[x] = s})]
    /\ text' = Append(text, char)
    /\ pc' = "match"
    /\ UNCHANGED <<node, build_vars, set_fs_vars, walk_vars, lines>>

\* fgetc() returns the NUL.
EndOfText ==
    /\ pc = "match"
    /\ pc' = "done"
    /\ UNCHANGED <<node, build_vars, set_fs_vars, walk_vars, match_vars, lines>>

Done == pc = "done" /\ UNCHANGED vars

Next == \/ \E s \in Lines : ReadLine(s)
        \/ FollowEdge \/ AddEdge \/ EndOfLine
        \/ SetFirstLevel \/ Dequeue \/ NextEdge \/ FallBack \/ SetFail \/ EmptyQueue
        \/ \E c \in Char : ReadChar(c)
        \/ Match \/ EndOfText \/ Done

Spec == Init /\ [][Next]_vars

-----------------------------------------------------------------------------
(* Properties                                                              *)

Node == DOMAIN node
Suffix(s, t) == IsSuffix(s, t)

\* The empty string is no pattern.
Patterns == lines \ {<< >>}

\* n is the deepest of the nodes ns whose string ends the string t.
Deepest(n, ns, t) ==
    /\ n \in ns /\ Suffix(node[n].str, t)
    /\ \A m \in ns : Suffix(node[m].str, t) => Len(node[m].str) <= Len(node[n].str)

\* Nodes set_fs() has dealt with.
Ready == {n \in Node \ {Root} : node[n].fs # Null}

\* The fail state of a node stands for the longest proper end of its string
\* that can still become a match, and the state, while the text is read, for
\* the longest such end of what has been read.  A node that has its fail state
\* lists all patterns that end its string, each once: the lists it took over
\* were complete.
FailIsLongest ==
    /\ \A n \in Ready :
          /\ Deepest(node[n].fs, Node \ {n}, node[n].str)
          /\ ToSet(node[n].matchlist) = {s \in Patterns : Suffix(s, node[n].str)}
          /\ IsInjective(node[n].matchlist)
    /\ Deepest(state, Node, text)

\* Every occurrence of every pattern in what has been read is counted once,
\* occurrences within and across others included.
CountsExact ==
    \A s \in Patterns : count[s] = Occurrences(text, s)
=============================================================================

------------------------------ MODULE UrlTrie -------------------------------
(***************************************************************************)
(* The trie behind url_persistence() of lab4-crawler/bcrawler.h.  A node   *)
(* has a list of edges, newest first, and the PATTERN that ends at it; the *)
(* root is tagged by a matchlist of 1, which makes state_goto() return the *)
(* root itself when it has no edge for a character.                        *)
(*                                                                         *)
(* recv_thread is the only caller, so one call follows the other.  Each    *)
(* turn of the loop over the string is a step, and so is what follows it.  *)
(***************************************************************************)
EXTENDS Integers, Sequences, SequencesExt

CONSTANTS Str,          \* the strings passed in, sequences of characters
          Linker        \* the ids passed in as linked_by

VARIABLES node,         \* node[n]: the NODE at n; 1, 2, ... as allocated; its
                        \* str (history) is the string that leads to it
          current_id,   \* static int current_id
          pc,           \* "walk" in url_persistence(), "ready" between calls
          str, linked_by,       \* its arguments
          current_node, \* as in the code
          i,            \* sp: how much of str has been read
          result,       \* what the last call returned
          called        \* history: the arguments of all calls that returned

vars == <<node, current_id, pc, str, linked_by, current_node, i, result, called>>

Null    == 0
Root    == 1
NoMatch == [url_id |-> 0, linklist |-> << >>]
RootTag == [url_id |-> -1, linklist |-> << >>]

NewNode(s) == [str |-> s, edgelist |-> << >>, matchlist |-> NoMatch]

\* main() clears the root and tags it.
Init == /\ node = << [NewNode(<< >>) EXCEPT !.matchlist = RootTag] >>
        /\ current_id = 1
        /\ pc = "ready"
        /\ str = << >> /\ linked_by = 0 /\ current_node = Root /\ i = 0
        /\ result = -1
        /\ called = {}

\* Where character c leads from node n.
state_goto(n, c) ==
    LET hits == {x \in DOMAIN node[n].edgelist : node[n].edgelist[x].c = c}
    IN  IF hits # {} THEN node[n].edgelist[Min(hits)].p
        ELSE IF node[n].matchlist = RootTag THEN n ELSE Null

-----------------------------------------------------------------------------
(* url_persistence()                                                       *)

Call(s, by) ==
    /\ pc = "ready"
    /\ str' = s /\ linked_by' = by /\ current_node' = Root /\ i' = 0
    /\ pc' = "walk"
    /\ UNCHANGED <<node, current_id, result, called>>

\* Mutant: the test for having stayed at the root is left out.
FollowEdgeAtRoot ==
    /\ pc = "walk" /\ i < Len(str)
    /\ state_goto(current_node, str[i + 1]) # Null
    /\ current_node' = state_goto(current_node, str[i + 1])
    /\ i' = i + 1
    /\ UNCHANGED <<node, current_id, pc, str, linked_by, result, called>>

\* The next character has an edge,
FollowEdge ==
    /\ pc = "walk" /\ i < Len(str)
    /\ LET temp == state_goto(current_node, str[i + 1])
       IN  /\ temp \notin {Null, current_node}
           /\ current_node' = temp
    /\ i' = i + 1
    /\ UNCHANGED <<node, current_id, pc, str, linked_by, result, called>>

\* Mutant: the new edge replaces the list instead of heading it.
EdgeAlone(list, e) == << e >>

\* The list with the edge e at its head.
WithEdge(list, e) == << e >> \o list

\* or gets one, which leads to a new node.
AddEdge ==
    /\ pc = "walk" /\ i < Len(str)
    /\ LET c == str[i + 1]
           new == Len(node) + 1
       IN  /\ state_goto(current_node, c) \in {Null, current_node}
           /\ node' = Append([node EXCEPT ![current_node].edgelist =
                                 WithEdge(@, [c |-> c, p |-> new])],
                             NewNode(Append(node[current_node].str, c)))
           /\ current_node' = new
    /\ i' = i + 1
    /\ UNCHANGED <<current_id, pc, str, linked_by, result, called>>

Return(r) ==
    /\ result' = r
    /\ called' = called \cup {<<str, linked_by>>}
    /\ pc' = "ready"
    /\ str' = << >> /\ linked_by' = 0 /\ current_node' = Root /\ i' = 0

\* The string has been read.  A node without a PATTERN gets one.
NewPattern ==
    /\ pc = "walk" /\ i = Len(str)
    /\ node[current_node].matchlist = NoMatch
    /\ node' = [node EXCEPT ![current_node].matchlist =
                   [url_id |-> current_id, linklist |-> << linked_by >>]]
    /\ current_id' = current_id + 1
    /\ Return(current_id)

\* A node with a PATTERN gets linked_by at the head of its list, once.
OldPattern ==
    /\ pc = "walk" /\ i = Len(str)
    /\ node[current_node].matchlist \notin {NoMatch, RootTag}
    /\ node' = IF Contains(node[current_node].matchlist.linklist, linked_by) THEN node
               ELSE [node EXCEPT ![current_node].matchlist.linklist = << linked_by >> \o @]
    /\ Return(-1)
    /\ UNCHANGED current_id

\* The empty string ends at the root.
AtRoot ==
    /\ pc = "walk" /\ i = Len(str)
    /\ node[current_node].matchlist = RootTag
    /\ Return(-1)
    /\ UNCHANGED <<node, current_id>>

Next == \/ \E s \in Str, by \in Linker : Call(s, by)
        \/ FollowEdge \/ AddEdge
        \/ NewPattern \/ OldPattern \/ AtRoot

Spec == Init /\ [][Next]_vars

-----------------------------------------------------------------------------
(* dump_link()                                                             *)

Node == DOMAIN node

Targets(n) == {node[n].edgelist[x].p : x \in DOMAIN node[n].edgelist}

\* The nodes that dump_link(start) and the calls it makes of itself are given:
\* the least set that has start and the targets of its members' edges.
Dumped(start) ==
    {n \in Node : \A ns \in SUBSET Node :
                     start \in ns /\ (\A m \in ns : Targets(m) \subseteq ns) => n \in ns}

\* The lines written for one of them.
LinesOf(n) == {[link |-> l, id |-> node[n].matchlist.url_id] :
                  l \in ToSet(node[n].matchlist.linklist)}

dump_link(start) == UNION {LinesOf(n) : n \in Dumped(start)}

-----------------------------------------------------------------------------
(* Properties                                                              *)

\* The PATTERN of the string s, if it has one.
PatternOf(s) ==
    LET ends == {n \in Node : node[n].str = s}
    IN  IF ends = {} THEN NoMatch ELSE node[CHOOSE n \in ends : TRUE].matchlist

Urls == Str \ {<< >>}

Index == INSTANCE UrlIndex
         WITH Url <- Urls, Empty <- << >>,
              url_id <- [s \in Urls |-> PatternOf(s).url_id],
              links <- [s \in Urls |-> ToSet(PatternOf(s).linklist)]

\* The trie is an index of urls: a call changes the entry of its own string
\* and no other, whatever prefixes the strings share.
ImplementsIndex == Index!Spec

\* No node is dumped twice: one edge at most leads to each, and none to the root.
OneWay ==
    /\ Root \notin UNION {Targets(n) : n \in Node}
    /\ \A n, m \in Node : n # m => Targets(n) \cap Targets(m) = {}
    /\ \A n \in Node : \A x, y \in DOMAIN node[n].edgelist :
          node[n].edgelist[x].p = node[n].edgelist[y].p => x = y

\* dump_link() from the root writes a page as linking to a url, under the url's
\* id, exactly when some call, before or after any call with a prefix or an
\* extension of the url, passed the two; no line is written twice.  The walk of
\* a call may not end at a node of another string, above all not at the root,
\* where state_goto() answers every character.
DumpIsLinks ==
    /\ OneWay
    /\ \A n \in Node : IsInjective(node[n].matchlist.linklist)
    /\ dump_link(Root) = {[link |-> c[2], id |-> PatternOf(c[1]).url_id] :
                             c \in {d \in called : d[1] # << >>}}
=============================================================================

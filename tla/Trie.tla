-------------------------------- MODULE Trie --------------------------------
(***************************************************************************)
(* The trie of lab2-tree/Trie.h.  It branches on two bits at a time: four  *)
(* levels for a byte.  A string is the sequence of its 2-bit digits, its   *)
(* end is not marked by a node but in the last node on its way, by a bit   *)
(* of `branch' for each of the four directions.                            *)
(***************************************************************************)
EXTENDS Naturals, Sequences

CONSTANTS Str,        \* the lines of the pattern file, as digits
          FirstLine   \* what its first line may be

VARIABLES node,       \* node[n]: the node at n; 1, 2, ... as allocated
          last        \* the last insertion: << the string, was it new >>

vars == <<node, last>>

Null == 0
Root == 1       \* t->root, once there is a node

Init == /\ node = << >>
        /\ last = << >>

NewNode(pos, branch) ==
    [child |-> << Null, Null, Null, Null >>, pos |-> pos, branch |-> branch]

Child(nd, n, digit) == nd[n].child[digit + 1]

\* insert() of the empty string: it is kept as bit 0 of the root's branch.
InsertEmpty(nd) ==
    IF nd = << >> THEN [node |-> << NewNode(1, {0}) >>, new |-> TRUE]
    ELSE IF nd[Root].branch = {}
    THEN [node |-> [nd EXCEPT ![Root].branch = {0}], new |-> TRUE]
    ELSE [node |-> nd, new |-> FALSE]

\* Mutant: a string that ends inside the tree is taken for known.
RECURSIVE WalkPastEnd(_, _, _, _)
WalkPastEnd(nd, prev, k, u) ==
    LET n == IF k > 0 THEN Child(nd, prev, u[k]) ELSE IF nd = << >> THEN Null ELSE Root
        ends == k + 1 = Len(u)
        new == NewNode(k, IF ends THEN {u[k + 1]} ELSE {})
        linked == IF k = 0 THEN nd
                  ELSE [nd EXCEPT ![prev].child[u[k] + 1] = Len(nd) + 1]
    IN  IF k = Len(u) THEN [node |-> nd, new |-> TRUE]
        ELSE IF n = Null THEN WalkPastEnd(Append(linked, new), Len(nd) + 1, k + 1, u)
        ELSE IF ends THEN [node |-> nd, new |-> FALSE]
        ELSE WalkPastEnd(nd, n, k + 1, u)

\* The two loops of insert(), after k digits, with prev the node of digit k.
RECURSIVE Walk(_, _, _, _)
Walk(nd, prev, k, u) ==
    LET n == IF k > 0 THEN Child(nd, prev, u[k]) ELSE IF nd = << >> THEN Null ELSE Root
        ends == k + 1 = Len(u)
        new == NewNode(k, IF ends THEN {u[k + 1]} ELSE {})
        linked == IF k = 0 THEN nd
                  ELSE [nd EXCEPT ![prev].child[u[k] + 1] = Len(nd) + 1]
    IN  IF k = Len(u) THEN [node |-> nd, new |-> TRUE]
        ELSE IF n = Null THEN Walk(Append(linked, new), Len(nd) + 1, k + 1, u)
        ELSE IF ends THEN [node |-> [nd EXCEPT ![n].branch = @ \cup {u[k + 1]}],
                           new |-> u[k + 1] \notin nd[n].branch]
        ELSE Walk(nd, n, k + 1, u)

insert(u) == LET r == IF u = << >> THEN InsertEmpty(node)
                      ELSE Walk(node, Null, 0, u)
             IN  /\ node' = r.node
                 /\ last' = << u, r.new >>

\* search_tree(), from node p on.
RECURSIVE SearchFrom(_, _)
SearchFrom(p, u) ==
    IF p = Null THEN FALSE
    ELSE LET pos == node[p].pos
         IN  IF pos >= Len(u) THEN FALSE
             ELSE IF pos = Len(u) - 1 THEN u[pos + 1] \in node[p].branch
             ELSE SearchFrom(Child(node, p, u[pos + 1]), u)

search_tree(u) == IF node = << >> THEN FALSE
                  ELSE IF u = << >> THEN node[Root].branch # {}
                  ELSE SearchFrom(Root, u)

\* main() inserts one line after the other.
Next == \E u \in Str : (node = << >> => u \in FirstLine) /\ insert(u)

Spec == Init /\ [][Next]_vars

-----------------------------------------------------------------------------
(* Properties                                                              *)

Dict == INSTANCE Dictionary WITH stored <- {u \in Str : search_tree(u)}

\* A search finds exactly the strings inserted, and an insertion reports
\* truly whether its string was new, whatever digits the strings share.
ImplementsDictionary == Dict!Spec
=============================================================================

----------------------------- MODULE BPlusTree ------------------------------
(***************************************************************************)
(* The B+ tree of lab2-tree/BPlusTree.h, at the level of its nodes: arrays *)
(* of keys and pointers, parent pointers, and the chain of leaves.  Keys   *)
(* are in descending order, and the key of a child in its parent is the    *)
(* GREATEST key of the child.  A string is its rank, a number.  A search   *)
(* counts the keys that are not smaller than the string.                   *)
(*                                                                         *)
(* Arrays are C arrays: they have M + 1 places, indexed from 0, and keep   *)
(* what was in them beyond keynum.                                         *)
(***************************************************************************)
EXTENDS Integers, FiniteSets, Sequences

CONSTANTS M,          \* the capacity of a node (8 in the code)
          Key,        \* the ranks of the strings
          NULL

VARIABLES node,       \* node[n]: the node at address n; 1, 2, ... in the
                      \* order of allocation
          data,       \* B_T->data, the first leaf
          root,       \* B_T->root
          last        \* the last insertion: << the string, was it new >>

vars == <<node, data, root, last>>

Init == /\ node = << >>
        /\ data = NULL
        /\ root = NULL
        /\ last = << >>

Index == 0..M

\* Mutant: a key that equals str is not counted.
SearchStrict(q, str) == Cardinality({i \in 0..q.keynum - 1 : str < q.key[i]})

\* The number of keys of q that are not smaller than str.
Search(q, str) == Cardinality({i \in 0..q.keynum - 1 : str <= q.key[i]})

\* SearchB_Tree() below node p: where the string is (i = its index) or where
\* it would be inserted.
RECURSIVE SearchFrom(_, _, _)
SearchFrom(nd, p, str) ==
    LET i == Search(nd[p], str)
    IN  IF nd[p].leaf
        THEN IF i > 0 /\ nd[p].key[i - 1] = str
             THEN [pt |-> p, i |-> i - 1, tag |-> 1]
             ELSE [pt |-> p, i |-> i, tag |-> 0]
        ELSE SearchFrom(nd, nd[p].ptr[IF i > 0 THEN i - 1 ELSE 0], str)

SearchB_Tree(nd, r, str) ==
    IF r = NULL THEN [pt |-> NULL, i |-> 0, tag |-> 0]
    ELSE SearchFrom(nd, r, str)

-----------------------------------------------------------------------------
(* Operators on the nodes nd, which return the nodes after a step.         *)

\* The loop at the end of Insert(): str, the new greatest key of a node, takes
\* the place of the old one, x, in the ancestors from p on.
RECURSIVE Ancestors(_, _, _, _, _)
Ancestors(nd, p, i, x, str) ==
    IF i # 0 \/ p = NULL THEN nd
    ELSE LET k == Search(nd[p], x) - 1
         IN  Ancestors([nd EXCEPT ![p].key[k] = str], nd[p].parent, k, x, str)

Shifted(a, i, n, v) ==
    [j \in Index |-> IF j < i \/ j > n THEN a[j] ELSE IF j = i THEN v ELSE a[j - 1]]

\* Mutant: the ancestors keep the old greatest key.
InsertOnly(nd, q, i, str, ap) ==
    [nd EXCEPT ![q].key = Shifted(@, i, nd[q].keynum, str),
               ![q].ptr = Shifted(@, i, nd[q].keynum, ap),
               ![q].keynum = @ + 1]

Insert(nd, q, i, str, ap) ==
    LET new == [nd EXCEPT ![q].key = Shifted(@, i, nd[q].keynum, str),
                          ![q].ptr = Shifted(@, i, nd[q].keynum, ap),
                          ![q].keynum = @ + 1]
    IN  Ancestors(new, nd[q].parent, i, new[q].key[1], str)

\* What split() moves to the node ap.
UpperHalf(nd, q, s) ==
    LET Moved(a) == [j \in Index |-> IF j + s + 1 <= M THEN a[j + s + 1] ELSE NULL]
    IN  [nd[q] EXCEPT !.key = Moved(@), !.ptr = Moved(@), !.keynum = M - s]

split(nd, q, s) ==
    LET ap  == Len(nd) + 1
        new == UpperHalf(nd, q, s)
        moved == {new.ptr[j] : j \in 0..new.keynum - 1}
    IN  Append([n \in DOMAIN nd |->
                   IF n = q THEN [nd[n] EXCEPT !.keynum = s + 1,
                                               !.next = IF nd[n].leaf THEN ap ELSE @]
                   ELSE IF n \in moved THEN [nd[n] EXCEPT !.parent = ap]
                   ELSE nd[n]],
               new)

\* ceil(M/2)
Half == (M + 1) \div 2

\* The loop of InsertB_Tree(): insert at q, and as long as a node overflows
\* split it and insert the upper half in its parent.  What is left to do when
\* q has become NULL is for NewRoot().
RECURSIVE Climb(_, _, _, _, _)
Climb(nd, q, i, x, ap) ==
    IF q = NULL THEN [node |-> nd, finished |-> FALSE, x |-> x, ap |-> ap]
    ELSE LET new == Insert(nd, q, i, x, ap)
         IN  IF new[q].keynum <= M
             THEN [node |-> new, finished |-> TRUE, x |-> x, ap |-> ap]
             ELSE LET sp == split(new, q, Half)
                      up == sp[q].parent
                      y  == sp[q].key[Half + 1]    \* beyond keynum, still there
                  IN  Climb(sp, up, IF up = NULL THEN i ELSE Search(sp[up], y),
                            y, Len(sp))

Blank == [j \in Index |-> NULL]

\* NewRoot(): the first leaf, or a node above the old root and ap.
NewRoot(nd, x, ap) ==
    LET p == Len(nd) + 1
    IN  /\ root' = p
        /\ \/ /\ root = NULL
              /\ node' = << [keynum |-> 1, parent |-> NULL, leaf |-> TRUE,
                             next |-> NULL, key |-> [Blank EXCEPT ![0] = x],
                             ptr |-> Blank] >>
              /\ data' = p
           \/ /\ root # NULL
              /\ node' = Append([nd EXCEPT ![root].parent = p, ![ap].parent = p],
                    [keynum |-> 2, parent |-> NULL, leaf |-> FALSE, next |-> NULL,
                     key |-> [Blank EXCEPT ![0] = nd[root].key[0], ![1] = x],
                     ptr |-> [Blank EXCEPT ![0] = root, ![1] = ap]])
              /\ UNCHANGED data

\* InsertKey(), for one line of the pattern file after the other.
InsertKey(str) ==
    LET R == SearchB_Tree(node, root, str)
        c == Climb(node, R.pt, R.i, str, NULL)
    IN  \/ /\ R.tag = 0
           /\ last' = << str, TRUE >>
           /\ \/ c.finished /\ node' = c.node /\ UNCHANGED <<data, root>>
              \/ ~c.finished /\ NewRoot(c.node, c.x, c.ap)
        \/ /\ R.tag = 1
           /\ last' = << str, FALSE >>
           /\ UNCHANGED <<node, data, root>>

Next == \E str \in Key : InsertKey(str)

Spec == Init /\ [][Next]_vars

-----------------------------------------------------------------------------
(* Properties                                                              *)

Node == DOMAIN node
Used(n) == 0..node[n].keynum - 1

\* A key of an inner node is the greatest key of its child, however often the
\* child was split or got a new greatest key, and the child knows its parent.
KeysMirrorChildren ==
    \A n \in Node : ~node[n].leaf =>
        \A i \in Used(n) : LET child == node[n].ptr[i]
                           IN  /\ node[n].key[i] = node[child].key[0]
                               /\ node[child].parent = n

\* No node overflows, every node but the root is at least half full, and keys
\* descend within a node.
Filled ==
    \A n \in Node : /\ node[n].keynum <= M
                    /\ node[n].keynum >= IF n = root THEN 1 ELSE M \div 2
                    /\ \A i \in Used(n) : i > 0 => node[n].key[i] < node[n].key[i - 1]

RECURSIVE Depth(_), Chain(_)
Depth(n) == IF n = root THEN 0 ELSE 1 + Depth(node[n].parent)
Chain(n) == IF n = NULL THEN << >> ELSE << n >> \o Chain(node[n].next)

\* All leaves are at the same depth, and the chain from data visits each of
\* them once, in descending order of keys.
LeavesInOrder ==
    LET leaves == {n \in Node : node[n].leaf}
        ch == Chain(data)
    IN  /\ \A m, n \in leaves : Depth(m) = Depth(n)
        /\ {ch[i] : i \in DOMAIN ch} = leaves
        /\ \A i \in 1..Len(ch) - 1 :
              node[ch[i + 1]].key[0] < node[ch[i]].key[node[ch[i]].keynum - 1]

\* However strings are inserted, the nodes are those of a B+ tree.
NodesInOrder == KeysMirrorChildren /\ Filled /\ LeavesInOrder

Dict == INSTANCE Dictionary
        WITH Str <- Key,
             stored <- {k \in Key : SearchB_Tree(node, root, k).tag = 1}

\* A search finds exactly the strings inserted, and an insertion reports
\* truly whether its string was new.
ImplementsDictionary == Dict!Spec
=============================================================================

----------------------------- MODULE RadixTree ------------------------------
(***************************************************************************)
(* The radix tree of lab2-tree/RadixTree.h: the four-way trie, with the    *)
(* strings at its leaves, that shrink() compresses once all patterns are   *)
(* in, by taking out the nodes with one child at which no string ends.     *)
(* A string is the sequence of its 2-bit digits.  What a `void *' of the   *)
(* code points to is a record with a kind: a node, a string (the pointer   *)
(* is odd), the mark 1 in t->root, or nothing.                             *)
(*                                                                         *)
(* insert() does not clear the nodes it allocates.  Nothing is freed until *)
(* all insertions are done, so malloc() returns fresh memory, which is     *)
(* zero: a new node has no children and no branches.                       *)
(***************************************************************************)
EXTENDS Naturals, FiniteSets, Sequences

CONSTANTS Str         \* the lines of the files, as digits

VARIABLES root,       \* t->root
          phase,      \* main(): "insert", "search", or "crashed"
          last,       \* history: the last insertion of a non-empty line,
                      \* << the string, was it new >>
          empty_line  \* history: an empty line has been inserted

vars == <<root, phase, last, empty_line>>

Null == [kind |-> "null"]
Mark == [kind |-> "mark"]
Leaf(u) == [kind |-> "leaf", str |-> u]

Init == /\ root = Null
        /\ phase = "insert"
        /\ last = << >>
        /\ empty_line = FALSE

-----------------------------------------------------------------------------
(* insert()                                                                *)

\* The loops of insert() at subtree t after k digits.  A string at the place
\* of a node gives way to one; the branch bit above keeps it known.
RECURSIVE Walk(_, _, _)
Walk(t, k, u) ==
    LET d == u[k + 1]
        n == IF t.kind = "node" THEN t
             ELSE [kind |-> "node", pos |-> k, branch |-> {},
                   child |-> << Null, Null, Null, Null >>]
        c == n.child[d + 1]
    IN  IF k + 1 < Len(u)
        THEN LET r == Walk(c, k + 1, u)
             IN  [r EXCEPT !.tree = [n EXCEPT !.child[d + 1] = r.tree]]
        ELSE [tree |-> [n EXCEPT !.branch = @ \cup {d},
                                 !.child[d + 1] = IF c = Null THEN Leaf(u) ELSE c],
              new |-> d \notin n.branch]

InsertLine(u) ==
    /\ phase = "insert" /\ u # << >>
    /\ LET r == Walk(root, 0, u)
       IN  /\ root' = r.tree
           /\ last' = << u, r.new >>
    /\ UNCHANGED <<phase, empty_line>>

\* The empty string: the mark in an empty tree, bit 0 of the root's branch in
\* another.
InsertEmpty ==
    /\ phase = "insert"
    /\ \/ root = Null /\ root' = Mark
       \/ /\ root.kind = "node"
          /\ root' = [root EXCEPT !.branch = IF @ = {} THEN {0} ELSE @]
    /\ empty_line' = TRUE
    /\ UNCHANGED <<phase, last>>

\* The mark is taken for the address of a node: p->branch is at address 37.
InsertEmptyAtMark ==
    /\ phase = "insert"
    /\ root = Mark
    /\ phase' = "crashed"
    /\ UNCHANGED <<root, last, empty_line>>

-----------------------------------------------------------------------------
(* shrink()                                                                *)

RECURSIVE shrink(_)
shrink(n) ==
    IF n.kind # "node" THEN n
    ELSE LET kids == {i \in 1..4 : n.child[i] # Null}
         IN  IF Cardinality(kids) = 1 /\ n.branch = {}
             THEN shrink(n.child[CHOOSE i \in kids : TRUE])
             ELSE [n EXCEPT !.child = << shrink(@[1]), shrink(@[2]),
                                         shrink(@[3]), shrink(@[4]) >>]

-----------------------------------------------------------------------------
(* search_tree()                                                           *)

\* The string of the first leaf below q.
RECURSIVE FirstLeaf(_)
FirstLeaf(q) ==
    IF q.kind = "leaf" THEN q.str
    ELSE FirstLeaf(q.child[CHOOSE i \in 1..4 :
                              /\ q.child[i] # Null
                              /\ \A j \in 1..i - 1 : q.child[j] = Null])

\* Mutant: the string found is not compared.
RECURSIVE SearchNoCompare(_, _)
SearchNoCompare(t, u) ==
    IF t.kind # "node" THEN FALSE
    ELSE IF t.pos >= Len(u) THEN FALSE
    ELSE IF t.pos = Len(u) - 1 THEN u[t.pos + 1] \in t.branch
    ELSE SearchNoCompare(t.child[u[t.pos + 1] + 1], u)

\* Below the node for the last digit of u, any string that is found tells the
\* digits that shrink() took out.
RECURSIVE SearchFrom(_, _)
SearchFrom(t, u) ==
    IF t.kind # "node" THEN FALSE
    ELSE IF t.pos >= Len(u) THEN FALSE
    ELSE LET d == u[t.pos + 1]
             c == t.child[d + 1]
         IN  IF t.pos < Len(u) - 1 THEN SearchFrom(c, u)
             ELSE /\ d \in t.branch
                  /\ IF c.kind = "leaf" THEN c.str = u
                     ELSE SubSeq(FirstLeaf(c), 1, Len(u)) = u

search_tree(t, u) ==
    IF u # << >> THEN SearchFrom(t, u)
    ELSE t = Mark \/ (t.kind = "node" /\ t.branch # {})

-----------------------------------------------------------------------------
(* main(): the insertions, shrink(), the searches                          *)

Shrink == /\ phase = "insert"
          /\ root' = shrink(root)
          /\ phase' = "search"
          /\ UNCHANGED <<last, empty_line>>

\* A search changes nothing.
Search == phase = "search" /\ UNCHANGED vars

Crashed == phase = "crashed" /\ UNCHANGED vars

Next == \/ \E u \in Str : InsertLine(u)
        \/ << >> \in Str /\ InsertEmpty
        \/ << >> \in Str /\ InsertEmptyAtMark
        \/ Shrink
        \/ Search
        \/ Crashed

Spec == Init /\ [][Next]_vars

-----------------------------------------------------------------------------
(* Properties                                                              *)

NonEmpty == Str \ {<< >>}

Dict == INSTANCE Dictionary
        WITH Str <- NonEmpty, stored <- {u \in NonEmpty : search_tree(root, u)}

\* A search finds exactly the non-empty strings that were inserted, in whatever
\* order, with empty lines among them or not; the compression changes nothing
\* of it; and an insertion reports truly whether its string was new.
ImplementsDictionary == Dict!Spec
=============================================================================

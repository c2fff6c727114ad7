-------------------------------- MODULE AVL ---------------------------------
(***************************************************************************)
(* The balanced search tree of lab2-tree/AVL.h.  string_cmp() only orders  *)
(* the strings, so a string is its rank, a number; the greater string is   *)
(* in the LEFT subtree.  A tree is a nested record: the code keeps one     *)
(* pointer to every node and rotates through it.                           *)
(***************************************************************************)
EXTENDS Integers, FiniteSets

CONSTANTS Key,        \* the ranks of the strings
          NULL        \* the empty tree

VARIABLES BBST,       \* the root
          last        \* the last insertion: << the string, was it new >>

vars == <<BBST, last>>

LH == 1
EH == 0
RH == -1

Init == /\ BBST = NULL
        /\ last = << >>

-----------------------------------------------------------------------------
L_Rotate(p) == LET rc == p.rchild
               IN  [rc EXCEPT !.lchild = [p EXCEPT !.rchild = rc.lchild]]

R_Rotate(p) == LET lc == p.lchild
               IN  [lc EXCEPT !.rchild = [p EXCEPT !.lchild = lc.rchild]]

\* Mutant: a single rotation also when lc leans to the right.
LeftBalanceOnce(t) ==
    R_Rotate([t EXCEPT !.bf = EH, !.lchild.bf = EH])

\* The left subtree has become too tall: one rotation when lc leans to the
\* left, two when it leans to the right.  (No case for a level lc.)
LeftBalance(t) ==
    LET lc == t.lchild
        rd == lc.rchild
        rebalanced == [t EXCEPT !.bf = IF rd.bf = LH THEN RH ELSE EH,
                                !.lchild.bf = IF rd.bf = RH THEN LH ELSE EH,
                                !.lchild.rchild.bf = EH]
    IN  CASE lc.bf = LH -> R_Rotate([t EXCEPT !.bf = EH, !.lchild.bf = EH])
          [] lc.bf = RH -> R_Rotate([rebalanced EXCEPT !.lchild = L_Rotate(@)])
          [] lc.bf = EH -> t

RightBalance(t) ==
    LET rc == t.rchild
        ld == rc.lchild
        rebalanced == [t EXCEPT !.bf = IF ld.bf = RH THEN LH ELSE EH,
                                !.rchild.bf = IF ld.bf = LH THEN RH ELSE EH,
                                !.rchild.lchild.bf = EH]
    IN  CASE rc.bf = RH -> L_Rotate([t EXCEPT !.bf = EH, !.rchild.bf = EH])
          [] rc.bf = LH -> L_Rotate([rebalanced EXCEPT !.rchild = R_Rotate(@)])
          [] rc.bf = EH -> t

\* What InsertAVL() returns: the subtree, whether it grew, whether the string
\* was new.
Grown(t, taller) == [tree |-> t, taller |-> taller, new |-> TRUE]

\* After an insertion that made the left (right) subtree taller.
LeftTaller(t) ==
    CASE t.bf = LH -> Grown(LeftBalance(t), FALSE)
      [] t.bf = EH -> Grown([t EXCEPT !.bf = LH], TRUE)
      [] t.bf = RH -> Grown([t EXCEPT !.bf = EH], FALSE)

RightTaller(t) ==
    CASE t.bf = LH -> Grown([t EXCEPT !.bf = EH], FALSE)
      [] t.bf = EH -> Grown([t EXCEPT !.bf = RH], TRUE)
      [] t.bf = RH -> Grown(RightBalance(t), FALSE)

\* Mutant: a duplicate is stored again, to the right.
RECURSIVE InsertDuplicate(_, _)
InsertDuplicate(t, s) ==
    IF t = NULL
    THEN Grown([data |-> s, bf |-> EH, lchild |-> NULL, rchild |-> NULL], TRUE)
    ELSE IF s > t.data
    THEN LET r == InsertDuplicate(t.lchild, s)
             u == [t EXCEPT !.lchild = r.tree]
         IN  IF r.taller THEN LeftTaller(u) ELSE [r EXCEPT !.tree = u]
    ELSE LET r == InsertDuplicate(t.rchild, s)
             u == [t EXCEPT !.rchild = r.tree]
         IN  IF r.taller THEN RightTaller(u) ELSE [r EXCEPT !.tree = u]

RECURSIVE InsertAVL(_, _)
InsertAVL(t, s) ==
    IF t = NULL
    THEN Grown([data |-> s, bf |-> EH, lchild |-> NULL, rchild |-> NULL], TRUE)
    ELSE IF s = t.data
    THEN [tree |-> t, taller |-> FALSE, new |-> FALSE]
    ELSE IF s > t.data
    THEN LET r == InsertAVL(t.lchild, s)
             u == [t EXCEPT !.lchild = r.tree]
         IN  IF r.taller THEN LeftTaller(u) ELSE [r EXCEPT !.tree = u]
    ELSE LET r == InsertAVL(t.rchild, s)
             u == [t EXCEPT !.rchild = r.tree]
         IN  IF r.taller THEN RightTaller(u) ELSE [r EXCEPT !.tree = u]

\* SearchAVL() returns a node exactly when the string is there.
RECURSIVE SearchAVL(_, _)
SearchAVL(t, word) ==
    IF t = NULL THEN FALSE
    ELSE IF word = t.data THEN TRUE
    ELSE SearchAVL(IF word > t.data THEN t.lchild ELSE t.rchild, word)

\* main() inserts one line of the pattern file after the other.
Insert(s) == LET r == InsertAVL(BBST, s)
             IN  /\ BBST' = r.tree
                 /\ last' = << s, r.new >>

Next == \E s \in Key : Insert(s)

Spec == Init /\ [][Next]_vars

-----------------------------------------------------------------------------
(* Properties                                                              *)

RECURSIVE Subtrees(_), Height(_), Keys(_)
Subtrees(t) == IF t = NULL THEN {}
               ELSE {t} \cup Subtrees(t.lchild) \cup Subtrees(t.rchild)
Height(t) == IF t = NULL THEN 0
             ELSE 1 + (IF Height(t.lchild) > Height(t.rchild)
                       THEN Height(t.lchild) ELSE Height(t.rchild))
Keys(t) == IF t = NULL THEN {}
           ELSE {t.data} \cup Keys(t.lchild) \cup Keys(t.rchild)

\* The factor the code keeps by hand is the difference of the heights, and
\* no two subtrees of a node differ by more than one.
Balanced ==
    \A t \in Subtrees(BBST) :
        t.bf \in {LH, EH, RH} /\ t.bf = Height(t.lchild) - Height(t.rchild)

Dict == INSTANCE Dictionary
        WITH Str <- Key, stored <- {k \in Key : SearchAVL(BBST, k)}

\* A search finds exactly the strings inserted, and an insertion reports
\* truly whether its string was new.
ImplementsDictionary == Dict!Spec
=============================================================================

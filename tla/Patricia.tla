------------------------------ MODULE Patricia ------------------------------
(***************************************************************************)
(* The tree of lab2-tree/PATRICA.h: a binary tree whose inner nodes name   *)
(* the first bit, by byte and position in the byte, in which the strings   *)
(* below them differ, and whose leaves are the strings.  An odd pointer is *)
(* an inner node, an even one a string.                                    *)
(*                                                                         *)
(* A byte is the set of the positions (7 = most significant) of its 1s, so *)
(* the terminating NUL is {}.  The mask `otherbits', all ones but for one  *)
(* bit, is the position of that bit: the greater the mask, the LOWER the   *)
(* position.                                                               *)
(***************************************************************************)
EXTENDS Integers, FiniteSets, Sequences

CONSTANTS Str,        \* the lines of the pattern file
          NULL

VARIABLES root,       \* t->root
          last        \* the last insertion that returned 1 or 2:
                      \* << the string, was it new >>

vars == <<root, last>>

Init == /\ root = NULL
        /\ last = << >>

Leaf(u) == [kind |-> "string", str |-> u]

\* The byte at offset k (from 0), NUL from the end of the string on.
Byte(u, k) == IF k < Len(u) THEN u[k + 1] ELSE {}

\* (1 + (otherbits | c)) >> 8: does string u have a 1 at the node's bit?
Direction(u, byte, bit) == IF bit \in Byte(u, byte) THEN 1 ELSE 0

\* The string at the end of u's way down.
RECURSIVE Descend(_, _)
Descend(p, u) ==
    IF p.kind = "string" THEN p.str
    ELSE Descend(p.child[Direction(u, p.byte, p.bit) + 1], u)

contains(u) == root # NULL /\ Descend(root, u) = u

Differing(u, v, k) == (Byte(u, k) \ Byte(v, k)) \cup (Byte(v, k) \ Byte(u, k))

\* The first byte in which u and the string found differ ...
NewByte(u, v) == CHOOSE k \in 0..Len(u) :
                    /\ Differing(u, v, k) # {}
                    /\ \A j \in 0..k - 1 : Differing(u, v, j) = {}

\* Mutant: the least significant differing bit.
LowestBit(x) == CHOOSE b \in x : \A c \in x : b <= c

\* ... and the most significant bit in which that byte does.
CriticalBit(x) == CHOOSE b \in x : \A c \in x : c <= b

\* Mutant: the order of the bits within one byte is forgotten.
GoesAboveByByte(q, byte, bit) == q.kind = "string" \/ q.byte > byte

\* Where the last loop of insert() stops: q goes below the new node.
GoesAbove(q, byte, bit) ==
    \/ q.kind = "string"
    \/ q.byte > byte
    \/ q.byte = byte /\ q.bit < bit

\* The last loop, from q on: the new node takes the place of the first q that
\* it goes above.  Its other child is u.
RECURSIVE Place(_, _, _, _)
Place(q, u, byte, bit) ==
    IF GoesAbove(q, byte, bit)
    THEN [kind |-> "node", byte |-> byte, bit |-> bit,
          child |-> IF Direction(u, byte, bit) = 1 THEN << q, Leaf(u) >>
                    ELSE << Leaf(u), q >>]
    ELSE [q EXCEPT !.child[Direction(u, q.byte, q.bit) + 1] = Place(@, u, byte, bit)]

\* insert() returns 2 ...
InsertNew(u) ==
    /\ \/ root = NULL /\ root' = Leaf(u)
       \/ /\ root # NULL
          /\ LET v == Descend(root, u)
             IN  /\ v # u
                 /\ LET byte == NewByte(u, v)
                    IN  root' = Place(root, u, byte, CriticalBit(Differing(u, v, byte)))
    /\ last' = << u, TRUE >>

\* ... or 1 ...
InsertKnown(u) ==
    /\ contains(u)
    /\ last' = << u, FALSE >>
    /\ UNCHANGED root

\* ... or 0, when posix_memalign() fails before anything has been linked.
InsertNoMemory(u) == ~contains(u) /\ UNCHANGED vars

Next == \E u \in Str : InsertNew(u) \/ InsertKnown(u) \/ InsertNoMemory(u)

Spec == Init /\ [][Next]_vars

-----------------------------------------------------------------------------
(* Properties                                                              *)

RECURSIVE Inner(_), Strings(_)
Inner(t) == IF t = NULL \/ t.kind = "string" THEN {}
            ELSE {t} \cup Inner(t.child[1]) \cup Inner(t.child[2])
Strings(t) == IF t.kind = "string" THEN {t.str}
              ELSE Strings(t.child[1]) \cup Strings(t.child[2])

\* Every inner node names the first bit in which the strings below it differ,
\* and parts them by it; the nodes on a way down name later and later bits.
NodesAreCritical ==
    \A t \in Inner(root) :
        /\ \A d \in {0, 1} : \A s \in Strings(t.child[d + 1]) :
              Direction(s, t.byte, t.bit) = d
        /\ \A s, v \in Strings(t) :
              /\ \A k \in 0..t.byte - 1 : Byte(s, k) = Byte(v, k)
              /\ \A b \in Differing(s, v, t.byte) : b <= t.bit
        /\ \A d \in {1, 2} : \/ t.child[d].kind = "string"
                             \/ t.child[d].byte > t.byte
                             \/ /\ t.child[d].byte = t.byte
                                /\ t.child[d].bit < t.bit

Dict == INSTANCE Dictionary WITH stored <- {u \in Str : contains(u)}

\* A search finds exactly the strings inserted, and an insertion reports
\* truly whether its string was new.
ImplementsDictionary == Dict!Spec
=============================================================================

----------------------------- MODULE FifoQueue -----------------------------
(***************************************************************************)
(* What the "synchronized queue" of lab4-crawler/bcrawler.h promises to    *)
(* its callers: a first-in first-out sequence of elements.  A call of      *)
(* dequeue() returns the oldest element, or NULL when there is none; it    *)
(* never waits for an element.  SyncQueue shows that the linked list with  *)
(* its unlocked emptiness test implements this specification.              *)
(***************************************************************************)
EXTENDS Sequences

CONSTANTS Consumers,   \* threads that call dequeue()
          Element,     \* the P_TYPE pointers stored in the queue
          NULL         \* what dequeue() returns when the queue is empty

VARIABLES q,           \* the elements, oldest first
          hand         \* hand[c]: what the last dequeue() of c obtained

vars == <<q, hand>>

Init == /\ q = << >>
        /\ hand = [c \in Consumers |-> NULL]

\* enqueue(): the element goes to the rear.
Put(e) == /\ q' = Append(q, e)
          /\ UNCHANGED hand

\* dequeue() on a non-empty queue: the oldest element is handed out.
Take(c) == /\ q # << >>
           /\ hand' = [hand EXCEPT ![c] = Head(q)]
           /\ q' = Tail(q)

\* dequeue() on an empty queue: the caller gets NULL.
TakeNothing(c) == /\ q = << >>
                  /\ hand' = [hand EXCEPT ![c] = NULL]
                  /\ UNCHANGED q

Next == \/ \E e \in Element : Put(e)
        \/ \E c \in Consumers : Take(c) \/ TakeNothing(c)

Spec == Init /\ [][Next]_vars
=============================================================================

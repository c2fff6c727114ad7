----------------------------- MODULE SyncQueue -----------------------------
(***************************************************************************)
(* The queue of lab4-crawler/bcrawler.h, at the level of its pointers: a   *)
(* linked list with a dummy node that `front' always points to, a `rear'   *)
(* pointer, and a binary semaphore.  enqueue() works under the semaphore;  *)
(* dequeue() tests front == rear BEFORE it takes the semaphore, and inside *)
(* it dereferences front->next without testing again.                      *)
(*                                                                         *)
(* Each thread has a program counter.  Statements that touch only memory   *)
(* read under the semaphore (lines 50-52, and 63-65) are one step; every   *)
(* access to `rear', which is read without it, is a step of its own.       *)
(***************************************************************************)
EXTENDS Naturals, Sequences

CONSTANTS Producers,   \* threads that call enqueue()
          Consumers,   \* threads that call dequeue()
          Addr,        \* addresses malloc() can return for a QUEUE_NODE
          Dummy,       \* the node init_queue() allocates
          Element,     \* P_TYPE pointers
          NULL

Thread == Producers \cup Consumers

ASSUME QueueAssumption ==
    /\ Producers \cap Consumers = {}
    /\ Dummy \notin Addr
    /\ NULL \notin Addr \cup {Dummy}
    /\ NULL \notin Element

\* The threads that poll one queue come one after the other: main joins
\* send_thread_once (bcrawler.c:190) before it creates send_thread
\* (bcrawler.c:196), and recv_queue only ever has recv_thread.
ASSUME OneConsumer == \A c, d \in Consumers : c = d

VARIABLES heap,        \* the addresses of Addr that are allocated
          next,        \* next[n]: the field of the node at n
          pointer,     \* pointer[n]: the field of the node at n
          rear,        \* queue->rear (queue->front is Dummy for ever)
          sem,         \* the value of the semaphore
          pc,          \* where each thread is
          element,     \* parameter of the enqueue() a producer is in
          new_node,    \* local of enqueue()
          p,           \* local of dequeue()
          result,      \* local of dequeue(), and what it last returned
          exited,      \* a failed malloc() has called exit(0)
          chain        \* history: the nodes in the queue, front to rear

vars == <<heap, next, pointer, rear, sem, pc, element, new_node, p, result,
          exited, chain>>

front == Dummy

NodeAddr == Addr \cup {Dummy}

\* A freed node keeps its fields: malloc() may return it with stale contents.
Init ==
    /\ heap = {}
    /\ next = [n \in NodeAddr |-> NULL]
    /\ pointer = [n \in NodeAddr |-> NULL]
    /\ rear = front
    /\ sem = 1
    /\ pc = [t \in Thread |-> "idle"]
    /\ element = [t \in Producers |-> NULL]
    /\ new_node = [t \in Producers |-> NULL]
    /\ p = [c \in Consumers |-> NULL]
    /\ result = [c \in Consumers |-> NULL]
    /\ exited = FALSE
    /\ chain = << >>

Goto(t, l) == pc' = [pc EXCEPT ![t] = l]

\* csapp's P() and V() on the queue's semaphore.
P(t, from, to) == /\ pc[t] = from
                  /\ sem > 0
                  /\ sem' = sem - 1
                  /\ Goto(t, to)
                  /\ UNCHANGED <<heap, next, pointer, rear, element, new_node,
                                 p, result, exited, chain>>

V(t, from) == /\ pc[t] = from
              /\ sem' = sem + 1
              /\ Goto(t, "idle")
              /\ UNCHANGED <<heap, next, pointer, rear, element, new_node,
                             p, result, exited, chain>>

-----------------------------------------------------------------------------
(* enqueue()                                                               *)

EnqueueMalloc(t, e, n) ==
    /\ pc[t] = "idle"
    /\ n \notin heap
    /\ heap' = heap \cup {n}
    /\ new_node' = [new_node EXCEPT ![t] = n]
    /\ element' = [element EXCEPT ![t] = e]
    /\ Goto(t, "enqP")
    /\ UNCHANGED <<next, pointer, rear, sem, p, result, exited, chain>>

\* malloc() fails: exit(0) ends every thread.
EnqueueNoMemory(t) ==
    /\ pc[t] = "idle"
    /\ heap = Addr
    /\ exited' = TRUE
    /\ UNCHANGED <<heap, next, pointer, rear, sem, pc, element, new_node, p,
                   result, chain>>

EnqueueP(t) == P(t, "enqP", "link")

\* Mutant: new_node->next keeps what malloc() left there.
LinkKeepingStaleNext(t) ==
    /\ pc[t] = "link"
    /\ pointer' = [pointer EXCEPT ![new_node[t]] = element[t]]
    /\ next' = [next EXCEPT ![rear] = new_node[t]]
    /\ Goto(t, "swing")
    /\ UNCHANGED <<heap, rear, sem, element, new_node, p, result, exited,
                   chain>>

\* Mutant: the new node goes behind the dummy node, as in a stack.
LinkAtFront(t) ==
    /\ pc[t] = "link"
    /\ pointer' = [pointer EXCEPT ![new_node[t]] = element[t]]
    /\ next' = [next EXCEPT ![new_node[t]] = next[front],
                            ![front] = new_node[t]]
    /\ Goto(t, "swing")
    /\ UNCHANGED <<heap, rear, sem, element, new_node, p, result, exited,
                   chain>>

EnqueueLink(t) ==
    /\ pc[t] = "link"
    /\ pointer' = [pointer EXCEPT ![new_node[t]] = element[t]]
    /\ next' = [next EXCEPT ![new_node[t]] = NULL, ![rear] = new_node[t]]
    /\ Goto(t, "swing")
    /\ UNCHANGED <<heap, rear, sem, element, new_node, p, result, exited,
                   chain>>

EnqueueSwing(t) ==
    /\ pc[t] = "swing"
    /\ rear' = new_node[t]
    /\ chain' = Append(chain, new_node[t])
    /\ Goto(t, "enqV")
    /\ UNCHANGED <<heap, next, pointer, sem, element, new_node, p, result,
                   exited>>

EnqueueV(t) == V(t, "enqV")

-----------------------------------------------------------------------------
(* dequeue()                                                               *)

DequeueEmpty(c) ==
    /\ pc[c] = "idle"
    /\ front = rear
    /\ result' = [result EXCEPT ![c] = NULL]
    /\ UNCHANGED <<heap, next, pointer, rear, sem, pc, element, new_node, p,
                   exited, chain>>

DequeueNonEmpty(c) ==
    /\ pc[c] = "idle"
    /\ front # rear
    /\ Goto(c, "deqP")
    /\ UNCHANGED <<heap, next, pointer, rear, sem, element, new_node, p,
                   result, exited, chain>>

DequeueP(c) == P(c, "deqP", "take")

\* p->pointer and p->next need a node: NoNullDereference says there is one.
DequeueTake(c) ==
    /\ pc[c] = "take"
    /\ next[front] # NULL
    /\ p' = [p EXCEPT ![c] = next[front]]
    /\ result' = [result EXCEPT ![c] = pointer[next[front]]]
    /\ next' = [next EXCEPT ![front] = next[next[front]]]
    /\ chain' = Tail(chain)
    /\ Goto(c, "fixrear")
    /\ UNCHANGED <<heap, pointer, rear, sem, element, new_node, exited>>

\* Mutant: rear is left at the node that is about to be freed.
FixRearForgotten(c) ==
    /\ pc[c] = "fixrear"
    /\ Goto(c, "free")
    /\ UNCHANGED <<heap, next, pointer, rear, sem, element, new_node, p,
                   result, exited, chain>>

\* Mutant: an early return in the branch that empties the queue.
FixRearReturns(c) ==
    /\ pc[c] = "fixrear"
    /\ rear' = IF p[c] = rear THEN front ELSE rear
    /\ Goto(c, IF p[c] = rear THEN "idle" ELSE "free")
    /\ UNCHANGED <<heap, next, pointer, sem, element, new_node, p, result,
                   exited, chain>>

DequeueFixRear(c) ==
    /\ pc[c] = "fixrear"
    /\ rear' = IF p[c] = rear THEN front ELSE rear
    /\ Goto(c, "free")
    /\ UNCHANGED <<heap, next, pointer, sem, element, new_node, p, result,
                   exited, chain>>

DequeueFree(c) ==
    /\ pc[c] = "free"
    /\ heap' = heap \ {p[c]}
    /\ Goto(c, "deqV")
    /\ UNCHANGED <<next, pointer, rear, sem, element, new_node, p, result,
                   exited, chain>>

DequeueV(c) == V(c, "deqV")

-----------------------------------------------------------------------------
Enqueue(t) ==
    \/ \E e \in Element, n \in Addr : EnqueueMalloc(t, e, n)
    \/ EnqueueNoMemory(t)
    \/ EnqueueP(t)
    \/ EnqueueLink(t)
    \/ EnqueueSwing(t)
    \/ EnqueueV(t)

Dequeue(c) ==
    \/ DequeueEmpty(c)
    \/ DequeueNonEmpty(c)
    \/ DequeueP(c)
    \/ DequeueTake(c)
    \/ DequeueFixRear(c)
    \/ DequeueFree(c)
    \/ DequeueV(c)

\* After exit(0) nothing runs.
Exited == exited /\ UNCHANGED vars

Next == \/ ~exited /\ \E t \in Producers : Enqueue(t)
        \/ ~exited /\ \E c \in Consumers : Dequeue(c)
        \/ Exited

Spec == Init /\ [][Next]_vars

\* A thread that is not waiting for the semaphore goes on: the operating
\* system schedules every runnable thread.
Fairness ==
    /\ \A t \in Producers : /\ WF_vars(~exited /\ EnqueueLink(t))
                            /\ WF_vars(~exited /\ EnqueueSwing(t))
                            /\ WF_vars(~exited /\ EnqueueV(t))
    /\ \A c \in Consumers : WF_vars(~exited /\ Dequeue(c))

FairSpec == Spec /\ Fairness

-----------------------------------------------------------------------------
(* Properties                                                              *)

EnqLabel == {"idle", "enqP", "link", "swing", "enqV"}
DeqLabel == {"idle", "deqP", "take", "fixrear", "free", "deqV"}

\* Every variable has its type.
TypeOK ==
    /\ heap \subseteq Addr
    /\ next \in [NodeAddr -> Addr \cup {NULL}]
    /\ pointer \in [NodeAddr -> Element \cup {NULL}]
    /\ rear \in NodeAddr
    /\ sem \in {0, 1}
    /\ pc \in [Thread -> EnqLabel \cup DeqLabel]
    /\ \A t \in Producers : pc[t] \in EnqLabel
    /\ \A c \in Consumers : pc[c] \in DeqLabel
    /\ element \in [Producers -> Element \cup {NULL}]
    /\ new_node \in [Producers -> Addr \cup {NULL}]
    /\ p \in [Consumers -> Addr \cup {NULL}]
    /\ result \in [Consumers -> Element \cup {NULL}]
    /\ exited \in BOOLEAN
    /\ chain \in Seq(Addr)

InCriticalSection(t) ==
    pc[t] \in {"link", "swing", "enqV", "take", "fixrear", "free", "deqV"}

\* At most one thread is between P and V, and the semaphore is 0 exactly
\* while one is (enqueue lines 49-54, dequeue lines 62-69).
MutualExclusion ==
    /\ \A t, u \in Thread :
          InCriticalSection(t) /\ InCriticalSection(u) => t = u
    /\ sem = 0 <=> \E t \in Thread : InCriticalSection(t)

\* dequeue() tests front == rear before it waits for the semaphore and uses
\* front->next after (lines 60-64).  The test is never stale: whatever the
\* producers do meanwhile, the node is there when it is dereferenced.
NoNullDereference ==
    \A c \in Consumers : pc[c] \in {"deqP", "take"} => next[front] # NULL

\* The node a thread has allocated and not linked yet, or unlinked and not
\* freed yet.
Owns(t, n) ==
    \/ t \in Producers /\ pc[t] \in {"enqP", "link", "swing"}
                       /\ new_node[t] = n
    \/ t \in Consumers /\ pc[t] \in {"fixrear", "free"} /\ p[t] = n

Queued(n) == \E i \in 1..Len(chain) : chain[i] = n

\* No node is leaked, freed twice or used after it was freed: an allocated
\* node is either in the queue once or in the hands of one thread (the
\* malloc of line 45 and the free of line 68).
EveryNodeOwned ==
    /\ heap = {n \in Addr : Queued(n) \/ \E t \in Thread : Owns(t, n)}
    /\ \A i, j \in 1..Len(chain) : chain[i] = chain[j] => i = j
    /\ \A t \in Thread, n \in Addr :
          Owns(t, n) => ~Queued(n) /\ \A u \in Thread : Owns(u, n) => t = u

LastNode == IF chain = << >> THEN front ELSE chain[Len(chain)]

\* The list of pointers is the chain: front->next is its first node, each
\* node points to its successor, the last to NULL or to the node a producer
\* has linked and not yet made the rear.
ListIsChain ==
    /\ chain # << >> => next[front] = chain[1]
    /\ \A i \in 1..Len(chain) - 1 : next[chain[i]] = chain[i + 1]
    /\ \A t \in Producers : pc[t] = "swing" => next[LastNode] = new_node[t]
    /\ (\A t \in Producers : pc[t] # "swing") => next[LastNode] = NULL

\* queue->rear is the last node; while a dequeue() has taken the only node and not
\* yet repaired rear it still is that node.
RearIsLast ==
    \/ rear = LastNode
    \/ chain = << >> /\ \E c \in Consumers : pc[c] = "fixrear" /\ rear = p[c]

\* The pointers always spell the queue: following next from front visits the
\* queued nodes in order and ends at rear, in the middle of any call.
ListWellFormed == ListIsChain /\ RearIsLast

\* The one consumer that has seen a non-empty queue finds one.
TestStillHolds ==
    \A c \in Consumers : pc[c] \in {"deqP", "take"} => chain # << >>

\* A queued node and a node about to be queued hold an element.
FieldsFilled ==
    /\ \A i \in 1..Len(chain) : pointer[chain[i]] \in Element
    /\ \A t \in Producers :
          /\ pc[t] \in {"enqP", "link", "swing"} =>
                element[t] \in Element /\ new_node[t] \in Addr
          /\ pc[t] = "swing" => /\ pointer[new_node[t]] = element[t]
                                /\ next[new_node[t]] = NULL
    /\ \A c \in Consumers : pc[c] \in {"fixrear", "free"} => p[c] \in Addr

\* The inductive invariant.
IInv ==
    /\ TypeOK
    /\ MutualExclusion
    /\ EveryNodeOwned
    /\ ListWellFormed
    /\ TestStillHolds
    /\ FieldsFilled

\* The elements in the queue, oldest first.
Contents == [i \in 1..Len(chain) |-> pointer[chain[i]]]

Abstract == INSTANCE FifoQueue WITH q <- Contents, hand <- result

\* Every run of enqueue() and dequeue() is one of a FIFO queue: no element is
\* lost, duplicated or reordered, and NULL is returned only when the queue is
\* empty.
ImplementsFifo == Abstract!Spec

\* A thread that has taken the semaphore gives it back (no path of enqueue()
\* or dequeue() leaves without V).
SemaphoreReleased == sem = 0 ~> (sem = 1 \/ exited)
=============================================================================

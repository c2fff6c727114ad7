-------------------------- MODULE SyncQueueProofs --------------------------
(***************************************************************************)
(* Proofs about SyncQueue, for any number of producers, addresses and      *)
(* elements and the one consumer of a queue (OneConsumer).                 *)
(***************************************************************************)
EXTENDS SyncQueue, SequenceTheorems, TLAPS

\* What an element of a queue becomes at a new index after Append.
LEMMA AppendFacts ==
    ASSUME NEW S, NEW s \in Seq(S), NEW e \in S
    PROVE  /\ Append(s, e) \in Seq(S)
           /\ Len(Append(s, e)) = Len(s) + 1
           /\ Append(s, e) # << >>
           /\ \A i \in 1..Len(s) : Append(s, e)[i] = s[i]
           /\ Append(s, e)[Len(s) + 1] = e
  OBVIOUS

\* The same for Tail.
LEMMA TailFacts ==
    ASSUME NEW S, NEW s \in Seq(S), s # << >>
    PROVE  /\ Tail(s) \in Seq(S)
           /\ Len(s) \in Nat /\ Len(s) >= 1
           /\ Len(Tail(s)) = Len(s) - 1
           /\ \A i \in 1..Len(Tail(s)) : Tail(s)[i] = s[i + 1]
  OBVIOUS

\* A sequence of two nodes or more, less its first.
LEMMA TwoOrMore ==
    ASSUME NEW n \in Nat, n >= 1, n # 1
    PROVE  /\ n - 1 \in 1..n - 1
           /\ (n - 1) + 1 = n
           /\ 1 \in 1..n - 1
           /\ n - 1 # 0
  OBVIOUS

\* The initial state satisfies the invariant.
LEMMA InitIInv == Init => IInv
  <1> SUFFICES ASSUME Init PROVE IInv
    OBVIOUS
  <1> USE QueueAssumption DEF Init, Thread, NodeAddr, front
  <1>1. TypeOK
    <2>1. chain \in Seq(Addr)
      OBVIOUS
    <2>5. exited \in BOOLEAN
      BY Zenon
    <2>2. /\ pc \in [Thread -> EnqLabel \cup DeqLabel]
          /\ \A t \in Producers : pc[t] \in EnqLabel
          /\ \A c \in Consumers : pc[c] \in DeqLabel
      BY DEF EnqLabel, DeqLabel
    <2>3. /\ heap \subseteq Addr
          /\ rear \in NodeAddr
          /\ sem \in {0, 1}
      OBVIOUS
    <2>4. /\ next \in [NodeAddr -> Addr \cup {NULL}]
          /\ pointer \in [NodeAddr -> Element \cup {NULL}]
          /\ element \in [Producers -> Element \cup {NULL}]
          /\ new_node \in [Producers -> Addr \cup {NULL}]
          /\ p \in [Consumers -> Addr \cup {NULL}]
          /\ result \in [Consumers -> Element \cup {NULL}]
      OBVIOUS
    <2> QED
      BY <2>1, <2>2, <2>3, <2>4, <2>5 DEF TypeOK
  <1>2. MutualExclusion
    BY DEF MutualExclusion, InCriticalSection
  <1>3. EveryNodeOwned
    BY DEF EveryNodeOwned, Owns, Queued
  <1>4. ListWellFormed
    BY DEF ListWellFormed, ListIsChain, RearIsLast, LastNode
  <1>5. TestStillHolds /\ FieldsFilled
    BY DEF TestStillHolds, FieldsFilled
  <1> QED
    BY <1>1, <1>2, <1>3, <1>4, <1>5 DEF IInv

LEMMA EnqueueMallocIInv ==
    ASSUME IInv, NEW t \in Producers, NEW e \in Element, NEW n \in Addr, EnqueueMalloc(t, e, n)
    PROVE  IInv'
  <1> USE QueueAssumption DEF IInv, EnqueueMalloc, Goto, front, NodeAddr, Thread
  <1>1. TypeOK'
    BY DEF TypeOK, EnqLabel, DeqLabel, MutualExclusion, InCriticalSection, TestStillHolds, FieldsFilled
  <1>2. MutualExclusion'
    BY DEF MutualExclusion, InCriticalSection, TypeOK
  <1>3. EveryNodeOwned'
    BY DEF EveryNodeOwned, Owns, Queued, TypeOK, EnqLabel, DeqLabel
  <1>4. ListWellFormed'
    BY DEF ListWellFormed, ListIsChain, RearIsLast, LastNode, TypeOK, EnqLabel, DeqLabel
  <1>5. TestStillHolds'
    BY DEF TestStillHolds, TypeOK, EnqLabel, DeqLabel
  <1>6. FieldsFilled'
    BY DEF FieldsFilled, TypeOK, EnqLabel, DeqLabel
  <1> QED
    BY <1>1, <1>2, <1>3, <1>4, <1>5, <1>6

LEMMA EnqueuePIInv ==
    ASSUME IInv, NEW t \in Producers, EnqueueP(t)
    PROVE  IInv'
  <1> USE QueueAssumption DEF IInv, EnqueueP, P, Goto, front, NodeAddr, Thread
  <1>1. TypeOK'
    BY DEF TypeOK, EnqLabel, DeqLabel, MutualExclusion, InCriticalSection, TestStillHolds, FieldsFilled
  <1>2. MutualExclusion'
    BY DEF MutualExclusion, InCriticalSection, TypeOK
  <1>3. EveryNodeOwned'
    BY DEF EveryNodeOwned, Owns, Queued, TypeOK, EnqLabel, DeqLabel
  <1>4. ListWellFormed'
    BY DEF ListWellFormed, ListIsChain, RearIsLast, LastNode, TypeOK, EnqLabel, DeqLabel
  <1>5. TestStillHolds'
    BY DEF TestStillHolds, TypeOK, EnqLabel, DeqLabel
  <1>6. FieldsFilled'
    BY DEF FieldsFilled, TypeOK, EnqLabel, DeqLabel
  <1> QED
    BY <1>1, <1>2, <1>3, <1>4, <1>5, <1>6

LEMMA EnqueueLinkIInv ==
    ASSUME IInv, NEW t \in Producers, EnqueueLink(t)
    PROVE  IInv'
  <1> USE QueueAssumption DEF IInv, EnqueueLink, Goto, front, NodeAddr, Thread
  <1>1. TypeOK'
    BY DEF TypeOK, EnqLabel, DeqLabel, MutualExclusion, InCriticalSection, TestStillHolds, FieldsFilled
  <1>2. MutualExclusion'
    BY DEF MutualExclusion, InCriticalSection, TypeOK
  <1>3. EveryNodeOwned'
    BY DEF EveryNodeOwned, Owns, Queued, TypeOK, EnqLabel, DeqLabel
  <1>4. ListWellFormed'
    <2> USE DEF TypeOK
    <2>1. rear = LastNode
      BY DEF ListWellFormed, RearIsLast, MutualExclusion, InCriticalSection
    <2>2. /\ new_node[t] \in Addr
          /\ ~Queued(new_node[t])
          /\ new_node[t] # front
      BY DEF FieldsFilled, EveryNodeOwned, Owns
    <2>3. /\ LastNode' = LastNode
          /\ next'[LastNode] = new_node[t]
          /\ new_node' = new_node
      BY <2>1, <2>2 DEF LastNode
    <2>4. \A u \in Producers : pc'[u] = "swing" => u = t
      BY DEF MutualExclusion, InCriticalSection
    <2>5. ASSUME chain # << >>
          PROVE  next'[front] = chain[1]
      <3>1. LastNode # front /\ next[front] = chain[1]
        BY <2>5 DEF LastNode, ListWellFormed, ListIsChain
      <3> QED
        BY <3>1, <2>1, <2>2
    <2>6. ASSUME NEW i \in 1..Len(chain) - 1
          PROVE  next'[chain[i]] = chain[i + 1]
      <3>1. i \in 1..Len(chain) /\ Len(chain) \in 1..Len(chain) /\ i # Len(chain)
        OBVIOUS
      <3>2. chain # << >> /\ chain[i] \in Addr
        BY <3>1
      <3>3. chain[i] # rear /\ chain[i] # new_node[t]
        BY <3>1, <3>2, <2>1, <2>2 DEF LastNode, EveryNodeOwned, Queued
      <3> QED
        BY <3>2, <3>3 DEF ListWellFormed, ListIsChain
    <2>7. ListIsChain'
      BY <2>3, <2>4, <2>5, <2>6 DEF ListIsChain
    <2> QED
      BY <2>1, <2>3, <2>7 DEF ListWellFormed, RearIsLast
  <1>5. TestStillHolds'
    BY DEF TestStillHolds, TypeOK, EnqLabel, DeqLabel
  <1>6. FieldsFilled'
    <2> USE DEF TypeOK
    <2>1. /\ element[t] \in Element
          /\ new_node[t] \in Addr
          /\ ~Queued(new_node[t])
      BY DEF FieldsFilled, EveryNodeOwned, Owns
    <2>2. \A i \in 1..Len(chain) : pointer'[chain[i]] \in Element
      BY <2>1 DEF FieldsFilled, Queued
    <2>3. \A u \in Producers : pc'[u] = "swing" => u = t
      BY DEF MutualExclusion, InCriticalSection
    <2> QED
      BY <2>1, <2>2, <2>3 DEF FieldsFilled, EnqLabel, DeqLabel
  <1> QED
    BY <1>1, <1>2, <1>3, <1>4, <1>5, <1>6

LEMMA EnqueueSwingIInv ==
    ASSUME IInv, NEW t \in Producers, EnqueueSwing(t)
    PROVE  IInv'
  <1> USE QueueAssumption DEF IInv, EnqueueSwing, Goto, front, NodeAddr, Thread
  <1>1. TypeOK'
    BY DEF TypeOK, EnqLabel, DeqLabel, MutualExclusion, InCriticalSection, TestStillHolds, FieldsFilled
  <1>2. MutualExclusion'
    BY DEF MutualExclusion, InCriticalSection, TypeOK
  <1>3. EveryNodeOwned'
    BY DEF EveryNodeOwned, Owns, Queued, TypeOK, EnqLabel, DeqLabel
  <1>4. ListWellFormed'
    <2> USE DEF TypeOK
    <2>1. /\ new_node[t] \in Addr
          /\ next[LastNode] = new_node[t]
          /\ new_node[t] # NULL
      BY DEF FieldsFilled, ListWellFormed, ListIsChain
    <2> DEFINE n == Len(chain)
    <2>2. /\ n \in Nat
          /\ chain' # << >>
          /\ Len(chain') = n + 1
          /\ chain'[n + 1] = new_node[t]
          /\ \A i \in 1..n : chain'[i] = chain[i]
      BY <2>1, AppendFacts
    <2>3. LastNode' = new_node[t] /\ rear' = new_node[t]
      BY <2>2 DEF LastNode
    <2>4. next[new_node[t]] = NULL
      BY DEF FieldsFilled
    <2>5. chain'[1] = next[front]
      BY <2>1, <2>2 DEF LastNode, ListWellFormed, ListIsChain
    <2>6. ASSUME NEW i \in 1..Len(chain') - 1
          PROVE  next[chain'[i]] = chain'[i + 1]
      <3>1. i \in 1..n /\ chain'[i] = chain[i]
        BY <2>2
      <3>2. CASE i = n
        BY <3>1, <3>2, <2>1, <2>2 DEF LastNode
      <3>3. CASE i # n
        <4>1. i \in 1..n - 1 /\ i + 1 \in 1..n
          BY <3>1, <3>3, <2>2
        <4> QED
          BY <4>1, <3>1, <2>2 DEF ListWellFormed, ListIsChain
      <3> QED
        BY <3>2, <3>3
    <2>7. \A u \in Producers : pc'[u] # "swing"
      BY DEF MutualExclusion, InCriticalSection
    <2>8. ListIsChain'
      BY <2>2, <2>3, <2>4, <2>5, <2>6, <2>7 DEF ListIsChain
    <2> QED
      BY <2>3, <2>8 DEF ListWellFormed, RearIsLast
  <1>5. TestStillHolds'
    BY DEF TestStillHolds, TypeOK, EnqLabel, DeqLabel
  <1>6. FieldsFilled'
    BY DEF FieldsFilled, TypeOK, EnqLabel, DeqLabel
  <1> QED
    BY <1>1, <1>2, <1>3, <1>4, <1>5, <1>6

LEMMA EnqueueVIInv ==
    ASSUME IInv, NEW t \in Producers, EnqueueV(t)
    PROVE  IInv'
  <1> USE QueueAssumption DEF IInv, EnqueueV, V, Goto, front, NodeAddr, Thread
  <1>1. TypeOK'
    BY DEF TypeOK, EnqLabel, DeqLabel, MutualExclusion, InCriticalSection, TestStillHolds, FieldsFilled
  <1>2. MutualExclusion'
    BY DEF MutualExclusion, InCriticalSection, TypeOK
  <1>3. EveryNodeOwned'
    BY DEF EveryNodeOwned, Owns, Queued, TypeOK, EnqLabel, DeqLabel
  <1>4. ListWellFormed'
    BY DEF ListWellFormed, ListIsChain, RearIsLast, LastNode, TypeOK, EnqLabel, DeqLabel
  <1>5. TestStillHolds'
    BY DEF TestStillHolds, TypeOK, EnqLabel, DeqLabel
  <1>6. FieldsFilled'
    BY DEF FieldsFilled, TypeOK, EnqLabel, DeqLabel
  <1> QED
    BY <1>1, <1>2, <1>3, <1>4, <1>5, <1>6

LEMMA DequeueEmptyIInv ==
    ASSUME IInv, NEW c \in Consumers, DequeueEmpty(c)
    PROVE  IInv'
  <1> USE QueueAssumption DEF IInv, DequeueEmpty, front, NodeAddr, Thread
  <1>1. TypeOK'
    BY DEF TypeOK, EnqLabel, DeqLabel, MutualExclusion, InCriticalSection, TestStillHolds, FieldsFilled
  <1>2. MutualExclusion'
    BY DEF MutualExclusion, InCriticalSection, TypeOK
  <1>3. EveryNodeOwned'
    BY DEF EveryNodeOwned, Owns, Queued, TypeOK, EnqLabel, DeqLabel
  <1>4. ListWellFormed'
    BY DEF ListWellFormed, ListIsChain, RearIsLast, LastNode, TypeOK, EnqLabel, DeqLabel
  <1>5. TestStillHolds'
    BY DEF TestStillHolds, TypeOK, EnqLabel, DeqLabel
  <1>6. FieldsFilled'
    BY DEF FieldsFilled, TypeOK, EnqLabel, DeqLabel
  <1> QED
    BY <1>1, <1>2, <1>3, <1>4, <1>5, <1>6

LEMMA DequeueNonEmptyIInv ==
    ASSUME IInv, NEW c \in Consumers, DequeueNonEmpty(c)
    PROVE  IInv'
  <1> USE QueueAssumption DEF IInv, DequeueNonEmpty, Goto, front, NodeAddr, Thread
  <1>1. TypeOK'
    BY DEF TypeOK, EnqLabel, DeqLabel, MutualExclusion, InCriticalSection, TestStillHolds, FieldsFilled
  <1>2. MutualExclusion'
    BY DEF MutualExclusion, InCriticalSection, TypeOK
  <1>3. EveryNodeOwned'
    BY DEF EveryNodeOwned, Owns, Queued, TypeOK, EnqLabel, DeqLabel
  <1>4. ListWellFormed'
    BY DEF ListWellFormed, ListIsChain, RearIsLast, LastNode, TypeOK, EnqLabel, DeqLabel
  <1>5. TestStillHolds'
    <2>1. chain # << >>
      BY OneConsumer DEF ListWellFormed, RearIsLast, LastNode
    <2> QED
      BY <2>1 DEF TestStillHolds
  <1>6. FieldsFilled'
    BY DEF FieldsFilled, TypeOK, EnqLabel, DeqLabel
  <1> QED
    BY <1>1, <1>2, <1>3, <1>4, <1>5, <1>6

LEMMA DequeuePIInv ==
    ASSUME IInv, NEW c \in Consumers, DequeueP(c)
    PROVE  IInv'
  <1> USE QueueAssumption DEF IInv, DequeueP, P, Goto, front, NodeAddr, Thread
  <1>1. TypeOK'
    BY DEF TypeOK, EnqLabel, DeqLabel, MutualExclusion, InCriticalSection, TestStillHolds, FieldsFilled
  <1>2. MutualExclusion'
    BY DEF MutualExclusion, InCriticalSection, TypeOK
  <1>3. EveryNodeOwned'
    BY DEF EveryNodeOwned, Owns, Queued, TypeOK, EnqLabel, DeqLabel
  <1>4. ListWellFormed'
    BY DEF ListWellFormed, ListIsChain, RearIsLast, LastNode, TypeOK, EnqLabel, DeqLabel
  <1>5. TestStillHolds'
    BY DEF TestStillHolds, TypeOK, EnqLabel, DeqLabel
  <1>6. FieldsFilled'
    BY DEF FieldsFilled, TypeOK, EnqLabel, DeqLabel
  <1> QED
    BY <1>1, <1>2, <1>3, <1>4, <1>5, <1>6

LEMMA DequeueTakeIInv ==
    ASSUME IInv, NEW c \in Consumers, DequeueTake(c)
    PROVE  IInv'
  <1> USE QueueAssumption DEF IInv, DequeueTake, Goto, front, NodeAddr, Thread
  <1> DEFINE n == Len(chain)
  <1>a. /\ n \in Nat /\ n >= 1
        /\ Len(chain') = n - 1
        /\ \A i \in 1..n - 1 : chain'[i] = chain[i + 1]
    BY TailFacts DEF TestStillHolds, TypeOK
  <1>b. /\ chain # << >>
        /\ next[front] = chain[1]
        /\ chain[1] \in Addr
        /\ p'[c] = chain[1]
    BY <1>a DEF TestStillHolds, ListWellFormed, ListIsChain, TypeOK
  <1>1. TypeOK'
    BY DEF TypeOK, EnqLabel, DeqLabel, MutualExclusion, InCriticalSection, TestStillHolds, FieldsFilled
  <1>2. MutualExclusion'
    BY DEF MutualExclusion, InCriticalSection, TypeOK
  <1>3. EveryNodeOwned'
    <2>1. ASSUME NEW m
          PROVE  Queued(m)' <=> Queued(m) /\ m # chain[1]
      <3>1. ASSUME Queued(m)'
            PROVE  Queued(m) /\ m # chain[1]
        <4>1. PICK i \in 1..n - 1 : chain'[i] = m
          BY <3>1, <1>a DEF Queued
        <4>2. i + 1 \in 1..n /\ 1 \in 1..n /\ i + 1 # 1 /\ chain[i + 1] = m
          BY <4>1, <1>a
        <4> QED
          BY <4>2 DEF Queued, EveryNodeOwned
      <3>2. ASSUME Queued(m), m # chain[1]
            PROVE  Queued(m)'
        <4>1. PICK i \in 1..n : chain[i] = m
          BY <3>2 DEF Queued
        <4>2. i - 1 \in 1..n - 1 /\ (i - 1) + 1 = i
          BY <4>1, <3>2, <1>a
        <4>3. chain'[i - 1] = m
          BY <4>1, <4>2, <1>a
        <4> QED
          BY <4>2, <4>3, <1>a DEF Queued
      <3> QED
        BY <3>1, <3>2
    <2>2. \A u \in Thread, m \in Addr :
             Owns(u, m)' <=> Owns(u, m) \/ (u = c /\ m = chain[1])
      <3> SUFFICES ASSUME NEW u \in Thread, NEW m \in Addr
                   PROVE  Owns(u, m)' <=> Owns(u, m) \/ (u = c /\ m = chain[1])
        OBVIOUS
      <3>1. CASE u = c
        BY <3>1, <1>b DEF Owns, TypeOK
      <3>2. CASE u # c
        <4>1. pc'[u] = pc[u] /\ (u \in Consumers => p'[u] = p[u])
          BY <3>2 DEF TypeOK
        <4> QED
          BY <4>1, <3>2 DEF Owns
      <3> QED
        BY <3>1, <3>2
    <2>3. Queued(chain[1])
      BY <1>a DEF Queued
    <2>4. \A i, j \in 1..Len(chain') : chain'[i] = chain'[j] => i = j
      <3> SUFFICES ASSUME NEW i \in 1..Len(chain'), NEW j \in 1..Len(chain'),
                          chain'[i] = chain'[j]
                   PROVE  i = j
        OBVIOUS
      <3>1. i + 1 \in 1..n /\ j + 1 \in 1..n /\ chain[i + 1] = chain[j + 1]
        BY <1>a
      <3> QED
        BY <3>1 DEF EveryNodeOwned
    <2>5. heap' = {m \in Addr : Queued(m)' \/ \E u \in Thread : Owns(u, m)'}
      <3>1. ASSUME NEW m \in Addr
            PROVE  Queued(m)' \/ (\E u \in Thread : Owns(u, m)') <=>
                   Queued(m) \/ (\E u \in Thread : Owns(u, m))
        <4>1. (\E u \in Thread : Owns(u, m)') <=>
                 (\E u \in Thread : Owns(u, m)) \/ m = chain[1]
          BY <2>2
        <4> QED
          BY <4>1, <2>1, <2>3
      <3>2. heap = {m \in Addr : Queued(m) \/ \E u \in Thread : Owns(u, m)}
        BY DEF EveryNodeOwned
      <3> QED
        BY <3>1, <3>2
    <2>6. ASSUME NEW u \in Thread, NEW m \in Addr, Owns(u, m)'
          PROVE  ~Queued(m)' /\ \A v \in Thread : Owns(v, m)' => u = v
      BY <2>1, <2>2, <2>3, <2>6 DEF EveryNodeOwned
    <2> QED
      BY <2>4, <2>5, <2>6 DEF EveryNodeOwned
  <1>4. ListWellFormed'
    <2> USE DEF TypeOK
    <2>1. rear = LastNode /\ \A t \in Producers : pc[t] # "swing" /\ pc'[t] # "swing"
      BY DEF ListWellFormed, RearIsLast, MutualExclusion, InCriticalSection,
             EnqLabel
    <2>2. LastNode = chain[n] /\ next[chain[n]] = NULL
      BY <1>b, <2>1 DEF LastNode, ListWellFormed, ListIsChain
    <2>3. \A i \in 1..n : chain[i] \in Addr /\ chain[i] # front
      OBVIOUS
    <2>4. \A m \in NodeAddr : m # front => next'[m] = next[m]
      OBVIOUS
    <2>5. next'[front] = next[chain[1]]
      BY <1>b
    <2>6. CASE n = 1
      <3>1. chain' = << >> /\ LastNode' = front
        BY <2>6, <1>a DEF LastNode
      <3>2. ListIsChain'
        <4>1. next'[front] = NULL /\ Len(chain') = 0
          BY <2>2, <2>5, <2>6, <1>a
        <4>2. 1..Len(chain') - 1 = {}
          BY <4>1
        <4> QED
          BY <3>1, <4>1, <4>2, <2>1 DEF ListIsChain
      <3>3. RearIsLast'
        BY <3>1, <2>1, <2>2, <2>6, <1>b DEF RearIsLast
      <3> QED
        BY <3>2, <3>3 DEF ListWellFormed
    <2>7. CASE n # 1
      <3>1. chain' # << >> /\ LastNode' = chain[n]
        <4>1. n - 1 \in 1..n - 1 /\ (n - 1) + 1 = n /\ n - 1 # 0
          BY <2>7, <1>a, TwoOrMore
        <4>2. chain' # << >>
          BY <4>1, <1>a
        <4> QED
          BY <4>1, <4>2, <1>a DEF LastNode
      <3>2. next'[front] = chain'[1]
        <4>1. 1 \in 1..n - 1
          BY <2>7, <1>a, TwoOrMore
        <4>2. chain'[1] = chain[1 + 1] /\ next[chain[1]] = chain[1 + 1]
          BY <4>1, <1>a DEF ListWellFormed, ListIsChain
        <4> QED
          BY <4>2, <2>5
      <3>3. ASSUME NEW i \in 1..Len(chain') - 1
            PROVE  next'[chain'[i]] = chain'[i + 1]
        <4>1. /\ i \in 1..n - 1 /\ i + 1 \in 1..n - 1
              /\ chain'[i] = chain[i + 1]
              /\ chain'[i + 1] = chain[(i + 1) + 1]
          BY <1>a
        <4>2. next[chain[i + 1]] = chain[(i + 1) + 1]
          BY <4>1 DEF ListWellFormed, ListIsChain
        <4> QED
          BY <4>1, <4>2, <2>3, <2>4
      <3>4. next'[LastNode'] = NULL
        BY <3>1, <2>2, <2>3, <2>4, <1>a
      <3>5. ListIsChain'
        BY <3>2, <3>3, <3>4, <2>1 DEF ListIsChain
      <3> QED
        BY <3>1, <3>5, <2>1, <2>2 DEF ListWellFormed, RearIsLast
    <2> QED
      BY <2>6, <2>7
  <1>5. TestStillHolds'
    BY OneConsumer DEF TestStillHolds, TypeOK
  <1>6. FieldsFilled'
    BY DEF FieldsFilled, TypeOK, EnqLabel, DeqLabel
  <1> QED
    BY <1>1, <1>2, <1>3, <1>4, <1>5, <1>6

LEMMA DequeueFixRearIInv ==
    ASSUME IInv, NEW c \in Consumers, DequeueFixRear(c)
    PROVE  IInv'
  <1> USE QueueAssumption DEF IInv, DequeueFixRear, Goto, front, NodeAddr, Thread
  <1>1. TypeOK'
    BY DEF TypeOK, EnqLabel, DeqLabel, MutualExclusion, InCriticalSection, TestStillHolds, FieldsFilled
  <1>2. MutualExclusion'
    BY DEF MutualExclusion, InCriticalSection, TypeOK
  <1>3. EveryNodeOwned'
    BY DEF EveryNodeOwned, Owns, Queued, TypeOK, EnqLabel, DeqLabel
  <1>4. ListWellFormed'
    <2>1. ListIsChain'
      BY DEF ListWellFormed, ListIsChain, LastNode, TypeOK
    <2>2. p[c] \in Addr /\ ~Queued(p[c])
      BY DEF FieldsFilled, EveryNodeOwned, Owns, TypeOK
    <2>3. CASE p[c] = rear
      <3>1. chain = << >>
        BY <2>2, <2>3 DEF ListWellFormed, RearIsLast, LastNode, Queued, TypeOK
      <3> QED
        BY <3>1, <2>1, <2>3 DEF ListWellFormed, RearIsLast, LastNode
    <2>4. CASE p[c] # rear
      BY <2>1, <2>4, OneConsumer DEF ListWellFormed, RearIsLast, LastNode
    <2> QED
      BY <2>3, <2>4
  <1>5. TestStillHolds'
    BY DEF TestStillHolds, TypeOK, EnqLabel, DeqLabel
  <1>6. FieldsFilled'
    BY DEF FieldsFilled, TypeOK, EnqLabel, DeqLabel
  <1> QED
    BY <1>1, <1>2, <1>3, <1>4, <1>5, <1>6

LEMMA DequeueFreeIInv ==
    ASSUME IInv, NEW c \in Consumers, DequeueFree(c)
    PROVE  IInv'
  <1> USE QueueAssumption DEF IInv, DequeueFree, Goto, front, NodeAddr, Thread
  <1>1. TypeOK'
    BY DEF TypeOK, EnqLabel, DeqLabel, MutualExclusion, InCriticalSection, TestStillHolds, FieldsFilled
  <1>2. MutualExclusion'
    BY DEF MutualExclusion, InCriticalSection, TypeOK
  <1>3. EveryNodeOwned'
    BY DEF EveryNodeOwned, Owns, Queued, TypeOK, EnqLabel, DeqLabel
  <1>4. ListWellFormed'
    BY DEF ListWellFormed, ListIsChain, RearIsLast, LastNode, TypeOK, EnqLabel, DeqLabel
  <1>5. TestStillHolds'
    BY DEF TestStillHolds, TypeOK, EnqLabel, DeqLabel
  <1>6. FieldsFilled'
    BY DEF FieldsFilled, TypeOK, EnqLabel, DeqLabel
  <1> QED
    BY <1>1, <1>2, <1>3, <1>4, <1>5, <1>6

LEMMA DequeueVIInv ==
    ASSUME IInv, NEW c \in Consumers, DequeueV(c)
    PROVE  IInv'
  <1> USE QueueAssumption DEF IInv, DequeueV, V, Goto, front, NodeAddr, Thread
  <1>1. TypeOK'
    BY DEF TypeOK, EnqLabel, DeqLabel, MutualExclusion, InCriticalSection, TestStillHolds, FieldsFilled
  <1>2. MutualExclusion'
    BY DEF MutualExclusion, InCriticalSection, TypeOK
  <1>3. EveryNodeOwned'
    BY DEF EveryNodeOwned, Owns, Queued, TypeOK, EnqLabel, DeqLabel
  <1>4. ListWellFormed'
    BY DEF ListWellFormed, ListIsChain, RearIsLast, LastNode, TypeOK, EnqLabel, DeqLabel
  <1>5. TestStillHolds'
    BY DEF TestStillHolds, TypeOK, EnqLabel, DeqLabel
  <1>6. FieldsFilled'
    BY DEF FieldsFilled, TypeOK, EnqLabel, DeqLabel
  <1> QED
    BY <1>1, <1>2, <1>3, <1>4, <1>5, <1>6

LEMMA EnqueueNoMemoryIInv ==
    ASSUME IInv, NEW t \in Producers, EnqueueNoMemory(t)
    PROVE  IInv'
  <1> USE DEF IInv, EnqueueNoMemory
  <1>1. exited' \in BOOLEAN
    BY Zenon
  <1>2. TypeOK'
    BY <1>1 DEF TypeOK
  <1>3. MutualExclusion' /\ TestStillHolds' /\ FieldsFilled'
    BY DEF MutualExclusion, InCriticalSection, TestStillHolds, FieldsFilled
  <1>4. EveryNodeOwned'
    BY DEF EveryNodeOwned, Owns, Queued
  <1>5. ListWellFormed'
    BY DEF ListWellFormed, ListIsChain, RearIsLast, LastNode
  <1> QED
    BY <1>2, <1>3, <1>4, <1>5

\* A step that changes nothing.
LEMMA StutterIInv == IInv /\ UNCHANGED vars => IInv'
  <1> SUFFICES ASSUME IInv, UNCHANGED vars PROVE IInv'
    OBVIOUS
  <1> USE DEF IInv, vars
  <1>1. TypeOK'
    BY DEF TypeOK
  <1>2. MutualExclusion' /\ TestStillHolds' /\ FieldsFilled'
    BY DEF MutualExclusion, InCriticalSection, TestStillHolds, FieldsFilled
  <1>3. EveryNodeOwned'
    BY DEF EveryNodeOwned, Owns, Queued
  <1>4. ListWellFormed'
    BY DEF ListWellFormed, ListIsChain, RearIsLast, LastNode
  <1> QED
    BY <1>1, <1>2, <1>3, <1>4

\* Every step preserves the invariant.
LEMMA NextIInv == IInv /\ [Next]_vars => IInv'
  <1> SUFFICES ASSUME IInv, [Next]_vars PROVE IInv'
    OBVIOUS
  <1>1. ASSUME NEW t \in Producers, Enqueue(t)
        PROVE  IInv'
    BY <1>1, EnqueueMallocIInv, EnqueueNoMemoryIInv, EnqueuePIInv,
       EnqueueLinkIInv, EnqueueSwingIInv, EnqueueVIInv DEF Enqueue
  <1>2. ASSUME NEW c \in Consumers, Dequeue(c)
        PROVE  IInv'
    BY <1>2, DequeueEmptyIInv, DequeueNonEmptyIInv, DequeuePIInv,
       DequeueTakeIInv, DequeueFixRearIInv, DequeueFreeIInv, DequeueVIInv
    DEF Dequeue
  <1>3. CASE UNCHANGED vars
    BY <1>3, StutterIInv
  <1> QED
    BY <1>1, <1>2, <1>3 DEF Next, Exited

\* The inductive invariant holds for ever: a queue of bcrawler.h with one
\* consumer is, between any two instructions of its callers, a well-formed
\* list whose nodes each have one owner.
THEOREM InvariantIInv == Spec => []IInv
  <1> QED
    BY InitIInv, NextIInv, PTL DEF Spec

\* Every variable keeps its type; in particular the semaphore is binary.
THEOREM TypeCorrect == Spec => []TypeOK
  <1>1. IInv => TypeOK
    BY DEF IInv
  <1> QED
    BY <1>1, InvariantIInv, PTL

\* At most one thread is between P and V of the queue's semaphore.
THEOREM Exclusion == Spec => []MutualExclusion
  <1>1. IInv => MutualExclusion
    BY DEF IInv
  <1> QED
    BY <1>1, InvariantIInv, PTL

\* No node is leaked, freed twice or used after free().
THEOREM Ownership == Spec => []EveryNodeOwned
  <1>1. IInv => EveryNodeOwned
    BY DEF IInv
  <1> QED
    BY <1>1, InvariantIInv, PTL

\* next and rear always spell the queue.
THEOREM WellFormed == Spec => []ListWellFormed
  <1>1. IInv => ListWellFormed
    BY DEF IInv
  <1> QED
    BY <1>1, InvariantIInv, PTL

\* The emptiness test dequeue() makes before it has the semaphore is still
\* true when it dereferences front->next, however long it waits in between.
THEOREM NoNullPointer == Spec => []NoNullDereference
  <1>1. IInv => NoNullDereference
    <2> SUFFICES ASSUME IInv, NEW c \in Consumers, pc[c] \in {"deqP", "take"}
                 PROVE  next[front] # NULL
      BY DEF NoNullDereference
    <2>1. chain # << >> /\ chain \in Seq(Addr)
      BY DEF IInv, TestStillHolds, TypeOK
    <2>2. next[front] = chain[1] /\ chain[1] \in Addr
      BY <2>1 DEF IInv, ListWellFormed, ListIsChain
    <2> QED
      BY <2>2, QueueAssumption
  <1> QED
    BY <1>1, InvariantIInv, PTL

-----------------------------------------------------------------------------
(* The list implements the FIFO queue.                                     *)

\* What the abstract queue holds, and how two queues are compared.
LEMMA ContentsFacts ==
    ASSUME IInv
    PROVE  /\ Contents \in Seq(Element)
           /\ Len(Contents) = Len(chain)
           /\ \A i \in 1..Len(chain) : Contents[i] = pointer[chain[i]]
  <1>1. Len(chain) \in Nat
    BY DEF IInv, TypeOK
  <1>2. \A i \in 1..Len(chain) : pointer[chain[i]] \in Element
    BY DEF IInv, FieldsFilled
  <1> QED
    BY <1>1, <1>2 DEF Contents

\* The same after a step.
LEMMA NextContentsFacts ==
    ASSUME IInv'
    PROVE  /\ Contents' \in Seq(Element)
           /\ Len(Contents') = Len(chain')
           /\ \A i \in 1..Len(chain') : Contents'[i] = pointer'[chain'[i]]
  <1>1. Len(chain') \in Nat
    BY DEF IInv, TypeOK
  <1>2. \A i \in 1..Len(chain') : pointer'[chain'[i]] \in Element
    BY DEF IInv, FieldsFilled
  <1> QED
    BY <1>1, <1>2 DEF Contents

\* pointer and chain determine the contents.
LEMMA SameContents ==
    ASSUME UNCHANGED chain,
           \A i \in 1..Len(chain) : pointer'[chain[i]] = pointer[chain[i]]
    PROVE  Contents' = Contents
  BY DEF Contents

\* linking a node and making it the rear appends its element.
LEMMA SwingPuts ==
    ASSUME IInv, IInv', NEW t \in Producers, EnqueueSwing(t)
    PROVE  Abstract!Put(element[t])
  <1> DEFINE n == Len(chain)
  <1>1. /\ new_node[t] \in Addr
        /\ element[t] \in Element
        /\ pointer[new_node[t]] = element[t]
        /\ pc[t] = "swing"
    BY DEF IInv, FieldsFilled, EnqueueSwing
  <1>2. /\ chain \in Seq(Addr) /\ n \in Nat
        /\ chain' = Append(chain, new_node[t])
        /\ pointer' = pointer /\ result' = result
    BY DEF IInv, TypeOK, EnqueueSwing
  <1>3. /\ Len(chain') = n + 1
        /\ chain'[n + 1] = new_node[t]
        /\ \A i \in 1..n : chain'[i] = chain[i]
    BY <1>1, <1>2, AppendFacts
  <1>4. /\ Contents \in Seq(Element) /\ Len(Contents) = n
        /\ \A i \in 1..n : Contents[i] = pointer[chain[i]]
    BY ContentsFacts
  <1>5. /\ Contents' \in Seq(Element) /\ Len(Contents') = n + 1
        /\ \A i \in 1..n + 1 : Contents'[i] = pointer[chain'[i]]
    BY <1>2, <1>3, NextContentsFacts
  <1> DEFINE new == Append(Contents, element[t])
  <1>6. /\ new \in Seq(Element) /\ Len(new) = n + 1
        /\ \A i \in 1..n : new[i] = Contents[i]
        /\ new[n + 1] = element[t]
    BY <1>1, <1>4, AppendFacts
  <1>7. ASSUME NEW i \in 1..n + 1
        PROVE  Contents'[i] = new[i]
    <2>1. CASE i = n + 1
      BY <2>1, <1>1, <1>3, <1>5, <1>6
    <2>2. CASE i # n + 1
      <3>1. i \in 1..n
        BY <2>2, <1>2
      <3> QED
        BY <3>1, <1>3, <1>4, <1>5, <1>6
    <2> QED
      BY <2>1, <2>2
  <1>8. Contents' = new
    <2> HIDE DEF new
    <2> QED
      BY <1>5, <1>6, <1>7, SeqEqual
  <1> QED
    BY <1>2, <1>8 DEF Abstract!Put

\* p->pointer of the first node is the oldest element.
LEMMA TakeTakes ==
    ASSUME IInv, IInv', NEW c \in Consumers, DequeueTake(c)
    PROVE  Abstract!Take(c)
  <1> DEFINE n == Len(chain)
  <1>1. /\ chain \in Seq(Addr) /\ chain # << >>
        /\ chain' = Tail(chain)
        /\ pointer' = pointer
        /\ result' = [result EXCEPT ![c] = pointer[next[front]]]
    BY DEF IInv, TypeOK, TestStillHolds, DequeueTake
  <1>2. /\ n \in Nat /\ n >= 1
        /\ Len(chain') = n - 1
        /\ \A i \in 1..n - 1 : chain'[i] = chain[i + 1]
    BY <1>1, TailFacts
  <1>3. next[front] = chain[1]
    BY <1>1 DEF IInv, ListWellFormed, ListIsChain
  <1>4. /\ Contents \in Seq(Element) /\ Len(Contents) = n
        /\ \A i \in 1..n : Contents[i] = pointer[chain[i]]
    BY ContentsFacts
  <1>5. /\ Contents' \in Seq(Element) /\ Len(Contents') = n - 1
        /\ \A i \in 1..n - 1 : Contents'[i] = pointer[chain'[i]]
    BY <1>1, <1>2, NextContentsFacts
  <1>6. Contents # << >> /\ Head(Contents) = pointer[next[front]]
    BY <1>2, <1>3, <1>4
  <1> DEFINE new == Tail(Contents)
  <1>7. /\ new \in Seq(Element) /\ Len(new) = n - 1
        /\ \A i \in 1..n - 1 : new[i] = Contents[i + 1]
    BY <1>4, <1>6, TailFacts
  <1>8. ASSUME NEW i \in 1..n - 1
        PROVE  Contents'[i] = new[i]
    <2>1. i + 1 \in 1..n
      BY <1>2
    <2> QED
      BY <2>1, <1>2, <1>4, <1>5, <1>7
  <1>9. Contents' = new
    <2> HIDE DEF new
    <2> QED
      BY <1>5, <1>7, <1>8, SeqEqual
  <1> QED
    BY <1>1, <1>6, <1>9 DEF Abstract!Take

\* front == rear means that there is nothing in the queue.
LEMMA EmptyTakesNothing ==
    ASSUME IInv, NEW c \in Consumers, DequeueEmpty(c)
    PROVE  Abstract!TakeNothing(c)
  <1>1. chain \in Seq(Addr) /\ pc[c] = "idle" /\ rear = front
    BY DEF IInv, TypeOK, DequeueEmpty
  <1>2. front \notin Addr
    BY QueueAssumption DEF front
  <1>3. rear = LastNode
    BY <1>1, OneConsumer DEF IInv, ListWellFormed, RearIsLast
  <1>4. chain = << >>
    BY <1>1, <1>2, <1>3 DEF LastNode
  <1>5. Contents = << >>
    BY <1>4, ContentsFacts
  <1>6. Contents' = Contents
    BY SameContents DEF DequeueEmpty
  <1> QED
    BY <1>5, <1>6 DEF Abstract!TakeNothing, DequeueEmpty

\* Each step of the list is a step of the queue or invisible to it.
LEMMA StepSimulation ==
    IInv /\ IInv' /\ [Next]_vars => [Abstract!Next]_Abstract!vars
  <1> SUFFICES ASSUME IInv, IInv', [Next]_vars
               PROVE  [Abstract!Next]_Abstract!vars
    OBVIOUS
  <1>1. ASSUME UNCHANGED <<chain, pointer, result>>
        PROVE  UNCHANGED Abstract!vars
    BY <1>1, SameContents DEF Abstract!vars
  <1>2. ASSUME NEW t \in Producers, Enqueue(t)
        PROVE  [Abstract!Next]_Abstract!vars
    <2>1. ASSUME NEW e \in Element, NEW n \in Addr, EnqueueMalloc(t, e, n)
          PROVE  UNCHANGED Abstract!vars
      BY <2>1, <1>1 DEF EnqueueMalloc
    <2>2. CASE EnqueueNoMemory(t)
      BY <2>2, <1>1 DEF EnqueueNoMemory
    <2>3. CASE EnqueueP(t)
      BY <2>3, <1>1 DEF EnqueueP, P
    <2>4. CASE EnqueueLink(t)
      <3>1. ~Queued(new_node[t]) /\ new_node[t] \in Addr
        BY <2>4 DEF IInv, EveryNodeOwned, Owns, FieldsFilled, EnqueueLink,
                     Thread
      <3>2. \A i \in 1..Len(chain) : pointer'[chain[i]] = pointer[chain[i]]
        BY <2>4, <3>1 DEF IInv, TypeOK, Queued, EnqueueLink, NodeAddr
      <3> QED
        BY <2>4, <3>2, SameContents DEF EnqueueLink, Abstract!vars
    <2>5. CASE EnqueueSwing(t)
      <3>1. element[t] \in Element
        BY <2>5 DEF IInv, FieldsFilled, EnqueueSwing
      <3> QED
        BY <2>5, <3>1, SwingPuts DEF Abstract!Next
    <2>6. CASE EnqueueV(t)
      BY <2>6, <1>1 DEF EnqueueV, V
    <2> QED
      BY <1>2, <2>1, <2>2, <2>3, <2>4, <2>5, <2>6 DEF Enqueue
  <1>3. ASSUME NEW c \in Consumers, Dequeue(c)
        PROVE  [Abstract!Next]_Abstract!vars
    <2>1. CASE DequeueEmpty(c)
      BY <2>1, EmptyTakesNothing DEF Abstract!Next
    <2>2. CASE DequeueNonEmpty(c)
      BY <2>2, <1>1 DEF DequeueNonEmpty
    <2>3. CASE DequeueP(c)
      BY <2>3, <1>1 DEF DequeueP, P
    <2>4. CASE DequeueTake(c)
      BY <2>4, TakeTakes DEF Abstract!Next
    <2>5. CASE DequeueFixRear(c)
      BY <2>5, <1>1 DEF DequeueFixRear
    <2>6. CASE DequeueFree(c)
      BY <2>6, <1>1 DEF DequeueFree
    <2>7. CASE DequeueV(c)
      BY <2>7, <1>1 DEF DequeueV, V
    <2> QED
      BY <1>3, <2>1, <2>2, <2>3, <2>4, <2>5, <2>6, <2>7 DEF Dequeue
  <1>4. CASE UNCHANGED vars
    BY <1>4, <1>1 DEF vars
  <1> QED
    BY <1>2, <1>3, <1>4 DEF Next, Exited

\* The queue of bcrawler.h, with its unlocked emptiness test, is a FIFO queue:
\* nothing is lost, duplicated or reordered, and dequeue() returns NULL only
\* when there is nothing to return.
THEOREM QueueImplementsFifo == Spec => ImplementsFifo
  <1>1. Init => Abstract!Init
    <2> SUFFICES ASSUME Init PROVE Abstract!Init
      OBVIOUS
    <2>1. Contents = << >>
      <3>1. IInv /\ Len(chain) = 0
        BY InitIInv DEF Init
      <3> QED
        BY <3>1, ContentsFacts
    <2> QED
      BY <2>1 DEF Init, Abstract!Init
  <1>2. IInv /\ IInv' /\ [Next]_vars => [Abstract!Next]_Abstract!vars
    BY StepSimulation
  <1> QED
    BY <1>1, <1>2, InvariantIInv, PTL DEF Spec, ImplementsFifo, Abstract!Spec
=============================================================================

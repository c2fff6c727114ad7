--------------------------- MODULE CrawlerProofs ----------------------------
(***************************************************************************)
(* Proofs about Crawler, for any finite set of urls and any pages: types,  *)
(* the one place of every request, the order of the output file and the    *)
(* links of the index, whatever the order in which main(), the two threads *)
(* and the server run.  Then about UrlTrie, for any strings: that the trie *)
(* implements the index the crawler uses, and what dump_link() writes.     *)
(***************************************************************************)
EXTENDS Crawler, MatchingProofs

-----------------------------------------------------------------------------
(* The inductive invariant                                                 *)

\* How the threads' positions hang together: before main() joins
\* send_thread_once nothing has reached recv_thread, and between the join and
\* the second Pthread_create() no thread reads send_queue.
Threads ==
    /\ main_pc = "start" =>
          /\ send_queue = << >> /\ output = << >> /\ events = {}
          /\ send_pc = "none" /\ current_id = 1 /\ answered = {}
    /\ main_pc \in {"start", "join"} =>
          recv_pc = "none" /\ cb = NULL /\ recv_queue = << >>
    /\ main_pc \in {"loop_once", "create"} => send_pc = "done"
    /\ send_url # NULL <=> send_pc \in {"open", "add"}
    /\ recv_url # NULL <=> recv_pc \in {"persist", "print", "enqueue"}
    /\ recv_pc \in {"print", "enqueue"} =>
          ri = current_id - 1 /\ ri > 0 /\ url_id[recv_url.buf] = ri

\* The urls with an id, and the trie's part of the invariant.
Seen == {u \in Url : url_id[u] # 0}

Ids ==
    /\ current_id - 1 = Cardinality(Seen)
    /\ \A u \in Seen : url_id[u] \in 1..current_id - 1
    /\ \A u, v \in Seen : url_id[u] = url_id[v] => u = v
    /\ \A i \in 1..current_id - 1 : \E u \in Seen : url_id[u] = i
    /\ \A u \in Url : links[u] \subseteq 0..current_id - 1
    /\ \A u \in Url \ Seen : links[u] = {}

\* The ids of the requests at each place of their way.
Queued == {send_queue[k].id : k \in DOMAIN send_queue}
Sending == IF send_url = NULL THEN {} ELSE {send_url.id}
Registered == {e.url.id : e \in events}
Reading == IF cb = NULL THEN {} ELSE {cb.url.id}
Printing == IF recv_pc \in {"print", "enqueue"} THEN {ri} ELSE {}

\* The ids given out, 0 being the first url's, once main() has queued it.
GivenOut == IF main_pc = "start" THEN {} ELSE 0..current_id - 1

\* Every id given out is at one place, once.
OnePlace ==
    /\ GivenOut = Queued \cup Sending \cup Registered \cup Reading
                    \cup answered \cup Printing
    /\ Queued \cap (Sending \cup Registered \cup Reading \cup answered
                       \cup Printing) = {}
    /\ Sending \cap (Registered \cup Reading \cup answered \cup Printing) = {}
    /\ Registered \cap (Reading \cup answered \cup Printing) = {}
    /\ Reading \cap (answered \cup Printing) = {}
    /\ answered \cap Printing = {}
    /\ \A j, k \in DOMAIN send_queue :
          send_queue[j].id = send_queue[k].id => j = k
    /\ \A e, f \in events : e.url.id = f.url.id => e = f

\* i is the id of u.
IsIdOf(i, u) == IF i = 0 THEN u = FirstUrl ELSE url_id[u] = i

\* A request asks for the url its id stands for.
RightUrl ==
    /\ \A k \in DOMAIN send_queue : IsIdOf(send_queue[k].id, send_queue[k].buf)
    /\ send_url # NULL => IsIdOf(send_url.id, send_url.buf)
    /\ \A e \in events : IsIdOf(e.url.id, e.url.buf)
    /\ cb # NULL => IsIdOf(cb.url.id, cb.url.buf)

\* The link from the page with id i to u is in the trie or on its way there.
Noted(i, u) == i \in links[u] \/ [id |-> i, buf |-> u] \in InTransit

\* LinksExact, and what the callback has read of its page so far.
LinksKept ==
    /\ LinksExact
    /\ \A r \in InTransit : r.id \in GivenOut
    /\ cb # NULL =>
          /\ cb.line <= Len(Answer(cb))
          /\ \A k \in 1..cb.line :
                Answer(cb)[k] # NoLink => Noted(cb.url.id, Answer(cb)[k])

CrawlerInv == TypeOK /\ Threads /\ Ids /\ OnePlace /\ RightUrl
                 /\ OutputIsIndex /\ LinksKept

-----------------------------------------------------------------------------
(* Queues as sequences                                                     *)

\* What a queue holds after an enqueue().
LEMMA AppendFacts ==
    ASSUME NEW S, NEW s \in Seq(S), NEW e \in S
    PROVE  /\ Append(s, e) \in Seq(S)
           /\ Len(s) \in Nat
           /\ Len(Append(s, e)) = Len(s) + 1
           /\ DOMAIN s = 1..Len(s)
           /\ DOMAIN Append(s, e) = 1..Len(s) + 1
           /\ \A k \in DOMAIN s : Append(s, e)[k] = s[k]
           /\ Append(s, e)[Len(s) + 1] = e
  OBVIOUS

\* What a queue holds after a dequeue().
LEMMA TailFacts ==
    ASSUME NEW S, NEW s \in Seq(S), s # << >>
    PROVE  /\ Head(s) \in S /\ Head(s) = s[1]
           /\ Tail(s) \in Seq(S)
           /\ Len(s) \in Nat /\ Len(s) >= 1
           /\ DOMAIN s = 1..Len(s)
           /\ DOMAIN Tail(s) = 1..Len(s) - 1
           /\ \A k \in DOMAIN Tail(s) : Tail(s)[k] = s[k + 1]
  OBVIOUS

\* The elements of a queue have the queue's type.
LEMMA ElementType ==
    ASSUME NEW S, NEW s \in Seq(S)
    PROVE  \A k \in 1..Len(s) : s[k] \in S
  OBVIOUS

\* The elements of a queue after an enqueue() ...
LEMMA AppendElements ==
    ASSUME NEW S, NEW s \in Seq(S), NEW e \in S
    PROVE  {Append(s, e)[k] : k \in DOMAIN Append(s, e)} =
              {s[k] : k \in DOMAIN s} \cup {e}
  <1>1. \A k \in DOMAIN Append(s, e) : k \in DOMAIN s \/ k = Len(s) + 1
    BY AppendFacts
  <1>2. Len(s) + 1 \in DOMAIN Append(s, e) /\ DOMAIN s \subseteq DOMAIN Append(s, e)
    BY AppendFacts
  <1> QED
    BY <1>1, <1>2, AppendFacts

\* ... and after a dequeue().
LEMMA TailElements ==
    ASSUME NEW S, NEW s \in Seq(S), s # << >>
    PROVE  {s[k] : k \in DOMAIN s} =
              {Head(s)} \cup {Tail(s)[k] : k \in DOMAIN Tail(s)}
  <1>1. \A k \in DOMAIN s : k = 1 \/ (k - 1 \in DOMAIN Tail(s) /\ (k - 1) + 1 = k)
    BY TailFacts
  <1>2. \A k \in DOMAIN Tail(s) : k + 1 \in DOMAIN s
    BY TailFacts
  <1>3. 1 \in DOMAIN s
    BY TailFacts
  <1>4. \A k \in DOMAIN s : s[k] \in {Head(s)} \cup {Tail(s)[j] : j \in DOMAIN Tail(s)}
    BY <1>1, TailFacts
  <1> QED
    BY <1>2, <1>3, <1>4, TailFacts

\* The ids in a queue before and after a dequeue().
LEMMA TailIds ==
    ASSUME NEW s \in Seq(P_TYPE), s # << >>
    PROVE  {s[k].id : k \in DOMAIN s} =
              {Head(s).id} \cup {Tail(s)[k].id : k \in DOMAIN Tail(s)}
  <1>1. \A k \in DOMAIN s : k = 1 \/ (k - 1 \in DOMAIN Tail(s) /\ (k - 1) + 1 = k)
    BY TailFacts
  <1>2. \A k \in DOMAIN Tail(s) : k + 1 \in DOMAIN s /\ Tail(s)[k] = s[k + 1]
    BY TailFacts
  <1>3. 1 \in DOMAIN s /\ Head(s) = s[1]
    BY TailFacts
  <1>4. \A k \in DOMAIN s : s[k].id \in {Head(s).id}
                              \cup {Tail(s)[j].id : j \in DOMAIN Tail(s)}
    BY <1>1, <1>2, <1>3
  <1> QED
    BY <1>2, <1>3, <1>4

-----------------------------------------------------------------------------
(* The invariant holds initially                                           *)

LEMMA InitCrawlerInv == Init => CrawlerInv
  <1> SUFFICES ASSUME Init PROVE CrawlerInv
    OBVIOUS
  <1> USE DEF Init, Index!Init
  <1>1. Cardinality(Url) \in Nat /\ Cardinality({}) = 0
    BY CrawlerAssumption, FS_CardinalityType, FS_EmptySet
  <1>2. TypeOK
    BY <1>1 DEF TypeOK, Id
  <1>3. Threads /\ OnePlace /\ RightUrl
    BY DEF Threads, OnePlace, RightUrl, GivenOut, Queued, Sending, Registered,
           Reading, Printing
  <1>4. Ids
    <2>1. Seen = {}
      BY DEF Seen
    <2> QED
      BY <1>1, <2>1 DEF Ids
  <1>5. OutputIsIndex
    BY DEF OutputIsIndex
  <1>6. LinksKept
    BY DEF LinksKept, LinksExact, InTransit
  <1> QED
    BY <1>2, <1>3, <1>4, <1>5, <1>6 DEF CrawlerInv

-----------------------------------------------------------------------------
(* What a step leaves alone                                                *)

\* Only recv_thread's url_persistence() touches the trie.
LEMMA IdsStay ==
    ASSUME Ids, UNCHANGED index_vars
    PROVE  Ids' /\ Seen' = Seen
  BY DEF Ids, Seen, index_vars

\* The place of a request depends on one variable each.
LEMMA PlacesStay ==
    /\ UNCHANGED send_queue => Queued' = Queued
    /\ UNCHANGED send_url => Sending' = Sending
    /\ UNCHANGED events => Registered' = Registered
    /\ UNCHANGED cb => Reading' = Reading
  <1>1. UNCHANGED send_queue => Queued' = Queued
    BY DEF Queued
  <1>2. UNCHANGED send_url => Sending' = Sending
    BY DEF Sending
  <1>3. UNCHANGED events => Registered' = Registered
    BY DEF Registered
  <1>4. UNCHANGED cb => Reading' = Reading
    BY DEF Reading
  <1> QED
    BY <1>1, <1>2, <1>3, <1>4

\* The links after a step that neither reads a line nor calls the trie.
LEMMA LinksStay ==
    ASSUME LinksKept, GivenOut' = GivenOut, InTransit' = InTransit,
           UNCHANGED <<url_id, links, cb, answered>>
    PROVE  LinksKept'
  <1>1. \A i : LinksOn(i)' = LinksOn(i)
    BY DEF LinksOn, UrlOf
  <1>2. \A i, u : Noted(i, u)' <=> Noted(i, u)
    BY DEF Noted
  <1>3. LinksExact'
    BY <1>1 DEF LinksKept, LinksExact
  <1>4. \A r \in InTransit' : r.id \in GivenOut'
    BY DEF LinksKept
  <1>5. (cb # NULL => /\ cb.line <= Len(Answer(cb))
                      /\ \A k \in 1..cb.line :
                            Answer(cb)[k] # NoLink => Noted(cb.url.id, Answer(cb)[k]))'
    BY <1>2 DEF LinksKept, Answer
  <1> QED
    BY <1>3, <1>4, <1>5 DEF LinksKept

\* The requests, the links and the output after a step that moves none.
LEMMA NothingMoves ==
    ASSUME CrawlerInv,
           UNCHANGED <<shared, cb, send_url, recv_url, index_vars, answered>>,
           main_pc # "start", main_pc' # "start",
           recv_pc \in {"print", "enqueue"} <=> recv_pc' \in {"print", "enqueue"},
           recv_pc = "print" <=> recv_pc' = "print",
           recv_pc = "persist" <=> recv_pc' = "persist"
    PROVE  Ids' /\ OnePlace' /\ RightUrl' /\ OutputIsIndex' /\ LinksKept'
  <1> USE DEF CrawlerInv, shared, queues
  <1>1. Ids'
    BY IdsStay
  <1>2. OnePlace'
    BY PlacesStay DEF OnePlace, Printing, GivenOut, index_vars
  <1>3. RightUrl'
    BY DEF RightUrl, IsIdOf, index_vars
  <1>4. OutputIsIndex'
    BY DEF OutputIsIndex, index_vars
  <1>5. LinksKept'
    <2>1. GivenOut' = GivenOut /\ InTransit' = InTransit
      BY DEF GivenOut, InTransit, index_vars
    <2> QED
      BY <2>1, LinksStay DEF index_vars
  <1> QED
    BY <1>1, <1>2, <1>3, <1>4, <1>5

-----------------------------------------------------------------------------
(* The steps of main() and of send_thread that move no request             *)

LEMMA MainJoinKeeps ==
    ASSUME CrawlerInv, MainJoin
    PROVE  CrawlerInv'
  <1> USE DEF CrawlerInv, MainJoin, shared, queues
  <1>1. TypeOK'
    BY DEF TypeOK, send_vars, index_vars, server_vars
  <1>2. Threads'
    BY DEF Threads, send_vars, index_vars, server_vars
  <1>3. Ids' /\ OnePlace' /\ RightUrl' /\ OutputIsIndex' /\ LinksKept'
    BY NothingMoves DEF Threads, send_vars, server_vars
  <1> QED
    BY <1>1, <1>2, <1>3

LEMMA MainCreateKeeps ==
    ASSUME CrawlerInv, MainCreate
    PROVE  CrawlerInv'
  <1> USE DEF CrawlerInv, MainCreate, shared, queues
  <1>1. TypeOK'
    BY DEF TypeOK, recv_vars, index_vars, server_vars
  <1>2. Threads'
    BY DEF Threads, recv_vars, index_vars, server_vars
  <1>3. Ids' /\ OnePlace' /\ RightUrl' /\ OutputIsIndex' /\ LinksKept'
    BY NothingMoves DEF recv_vars, server_vars
  <1> QED
    BY <1>1, <1>2, <1>3

LEMMA MainFinishKeeps ==
    ASSUME CrawlerInv, MainFinish
    PROVE  CrawlerInv'
  <1> USE DEF CrawlerInv, MainFinish, shared, queues
  <1>1. TypeOK'
    BY DEF TypeOK, send_vars, recv_vars, index_vars, server_vars
  <1>2. Threads'
    BY DEF Threads, send_vars, recv_vars, index_vars, server_vars
  <1>3. Ids' /\ OnePlace' /\ RightUrl' /\ OutputIsIndex' /\ LinksKept'
    BY NothingMoves DEF send_vars, recv_vars, server_vars
  <1> QED
    BY <1>1, <1>2, <1>3

LEMMA SendOpenKeeps ==
    ASSUME CrawlerInv, SendOpen
    PROVE  CrawlerInv'
  <1> USE DEF CrawlerInv, SendOpen, shared, queues
  <1>1. TypeOK'
    BY DEF TypeOK, main_vars, recv_vars, index_vars, server_vars
  <1>2. Threads'
    BY DEF Threads, main_vars, recv_vars, index_vars, server_vars
  <1>3. Ids' /\ OnePlace' /\ RightUrl' /\ OutputIsIndex' /\ LinksKept'
    BY NothingMoves DEF Threads, main_vars, recv_vars, server_vars
  <1> QED
    BY <1>1, <1>2, <1>3

\* An error ends the process and changes nothing else.
LEMMA ErrorKeeps ==
    ASSUME CrawlerInv, status' \in {"io_error", "would_block"},
           UNCHANGED <<shared, main_vars, send_vars, recv_vars, index_vars,
                       server_vars>>
    PROVE  CrawlerInv'
  <1> USE DEF CrawlerInv, shared, queues, main_vars, send_vars, recv_vars,
              index_vars, server_vars
  <1>1. TypeOK'
    BY DEF TypeOK
  <1>2. Threads'
    BY DEF Threads
  <1>3. Ids' /\ OnePlace'
    BY IdsStay, PlacesStay DEF OnePlace, Printing, GivenOut, index_vars
  <1>4. RightUrl' /\ OutputIsIndex' /\ LinksKept'
    <2>1. GivenOut' = GivenOut /\ InTransit' = InTransit
      BY DEF GivenOut, InTransit
    <2> QED
      BY <2>1, LinksStay DEF RightUrl, IsIdOf, OutputIsIndex
  <1> QED
    BY <1>1, <1>2, <1>3, <1>4

\* More of an answer arrives.
LEMMA ServerSendKeeps ==
    ASSUME CrawlerInv, NEW r \in Waiting, ServerSend(r)
    PROVE  CrawlerInv'
  <1> USE DEF CrawlerInv, ServerSend, shared, queues, main_vars, send_vars,
              recv_vars, index_vars
  <1>1. arrived' \in [Id -> Nat]
    <2>1. r.url.id \in Id
      BY DEF TypeOK, Waiting, Event, Callback, P_TYPE
    <2>2. arrived \in [Id -> Nat] /\ arrived[r.url.id] + 1 \in Nat
      BY <2>1 DEF TypeOK
    <2> QED
      BY <2>2
  <1>2. TypeOK'
    BY <1>1 DEF TypeOK
  <1>3. Threads'
    BY DEF Threads
  <1>4. main_pc # "start"
    BY DEF Threads, Waiting
  <1>5. Ids' /\ OnePlace' /\ RightUrl' /\ OutputIsIndex' /\ LinksKept'
    BY <1>4, NothingMoves
  <1> QED
    BY <1>2, <1>3, <1>5

-----------------------------------------------------------------------------
(* The steps that move a request                                           *)

\* The trie, the output and the links after a step that only moves a request.
LEMMA OnlyRequestsMove ==
    ASSUME CrawlerInv, main_pc # "start", main_pc' # "start",
           UNCHANGED <<recv_queue, output, recv_vars, index_vars>>
    PROVE  /\ Ids' /\ OutputIsIndex'
           /\ GivenOut' = GivenOut /\ InTransit' = InTransit
           /\ \A i, u : /\ IsIdOf(i, u)' <=> IsIdOf(i, u)
                       /\ Noted(i, u)' <=> Noted(i, u)
           /\ \A i : LinksOn(i)' = LinksOn(i)
  <1> USE DEF CrawlerInv, recv_vars, index_vars
  <1>1. Ids' /\ OutputIsIndex' /\ GivenOut' = GivenOut
    BY IdsStay DEF OutputIsIndex, GivenOut
  <1>2. InTransit' = InTransit
    BY DEF InTransit
  <1>3. \A i, u : IsIdOf(i, u)' <=> IsIdOf(i, u)
    BY DEF IsIdOf
  <1>4. \A i, u : Noted(i, u)' <=> Noted(i, u)
    BY <1>2 DEF Noted
  <1>5. \A i : LinksOn(i)' = LinksOn(i)
    BY DEF LinksOn, UrlOf
  <1> QED
    BY <1>1, <1>2, <1>3, <1>4, <1>5

\* main() queues the first url: the id 0 is given out.
LEMMA MainStartKeeps ==
    ASSUME CrawlerInv, MainStart
    PROVE  CrawlerInv'
  <1> USE DEF CrawlerInv, MainStart, recv_vars, index_vars, server_vars
  <1>1. FirstUrl \in Url /\ 0 \in Id /\ Cardinality(Url) \in Nat
    BY CrawlerAssumption, FS_CardinalityType DEF Id
  <1>2. TypeOK'
    BY <1>1 DEF TypeOK, P_TYPE
  <1>3. Threads'
    BY DEF Threads
  <1>4. Ids'
    BY IdsStay
  <1>5. cb = NULL /\ send_url = NULL /\ recv_pc = "none" /\ recv_queue = << >>
        /\ events = {} /\ answered = {} /\ current_id = 1
    BY DEF Threads
  <1>6. Queued' = {0} /\ GivenOut' = {0}
    BY <1>5 DEF Queued, GivenOut
  <1>7. OnePlace'
    BY <1>5, <1>6 DEF OnePlace, Sending, Registered, Reading, Printing
  <1>8. RightUrl'
    BY <1>5 DEF RightUrl, IsIdOf
  <1>9. OutputIsIndex'
    BY <1>5 DEF OutputIsIndex
  <1>10. InTransit' = {} /\ InTransit = {}
    BY <1>5 DEF InTransit
  <1>11. LinksKept'
    BY <1>5, <1>10 DEF LinksKept, LinksExact, LinksOn, UrlOf, Answer
  <1> QED
    BY <1>2, <1>3, <1>4, <1>7, <1>8, <1>9, <1>11

\* The request at the front of send_queue goes to send_thread.
LEMMA SendDequeueKeeps ==
    ASSUME CrawlerInv, SendDequeue
    PROVE  CrawlerInv'
  <1> USE DEF CrawlerInv, SendDequeue, main_vars, recv_vars, index_vars,
              server_vars
  <1> DEFINE h == Head(send_queue)
  <1>1. send_queue \in Seq(P_TYPE) /\ send_queue # << >> /\ send_queue' = Tail(send_queue)
    BY DEF TypeOK
  <1>2. h \in P_TYPE /\ send_url' = h /\ h # NULL /\ Tail(send_queue) \in Seq(P_TYPE)
    BY <1>1, TailFacts, NullAssumption
  <1>3. main_pc # "start" /\ send_url = NULL
    BY DEF Threads
  <1>4. TypeOK'
    BY <1>1, <1>2 DEF TypeOK
  <1>5. Threads'
    BY <1>2, <1>3 DEF Threads
  <1>6. Ids' /\ OutputIsIndex' /\ LinksKept'
    BY <1>3, OnlyRequestsMove, LinksStay DEF index_vars
  <1>7. /\ Queued = {h.id} \cup Queued'
        /\ h.id \notin Queued'
        /\ \A j, k \in DOMAIN send_queue' :
              send_queue'[j].id = send_queue'[k].id => j = k
    <2>1. \A k \in DOMAIN send_queue' :
             k + 1 \in DOMAIN send_queue /\ send_queue'[k] = send_queue[k + 1]
             /\ k + 1 # 1 /\ k \in Int
      BY <1>1, TailFacts
    <2>2. 1 \in DOMAIN send_queue /\ h = send_queue[1]
      BY <1>1, TailFacts
    <2>3. Queued = {h.id} \cup {Tail(send_queue)[k].id : k \in DOMAIN Tail(send_queue)}
      BY <1>1, TailIds DEF Queued
    <2>4. Queued' = {Tail(send_queue)[k].id : k \in DOMAIN Tail(send_queue)}
      BY <1>1 DEF Queued
    <2>6. h.id \notin Queued'
      BY <2>1, <2>2 DEF Queued, OnePlace
    <2>7. \A j, k \in DOMAIN send_queue' :
             send_queue'[j].id = send_queue'[k].id => j = k
      BY <2>1 DEF OnePlace
    <2> QED
      BY <2>3, <2>4, <2>6, <2>7
  <1>8. Sending' = {h.id} /\ Sending = {}
    BY <1>2, <1>3 DEF Sending
  <1>9. OnePlace'
    BY <1>7, <1>8 DEF OnePlace, Registered, Reading, Printing, GivenOut
  <1>10. RightUrl'
    <2>1. \A k \in DOMAIN send_queue' :
             \E j \in DOMAIN send_queue : send_queue'[k] = send_queue[j]
      BY <1>1, TailFacts
    <2>2. 1 \in DOMAIN send_queue /\ h = send_queue[1]
      BY <1>1, TailFacts
    <2> QED
      BY <1>2, <2>1, <2>2 DEF RightUrl, IsIdOf
  <1> QED
    BY <1>4, <1>5, <1>6, <1>9, <1>10

\* send_thread's request is registered with the event base.
LEMMA SendAddEventKeeps ==
    ASSUME CrawlerInv, SendAddEvent
    PROVE  CrawlerInv'
  <1> USE DEF CrawlerInv, SendAddEvent, queues, main_vars, recv_vars,
              index_vars, server_vars
  <1> DEFINE new == [kind |-> "write", url |-> send_url,
                     nonblocking |-> main_pc # "join"]
  <1>1. send_url # NULL /\ send_url \in P_TYPE /\ main_pc # "start"
    BY DEF Threads, TypeOK
  <1>2. new \in Event /\ new.url = send_url /\ events' = events \cup {new}
    <2>1. new.nonblocking \in BOOLEAN
      BY Zenon
    <2> QED
      BY <1>1, <2>1 DEF Event
  <1> HIDE DEF new
  <1>3. TypeOK'
    <2>1. events' \subseteq Event
      BY <1>2 DEF TypeOK
    <2>2. send_pc' \in {"poll", "done"} /\ send_url' = NULL
      OBVIOUS
    <2> QED
      BY <2>1, <2>2 DEF TypeOK
  <1>4. Threads'
    BY <1>1 DEF Threads
  <1>5. Ids' /\ OutputIsIndex' /\ LinksKept'
    BY <1>1, OnlyRequestsMove, LinksStay
  <1>6. Registered' = Registered \cup {send_url.id} /\ Sending = {send_url.id}
        /\ Sending' = {}
    BY <1>1, <1>2 DEF Registered, Sending
  <1>7. \A e, f \in events' : e.url.id = f.url.id => e = f
    <2>1. \A e \in events : e.url.id # send_url.id
      BY <1>6 DEF OnePlace, Registered
    <2> QED
      BY <1>2, <2>1 DEF OnePlace
  <1>8. OnePlace'
    BY <1>6, <1>7 DEF OnePlace, Queued, Reading, Printing, GivenOut
  <1>9. RightUrl'
    BY <1>1, <1>2 DEF RightUrl, IsIdOf
  <1> QED
    BY <1>3, <1>4, <1>5, <1>8, <1>9

\* The request is sent: its socket is registered for the answer.
LEMMA WriteCallbackKeeps ==
    ASSUME CrawlerInv, NEW e \in events, socket_write_cb(e)
    PROVE  CrawlerInv'
  <1> USE DEF CrawlerInv, socket_write_cb, queues, send_vars, recv_vars,
              index_vars, server_vars
  <1> DEFINE new == [e EXCEPT !.kind = "read"]
  <1>1. e \in Event /\ main_pc # "start" /\ main_pc' # "start"
        /\ main_pc' \in {"create", main_pc}
    BY DEF TypeOK, InLoop, AfterCallback
  <1>2. new \in Event /\ new.url = e.url /\ events' = (events \ {e}) \cup {new}
    BY <1>1 DEF Event
  <1> HIDE DEF new
  <1>3. TypeOK'
    <2>1. events' \subseteq Event
      BY <1>2 DEF TypeOK
    <2>2. main_pc' \in {"loop_once", "create", "dispatch"}
      BY DEF InLoop, AfterCallback
    <2> QED
      BY <2>1, <2>2 DEF TypeOK
  <1>4. Threads'
    BY <1>1 DEF Threads, InLoop, AfterCallback
  <1>5. Ids' /\ OutputIsIndex' /\ LinksKept'
    BY <1>1, OnlyRequestsMove, LinksStay
  <1>6. Registered' = Registered
    BY <1>2 DEF Registered
  <1>7. \A f, g \in events' : f.url.id = g.url.id => f = g
    BY <1>2 DEF OnePlace
  <1>8. OnePlace'
    BY <1>1, <1>6, <1>7 DEF OnePlace, Queued, Sending, Reading, Printing, GivenOut
  <1>9. RightUrl'
    BY <1>1, <1>2 DEF RightUrl, IsIdOf
  <1> QED
    BY <1>3, <1>4, <1>5, <1>8, <1>9

\* The callback that reads the answer starts.
LEMMA ReadStartKeeps ==
    ASSUME CrawlerInv, NEW e \in events, ReadStart(e)
    PROVE  CrawlerInv'
  <1> USE DEF CrawlerInv, ReadStart, queues, send_vars, recv_vars, index_vars,
              server_vars
  <1>1. e \in Event /\ main_pc \notin {"start", "join"} /\ cb = NULL
    BY DEF TypeOK, InLoop
  <1>2. cb' \in Callback /\ cb' # NULL /\ cb'.url = e.url /\ cb'.line = 0
    BY <1>1, NullAssumption DEF Event, Callback
  <1>3. TypeOK'
    <2>1. events' \subseteq Event
      BY DEF TypeOK
    <2> QED
      BY <1>2, <2>1 DEF TypeOK
  <1>4. Threads'
    BY <1>1 DEF Threads
  <1>5. Ids' /\ OutputIsIndex'
    BY <1>1, OnlyRequestsMove
  <1>6. Registered = Registered' \cup {e.url.id} /\ e.url.id \notin Registered'
    BY DEF Registered, OnePlace
  <1>7. Reading' = {e.url.id} /\ Reading = {}
    BY <1>1, <1>2 DEF Reading
  <1>8. OnePlace'
    BY <1>6, <1>7 DEF OnePlace, Queued, Sending, Printing, GivenOut
  <1>9. RightUrl'
    BY <1>2 DEF RightUrl, IsIdOf
  <1>10. LinksExact'
    BY <1>1, OnlyRequestsMove DEF LinksKept, LinksExact
  <1>11. Page[cb'.url.buf] \in Seq(Url \cup {NoLink})
    BY <1>1, <1>2, CrawlerAssumption DEF Event, P_TYPE
  <1>12. Len(Answer(cb')) >= 0 /\ 1..cb'.line = {}
    BY <1>2, <1>11 DEF Answer
  <1>13. LinksKept'
    <2>1. \A r \in InTransit' : r.id \in GivenOut'
      BY <1>1, OnlyRequestsMove DEF LinksKept
    <2>2. Answer(cb)' = Answer(cb')
      BY DEF Answer
    <2> QED
      BY <1>2, <1>10, <1>12, <2>1, <2>2 DEF LinksKept
  <1> QED
    BY <1>3, <1>4, <1>5, <1>8, <1>9, <1>13

\* An id stands for one url, so a request that is right names its page.
LEMMA RightPage ==
    ASSUME Ids, NEW i, NEW u \in Url, IsIdOf(i, u), i \in Int
    PROVE  UrlOf(i) = u
  <1>1. CASE i = 0
    BY <1>1 DEF IsIdOf, UrlOf
  <1>2. CASE i # 0
    <2>1. u \in Seen /\ url_id[u] = i
      BY <1>2 DEF IsIdOf, Seen
    <2>2. \A v \in Url : url_id[v] = i => v = u
      BY <1>2, <2>1 DEF Ids, Seen
    <2> QED
      BY <1>2, <2>1, <2>2 DEF UrlOf
  <1> QED
    BY <1>1, <1>2

\* The page main() is reading.
LEMMA ReadingPage ==
    ASSUME CrawlerInv, cb # NULL
    PROVE  /\ cb \in Callback /\ cb.url.id \in Id /\ cb.url.buf \in Url
           /\ cb.line \in Nat
           /\ Answer(cb) \in Seq(Url \cup {NoLink})
           /\ UrlOf(cb.url.id) = cb.url.buf
           /\ cb.url.id \in GivenOut
           /\ main_pc \notin {"start", "join"}
  <1> USE DEF CrawlerInv
  <1>1. cb \in Callback /\ cb.url \in P_TYPE /\ cb.line \in Nat
    BY DEF TypeOK, Callback
  <1>2. cb.url.id \in Id /\ cb.url.buf \in Url /\ cb.url.id \in Int
    BY <1>1 DEF P_TYPE, Id
  <1>3. Answer(cb) \in Seq(Url \cup {NoLink})
    BY <1>2, CrawlerAssumption DEF Answer
  <1>4. UrlOf(cb.url.id) = cb.url.buf
    BY <1>2, RightPage DEF RightUrl
  <1>5. cb.url.id \in GivenOut
    BY DEF OnePlace, Reading
  <1>6. main_pc \notin {"start", "join"}
    BY DEF Threads
  <1> QED
    BY <1>1, <1>2, <1>3, <1>4, <1>5, <1>6

\* A line is read: its link, if any, is on its way to the trie.
LEMMA ReadLineKeeps ==
    ASSUME CrawlerInv, ReadLine
    PROVE  CrawlerInv'
  <1> USE DEF CrawlerInv, ReadLine, send_vars, recv_vars, index_vars, server_vars
  <1> DEFINE line == Answer(cb)[cb.line + 1]
             link == [id |-> cb.url.id, buf |-> line]
  <1>1. cb # NULL /\ cb' = [cb EXCEPT !.line = @ + 1]
    OBVIOUS
  <1>2. cb.line < Len(Answer(cb)) /\ cb.line + 1 \in DOMAIN Answer(cb)
        /\ line \in Url \cup {NoLink}
    <2>1. arrived[cb.url.id] \in Nat
      BY ReadingPage DEF TypeOK
    <2>2. cb.line < Readable(cb)
      OBVIOUS
    <2>3. Len(Answer(cb)) \in Nat /\ cb.line \in Nat /\ DOMAIN Answer(cb) = 1..Len(Answer(cb))
      BY ReadingPage
    <2>4. cb.line < Len(Answer(cb))
      BY <2>1, <2>2, <2>3 DEF Readable
    <2> QED
      BY <2>3, <2>4, ReadingPage
  <1>3. cb' \in Callback /\ cb' # NULL /\ cb'.url = cb.url /\ cb'.line = cb.line + 1
        /\ Answer(cb') = Answer(cb)
    <2>1. cb' \in Callback /\ cb'.url = cb.url /\ cb'.line = cb.line + 1
      BY <1>1, ReadingPage DEF Callback
    <2> QED
      BY <2>1, NullAssumption DEF Answer
  <1>4. recv_queue \in Seq(P_TYPE) /\ recv_queue' \in Seq(P_TYPE)
        /\ InTransit' = InTransit \cup (IF line = NoLink THEN {} ELSE {link})
    <2>1. recv_queue \in Seq(P_TYPE)
      BY DEF TypeOK
    <2>2. CASE line = NoLink
      BY <2>1, <2>2 DEF InTransit
    <2>3. CASE line # NoLink
      <3>1. link \in P_TYPE /\ recv_queue' = Append(recv_queue, link)
        BY <2>3, <1>2, ReadingPage DEF P_TYPE
      <3>2. {recv_queue'[k] : k \in DOMAIN recv_queue'} =
               {recv_queue[k] : k \in DOMAIN recv_queue} \cup {link}
        BY <2>1, <3>1, AppendElements
      <3>3. recv_queue' \in Seq(P_TYPE)
        BY <2>1, <3>1, AppendFacts
      <3> QED
        BY <2>1, <2>3, <3>2, <3>3 DEF InTransit
    <2> QED
      BY <2>2, <2>3
  <1> HIDE DEF link, line
  <1>5. TypeOK'
    BY <1>3, <1>4 DEF TypeOK
  <1>6. Threads'
    BY <1>3, ReadingPage DEF Threads
  <1>7. Ids' /\ OutputIsIndex'
    BY IdsStay DEF OutputIsIndex
  <1>8. OnePlace' /\ GivenOut' = GivenOut
    <2>1. Reading' = Reading
      BY <1>3 DEF Reading
    <2> QED
      BY <2>1, PlacesStay DEF OnePlace, Printing, GivenOut
  <1>9. RightUrl'
    BY <1>3 DEF RightUrl, IsIdOf
  <1>10. \A i : LinksOn(i)' = LinksOn(i)
    BY DEF LinksOn, UrlOf
  <1>11. line # NoLink => line \in LinksOn(cb.url.id)
    BY <1>2, ReadingPage DEF LinksOn, Answer, line
  <1>12. line # NoLink => link.id = cb.url.id /\ link.buf = line
    BY DEF link
  <1>13. LinksExact'
    <2>1. \A r \in InTransit' : r.buf \in LinksOn(r.id)'
      BY <1>4, <1>10, <1>11, <1>12 DEF LinksKept, LinksExact
    <2>2. InTransit \subseteq InTransit'
      BY <1>4
    <2> QED
      BY <1>10, <2>1, <2>2 DEF LinksKept, LinksExact
  <1>14. \A r \in InTransit' : r.id \in GivenOut'
    BY <1>4, <1>8, <1>12, ReadingPage DEF LinksKept
  <1>15. (\A k \in 1..cb.line : Answer(cb)[k] # NoLink =>
                                   Noted(cb.url.id, Answer(cb)[k]))'
    <2> SUFFICES ASSUME NEW k \in 1..cb.line + 1, NEW i, i = cb.url.id,
                        NEW u, u = Answer(cb)[k], u # NoLink
                 PROVE  Noted(i, u)'
      BY <1>3 DEF Answer
    <2>1. CASE k = cb.line + 1
      <3>1. u = line /\ link = [id |-> i, buf |-> u]
        BY <2>1 DEF line, link
      <3> QED
        BY <1>4, <3>1 DEF Noted
    <2>2. CASE k \in 1..cb.line
      <3>1. Noted(i, u)
        BY <1>1, <2>2 DEF LinksKept
      <3> QED
        BY <1>4, <3>1 DEF Noted
    <2> QED
      BY <2>1, <2>2, ReadingPage
  <1>16. LinksKept'
    <2>1. (cb.line <= Len(Answer(cb)))'
      BY <1>2, <1>3, ReadingPage DEF Answer
    <2> QED
      BY <1>13, <1>14, <1>15, <2>1 DEF LinksKept
  <1> QED
    BY <1>5, <1>6, <1>7, <1>8, <1>9, <1>16

\* The answer ends: all its links are in the trie or on their way.
LEMMA ReadEOFKeeps ==
    ASSUME CrawlerInv, ReadEOF
    PROVE  CrawlerInv'
  <1> USE DEF CrawlerInv, ReadEOF, shared, queues, send_vars, recv_vars, index_vars
  <1> DEFINE i == cb.url.id
  <1>1. cb # NULL /\ cb' = NULL /\ answered' = answered \cup {i}
    OBVIOUS
  <1>2. TypeOK'
    BY ReadingPage DEF TypeOK
  <1>3. Threads'
    BY ReadingPage DEF Threads
  <1>4. Ids' /\ OutputIsIndex' /\ GivenOut' = GivenOut /\ InTransit' = InTransit
        /\ (\A j : LinksOn(j)' = LinksOn(j))
    BY ReadingPage, OnlyRequestsMove
  <1>5. Reading = {i} /\ Reading' = {}
    BY <1>1 DEF Reading
  <1>6. OnePlace'
    BY <1>1, <1>4, <1>5, PlacesStay DEF OnePlace, Printing
  <1>7. RightUrl'
    BY <1>1 DEF RightUrl, IsIdOf
  <1>8. \A u \in LinksOn(i) : Noted(i, u)
    <2> SUFFICES ASSUME NEW u \in LinksOn(i) PROVE Noted(i, u)
      OBVIOUS
    <2>1. PICK k \in DOMAIN Answer(cb) : u = Answer(cb)[k] /\ u # NoLink
      BY ReadingPage DEF LinksOn, Answer
    <2>2. k \in 1..cb.line
      BY ReadingPage
    <2> QED
      BY <1>1, <2>1, <2>2 DEF LinksKept
  <1>9. LinksExact'
    BY <1>1, <1>4, <1>8 DEF LinksKept, LinksExact, Noted
  <1>10. LinksKept'
    BY <1>1, <1>4, <1>9 DEF LinksKept
  <1> QED
    BY <1>2, <1>3, <1>4, <1>6, <1>7, <1>10

-----------------------------------------------------------------------------
(* The steps of recv_thread                                                *)

\* A link goes from recv_queue to recv_thread: it stays on its way.
LEMMA RecvDequeueKeeps ==
    ASSUME CrawlerInv, RecvDequeue
    PROVE  CrawlerInv'
  <1> USE DEF CrawlerInv, RecvDequeue, main_vars, send_vars, index_vars, server_vars
  <1>1. recv_queue \in Seq(P_TYPE) /\ recv_queue # << >>
        /\ recv_queue' = Tail(recv_queue) /\ recv_url' = Head(recv_queue)
    BY DEF TypeOK
  <1>2. recv_url' \in P_TYPE /\ recv_url' # NULL /\ recv_queue' \in Seq(P_TYPE)
    BY <1>1, TailFacts, NullAssumption
  <1>3. main_pc \notin {"start", "join"}
    BY DEF Threads
  <1>4. TypeOK'
    BY <1>2 DEF TypeOK
  <1>5. Threads'
    BY <1>2, <1>3 DEF Threads
  <1>6. Ids' /\ OutputIsIndex'
    BY IdsStay DEF OutputIsIndex
  <1>7. OnePlace' /\ GivenOut' = GivenOut
    BY PlacesStay DEF OnePlace, Printing, GivenOut
  <1>8. RightUrl'
    BY DEF RightUrl, IsIdOf
  <1>9. InTransit' = InTransit
    <2>1. {recv_queue[k] : k \in DOMAIN recv_queue} =
             {recv_url'} \cup {recv_queue'[k] : k \in DOMAIN recv_queue'}
      BY <1>1, TailElements
    <2> QED
      BY <2>1 DEF InTransit
  <1>10. LinksKept'
    BY <1>7, <1>9, LinksStay
  <1> QED
    BY <1>4, <1>5, <1>6, <1>7, <1>8, <1>10

\* There are ids left for a url that has none.
LEMMA IdsSuffice ==
    ASSUME TypeOK, Ids, NEW u \in Url \ Seen
    PROVE  /\ current_id \in Id
           /\ Cardinality(Seen \cup {u}) = current_id
           /\ Seen \cup {u} \subseteq Url
  <1>1. IsFiniteSet(Url) /\ Cardinality(Url) \in Nat
    BY CrawlerAssumption, FS_CardinalityType
  <1>2. Seen \cup {u} \in SUBSET Url
    BY DEF Seen
  <1>3. IsFiniteSet(Seen)
    BY <1>1, <1>2, FS_Subset
  <1>4. Cardinality(Seen \cup {u}) = Cardinality(Seen) + 1
    BY <1>3, FS_AddElement
  <1>5. Cardinality(Seen \cup {u}) <= Cardinality(Url)
    BY <1>1, <1>2, FS_Subset
  <1>6. current_id \in Nat /\ Cardinality(Seen) = current_id - 1 /\ current_id >= 1
    BY <1>1 DEF TypeOK, Ids
  <1> QED
    BY <1>1, <1>2, <1>4, <1>5, <1>6 DEF Id

\* The request recv_thread has at hand, and the link it stands for.
LEMMA PersistedLink ==
    ASSUME CrawlerInv, recv_pc = "persist"
    PROVE  /\ recv_url \in P_TYPE /\ recv_url.buf \in Url /\ recv_url.id \in Id
           /\ recv_url \in InTransit
           /\ recv_url.buf \in LinksOn(recv_url.id)
           /\ recv_url.id \in GivenOut
           /\ main_pc \notin {"start", "join"}
           /\ GivenOut = 0..current_id - 1
  <1> USE DEF CrawlerInv
  <1>1. recv_url \in P_TYPE /\ main_pc \notin {"start", "join"}
    BY DEF Threads, TypeOK
  <1>2. recv_url \in InTransit
    BY DEF InTransit
  <1> QED
    BY <1>1, <1>2 DEF P_TYPE, LinksKept, LinksExact, GivenOut

\* The links after a call of url_persistence(), for a new url and a known one.
LEMMA PersistedLinksKept ==
    ASSUME CrawlerInv, recv_pc = "persist", recv_pc' # "persist",
           UNCHANGED <<shared, main_vars, send_vars, server_vars>>,
           \A i \in GivenOut : LinksOn(i)' = LinksOn(i),
           GivenOut \subseteq GivenOut',
           links' = [links EXCEPT ![recv_url.buf] = @ \cup {recv_url.id}]
    PROVE  LinksKept'
  <1> USE DEF CrawlerInv, shared, queues, main_vars, send_vars, server_vars
  <1>1. links \in [Url -> SUBSET Id] /\ (\A u \in Url : links[u] \subseteq GivenOut)
    BY PersistedLink DEF TypeOK, Ids
  <1>2. \A u \in Url : links'[u] =
           links[u] \cup (IF u = recv_url.buf THEN {recv_url.id} ELSE {})
    BY <1>1, PersistedLink
  <1>3. InTransit = InTransit' \cup {recv_url}
    BY DEF InTransit
  <1>4. \A i \in GivenOut, u \in Url : Noted(i, u) => Noted(i, u)'
    <2> SUFFICES ASSUME NEW i, NEW u \in Url, Noted(i, u) PROVE Noted(i, u)'
      OBVIOUS
    <2>1. CASE i \in links[u]
      BY <1>2, <2>1 DEF Noted
    <2>2. CASE [id |-> i, buf |-> u] = recv_url
      <3>1. i = recv_url.id /\ u = recv_url.buf
        BY <2>2
      <3> QED
        BY <1>2, <3>1 DEF Noted
    <2>3. CASE [id |-> i, buf |-> u] \in InTransit'
      BY <2>3 DEF Noted
    <2> QED
      BY <1>3, <2>1, <2>2, <2>3 DEF Noted
  <1>5. \A i \in GivenOut : LinksOn(i) \subseteq Url
    <2> SUFFICES ASSUME NEW i \in GivenOut PROVE LinksOn(i) \subseteq Url
      OBVIOUS
    <2>1. UrlOf(i) \in Url
      <3>1. CASE i = 0
        BY <3>1, CrawlerAssumption DEF UrlOf
      <3>2. CASE i # 0
        <4>0. i \in 1..current_id - 1
          BY <3>2, PersistedLink, FS_CardinalityType, CrawlerAssumption DEF TypeOK
        <4>1. \E u \in Url : url_id[u] = i
          BY <4>0 DEF Ids, Seen
        <4> QED
          BY <3>2, <4>1 DEF UrlOf
      <3> QED
        BY <3>1, <3>2
    <2>2. Page[UrlOf(i)] \in Seq(Url \cup {NoLink})
      BY <2>1, CrawlerAssumption
    <2>3. \A k \in DOMAIN Page[UrlOf(i)] : Page[UrlOf(i)][k] \in Url \cup {NoLink}
      BY <2>2
    <2> QED
      BY <2>3 DEF LinksOn
  <1>6. LinksExact'
    <2>1. \A u \in Url : \A i \in links'[u] : u \in LinksOn(i)'
      BY <1>1, <1>2, PersistedLink DEF LinksKept, LinksExact
    <2>2. \A r \in InTransit' : r.buf \in LinksOn(r.id)'
      BY <1>3 DEF LinksKept, LinksExact
    <2>3. \A i \in answered : \A u \in LinksOn(i)' : Noted(i, u)'
      <3>1. answered \subseteq GivenOut
        BY DEF OnePlace
      <3> QED
        BY <1>4, <1>5, <3>1 DEF LinksKept, LinksExact, Noted
    <2> QED
      BY <2>1, <2>2, <2>3 DEF LinksExact, Noted
  <1>7. \A r \in InTransit' : r.id \in GivenOut'
    BY <1>3 DEF LinksKept
  <1>8. cb # NULL => /\ cb.line <= Len(Answer(cb))
                     /\ \A k \in 1..cb.line :
                           Answer(cb)[k] # NoLink => Noted(cb.url.id, Answer(cb)[k])'
    <2> SUFFICES ASSUME cb # NULL, NEW k \in 1..cb.line, Answer(cb)[k] # NoLink
                 PROVE  Noted(cb.url.id, Answer(cb)[k])'
      BY DEF LinksKept
    <2>1. Noted(cb.url.id, Answer(cb)[k])
      BY DEF LinksKept
    <2>2. Answer(cb)[k] \in Url
      <3>1. k \in DOMAIN Answer(cb)
        BY ReadingPage DEF LinksKept
      <3> QED
        BY <3>1, ReadingPage
    <2> QED
      BY <1>4, <2>1, <2>2, ReadingPage
  <1>9. Answer(cb)' = Answer(cb')
    BY DEF Answer
  <1> QED
    BY <1>6, <1>7, <1>8, <1>9 DEF LinksKept

\* A url seen for the first time gets the next id, and goes on.
LEMMA PersistNewKeeps ==
    ASSUME CrawlerInv, recv_pc = "persist", recv_pc' = "print",
           Index!PersistNew(recv_url.buf, recv_url.id),
           UNCHANGED <<shared, main_vars, send_vars, server_vars, status, recv_url>>
    PROVE  CrawlerInv'
  <1> DEFINE u == recv_url.buf
             by == recv_url.id
  <1> USE DEF CrawlerInv, shared, queues, main_vars, send_vars, server_vars
  <1>1. /\ url_id[u] = 0 /\ url_id' = [url_id EXCEPT ![u] = current_id]
        /\ links' = [links EXCEPT ![u] = {by}]
        /\ current_id' = current_id + 1 /\ ri' = current_id
    BY DEF Index!PersistNew
  <1>2. url_id \in [Url -> Id] /\ links \in [Url -> SUBSET Id] /\ u \in Url /\ by \in Id
        /\ u \notin Seen
    BY <1>1, PersistedLink DEF TypeOK, Seen
  <1>3. current_id \in Id /\ Cardinality(Seen \cup {u}) = current_id
    BY <1>2, IdsSuffice
  <1>4. current_id \in Nat /\ current_id > 0 /\ current_id <= Cardinality(Url)
        /\ Cardinality(Url) \in Nat
    BY <1>3, CrawlerAssumption, FS_CardinalityType DEF TypeOK, Id
  <1>5. \A v \in Url : /\ url_id'[v] = IF v = u THEN current_id ELSE url_id[v]
                       /\ links'[v] = IF v = u THEN {by} ELSE links[v]
    BY <1>1, <1>2
  <1>6. Seen' = Seen \cup {u}
    BY <1>2, <1>4, <1>5 DEF Seen
  <1>7. TypeOK'
    BY <1>1, <1>2, <1>3, <1>4 DEF TypeOK
  <1>8. main_pc \notin {"start", "join"} /\ by \in 0..current_id - 1
        /\ GivenOut = 0..current_id - 1
    BY PersistedLink
  <1>9. Threads'
    <2>1. url_id'[recv_url'.buf] = current_id
      BY <1>2, <1>5
    <2>2. ri' = current_id' - 1 /\ ri' > 0 /\ url_id'[recv_url'.buf] = ri'
      BY <1>1, <1>4, <2>1
    <2>3. recv_url' # NULL /\ main_pc' \notin {"start", "join"}
      BY <1>8 DEF Threads
    <2>4. (main_pc \in {"loop_once", "create"} => send_pc = "done")'
          /\ (send_url # NULL <=> send_pc \in {"open", "add"})'
      BY DEF Threads
    <2> QED
      BY <2>2, <2>3, <2>4 DEF Threads
  <1>10. \A v \in Seen : url_id[v] \in 1..current_id - 1 /\ v # u
    BY <1>2 DEF Ids
  <1>11. Ids'
    <2>1. current_id' - 1 = Cardinality(Seen')
      BY <1>1, <1>3, <1>4, <1>6
    <2>2. \A v \in Seen' : url_id'[v] \in 1..current_id' - 1
      BY <1>1, <1>2, <1>4, <1>5, <1>6, <1>10 DEF Seen
    <2>3. \A v, w \in Seen' : url_id'[v] = url_id'[w] => v = w
      BY <1>2, <1>4, <1>5, <1>6, <1>10 DEF Ids, Seen
    <2>4. \A i \in 1..current_id' - 1 : \E v \in Seen' : url_id'[v] = i
      <3> SUFFICES ASSUME NEW i \in 1..current_id' - 1
                   PROVE  \E v \in Seen' : url_id'[v] = i
        OBVIOUS
      <3>1. CASE i = current_id
        BY <3>1, <1>2, <1>5, <1>6
      <3>2. CASE i \in 1..current_id - 1
        <4>1. PICK v \in Seen : url_id[v] = i
          BY <3>2 DEF Ids
        <4> QED
          BY <4>1, <1>5, <1>6, <1>10 DEF Seen
      <3> QED
        BY <3>1, <3>2, <1>1, <1>4
    <2>5. \A v \in Url : links'[v] \subseteq 0..current_id' - 1
      BY <1>1, <1>4, <1>5, <1>8 DEF Ids
    <2>6. \A v \in Url \ Seen' : links'[v] = {}
      BY <1>5, <1>6 DEF Ids
    <2> QED
      BY <2>1, <2>2, <2>3, <2>4, <2>5, <2>6 DEF Ids
  <1>12. GivenOut' = GivenOut \cup {current_id} /\ current_id \notin GivenOut
    BY <1>1, <1>4, <1>8 DEF GivenOut
  <1>13. OnePlace'
    <2>1. Printing = {} /\ Printing' = {current_id}
      BY <1>1 DEF Printing
    <2> QED
      BY <1>12, <2>1 DEF OnePlace, Queued, Sending, Registered, Reading
  <1>14. \A i \in GivenOut, v \in Url : IsIdOf(i, v)' <=> IsIdOf(i, v)
    BY <1>1, <1>4, <1>5, <1>8 DEF IsIdOf
  <1>15. RightUrl'
    <2>1. \A k \in DOMAIN send_queue : send_queue[k] \in P_TYPE /\ send_queue[k].id \in GivenOut
      BY DEF TypeOK, OnePlace, Queued
    <2>2. send_url # NULL => send_url \in P_TYPE /\ send_url.id \in GivenOut
      BY DEF TypeOK, OnePlace, Sending
    <2>3. \A e \in events : e.url \in P_TYPE /\ e.url.id \in GivenOut
      BY DEF TypeOK, Event, OnePlace, Registered
    <2>4. cb # NULL => cb.url.buf \in Url /\ cb.url.id \in GivenOut
      BY ReadingPage
    <2>5. \A r \in P_TYPE : r.buf \in Url
      BY DEF P_TYPE
    <2> QED
      BY <1>14, <2>1, <2>2, <2>3, <2>4, <2>5 DEF RightUrl
  <1>16. OutputIsIndex'
    <2>1. Len(output) = current_id /\ output \in Seq([buf : Url, id : Id])
          /\ (\A k \in DOMAIN output : output[k].id = k - 1)
          /\ (\A k \in 2..Len(output) : url_id[output[k].buf] = k - 1)
      BY <1>8 DEF OutputIsIndex, TypeOK
    <2>2. \A k \in 2..Len(output) : output[k].buf \in Url
      <3>1. \A k \in 2..Len(output) : k \in 1..Len(output)
        BY <2>1
      <3>2. \A k \in 1..Len(output) : output[k] \in [buf : Url, id : Id]
        BY <2>1, ElementType
      <3> QED
        BY <3>1, <3>2
    <2>3. \A k \in 2..Len(output) : url_id'[output[k].buf] = k - 1
      <3> SUFFICES ASSUME NEW k \in 2..Len(output)
                   PROVE  url_id'[output[k].buf] = k - 1
        OBVIOUS
      <3>1. url_id[output[k].buf] = k - 1 /\ k - 1 # 0
        BY <2>1
      <3> QED
        BY <1>1, <1>5, <2>2, <3>1
    <2>4. Len(output') = current_id' - 1
      BY <1>1, <1>4, <2>1
    <2> QED
      BY <2>1, <2>3, <2>4 DEF OutputIsIndex
  <1>17. \A i \in GivenOut : UrlOf(i)' = UrlOf(i)
    <2> SUFFICES ASSUME NEW i \in GivenOut PROVE UrlOf(i)' = UrlOf(i)
      OBVIOUS
    <2>1. CASE i = 0
      BY <2>1 DEF UrlOf
    <2>2. CASE i # 0
      <3>1. \A v \in Url : url_id'[v] = i <=> url_id[v] = i
        BY <1>1, <1>4, <1>5, <1>8, <2>2
      <3>2. PICK v \in Seen : url_id[v] = i
        BY <1>4, <1>8, <2>2 DEF Ids
      <3>3. \A w \in Url : url_id[w] = i => w = v
        BY <2>2, <3>2 DEF Ids, Seen
      <3>4. v \in Url /\ url_id'[v] = i /\ \A w \in Url : url_id'[w] = i => w = v
        BY <3>1, <3>2, <3>3 DEF Seen
      <3>5. UrlOf(i) = v
        BY <2>2, <3>2, <3>3, <3>4 DEF UrlOf
      <3>6. UrlOf(i)' = v
        BY <2>2, <3>4 DEF UrlOf
      <3> QED
        BY <3>5, <3>6
    <2> QED
      BY <2>1, <2>2
  <1>18. LinksKept'
    <2>1. links' = [links EXCEPT ![u] = @ \cup {by}]
      BY <1>1, <1>2 DEF Ids
    <2>2. \A i \in GivenOut : LinksOn(i)' = LinksOn(i)
      BY <1>17 DEF LinksOn
    <2> QED
      BY <1>12, <2>1, <2>2, PersistedLinksKept
  <1> QED
    BY <1>7, <1>9, <1>11, <1>13, <1>15, <1>16, <1>18

\* A url seen before only gets the link.
LEMMA PersistKnownKeeps ==
    ASSUME CrawlerInv, recv_pc = "persist", recv_pc' = "poll", recv_url' = NULL,
           Index!PersistKnown(recv_url.buf, recv_url.id),
           UNCHANGED <<shared, main_vars, send_vars, server_vars, status>>
    PROVE  CrawlerInv'
  <1> DEFINE u == recv_url.buf
             by == recv_url.id
  <1> USE DEF CrawlerInv, shared, queues, main_vars, send_vars, server_vars
  <1>1. /\ url_id[u] # 0 /\ links' = [links EXCEPT ![u] = @ \cup {by}] /\ ri' = -1
        /\ url_id' = url_id /\ current_id' = current_id
    BY DEF Index!PersistKnown
  <1>2. links \in [Url -> SUBSET Id] /\ u \in Url /\ by \in Id
    BY PersistedLink DEF TypeOK
  <1>3. TypeOK'
    BY <1>1, <1>2 DEF TypeOK
  <1>4. Threads'
    BY <1>1, PersistedLink DEF Threads
  <1>5. GivenOut' = GivenOut /\ by \in 0..current_id - 1
    BY <1>1, PersistedLink DEF GivenOut
  <1>6. Ids'
    <2>1. Seen' = Seen /\ u \in Seen
      BY <1>1, <1>2 DEF Seen
    <2>2. \A v \in Url : links'[v] = links[v] \cup (IF v = u THEN {by} ELSE {})
      BY <1>1, <1>2
    <2> QED
      BY <1>1, <1>5, <2>1, <2>2 DEF Ids
  <1>7. OnePlace'
    BY <1>5 DEF OnePlace, Queued, Sending, Registered, Reading, Printing
  <1>8. RightUrl' /\ OutputIsIndex'
    BY <1>1 DEF RightUrl, IsIdOf, OutputIsIndex
  <1>9. LinksKept'
    <2>1. \A i : LinksOn(i)' = LinksOn(i)
      BY <1>1 DEF LinksOn, UrlOf
    <2> QED
      BY <1>1, <1>5, <2>1, PersistedLinksKept
  <1> QED
    BY <1>3, <1>4, <1>6, <1>7, <1>8, <1>9

\* url_persistence() is called for the link at hand.
LEMMA RecvPersistKeeps ==
    ASSUME CrawlerInv, RecvPersist
    PROVE  CrawlerInv'
  <1>1. CASE Index!PersistNew(recv_url.buf, recv_url.id) /\ recv_pc' = "print"
             /\ UNCHANGED recv_url
    BY <1>1, PersistNewKeeps DEF RecvPersist
  <1>2. CASE Index!PersistKnown(recv_url.buf, recv_url.id) /\ recv_pc' = "poll"
             /\ recv_url' = NULL
    BY <1>2, PersistKnownKeeps DEF RecvPersist
  <1> QED
    BY <1>1, <1>2 DEF RecvPersist

\* The request recv_thread has an id for.
LEMMA NewRequest ==
    ASSUME CrawlerInv, recv_pc \in {"print", "enqueue"}
    PROVE  /\ recv_url \in P_TYPE /\ recv_url.buf \in Url
           /\ ri \in Id /\ ri = current_id - 1 /\ ri # 0 /\ current_id \in Nat
           /\ url_id[recv_url.buf] = ri
           /\ main_pc \notin {"start", "join"}
  <1>1. recv_url \in P_TYPE /\ main_pc \notin {"start", "join"}
    BY DEF CrawlerInv, Threads, TypeOK
  <1>2. Cardinality(Url) \in Nat
    BY CrawlerAssumption, FS_CardinalityType
  <1>3. ri = current_id - 1 /\ ri > 0 /\ ri \in Id /\ current_id \in Nat
    BY <1>2 DEF CrawlerInv, Threads, TypeOK, Id
  <1> QED
    BY <1>1, <1>2, <1>3 DEF CrawlerInv, Threads, P_TYPE, Id

\* The new url and its id are written.
LEMMA RecvPrintKeeps ==
    ASSUME CrawlerInv, RecvPrint
    PROVE  CrawlerInv'
  <1> USE DEF CrawlerInv, RecvPrint, queues, main_vars, send_vars, index_vars,
              server_vars
  <1> DEFINE new == [buf |-> recv_url.buf, id |-> ri]
  <1>1. new \in [buf : Url, id : Id] /\ output \in Seq([buf : Url, id : Id])
        /\ output' = Append(output, new)
    BY NewRequest DEF TypeOK
  <1>2. new.buf = recv_url.buf /\ new.id = ri
    OBVIOUS
  <1> HIDE DEF new
  <1>3. TypeOK'
    BY <1>1, AppendFacts DEF TypeOK
  <1>4. Threads'
    BY NewRequest DEF Threads
  <1>5. Ids'
    BY IdsStay
  <1>6. OnePlace' /\ GivenOut' = GivenOut
    BY PlacesStay DEF OnePlace, Printing, GivenOut
  <1>7. RightUrl'
    BY DEF RightUrl, IsIdOf
  <1>8. OutputIsIndex'
    <2>1. Len(output) = current_id - 1
          /\ (\A k \in DOMAIN output : output[k].id = k - 1)
          /\ (\A k \in 2..Len(output) : url_id[output[k].buf] = k - 1)
      BY NewRequest DEF OutputIsIndex
    <2>2. /\ Len(output) \in Nat /\ Len(output') = Len(output) + 1
          /\ DOMAIN output = 1..Len(output) /\ DOMAIN output' = 1..Len(output) + 1
          /\ \A k \in DOMAIN output : output'[k] = output[k]
          /\ output'[Len(output) + 1] = new
      BY <1>1, AppendFacts
    <2>3. Len(output') = current_id
      BY <2>1, <2>2, NewRequest
    <2>4. \A k \in DOMAIN output' : k \in DOMAIN output \/ k = Len(output) + 1
      BY <2>2
    <2>5. \A k \in DOMAIN output' : output'[k].id = k - 1
      BY <1>2, <2>1, <2>2, <2>4, NewRequest
    <2>6. \A k \in 2..Len(output') : k \in 2..Len(output) \/ k = Len(output) + 1
      BY <2>2
    <2>7. \A k \in 2..Len(output') : url_id[output'[k].buf] = k - 1
      BY <1>2, <2>1, <2>2, <2>6, NewRequest
    <2> QED
      BY <2>3, <2>5, <2>7 DEF OutputIsIndex
  <1>9. LinksKept'
    BY <1>6, LinksStay DEF InTransit
  <1> QED
    BY <1>3, <1>4, <1>5, <1>6, <1>7, <1>8, <1>9

\* The new url is handed to send_thread.
LEMMA RecvEnqueueKeeps ==
    ASSUME CrawlerInv, RecvEnqueue
    PROVE  CrawlerInv'
  <1> USE DEF CrawlerInv, RecvEnqueue, main_vars, send_vars, index_vars, server_vars
  <1> DEFINE new == [id |-> ri, buf |-> recv_url.buf]
  <1>1. new \in P_TYPE /\ send_queue \in Seq(P_TYPE)
        /\ send_queue' = Append(send_queue, new)
    BY NewRequest DEF TypeOK, P_TYPE
  <1>2. new.id = ri /\ new.buf = recv_url.buf
    OBVIOUS
  <1> HIDE DEF new
  <1>3. /\ Len(send_queue) \in Nat
        /\ DOMAIN send_queue = 1..Len(send_queue)
        /\ DOMAIN send_queue' = 1..Len(send_queue) + 1
        /\ \A k \in DOMAIN send_queue : send_queue'[k] = send_queue[k]
        /\ send_queue'[Len(send_queue) + 1] = new
    BY <1>1, AppendFacts
  <1>4. TypeOK'
    BY <1>1, AppendFacts DEF TypeOK
  <1>5. Threads'
    BY NewRequest DEF Threads
  <1>6. Ids' /\ OutputIsIndex'
    BY IdsStay DEF OutputIsIndex
  <1>7. \A k \in DOMAIN send_queue' : k \in DOMAIN send_queue \/ k = Len(send_queue) + 1
    BY <1>3
  <1>8. Queued' = Queued \cup {ri}
    <2>1. DOMAIN send_queue \subseteq DOMAIN send_queue'
          /\ Len(send_queue) + 1 \in DOMAIN send_queue'
      BY <1>3
    <2> QED
      BY <1>2, <1>3, <1>7, <2>1 DEF Queued
  <1>9. Printing = {ri} /\ Printing' = {} /\ GivenOut' = GivenOut
    BY DEF Printing, GivenOut
  <1>10. \A j, k \in DOMAIN send_queue' :
            send_queue'[j].id = send_queue'[k].id => j = k
    <2>1. \A k \in DOMAIN send_queue : send_queue[k].id # ri
      BY <1>9 DEF OnePlace, Queued
    <2> QED
      BY <1>2, <1>3, <1>7, <2>1 DEF OnePlace
  <1>11. OnePlace'
    BY <1>8, <1>9, <1>10 DEF OnePlace, Sending, Registered, Reading
  <1>12. RightUrl'
    BY <1>2, <1>3, <1>7, NewRequest DEF RightUrl, IsIdOf
  <1>13. LinksKept'
    BY <1>9, LinksStay DEF InTransit
  <1> QED
    BY <1>4, <1>5, <1>6, <1>11, <1>12, <1>13

-----------------------------------------------------------------------------
(* Every step keeps the invariant                                          *)

LEMMA StutterKeeps ==
    ASSUME CrawlerInv, UNCHANGED vars
    PROVE  CrawlerInv'
  <1> USE DEF CrawlerInv, vars
  <1>1. TypeOK' /\ Threads'
    BY DEF TypeOK, Threads
  <1>2. Ids' /\ OnePlace'
    BY IdsStay, PlacesStay DEF OnePlace, Printing, GivenOut, index_vars
  <1>3. RightUrl' /\ OutputIsIndex' /\ LinksKept'
    <2>1. GivenOut' = GivenOut /\ InTransit' = InTransit
      BY DEF GivenOut, InTransit
    <2> QED
      BY <2>1, LinksStay DEF RightUrl, IsIdOf, OutputIsIndex
  <1> QED
    BY <1>1, <1>2, <1>3

LEMMA NextKeeps == CrawlerInv /\ [Next]_vars => CrawlerInv'
  <1> SUFFICES ASSUME CrawlerInv, [Next]_vars PROVE CrawlerInv'
    OBVIOUS
  <1>1. CASE Main
    <2>1. CASE MainStart
      BY <2>1, MainStartKeeps
    <2>2. CASE MainJoin
      BY <2>2, MainJoinKeeps
    <2>3. CASE MainCreate
      BY <2>3, MainCreateKeeps
    <2>4. CASE MainFinish
      BY <2>4, MainFinishKeeps
    <2>5. CASE \E e \in events : socket_write_cb(e) \/ ReadStart(e)
      BY <2>5, WriteCallbackKeeps, ReadStartKeeps
    <2>6. CASE ReadLine
      BY <2>6, ReadLineKeeps
    <2>7. CASE ReadEOF
      BY <2>7, ReadEOFKeeps
    <2>8. CASE ReadWouldBlock
      BY <2>8, ErrorKeeps DEF ReadWouldBlock
    <2> QED
      BY <1>1, <2>1, <2>2, <2>3, <2>4, <2>5, <2>6, <2>7, <2>8 DEF Main
  <1>2. CASE Send
    <2>1. CASE SendPollEmpty
      BY <2>1, StutterKeeps DEF SendPollEmpty
    <2>2. CASE SendDequeue
      BY <2>2, SendDequeueKeeps
    <2>3. CASE SendOpen
      BY <2>3, SendOpenKeeps
    <2>4. CASE SendAddEvent
      BY <2>4, SendAddEventKeeps
    <2> QED
      BY <1>2, <2>1, <2>2, <2>3, <2>4 DEF Send
  <1>3. CASE Recv
    <2>1. CASE RecvPollEmpty
      BY <2>1, StutterKeeps DEF RecvPollEmpty
    <2>2. CASE RecvDequeue
      BY <2>2, RecvDequeueKeeps
    <2>3. CASE RecvPersist
      BY <2>3, RecvPersistKeeps
    <2>4. CASE RecvPrint
      BY <2>4, RecvPrintKeeps
    <2>5. CASE RecvEnqueue
      BY <2>5, RecvEnqueueKeeps
    <2> QED
      BY <1>3, <2>1, <2>2, <2>3, <2>4, <2>5 DEF Recv
  <1>4. CASE Server
    BY <1>4, ServerSendKeeps DEF Server
  <1>5. CASE Failure
    <2>1. CASE SendOpenError
      BY <2>1, ErrorKeeps DEF SendOpenError
    <2>2. ASSUME NEW e \in events, WriteError(e)
          PROVE  CrawlerInv'
      BY <2>2, ErrorKeeps DEF WriteError
    <2> QED
      BY <1>5, <2>1, <2>2 DEF Failure
  <1>6. CASE Ended \/ UNCHANGED vars
    BY <1>6, StutterKeeps DEF Ended
  <1> QED
    BY <1>1, <1>2, <1>3, <1>4, <1>5, <1>6 DEF Next

\* The invariant holds in every state of the crawler.
THEOREM CrawlerInvariant == Spec => []CrawlerInv
  BY InitCrawlerInv, NextKeeps, PTL DEF Spec

-----------------------------------------------------------------------------
(* The properties                                                          *)

\* Every variable has its type; in particular the ids never pass the number
\* of urls, and arg and url pointers are NULL or a request.
THEOREM TypeCorrect == Spec => []TypeOK
  <1>1. CrawlerInv => TypeOK
    BY DEF CrawlerInv
  <1> QED
    BY <1>1, CrawlerInvariant, PTL

\* An id that is in one of the six sets only, once, has one place.
LEMMA OneOfSix ==
    ASSUME CrawlerInv, main_pc # "start", NEW i \in Id
    PROVE  Cardinality(Places(i)) = IF i < current_id THEN 1 ELSE 0
  <1> USE DEF CrawlerInv
  <1> DEFINE InQueue == {<<"send_queue", k>> :
                            k \in {j \in DOMAIN send_queue : send_queue[j].id = i}}
             InThread == IF send_url # NULL /\ send_url.id = i
                         THEN {<<"send_thread">>} ELSE {}
             InBase == {<<"event", e>> : e \in {f \in events : f.url.id = i}}
             InCallback == IF cb # NULL /\ cb.url.id = i THEN {<<"callback">>} ELSE {}
             Done == IF i \in answered THEN {<<"answered">>} ELSE {}
             InRecv == IF recv_pc \in {"print", "enqueue"} /\ ri = i
                       THEN {<<"recv_thread">>} ELSE {}
  <1>1. Places(i) = InQueue \cup InThread \cup InBase \cup InCallback \cup Done
                       \cup InRecv
    BY DEF Places
  <1>2. /\ i \notin Queued => InQueue = {}
        /\ i \notin Sending => InThread = {}
        /\ i \notin Registered => InBase = {}
        /\ i \notin Reading => InCallback = {}
        /\ i \notin answered => Done = {}
        /\ i \notin Printing => InRecv = {}
    BY DEF Queued, Sending, Registered, Reading, Printing
  <1>3. i \in Queued => \E x : InQueue = {x}
    <2> SUFFICES ASSUME i \in Queued PROVE \E x : InQueue = {x}
      OBVIOUS
    <2>1. PICK k \in DOMAIN send_queue : send_queue[k].id = i
      BY DEF Queued
    <2>2. {j \in DOMAIN send_queue : send_queue[j].id = i} = {k}
      BY <2>1 DEF OnePlace
    <2>3. InQueue = {<<"send_queue", k>>}
      BY <2>2
    <2> QED
      BY <2>3
  <1>4. i \in Registered => \E x : InBase = {x}
    <2> SUFFICES ASSUME i \in Registered PROVE \E x : InBase = {x}
      OBVIOUS
    <2>1. PICK e \in events : e.url.id = i
      BY DEF Registered
    <2>2. {f \in events : f.url.id = i} = {e}
      BY <2>1 DEF OnePlace
    <2>3. InBase = {<<"event", e>>}
      BY <2>2
    <2> QED
      BY <2>3
  <1>5. /\ i \in Sending => \E x : InThread = {x}
        /\ i \in Reading => \E x : InCallback = {x}
        /\ i \in answered => \E x : Done = {x}
        /\ i \in Printing => \E x : InRecv = {x}
    BY DEF Sending, Reading, Printing
  <1> HIDE DEF InQueue, InThread, InBase, InCallback, Done, InRecv
  <1>6. i < current_id <=> i \in GivenOut
    <2>1. Cardinality(Url) \in Nat
      BY CrawlerAssumption, FS_CardinalityType
    <2> QED
      BY <2>1 DEF GivenOut, TypeOK, Id
  <1>7. CASE i \in GivenOut
    <2>1. \E x : Places(i) = {x}
      <3>1. CASE i \in Queued
        BY <1>1, <1>2, <1>3, <3>1 DEF OnePlace
      <3>2. CASE i \in Sending
        BY <1>1, <1>2, <1>5, <3>2 DEF OnePlace
      <3>3. CASE i \in Registered
        BY <1>1, <1>2, <1>4, <3>3 DEF OnePlace
      <3>4. CASE i \in Reading
        BY <1>1, <1>2, <1>5, <3>4 DEF OnePlace
      <3>5. CASE i \in answered
        BY <1>1, <1>2, <1>5, <3>5 DEF OnePlace
      <3>6. CASE i \in Printing
        BY <1>1, <1>2, <1>5, <3>6 DEF OnePlace
      <3> QED
        BY <1>7, <3>1, <3>2, <3>3, <3>4, <3>5, <3>6 DEF OnePlace
    <2> QED
      BY <1>6, <1>7, <2>1, FS_Singleton
  <1>8. CASE i \notin GivenOut
    <2>1. Places(i) = {}
      BY <1>1, <1>2, <1>8 DEF OnePlace
    <2> QED
      BY <1>6, <1>8, <2>1, FS_EmptySet
  <1> QED
    BY <1>7, <1>8

\* A url that got an id is requested exactly once, at any time in one place on
\* its way: neither main(), nor the two threads, nor the event loop between
\* them lose a request or make a second one of it.
THEOREM RequestsAreUnique == Spec => []EveryRequestOnce
  <1>1. CrawlerInv => EveryRequestOnce
    BY OneOfSix DEF EveryRequestOnce
  <1> QED
    BY <1>1, CrawlerInvariant, PTL

\* The output file is the trie's index: the urls in the order of their ids.
THEOREM OutputFollowsIndex == Spec => []OutputIsIndex
  <1>1. CrawlerInv => OutputIsIndex
    BY DEF CrawlerInv
  <1> QED
    BY <1>1, CrawlerInvariant, PTL

\* The trie's links are the links of the pages, however callbacks, queues and
\* recv_thread interleave: no link is invented, none of a page that was read
\* to its end is lost.
THEOREM LinksAreExact == Spec => []LinksExact
  <1>1. CrawlerInv => LinksExact
    BY DEF CrawlerInv, LinksKept
  <1> QED
    BY <1>1, CrawlerInvariant, PTL

-----------------------------------------------------------------------------
(* The trie's specification, UrlIndex, and the crawler as its caller       *)

\* The types Index!IdsAreDense needs.
IndexType == /\ url_id \in [Url -> Nat]
             /\ current_id \in Nat \ {0}

IndexInv == IndexType /\ Index!IdsAreDense

\* A url that is new gets an id above all others, the next one.
LEMMA NewKeepsIndexInv ==
    ASSUME IndexInv, NEW u \in Url, NEW by \in Id, Index!PersistNew(u, by)
    PROVE  IndexInv'
  <1> USE DEF IndexInv, IndexType, Index!PersistNew
  <1>1. IndexType'
    OBVIOUS
  <1>2. \A v \in Url : url_id'[v] = IF v = u THEN current_id ELSE url_id[v]
    OBVIOUS
  <1>3. Index!Seen' = Index!Seen \cup {u} /\ u \notin Index!Seen
    BY <1>2 DEF Index!Seen
  <1>4. \A v \in Index!Seen : url_id[v] \in 1..current_id - 1
    BY DEF Index!IdsAreDense
  <1>5. \A v \in Index!Seen : url_id[v] < current_id
    BY <1>4
  <1>6. \A v, w \in Index!Seen' : url_id'[v] = url_id'[w] => v = w
    BY <1>2, <1>3, <1>5 DEF Index!IdsAreDense, Index!Seen
  <1>7. {url_id'[v] : v \in Index!Seen'} = {url_id[v] : v \in Index!Seen} \cup {current_id}
    BY <1>2, <1>3 DEF Index!Seen
  <1>8. 1..current_id' - 1 = (1..current_id - 1) \cup {current_id}
    OBVIOUS
  <1> QED
    BY <1>1, <1>6, <1>7, <1>8 DEF Index!IdsAreDense

\* Whoever calls url_persistence(): ids are numbers 1, 2, 3, ... and no two urls
\* share one.
THEOREM IdsDense == Index!Spec => []Index!IdsAreDense
  <1>1. Index!Init => IndexInv
    BY DEF Index!Init, IndexInv, IndexType, Index!IdsAreDense, Index!Seen
  <1>2. IndexInv /\ [Index!Next]_(Index!vars) => IndexInv'
    <2> SUFFICES ASSUME IndexInv, [Index!Next]_(Index!vars) PROVE IndexInv'
      OBVIOUS
    <2>1. ASSUME UNCHANGED <<url_id, current_id>>
          PROVE  IndexInv'
      BY <2>1 DEF IndexInv, IndexType, Index!IdsAreDense, Index!Seen
    <2>2. CASE Index!PersistEmpty
      BY <2>1, <2>2 DEF Index!PersistEmpty
    <2>3. ASSUME NEW u \in Url, NEW by \in Id, Index!PersistKnown(u, by)
          PROVE  IndexInv'
      BY <2>1, <2>3 DEF Index!PersistKnown
    <2>4. CASE UNCHANGED Index!vars
      BY <2>1, <2>4 DEF Index!vars
    <2> QED
      BY <2>2, <2>3, <2>4, NewKeepsIndexInv DEF Index!Next, Index!Persist
  <1>3. IndexInv => Index!IdsAreDense
    BY DEF IndexInv
  <1> QED
    BY <1>1, <1>2, <1>3, PTL DEF Index!Spec

\* Only recv_thread calls url_persistence(), and only with urls and ids.
LEMMA CallsOfIndex == CrawlerInv /\ [Next]_vars => [Index!Next]_(Index!vars)
  <1> SUFFICES ASSUME CrawlerInv, [Next]_vars PROVE [Index!Next]_(Index!vars)
    OBVIOUS
  <1>1. CASE RecvPersist
    <2>1. recv_url \in P_TYPE
      BY <1>1 DEF RecvPersist, CrawlerInv, TypeOK, Threads
    <2>2. recv_url.buf \in Url /\ recv_url.id \in Id
      BY <2>1 DEF P_TYPE
    <2> QED
      BY <1>1, <2>2 DEF RecvPersist, Index!Next, Index!Persist
  <1>2. CASE ~RecvPersist
    <2>1. UNCHANGED index_vars
      BY <1>2 DEF Next, Main, Send, Recv, Server, Failure, Ended, vars, index_vars,
                  MainStart, MainJoin, MainCreate, MainFinish, socket_write_cb,
                  ReadStart, ReadLine, ReadEOF, ReadWouldBlock, SendPollEmpty,
                  SendDequeue, SendOpen, SendAddEvent, RecvPollEmpty, RecvDequeue,
                  RecvPrint, RecvEnqueue, ServerSend, SendOpenError, WriteError
    <2> QED
      BY <2>1 DEF index_vars, Index!vars
  <1> QED
    BY <1>1, <1>2

\* The crawler uses the trie as UrlIndex allows, so no two urls it has seen share
\* an id and no id is left out.
THEOREM CrawlerIdsDense == Spec => Index!Spec /\ []Index!IdsAreDense
  <1>1. Init => Index!Init
    BY DEF Init
  <1>2. Spec => Index!Spec
    BY <1>1, CallsOfIndex, CrawlerInvariant, PTL DEF Spec, Index!Spec
  <1> QED
    BY <1>2, IdsDense, PTL

-----------------------------------------------------------------------------
(* The trie                                                                *)

CONSTANTS Char, Str, Linker

VARIABLES node, next_id, pc, str, linked_by, current_node, sp, result, called

Trie == INSTANCE UrlTrie WITH current_id <- next_id, i <- sp

\* The strings that url_persistence() is passed are made of characters.
TrieHypothesis == Str \subseteq Seq(Char)

EDGE == [c : Char, p : Nat]
PATTERN == [url_id : Int, linklist : Seq(Linker)]
NODE == [str : Seq(Char), edgelist : Seq(EDGE), matchlist : PATTERN]

\* c leads from n to m.
Leads(n, c, m) == node[m].str = Append(node[n].str, c)

\* A string has at most one node, and the edges lead from the root to each node
\* along the characters of its string, by one edge to each.
Shape ==
    /\ node \in Seq(NODE) /\ Trie!Root \in Trie!Node
    /\ node[Trie!Root].str = << >>
    /\ \A n, m \in Trie!Node : node[n].str = node[m].str => n = m
    /\ \A n \in Trie!Node : \A e \in ToSet(node[n].edgelist) :
          e.p \in Trie!Node /\ n < e.p /\ Leads(n, e.c, e.p)
    /\ \A m \in Trie!Node \ {Trie!Root} : \E n \in Trie!Node : m \in Trie!Targets(n)
    /\ \A n \in Trie!Node : \A x, y \in DOMAIN node[n].edgelist :
          node[n].edgelist[x].p = node[n].edgelist[y].p => x = y

\* The root alone has the tag.  Every other node has a PATTERN exactly when some
\* call ended at it, and lists the pages those calls named, each once.
Kept ==
    /\ next_id \in Nat \ {0}
    /\ called \in SUBSET (Str \X Linker)
    /\ \A c \in called : \E n \in Trie!Node : node[n].str = c[1]
    /\ \A n \in Trie!Node :
          /\ node[n].matchlist = Trie!RootTag <=> n = Trie!Root
          /\ node[n].matchlist.url_id = 0 => node[n].matchlist = Trie!NoMatch
          /\ IsInjective(node[n].matchlist.linklist)
          /\ n # Trie!Root =>
                /\ node[n].matchlist.url_id \in Nat
                /\ ToSet(node[n].matchlist.linklist) =
                      {by \in Linker : <<node[n].str, by>> \in called}

\* current_node is where the part of str that has been read leads.
Walking ==
    /\ str \in Str /\ linked_by \in Linker
    /\ sp \in 0..Len(str) /\ current_node \in Trie!Node
    /\ node[current_node].str = SubSeq(str, 1, sp)

TrieInv == /\ Shape /\ Kept
           /\ pc \in {"ready", "walk"}
           /\ pc = "walk" => Walking

\* The types of a node, and of what its edges are.
LEMMA TrieNodes ==
    ASSUME Shape
    PROVE  /\ Trie!Node = 1..Len(node) /\ Len(node) \in Nat
           /\ Trie!Root \in Trie!Node /\ Trie!Null \notin Trie!Node
           /\ \A n \in Trie!Node :
                 /\ node[n] \in NODE /\ node[n].str \in Seq(Char)
                 /\ node[n].edgelist \in Seq(EDGE)
                 /\ node[n].matchlist.linklist \in Seq(Linker)
                 /\ node[n].matchlist.url_id \in Int
                 /\ \A e \in ToSet(node[n].edgelist) : e \in EDGE
                 /\ Trie!Targets(n) = {e.p : e \in ToSet(node[n].edgelist)}
           /\ \A n \in Trie!Node \ {Trie!Root} : node[n].str # << >>
  <1>1. Trie!Node = 1..Len(node) /\ Len(node) \in Nat
    BY LenProperties DEF Shape, Trie!Node
  <1>2. Trie!Root \in Trie!Node /\ Trie!Null \notin Trie!Node
    BY <1>1 DEF Shape, Trie!Null
  <1>3. ASSUME NEW n \in Trie!Node
        PROVE  /\ node[n] \in NODE /\ node[n].str \in Seq(Char)
               /\ node[n].edgelist \in Seq(EDGE)
               /\ node[n].matchlist.linklist \in Seq(Linker)
               /\ node[n].matchlist.url_id \in Int
    <2>1. node[n] \in NODE
      BY <1>1, ElementOfSeq DEF Shape
    <2> QED
      BY <2>1 DEF NODE, PATTERN
  <1>4. ASSUME NEW n \in Trie!Node, NEW e \in ToSet(node[n].edgelist)
        PROVE  e \in EDGE
    BY <1>3, LenProperties, ElementOfSeq DEF ToSet
  <1>5. \A n \in Trie!Node : Trie!Targets(n) = {e.p : e \in ToSet(node[n].edgelist)}
    BY DEF Trie!Targets, ToSet
  <1>6. \A n \in Trie!Node \ {Trie!Root} : node[n].str # << >>
    BY DEF Shape
  <1> QED
    BY <1>1, <1>2, <1>3, <1>4, <1>5, <1>6

\* A node has one parent, and is the child of it by one character.
LEMMA TrieParents ==
    ASSUME Shape
    PROVE  /\ \A n, y, m \in Trie!Node, c, d \in Char :
                 Leads(n, c, m) /\ Leads(y, d, m) => n = y /\ c = d
           /\ \A n, m, z \in Trie!Node, c \in Char : Leads(n, c, m) /\ Leads(n, c, z) => m = z
           /\ \A n, m \in Trie!Node, c \in Char : Leads(n, c, m) => m # Trie!Root
           /\ \A n, m \in Trie!Node, c \in Char : Leads(n, c, m) => m # n
  <1>1. ASSUME NEW n \in Trie!Node, NEW y \in Trie!Node, NEW m \in Trie!Node,
               NEW c \in Char, NEW d \in Char, Leads(n, c, m), Leads(y, d, m)
        PROVE  n = y /\ c = d
    <2> DEFINE s == node[n].str
               t == node[y].str
    <2>1. s \in Seq(Char) /\ t \in Seq(Char) /\ Append(s, c) = Append(t, d)
      BY <1>1, TrieNodes DEF Leads
    <2> HIDE DEF s, t
    <2>2. s = t /\ c = d
      BY ONLY <2>1, AppendInjective
    <2> QED
      BY <2>2 DEF Shape, s, t
  <1>2. \A n, m, z \in Trie!Node, c \in Char : Leads(n, c, m) /\ Leads(n, c, z) => m = z
    BY DEF Leads, Shape
  <1>3. ASSUME NEW n \in Trie!Node, NEW m \in Trie!Node, NEW c \in Char, Leads(n, c, m)
        PROVE  m # Trie!Root /\ m # n
    <2>1. node[n].str \in Seq(Char) /\ node[m].str = Append(node[n].str, c)
      BY <1>3, TrieNodes DEF Leads
    <2>2. node[m].str # << >> /\ Len(node[m].str) = Len(node[n].str) + 1
      BY <2>1, Appended
    <2>3. Len(node[n].str) \in Nat
      BY <2>1, LenProperties
    <2> QED
      BY <2>2, <2>3 DEF Shape
  <1> QED
    BY <1>1, <1>2, <1>3

\* state_goto() finds the child, if there is one.
LEMMA TrieGoto ==
    ASSUME TrieInv, NEW n \in Trie!Node, NEW c \in Char
    PROVE  /\ \A m \in Trie!Node : Leads(n, c, m) => Trie!state_goto(n, c) = m
           /\ (\A m \in Trie!Node : ~Leads(n, c, m)) => Trie!state_goto(n, c) \in {Trie!Null, n}
  <1> DEFINE list == node[n].edgelist
             hits == {x \in DOMAIN list : list[x].c = c}
  <1>1. Shape /\ list \in Seq(EDGE) /\ hits \in SUBSET Nat
    <2>1. Shape /\ list \in Seq(EDGE)
      BY TrieNodes DEF TrieInv
    <2> QED
      BY <2>1, LenProperties
  <1>2. \A x \in hits : list[x].p \in Trie!Node /\ Leads(n, c, list[x].p)
    BY <1>1 DEF Shape, ToSet
  <1>3. CASE hits # {}
    <2>1. \E x \in hits : \A y \in hits : x <= y
      BY <1>1, <1>3, LeastNumber
    <2>2. Trie!Min(hits) \in hits
      BY <2>1 DEF Trie!Min
    <2>3. Trie!state_goto(n, c) = list[Trie!Min(hits)].p
      BY <1>3 DEF Trie!state_goto
    <2> HIDE DEF hits, list
    <2>4. Trie!state_goto(n, c) \in Trie!Node /\ Leads(n, c, Trie!state_goto(n, c))
      BY <1>2, <2>2, <2>3
    <2> QED
      BY <1>1, <2>4, TrieParents
  <1>4. CASE hits = {}
    <2>1. Trie!state_goto(n, c) \in {Trie!Null, n}
      BY <1>4 DEF Trie!state_goto
    <2>2. ASSUME NEW m \in Trie!Node, Leads(n, c, m) PROVE FALSE
      <3>1. m # Trie!Root
        BY <1>1, <2>2, TrieParents
      <3>2. PICK y \in Trie!Node : m \in Trie!Targets(y)
        BY <1>1, <3>1 DEF Shape
      <3>3. PICK e \in ToSet(node[y].edgelist) : e.p = m
        BY <1>1, <3>2, TrieNodes
      <3>4. e.c \in Char /\ Leads(y, e.c, m)
        BY <1>1, <3>3, TrieNodes DEF Shape, EDGE
      <3>5. y = n /\ e.c = c
        BY <1>1, <2>2, <3>4, TrieParents
      <3> QED
        BY <1>4, <3>3, <3>5 DEF ToSet
    <2> QED
      BY <2>1, <2>2
  <1> QED
    BY <1>3, <1>4

\* The PATTERN of a string is the one of its node.
LEMMA PatternIs ==
    ASSUME Shape
    PROVE  /\ \A s : \A n \in Trie!Node : node[n].str = s => Trie!PatternOf(s) = node[n].matchlist
           /\ \A s : (\A n \in Trie!Node : node[n].str # s) => Trie!PatternOf(s) = Trie!NoMatch
  <1>1. ASSUME NEW n \in Trie!Node, NEW s, node[n].str = s
        PROVE  Trie!PatternOf(s) = node[n].matchlist
    <2>1. {m \in Trie!Node : node[m].str = s} = {n}
      BY <1>1 DEF Shape
    <2>2. (CHOOSE m \in {n} : TRUE) = n
      OBVIOUS
    <2> QED
      BY <2>1, <2>2 DEF Trie!PatternOf
  <1>2. ASSUME NEW s, \A n \in Trie!Node : node[n].str # s
        PROVE  Trie!PatternOf(s) = Trie!NoMatch
    <2>1. {n \in Trie!Node : node[n].str = s} = {}
      BY <1>2
    <2> QED
      BY <2>1 DEF Trie!PatternOf
  <1> QED
    BY <1>1, <1>2

\* The same after a step.
LEMMA NextPatternIs ==
    ASSUME Shape'
    PROVE  /\ \A s : \A n \in Trie!Node' : node'[n].str = s => Trie!PatternOf(s)' = node'[n].matchlist
           /\ \A s : (\A n \in Trie!Node' : node'[n].str # s) => Trie!PatternOf(s)' = Trie!NoMatch
  <1>1. ASSUME NEW n \in Trie!Node', NEW s, node'[n].str = s
        PROVE  Trie!PatternOf(s)' = node'[n].matchlist
    <2>1. {m \in Trie!Node' : node'[m].str = s} = {n}
      BY <1>1 DEF Shape
    <2>2. (CHOOSE m \in {n} : TRUE) = n
      OBVIOUS
    <2> QED
      BY <2>1, <2>2 DEF Trie!PatternOf
  <1>2. ASSUME NEW s, \A n \in Trie!Node' : node'[n].str # s
        PROVE  Trie!PatternOf(s)' = Trie!NoMatch
    <2>1. {n \in Trie!Node' : node'[n].str = s} = {}
      BY <1>2
    <2> QED
      BY <2>1 DEF Trie!PatternOf
  <1> QED
    BY <1>1, <1>2

\* UrlTrie's copies of the library's operators.
LEMMA TrieSameNotions ==
    /\ \A s : Trie!ToSet(s) = ToSet(s)
    /\ \A s : Trie!IsInjective(s) = IsInjective(s)
    /\ \A s, x : Trie!Contains(s, x) = Contains(s, x)
  BY DEF Trie!ToSet, ToSet, Trie!IsInjective, IsInjective, Trie!Contains, Contains

\* Where the walk over the string has come to.
LEMMA TrieWalk ==
    ASSUME TrieHypothesis, TrieInv, pc = "walk"
    PROVE  /\ Shape /\ Kept /\ Walking
           /\ str \in Seq(Char) /\ Len(str) \in Nat /\ node[current_node].str \in Seq(Char)
           /\ sp < Len(str) => /\ str[sp + 1] \in Char /\ sp + 1 \in 0..Len(str)
                               /\ SubSeq(str, 1, sp + 1) =
                                     Append(node[current_node].str, str[sp + 1])
           /\ sp = Len(str) => node[current_node].str = str
  <1>1. Shape /\ Kept /\ Walking
    BY DEF TrieInv
  <1>2. str \in Seq(Char) /\ Len(str) \in Nat
    BY <1>1, LenProperties DEF Walking, TrieHypothesis
  <1>3. node[current_node].str \in Seq(Char)
    BY <1>1, TrieNodes DEF Walking
  <1>4. ASSUME sp < Len(str)
        PROVE  /\ str[sp + 1] \in Char /\ sp + 1 \in 0..Len(str)
               /\ SubSeq(str, 1, sp + 1) = Append(node[current_node].str, str[sp + 1])
    BY <1>1, <1>2, <1>4, OneMoreRead DEF Walking
  <1>5. sp = Len(str) => node[current_node].str = str
    <2> DEFINE t == SubSeq(str, 1, Len(str))
    <2>1. /\ t \in Seq(Char) /\ Len(t) = Len(str)
          /\ \A x \in 1..Len(str) : t[x] = str[x]
      BY <1>2
    <2> HIDE DEF t
    <2>2. t = str
      BY <1>2, <2>1, SeqEqual
    <2> QED
      BY <1>1, <2>2 DEF Walking, t
  <1> QED
    BY <1>1, <1>2, <1>3, <1>4, <1>5

\* The root that main() has tagged.
LEMMA TrieInit ==
    ASSUME Trie!Init
    PROVE  TrieInv /\ Trie!Index!Init
  <1> DEFINE root == [str |-> << >>, edgelist |-> << >>, matchlist |-> Trie!RootTag]
  <1>1. node = << root >> /\ next_id = 1 /\ pc = "ready" /\ result = -1 /\ called = {}
    BY DEF Trie!Init, Trie!NewNode
  <1>2. root \in NODE
    BY DEF NODE, PATTERN, Trie!RootTag
  <1> HIDE DEF root
  <1>3. node \in Seq(NODE) /\ Trie!Node = {1} /\ node[1] = root
    <2>1. node \in Seq(NODE) /\ Len(node) = 1 /\ node[1] = root
      BY <1>1, <1>2
    <2> QED
      BY <2>1, LenProperties DEF Trie!Node
  <1>4. ToSet(<< >>) = {} /\ IsInjective(<< >>) /\ DOMAIN << >> = {}
    BY DEF ToSet, IsInjective
  <1>5. Shape
    BY <1>3, <1>4 DEF Shape, root, Trie!Root
  <1>6. Kept
    BY <1>1, <1>3, <1>4 DEF Kept, root, Trie!Root, Trie!RootTag, Trie!NoMatch
  <1>7. \A s \in Trie!Urls : Trie!PatternOf(s) = Trie!NoMatch
    BY <1>3, <1>5, PatternIs DEF Trie!Urls, root
  <1>8. \A s \in Trie!Urls : Trie!PatternOf(s).url_id = 0 /\ Trie!ToSet(Trie!PatternOf(s).linklist) = {}
    BY <1>4, <1>7, TrieSameNotions DEF Trie!NoMatch
  <1>9. Trie!Index!Init
    BY <1>1, <1>8 DEF Trie!Index!Init
  <1> QED
    BY <1>1, <1>5, <1>6, <1>9 DEF TrieInv

\* When the entries and the last result stay the index does not change.
LEMMA TrieSameEntries ==
    ASSUME UNCHANGED <<next_id, result>>,
           \A s \in Trie!Urls : Trie!PatternOf(s)' = Trie!PatternOf(s)
    PROVE  UNCHANGED Trie!Index!vars
  BY DEF Trie!Index!vars

\* As while a call begins or follows an edge.
LEMMA TrieSame ==
    ASSUME Shape, Kept, UNCHANGED <<node, next_id, result, called>>
    PROVE  Shape' /\ Kept' /\ Trie!Node' = Trie!Node /\ UNCHANGED Trie!Index!vars
  <1>1. Trie!Node' = Trie!Node /\ \A t : Trie!PatternOf(t)' = Trie!PatternOf(t)
    BY DEF Trie!Node, Trie!PatternOf
  <1>2. Shape'
    BY DEF Shape, Trie!Node, Trie!Targets, Leads
  <1>3. Kept'
    BY <1>1 DEF Kept
  <1> QED
    BY <1>1, <1>2, <1>3, TrieSameEntries

\* A walk begins at the root.
LEMMA TrieCall ==
    ASSUME TrieInv, NEW s \in Str, NEW by \in Linker, Trie!Call(s, by)
    PROVE  TrieInv' /\ UNCHANGED Trie!Index!vars
  <1>1. UNCHANGED <<node, next_id, result, called>>
    BY DEF Trie!Call
  <1>2. Shape' /\ Kept' /\ Trie!Node' = Trie!Node /\ UNCHANGED Trie!Index!vars
    BY <1>1, TrieSame DEF TrieInv
  <1>3. Walking'
    <2>1. str' = s /\ linked_by' = by /\ sp' = 0 /\ current_node' = Trie!Root
      BY DEF Trie!Call
    <2>2. SubSeq(s, 1, 0) = << >>
      BY SubSeqEmpty
    <2>3. 0 \in 0..Len(s)
      BY DEF Trie!Call
    <2> QED
      BY <1>1, <1>2, <2>1, <2>2, <2>3 DEF TrieInv, Shape, Walking
  <1>4. pc' = "walk"
    BY DEF Trie!Call
  <1> QED
    BY <1>2, <1>3, <1>4 DEF TrieInv

\* An edge leads to the node of a longer part of the string.
LEMMA TrieFollowEdge ==
    ASSUME TrieHypothesis, TrieInv, Trie!FollowEdge
    PROVE  TrieInv' /\ UNCHANGED Trie!Index!vars
  <1> DEFINE c == str[sp + 1]
             temp == Trie!state_goto(current_node, c)
  <1>1. /\ pc = "walk" /\ sp < Len(str) /\ temp \notin {Trie!Null, current_node}
        /\ current_node' = temp /\ sp' = sp + 1
        /\ UNCHANGED <<node, next_id, pc, str, linked_by, result, called>>
    BY DEF Trie!FollowEdge
  <1>2. /\ Shape /\ Kept /\ Walking /\ c \in Char /\ sp + 1 \in 0..Len(str)
        /\ SubSeq(str, 1, sp + 1) = Append(node[current_node].str, c)
    BY <1>1, TrieWalk
  <1>3. temp \in Trie!Node /\ Leads(current_node, c, temp)
    BY <1>1, <1>2, TrieGoto DEF Walking
  <1> HIDE DEF c, temp
  <1>4. Shape' /\ Kept' /\ Trie!Node' = Trie!Node /\ UNCHANGED Trie!Index!vars
    BY <1>1, <1>2, TrieSame
  <1>5. Walking'
    BY <1>1, <1>2, <1>3, <1>4 DEF Walking, Leads
  <1> QED
    BY <1>1, <1>4, <1>5 DEF TrieInv

\* A new node stands for a string that none had, and has no PATTERN yet.
LEMMA TrieAddEdge ==
    ASSUME TrieHypothesis, TrieInv, Trie!AddEdge
    PROVE  TrieInv' /\ UNCHANGED Trie!Index!vars
  <1> DEFINE c == str[sp + 1]
             cur == current_node
             new == Len(node) + 1
             s == Append(node[cur].str, c)
             e0 == [c |-> c, p |-> new]
             list == node[cur].edgelist
             longer == << e0 >> \o list
             more == [node[cur] EXCEPT !.edgelist = longer]
             grown == [node EXCEPT ![cur] = more]
  <1>1. /\ pc = "walk" /\ sp < Len(str) /\ Trie!state_goto(cur, c) \in {Trie!Null, cur}
        /\ node' = Append(grown, Trie!NewNode(s))
        /\ current_node' = new /\ sp' = sp + 1
        /\ UNCHANGED <<next_id, pc, str, linked_by, result, called>>
    BY DEF Trie!AddEdge, Trie!WithEdge
  <1>2. /\ Shape /\ Kept /\ Walking /\ c \in Char /\ sp + 1 \in 0..Len(str)
        /\ SubSeq(str, 1, sp + 1) = s
        /\ cur \in Trie!Node
    BY <1>1, TrieWalk DEF Walking
  <1>3. \A m \in Trie!Node : ~Leads(cur, c, m)
    <2> SUFFICES ASSUME NEW m \in Trie!Node, Leads(cur, c, m) PROVE FALSE
      OBVIOUS
    <2>1. Trie!state_goto(cur, c) = m
      BY <1>2, TrieGoto
    <2>2. m # Trie!Null /\ m # cur
      BY <1>2, TrieNodes, TrieParents
    <2> QED
      BY <1>1, <2>1, <2>2
  <1>4. /\ node \in Seq(NODE) /\ Len(node) \in Nat /\ Trie!Node = 1..Len(node)
        /\ new \notin Trie!Node /\ new \in Nat
        /\ node[cur] \in NODE /\ list \in Seq(EDGE) /\ node[cur].str \in Seq(Char)
    <2>1. node \in Seq(NODE)
      BY <1>2 DEF Shape
    <2>2. /\ Len(node) \in Nat /\ Trie!Node = 1..Len(node)
          /\ node[cur] \in NODE /\ list \in Seq(EDGE) /\ node[cur].str \in Seq(Char)
      BY <1>2, TrieNodes
    <2> QED
      BY <2>1, <2>2
  <1>5. e0 \in EDGE /\ e0.p = new /\ e0.c = c
    BY <1>2, <1>4 DEF EDGE
  <1> HIDE DEF e0
  <1>6. /\ longer \in Seq(EDGE) /\ DOMAIN longer = 1..Len(list) + 1 /\ longer[1] = e0
        /\ \A x \in 2..Len(list) + 1 : longer[x] = list[x - 1]
        /\ ToSet(longer) = ToSet(list) \cup {e0}
    BY <1>4, <1>5, ConsAdds
  <1>7. s \in Seq(Char) /\ Trie!NewNode(s) \in NODE
    <2>1. s \in Seq(Char)
      BY <1>2, <1>4, Appended
    <2> HIDE DEF s
    <2> QED
      BY <2>1 DEF Trie!NewNode, Trie!NoMatch, NODE, PATTERN
  <1>8. /\ more \in NODE /\ more.str = node[cur].str /\ more.matchlist = node[cur].matchlist
        /\ more.edgelist = longer
    <2> HIDE DEF longer
    <2> QED
      BY <1>4, <1>6 DEF NODE
  <1> HIDE DEF more, longer, s
  <1>9. /\ grown \in Seq(NODE) /\ Len(grown) = Len(node) /\ grown[cur] = more
        /\ \A n \in Trie!Node \ {cur} : grown[n] = node[n]
    BY <1>2, <1>4, <1>8, ExceptSeq
  <1> HIDE DEF grown, c, list
  <1>10. /\ node' \in Seq(NODE) /\ Trie!Node' = Trie!Node \cup {new}
         /\ node'[new] = Trie!NewNode(s) /\ \A n \in Trie!Node : node'[n] = grown[n]
    <2>1. /\ node' \in Seq(NODE) /\ Len(node') = new /\ node'[new] = Trie!NewNode(s)
          /\ \A n \in 1..Len(node) : node'[n] = grown[n]
      BY <1>1, <1>4, <1>7, <1>9
    <2>2. Trie!Node' = 1..new /\ 1..new = (1..Len(node)) \cup {new}
      BY <1>4, <2>1, LenProperties DEF Trie!Node
    <2> QED
      BY <1>4, <2>1, <2>2
  <1>11. \A n \in Trie!Node : /\ node'[n].str = node[n].str
                              /\ node'[n].matchlist = node[n].matchlist
                              /\ n # cur => node'[n].edgelist = node[n].edgelist
    BY <1>8, <1>9, <1>10
  <1>12. /\ node'[new].str = s /\ node'[new].edgelist = << >>
         /\ node'[new].matchlist = Trie!NoMatch
    BY <1>10 DEF Trie!NewNode
  <1>13. node'[cur].edgelist = longer
    BY <1>2, <1>8, <1>9, <1>10
  <1>14. \A n \in Trie!Node : node[n].str # s
    BY <1>3 DEF Leads, s
  <1>15. ToSet(<< >>) = {} /\ IsInjective(<< >>) /\ DOMAIN << >> = {}
    BY DEF ToSet, IsInjective
  <1>16. Shape'
    <2>1. Trie!Root \in Trie!Node' /\ node'[Trie!Root].str = << >>
      BY <1>2, <1>10, <1>11 DEF Shape
    <2>2. \A n, m \in Trie!Node \cup {new} : node'[n].str = node'[m].str => n = m
      <3>1. \A n, m \in Trie!Node : node[n].str = node[m].str => n = m
        BY <1>2 DEF Shape
      <3> QED
        BY <1>11, <1>12, <1>14, <3>1
    <2>3. ASSUME NEW n \in Trie!Node \cup {new}, NEW e \in ToSet(node'[n].edgelist)
          PROVE  /\ e.p \in Trie!Node \cup {new} /\ n < e.p
                 /\ node'[e.p].str = Append(node'[n].str, e.c)
      <3>1. n \in Trie!Node
        BY <1>12, <1>15, <2>3
      <3>2. CASE e \in ToSet(node[n].edgelist)
        <4>1. e.p \in Trie!Node /\ n < e.p /\ node[e.p].str = Append(node[n].str, e.c)
          BY <1>2, <3>1, <3>2 DEF Shape, Leads
        <4> QED
          BY <1>11, <3>1, <4>1
      <3>3. CASE n = cur /\ e = e0
        <4>1. n < new
          BY <1>4, <3>1
        <4> QED
          BY <1>5, <1>11, <1>12, <3>1, <3>3, <4>1 DEF s
      <3> QED
        BY <1>6, <1>11, <1>13, <2>3, <3>1, <3>2, <3>3 DEF list
    <2>4. \A n \in Trie!Node \cup {new} : Trie!Targets(n)' = {e.p : e \in ToSet(node'[n].edgelist)}
      BY DEF Trie!Targets, ToSet
    <2>5. ASSUME NEW m \in (Trie!Node \cup {new}) \ {Trie!Root}
          PROVE  \E n \in Trie!Node \cup {new} : m \in Trie!Targets(n)'
      <3>1. CASE m \in Trie!Node
        <4>1. PICK n \in Trie!Node : m \in Trie!Targets(n)
          BY <1>2, <2>5, <3>1 DEF Shape
        <4>2. PICK e \in ToSet(node[n].edgelist) : e.p = m
          BY <4>1 DEF Trie!Targets, ToSet
        <4>3. e \in ToSet(node'[n].edgelist)
          BY <1>6, <1>11, <1>13, <4>2 DEF list
        <4> QED
          BY <2>4, <4>2, <4>3
      <3>2. CASE m = new
        <4>1. e0 \in ToSet(node'[cur].edgelist) /\ e0.p = m
          BY <1>5, <1>6, <1>13, <3>2
        <4> QED
          BY <1>2, <2>4, <4>1
      <3> QED
        BY <3>1, <3>2
    <2>6. ASSUME NEW n \in Trie!Node \cup {new},
                 NEW x \in DOMAIN node'[n].edgelist, NEW y \in DOMAIN node'[n].edgelist,
                 node'[n].edgelist[x].p = node'[n].edgelist[y].p
          PROVE  x = y
      <3>1. n \in Trie!Node
        BY <1>12, <1>15, <2>6
      <3>2. CASE n # cur
        BY <1>2, <1>11, <2>6, <3>1, <3>2 DEF Shape
      <3>3. CASE n = cur
        <4> DEFINE k == Len(list)
        <4>1. k \in Nat /\ DOMAIN list = 1..k
          BY <1>4, LenProperties DEF list
        <4>2. \A z \in 1..k : list[z].p # new
          BY <1>2, <1>4, <4>1 DEF Shape, ToSet, list
        <4>3. \A z, w \in 1..k : list[z].p = list[w].p => z = w
          BY <1>2, <4>1 DEF Shape, list
        <4>4. x \in 1..k + 1 /\ y \in 1..k + 1 /\ longer[x].p = longer[y].p
          BY <1>6, <1>13, <2>6, <3>3
        <4> HIDE DEF k
        <4>5. \A z \in 1..k + 1 : \/ z = 1 /\ longer[z].p = new
                                  \/ z - 1 \in 1..k /\ longer[z] = list[z - 1]
          <5>1. \A z \in 1..k + 1 : z = 1 \/ (z \in 2..k + 1 /\ z - 1 \in 1..k)
            <6>1. k \in Nat
              BY <4>1
            <6> QED
              BY ONLY <6>1
          <5> QED
            BY <1>5, <1>6, <5>1 DEF k
        <4>6. x - 1 \in 1..k /\ y - 1 \in 1..k /\ longer[x] = list[x - 1] /\ longer[y] = list[y - 1]
              => x - 1 = y - 1
          BY <4>3, <4>4
        <4>7. \/ x = 1 /\ y = 1
              \/ x - 1 = y - 1
          BY <4>2, <4>4, <4>5, <4>6
        <4> QED
          BY <4>1, <4>4, <4>7
      <3> QED
        BY <3>2, <3>3
    <2> QED
      BY <1>10, <2>1, <2>2, <2>3, <2>5, <2>6 DEF Shape, Leads, Trie!Root
  <1>17. Kept'
    <2>1. \A x \in called : \E n \in Trie!Node \cup {new} : node'[n].str = x[1]
      BY <1>2, <1>11 DEF Kept
    <2>2. ASSUME NEW n \in Trie!Node
          PROVE  /\ node'[n].matchlist = Trie!RootTag <=> n = Trie!Root
                 /\ node'[n].matchlist.url_id = 0 => node'[n].matchlist = Trie!NoMatch
                 /\ IsInjective(node'[n].matchlist.linklist)
                 /\ n # Trie!Root =>
                       /\ node'[n].matchlist.url_id \in Nat
                       /\ ToSet(node'[n].matchlist.linklist) =
                             {by \in Linker : <<node'[n].str, by>> \in called}
      BY <1>2, <1>11 DEF Kept
    <2>3. /\ node'[new].matchlist = Trie!RootTag <=> new = Trie!Root
          /\ node'[new].matchlist.url_id = 0 => node'[new].matchlist = Trie!NoMatch
          /\ IsInjective(node'[new].matchlist.linklist)
          /\ node'[new].matchlist.url_id \in Nat
          /\ ToSet(node'[new].matchlist.linklist) =
                {by \in Linker : <<node'[new].str, by>> \in called}
      <3>1. new # Trie!Root
        BY <1>2, <1>4 DEF Shape
      <3>2. Trie!NoMatch # Trie!RootTag /\ Trie!NoMatch.linklist = << >>
        BY DEF Trie!NoMatch, Trie!RootTag
      <3>4. Trie!NoMatch.url_id \in Nat
        BY DEF Trie!NoMatch
      <3>3. \A by : <<s, by>> \notin called
        BY <1>2, <1>14 DEF Kept
      <3> QED
        BY <1>12, <1>15, <3>1, <3>2, <3>3, <3>4
    <2> QED
      BY <1>1, <1>2, <1>10, <2>1, <2>2, <2>3 DEF Kept, Trie!Root, Trie!RootTag, Trie!NoMatch
  <1>18. Walking'
    <2>1. new \in Trie!Node' /\ node'[new].str = SubSeq(str, 1, sp + 1)
      BY <1>2, <1>10, <1>12
    <2> QED
      BY <1>1, <1>2, <2>1 DEF Walking
  <1>19. \A t \in Trie!Urls : Trie!PatternOf(t)' = Trie!PatternOf(t)
    <2> SUFFICES ASSUME NEW t \in Trie!Urls PROVE Trie!PatternOf(t)' = Trie!PatternOf(t)
      OBVIOUS
    <2>1. /\ \A n \in Trie!Node' : node'[n].str = t => Trie!PatternOf(t)' = node'[n].matchlist
          /\ (\A n \in Trie!Node' : node'[n].str # t) => Trie!PatternOf(t)' = Trie!NoMatch
      BY <1>16, NextPatternIs
    <2>2. /\ \A n \in Trie!Node : node[n].str = t => Trie!PatternOf(t) = node[n].matchlist
          /\ (\A n \in Trie!Node : node[n].str # t) => Trie!PatternOf(t) = Trie!NoMatch
      BY <1>2, PatternIs
    <2>3. CASE \E n \in Trie!Node : node[n].str = t
      BY <1>10, <1>11, <2>1, <2>2, <2>3
    <2>4. CASE \A n \in Trie!Node : node[n].str # t
      BY <1>10, <1>11, <1>12, <2>1, <2>2, <2>4
    <2> QED
      BY <2>3, <2>4
  <1> QED
    BY <1>1, <1>16, <1>17, <1>18, <1>19, TrieSameEntries DEF TrieInv

\* A call ends: the PATTERN of the node it came to becomes q.
Ends(q) ==
    /\ node' = [node EXCEPT ![current_node].matchlist = q]
    /\ called' = called \cup {<<str, linked_by>>}
    /\ pc' = "ready"

\* That keeps the invariant when q lists linked_by beside the pages listed
\* before, and changes the entry of str alone.
LEMMA TrieEnds ==
    ASSUME TrieHypothesis, TrieInv, pc = "walk", sp = Len(str), current_node # Trie!Root,
           NEW q \in PATTERN, Ends(q), q.url_id > 0, IsInjective(q.linklist),
           ToSet(q.linklist) = ToSet(node[current_node].matchlist.linklist) \cup {linked_by},
           next_id' \in Nat \ {0}
    PROVE  /\ TrieInv' /\ str \in Trie!Urls /\ linked_by \in Linker
           /\ Trie!PatternOf(str) = node[current_node].matchlist
           /\ \A t \in Trie!Urls : Trie!PatternOf(t)' = IF t = str THEN q ELSE Trie!PatternOf(t)
  <1> DEFINE cur == current_node
             more == [node[cur] EXCEPT !.matchlist = q]
  <1>1. /\ Shape /\ Kept /\ Walking /\ node[cur].str = str /\ cur \in Trie!Node
        /\ str \in Str /\ linked_by \in Linker
    BY TrieWalk DEF Walking
  <1>2. /\ Trie!Node = 1..Len(node) /\ Len(node) \in Nat /\ node \in Seq(NODE)
        /\ node[cur] \in NODE
    BY <1>1, TrieNodes DEF Shape
  <1>3. node' = [node EXCEPT ![cur] = more]
    BY DEF Ends
  <1>4. /\ more \in NODE /\ more.str = node[cur].str /\ more.edgelist = node[cur].edgelist
        /\ more.matchlist = q
    BY <1>2 DEF NODE
  <1> HIDE DEF more
  <1>5. /\ node' \in Seq(NODE) /\ Trie!Node' = Trie!Node
        /\ \A n \in Trie!Node : node'[n] = IF n = cur THEN more ELSE node[n]
    <2>1. /\ node' \in Seq(NODE) /\ Len(node') = Len(node)
          /\ \A n \in 1..Len(node) : node'[n] = IF n = cur THEN more ELSE node[n]
      BY <1>1, <1>2, <1>3, <1>4, ExceptSeq
    <2> QED
      BY <1>2, <2>1, LenProperties DEF Trie!Node
  <1>6. \A n \in Trie!Node : /\ node'[n].str = node[n].str
                             /\ node'[n].edgelist = node[n].edgelist
                             /\ node'[n].matchlist = IF n = cur THEN q ELSE node[n].matchlist
    BY <1>4, <1>5
  <1>7. \A n \in Trie!Node : Trie!Targets(n)' = Trie!Targets(n)
    BY <1>6 DEF Trie!Targets
  <1>8. Shape'
    <2>1. Trie!Root \in Trie!Node' /\ node'[Trie!Root].str = << >>
      BY <1>1, <1>5, <1>6 DEF Shape
    <2>2. \A n, m \in Trie!Node' : node'[n].str = node'[m].str => n = m
      BY <1>1, <1>5, <1>6 DEF Shape
    <2>3. \A n \in Trie!Node' : \A e \in ToSet(node'[n].edgelist) :
             e.p \in Trie!Node' /\ n < e.p /\ Leads(n, e.c, e.p)'
      <3>1. ASSUME NEW n \in Trie!Node, NEW e \in ToSet(node[n].edgelist)
            PROVE  /\ e.p \in Trie!Node /\ n < e.p
                   /\ node'[e.p].str = Append(node'[n].str, e.c)
        <4>1. e.p \in Trie!Node /\ n < e.p /\ node[e.p].str = Append(node[n].str, e.c)
          BY <1>1 DEF Shape, Leads
        <4> QED
          BY <1>6, <4>1
      <3>2. \A n \in Trie!Node : ToSet(node'[n].edgelist) = ToSet(node[n].edgelist)
        BY <1>6
      <3> QED
        BY <1>5, <3>1, <3>2 DEF Leads
    <2>4. \A m \in Trie!Node' \ {Trie!Root} : \E n \in Trie!Node' : m \in Trie!Targets(n)'
      BY <1>1, <1>5, <1>7 DEF Shape
    <2>5. \A n \in Trie!Node' : \A x, y \in DOMAIN node'[n].edgelist :
             node'[n].edgelist[x].p = node'[n].edgelist[y].p => x = y
      BY <1>1, <1>5, <1>6 DEF Shape
    <2> QED
      BY <1>5, <2>1, <2>2, <2>3, <2>4, <2>5 DEF Shape, Trie!Root
  <1>9. called' = called \cup {<<str, linked_by>>}
    BY DEF Ends
  <1>10. Kept'
    <2>1. called' \in SUBSET (Str \X Linker)
      BY <1>1, <1>9 DEF Kept
    <2>2. \A x \in called' : \E n \in Trie!Node : node'[n].str = x[1]
      BY <1>1, <1>6, <1>9 DEF Kept
    <2>3. ASSUME NEW n \in Trie!Node
          PROVE  /\ node'[n].matchlist = Trie!RootTag <=> n = Trie!Root
                 /\ node'[n].matchlist.url_id = 0 => node'[n].matchlist = Trie!NoMatch
                 /\ IsInjective(node'[n].matchlist.linklist)
      <3>1. CASE n = cur
        <4>1. q # Trie!RootTag /\ q.url_id # 0
          BY DEF Trie!RootTag, PATTERN
        <4> QED
          BY <1>6, <3>1, <4>1
      <3>2. CASE n # cur
        BY <1>1, <1>6, <3>2 DEF Kept
      <3> QED
        BY <3>1, <3>2
    <2>5. ASSUME NEW n \in Trie!Node, n # Trie!Root
          PROVE  node'[n].matchlist.url_id \in Nat
      <3>1. q.url_id \in Nat
        BY DEF PATTERN
      <3> QED
        BY <1>1, <1>6, <2>5, <3>1 DEF Kept
    <2>4. ASSUME NEW n \in Trie!Node, n # Trie!Root
          PROVE  ToSet(node'[n].matchlist.linklist) =
                    {by \in Linker : <<node'[n].str, by>> \in called'}
      <3>1. ToSet(node[n].matchlist.linklist) = {by \in Linker : <<node[n].str, by>> \in called}
        BY <1>1, <2>4 DEF Kept
      <3>2. CASE n = cur
        BY <1>1, <1>6, <1>9, <3>1, <3>2
      <3>3. CASE n # cur
        <4>1. node[n].str # str
          BY <1>1, <3>3 DEF Shape
        <4>2. \A by : <<node[n].str, by>> \in called' <=> <<node[n].str, by>> \in called
          BY <1>9, <4>1
        <4> QED
          BY <1>6, <3>1, <3>3, <4>2
      <3> QED
        BY <3>2, <3>3
    <2> QED
      BY <1>5, <2>1, <2>2, <2>3, <2>4, <2>5 DEF Kept, Trie!Root, Trie!RootTag, Trie!NoMatch
  <1>11. str \in Trie!Urls /\ Trie!PatternOf(str) = node[cur].matchlist
    <2>1. str # << >>
      BY <1>1, TrieNodes
    <2> QED
      BY <1>1, <2>1, PatternIs DEF Trie!Urls
  <1>12. ASSUME NEW t \in Trie!Urls
         PROVE  Trie!PatternOf(t)' = IF t = str THEN q ELSE Trie!PatternOf(t)
    <2>1. /\ \A n \in Trie!Node : node'[n].str = t => Trie!PatternOf(t)' = node'[n].matchlist
          /\ (\A n \in Trie!Node : node'[n].str # t) => Trie!PatternOf(t)' = Trie!NoMatch
      BY <1>5, <1>8, NextPatternIs
    <2>2. /\ \A n \in Trie!Node : node[n].str = t => Trie!PatternOf(t) = node[n].matchlist
          /\ (\A n \in Trie!Node : node[n].str # t) => Trie!PatternOf(t) = Trie!NoMatch
      BY <1>1, PatternIs
    <2>3. CASE t = str
      BY <1>1, <1>6, <2>1, <2>3
    <2>4. CASE t # str /\ \E n \in Trie!Node : node[n].str = t
      <3>1. PICK n \in Trie!Node : node[n].str = t
        BY <2>4
      <3>2. n # cur
        BY <1>1, <2>4, <3>1
      <3> QED
        BY <1>6, <2>1, <2>2, <2>4, <3>1, <3>2
    <2>5. CASE t # str /\ \A n \in Trie!Node : node[n].str # t
      BY <1>6, <2>1, <2>2, <2>5
    <2> QED
      BY <2>3, <2>4, <2>5
  <1>13. pc' = "ready"
    BY DEF Ends
  <1> QED
    BY <1>1, <1>8, <1>10, <1>11, <1>12, <1>13 DEF TrieInv

\* A url that is new: the next id.
LEMMA TrieNewPattern ==
    ASSUME TrieHypothesis, TrieInv, Trie!NewPattern
    PROVE  TrieInv' /\ Trie!Index!Next
  <1> DEFINE q == [url_id |-> next_id, linklist |-> << linked_by >>]
             old == node[current_node].matchlist
  <1>1. /\ pc = "walk" /\ sp = Len(str) /\ old = Trie!NoMatch /\ Ends(q)
        /\ next_id' = next_id + 1 /\ result' = next_id
    BY DEF Trie!NewPattern, Trie!Return, Ends
  <1>2. /\ Shape /\ Kept /\ current_node \in Trie!Node /\ linked_by \in Linker
        /\ next_id \in Nat \ {0}
    BY <1>1, TrieWalk DEF Walking, Kept
  <1>3. current_node # Trie!Root
    <2>1. Trie!NoMatch # Trie!RootTag
      BY DEF Trie!NoMatch, Trie!RootTag
    <2> QED
      BY <1>1, <1>2, <2>1 DEF Kept
  <1>4. q \in PATTERN /\ q.url_id > 0 /\ q.linklist = << linked_by >> /\ q.url_id = next_id
    BY <1>2 DEF PATTERN
  <1>5. IsInjective(<< linked_by >>) /\ ToSet(<< linked_by >>) = {linked_by} /\ ToSet(<< >>) = {}
    BY DEF IsInjective, ToSet
  <1>6. old.linklist = << >> /\ old.url_id = 0
    BY <1>1 DEF Trie!NoMatch
  <1> HIDE DEF q, old
  <1>7. /\ TrieInv' /\ str \in Trie!Urls /\ Trie!PatternOf(str) = old
        /\ \A t \in Trie!Urls : Trie!PatternOf(t)' = IF t = str THEN q ELSE Trie!PatternOf(t)
    BY <1>1, <1>2, <1>3, <1>4, <1>5, <1>6, TrieEnds DEF old
  <1>8. Trie!Index!PersistNew(str, linked_by)
    <2>1. [t \in Trie!Urls |-> Trie!PatternOf(t).url_id][str] = 0
      BY <1>6, <1>7
    <2>2. [t \in Trie!Urls |-> Trie!PatternOf(t).url_id]' =
             [[t \in Trie!Urls |-> Trie!PatternOf(t).url_id] EXCEPT ![str] = next_id]
      BY <1>4, <1>7
    <2>3. Trie!ToSet(q.linklist) = {linked_by}
      BY <1>4, <1>5, TrieSameNotions
    <2>4. [t \in Trie!Urls |-> Trie!ToSet(Trie!PatternOf(t).linklist)]' =
             [[t \in Trie!Urls |-> Trie!ToSet(Trie!PatternOf(t).linklist)] EXCEPT ![str] = {linked_by}]
      BY <1>7, <2>3
    <2> QED
      BY <1>1, <2>1, <2>2, <2>4 DEF Trie!Index!PersistNew
  <1>9. Trie!Index!Next
    BY <1>2, <1>7, <1>8 DEF Trie!Index!Next, Trie!Index!Persist
  <1> QED
    BY <1>7, <1>9

\* A url that is known: another page, or one that was listed already.
LEMMA TrieOldPattern ==
    ASSUME TrieHypothesis, TrieInv, Trie!OldPattern
    PROVE  TrieInv' /\ Trie!Index!Next
  <1> DEFINE old == node[current_node].matchlist
             list == old.linklist
             q == IF Contains(list, linked_by) THEN old
                  ELSE [old EXCEPT !.linklist = << linked_by >> \o list]
  <1>1. /\ pc = "walk" /\ sp = Len(str) /\ old \notin {Trie!NoMatch, Trie!RootTag}
        /\ next_id' = next_id /\ result' = -1
        /\ called' = called \cup {<<str, linked_by>>} /\ pc' = "ready"
    BY DEF Trie!OldPattern, Trie!Return
  <1>2. /\ Shape /\ Kept /\ current_node \in Trie!Node /\ linked_by \in Linker
        /\ next_id \in Nat \ {0}
    BY <1>1, TrieWalk DEF Walking, Kept
  <1>3. /\ current_node # Trie!Root /\ IsInjective(list) /\ old.url_id > 0
        /\ old \in PATTERN /\ list \in Seq(Linker)
    <2>1. current_node # Trie!Root /\ IsInjective(list) /\ old.url_id # 0
      BY <1>1, <1>2 DEF Kept
    <2>2. old.url_id \in Nat
      BY <1>2, <2>1 DEF Kept
    <2>3. old \in PATTERN /\ list \in Seq(Linker)
      BY <1>2, TrieNodes DEF NODE
    <2> QED
      BY <2>1, <2>2, <2>3
  <1>4. Ends(q)
    <2>1. node \in Seq(NODE) /\ node[current_node] \in NODE
      BY <1>2, TrieNodes DEF Shape
    <2>2. CASE Contains(list, linked_by)
      <3>1. node' = node
        BY <2>2, TrieSameNotions DEF Trie!OldPattern
      <3>2. q = old
        BY <2>2
      <3>3. node = [node EXCEPT ![current_node].matchlist = old]
        BY <2>1 DEF NODE
      <3> QED
        BY <1>1, <3>1, <3>2, <3>3 DEF Ends
    <2>3. CASE ~Contains(list, linked_by)
      <3>1. node' = [node EXCEPT ![current_node].matchlist.linklist = << linked_by >> \o @]
        BY <2>3, TrieSameNotions DEF Trie!OldPattern
      <3>2. node' = [node EXCEPT ![current_node].matchlist = q]
        BY <2>3, <3>1
      <3> QED
        BY <1>1, <3>2 DEF Ends
    <2> QED
      BY <2>2, <2>3
  <1>5. /\ q \in PATTERN /\ q.url_id = old.url_id /\ IsInjective(q.linklist)
        /\ ToSet(q.linklist) = ToSet(list) \cup {linked_by}
    <2>1. CASE Contains(list, linked_by)
      <3>1. linked_by \in ToSet(list)
        BY <1>3, <2>1, LenProperties DEF Contains, ToSet
      <3> QED
        BY <1>3, <2>1, <3>1
    <2>2. CASE ~Contains(list, linked_by)
      <3> DEFINE longer == << linked_by >> \o list
      <3>1. /\ longer \in Seq(Linker) /\ IsInjective(longer)
            /\ ToSet(longer) = ToSet(list) \cup {linked_by}
        BY <1>2, <1>3, <2>2, ConsAdds, ConsInjective
      <3> HIDE DEF longer
      <3>2. q = [old EXCEPT !.linklist = longer]
        BY <2>2 DEF longer
      <3> QED
        BY <1>3, <3>1, <3>2 DEF PATTERN
    <2> QED
      BY <2>1, <2>2
  <1> HIDE DEF q, old
  <1>6. /\ TrieInv' /\ str \in Trie!Urls /\ Trie!PatternOf(str) = old
        /\ \A t \in Trie!Urls : Trie!PatternOf(t)' = IF t = str THEN q ELSE Trie!PatternOf(t)
    BY <1>1, <1>2, <1>3, <1>4, <1>5, TrieEnds DEF old
  <1>7. Trie!Index!PersistKnown(str, linked_by)
    <2>1. [t \in Trie!Urls |-> Trie!PatternOf(t).url_id][str] # 0
      BY <1>3, <1>6
    <2>2. [t \in Trie!Urls |-> Trie!PatternOf(t).url_id]' =
             [t \in Trie!Urls |-> Trie!PatternOf(t).url_id]
      BY <1>5, <1>6
    <2>3. Trie!ToSet(q.linklist) = Trie!ToSet(old.linklist) \cup {linked_by}
      BY <1>5, TrieSameNotions
    <2>4. [t \in Trie!Urls |-> Trie!ToSet(Trie!PatternOf(t).linklist)]' =
             [[t \in Trie!Urls |-> Trie!ToSet(Trie!PatternOf(t).linklist)]
                 EXCEPT ![str] = @ \cup {linked_by}]
      BY <1>6, <2>3
    <2> QED
      BY <1>1, <2>1, <2>2, <2>4 DEF Trie!Index!PersistKnown
  <1>8. Trie!Index!Next
    BY <1>2, <1>6, <1>7 DEF Trie!Index!Next, Trie!Index!Persist
  <1> QED
    BY <1>6, <1>8

\* The empty string: the walk never left the root, and nothing changes.
LEMMA TrieAtRoot ==
    ASSUME TrieHypothesis, TrieInv, Trie!AtRoot
    PROVE  TrieInv' /\ Trie!Index!Next
  <1>1. /\ pc = "walk" /\ sp = Len(str) /\ node[current_node].matchlist = Trie!RootTag
        /\ UNCHANGED <<node, next_id>> /\ result' = -1 /\ pc' = "ready"
        /\ called' = called \cup {<<str, linked_by>>}
    BY DEF Trie!AtRoot, Trie!Return
  <1>2. /\ Shape /\ Kept /\ Walking /\ node[current_node].str = str
        /\ current_node \in Trie!Node /\ str \in Str /\ linked_by \in Linker
    BY <1>1, TrieWalk DEF Walking
  <1>3. current_node = Trie!Root /\ str = << >>
    BY <1>1, <1>2 DEF Kept, Shape
  <1>4. Trie!Node' = Trie!Node /\ \A t : Trie!PatternOf(t)' = Trie!PatternOf(t)
    BY <1>1 DEF Trie!Node, Trie!PatternOf
  <1>5. Shape'
    BY <1>1, <1>2 DEF Shape, Trie!Node, Trie!Targets, Leads
  <1>6. Kept'
    <2>1. called' \in SUBSET (Str \X Linker)
      BY <1>1, <1>2 DEF Kept
    <2>2. \A x \in called' : \E n \in Trie!Node : node[n].str = x[1]
      BY <1>1, <1>2 DEF Kept
    <2>3. ASSUME NEW n \in Trie!Node, n # Trie!Root
          PROVE  /\ node[n].matchlist.url_id \in Nat
                 /\ ToSet(node[n].matchlist.linklist) =
                       {by \in Linker : <<node[n].str, by>> \in called'}
      <3>1. node[n].str # str
        BY <1>2, <1>3, <2>3, TrieNodes
      <3>2. \A by : <<node[n].str, by>> \in called' <=> <<node[n].str, by>> \in called
        BY <1>1, <3>1
      <3> QED
        BY <1>2, <2>3, <3>2 DEF Kept
    <2>4. ASSUME NEW n \in Trie!Node
          PROVE  /\ node[n].matchlist = Trie!RootTag <=> n = Trie!Root
                 /\ node[n].matchlist.url_id = 0 => node[n].matchlist = Trie!NoMatch
                 /\ IsInjective(node[n].matchlist.linklist)
      BY <1>2 DEF Kept
    <2>5. next_id' \in Nat \ {0}
      BY <1>1, <1>2 DEF Kept
    <2> QED
      BY <1>1, <1>4, <2>1, <2>2, <2>3, <2>4, <2>5
      DEF Kept, Trie!Root, Trie!RootTag, Trie!NoMatch
  <1>7. Trie!Index!PersistEmpty
    BY <1>1, <1>4 DEF Trie!Index!PersistEmpty
  <1>8. Trie!Index!Next
    BY <1>2, <1>3, <1>7 DEF Trie!Index!Next, Trie!Index!Persist
  <1> QED
    BY <1>1, <1>5, <1>6, <1>8 DEF TrieInv

-----------------------------------------------------------------------------

\* A turn of the loop, a call or its end, keeps the invariant and does to the
\* entries what UrlIndex allows.
LEMMA TrieStep ==
    ASSUME TrieHypothesis, TrieInv, [Trie!Next]_(Trie!vars)
    PROVE  TrieInv' /\ [Trie!Index!Next]_(Trie!Index!vars)
  <1>1. CASE \E s \in Str, by \in Linker : Trie!Call(s, by)
    BY <1>1, TrieCall
  <1>2. CASE Trie!FollowEdge
    BY <1>2, TrieFollowEdge
  <1>3. CASE Trie!AddEdge
    BY <1>3, TrieAddEdge
  <1>4. CASE Trie!NewPattern
    BY <1>4, TrieNewPattern
  <1>5. CASE Trie!OldPattern
    BY <1>5, TrieOldPattern
  <1>6. CASE Trie!AtRoot
    BY <1>6, TrieAtRoot
  <1>7. CASE UNCHANGED Trie!vars
    <2>1. UNCHANGED <<node, next_id, pc, str, linked_by, current_node, sp, result, called>>
      BY <1>7 DEF Trie!vars
    <2>2. Shape' /\ Kept' /\ Trie!Node' = Trie!Node /\ UNCHANGED Trie!Index!vars
      BY <2>1, TrieSame DEF TrieInv
    <2> QED
      BY <2>1, <2>2 DEF TrieInv, Walking
  <1> QED
    BY <1>1, <1>2, <1>3, <1>4, <1>5, <1>6, <1>7 DEF Trie!Next

\* Whatever strings and pages are passed: the nodes form a tree, with one node
\* for each string that a walk has come to, and each holds what the calls that
\* ended there have left.
THEOREM TrieInvariant ==
    ASSUME TrieHypothesis
    PROVE  Trie!Spec => []TrieInv
  <1>1. Trie!Init => TrieInv
    BY TrieInit
  <1>2. TrieInv /\ [Trie!Next]_(Trie!vars) => TrieInv'
    BY TrieStep
  <1> QED
    BY <1>1, <1>2, PTL DEF Trie!Spec

\* url_persistence() keeps an index of urls in the trie: the ends of its calls
\* are the steps of UrlIndex, and every other turn of its loop changes no entry.
THEOREM TrieImplementsIndex ==
    ASSUME TrieHypothesis
    PROVE  Trie!Spec => Trie!ImplementsIndex
  <1>1. Trie!Init => Trie!Index!Init
    BY TrieInit
  <1>2. TrieInv /\ [Trie!Next]_(Trie!vars) => [Trie!Index!Next]_(Trie!Index!vars)
    BY TrieStep
  <1>3. Trie!Spec => Trie!Index!Spec
    BY <1>1, <1>2, TrieInvariant, PTL DEF Trie!Spec, Trie!Index!Spec
  <1> QED
    BY <1>3 DEF Trie!ImplementsIndex

\* The walk of dump_link() comes to every node, and to none twice.
LEMMA TrieReached ==
    ASSUME Shape
    PROVE  Trie!Dumped(Trie!Root) = Trie!Node /\ Trie!OneWay
  <1>1. /\ Trie!Node \in SUBSET Nat
        /\ \A n \in Trie!Node : Trie!Targets(n) = {e.p : e \in ToSet(node[n].edgelist)}
        /\ \A n \in Trie!Node : \A e \in ToSet(node[n].edgelist) : e.c \in Char
    BY TrieNodes DEF EDGE
  <1>2. ASSUME NEW n \in Trie!Node, NEW m \in Trie!Targets(n)
        PROVE  m \in Trie!Node /\ n < m /\ \E c \in Char : Leads(n, c, m)
    <2>1. PICK e \in ToSet(node[n].edgelist) : e.p = m
      BY <1>1
    <2> QED
      BY <1>1, <2>1 DEF Shape
  <1>3. ASSUME NEW ns \in SUBSET Trie!Node, Trie!Root \in ns,
               \A m \in ns : Trie!Targets(m) \subseteq ns
        PROVE  Trie!Node \subseteq ns
    <2> SUFFICES ASSUME Trie!Node \ ns # {} PROVE FALSE
      OBVIOUS
    <2>1. PICK m \in Trie!Node \ ns : \A y \in Trie!Node \ ns : m <= y
      BY <1>1, LeastNumber
    <2>2. PICK y \in Trie!Node : m \in Trie!Targets(y)
      BY <1>3, <2>1 DEF Shape
    <2>3. y < m /\ y \in Nat /\ m \in Nat
      BY <1>1, <1>2, <2>2
    <2>4. y \in ns
      BY <2>1, <2>2, <2>3
    <2> QED
      BY <1>3, <2>1, <2>2, <2>4
  <1>4. Trie!Dumped(Trie!Root) = Trie!Node
    BY <1>3 DEF Trie!Dumped
  <1>5. Trie!Root \notin UNION {Trie!Targets(n) : n \in Trie!Node}
    BY <1>2, TrieNodes, TrieParents
  <1>6. \A n, m \in Trie!Node : n # m => Trie!Targets(n) \cap Trie!Targets(m) = {}
    BY <1>2, TrieParents
  <1> QED
    BY <1>4, <1>5, <1>6 DEF Trie!OneWay, Shape

\* dump_link() from the root writes each link that some call has named once,
\* under the id of its url, and no other, whatever strings share a prefix.
THEOREM DumpsEveryLink ==
    ASSUME TrieHypothesis
    PROVE  Trie!Spec => []Trie!DumpIsLinks
  <1>1. TrieInv => Trie!DumpIsLinks
    <2> SUFFICES ASSUME TrieInv PROVE Trie!DumpIsLinks
      OBVIOUS
    <2> DEFINE lines == {[link |-> c[2], id |-> Trie!PatternOf(c[1]).url_id] :
                            c \in {d \in called : d[1] # << >>}}
    <2>1. Shape /\ Kept /\ Trie!OneWay
      BY TrieReached DEF TrieInv
    <2>2. Trie!dump_link(Trie!Root) = UNION {Trie!LinesOf(n) : n \in Trie!Node}
      BY <2>1, TrieReached DEF Trie!dump_link
    <2>3. \A n \in Trie!Node : Trie!LinesOf(n) =
             {[link |-> l, id |-> node[n].matchlist.url_id] :
                 l \in ToSet(node[n].matchlist.linklist)}
      BY TrieSameNotions DEF Trie!LinesOf
    <2>4. ASSUME NEW n \in Trie!Node
          PROVE  Trie!LinesOf(n) \subseteq lines
      <3>1. CASE n = Trie!Root
        <4>1. node[n].matchlist = Trie!RootTag
          BY <2>1, <3>1 DEF Kept
        <4>2. ToSet(node[n].matchlist.linklist) = {}
          BY <4>1 DEF Trie!RootTag, ToSet
        <4> QED
          BY <2>3, <4>2
      <3>2. ASSUME n # Trie!Root, NEW l \in ToSet(node[n].matchlist.linklist)
            PROVE  [link |-> l, id |-> node[n].matchlist.url_id] \in lines
        <4>1. <<node[n].str, l>> \in called
          BY <2>1, <3>2 DEF Kept
        <4>2. node[n].str # << >> /\ Trie!PatternOf(node[n].str) = node[n].matchlist
          BY <2>1, <3>2, TrieNodes, PatternIs
        <4> DEFINE d == <<node[n].str, l>>
        <4>3. d \in {x \in called : x[1] # << >>} /\ d[1] = node[n].str /\ d[2] = l
          BY <4>1, <4>2
        <4> HIDE DEF d
        <4> QED
          BY <4>2, <4>3
      <3> HIDE DEF lines
      <3>3. CASE n # Trie!Root
        BY <2>3, <3>2, <3>3
      <3> QED
        BY <3>1, <3>3
    <2>5. ASSUME NEW d \in called, d[1] # << >>
          PROVE  \E n \in Trie!Node :
                    [link |-> d[2], id |-> Trie!PatternOf(d[1]).url_id] \in Trie!LinesOf(n)
      <3>1. PICK n \in Trie!Node : node[n].str = d[1]
        BY <2>1 DEF Kept
      <3>2. n # Trie!Root /\ Trie!PatternOf(d[1]) = node[n].matchlist
        BY <2>1, <2>5, <3>1, PatternIs DEF Shape
      <3>3. d = <<node[n].str, d[2]>> /\ d[2] \in Linker
        BY <2>1, <3>1 DEF Kept
      <3>4. d[2] \in ToSet(node[n].matchlist.linklist)
        BY <2>1, <3>2, <3>3 DEF Kept
      <3> QED
        BY <2>3, <3>2, <3>4
    <2>6. Trie!dump_link(Trie!Root) = lines
      BY <2>2, <2>4, <2>5
    <2>7. \A n \in Trie!Node : Trie!IsInjective(node[n].matchlist.linklist)
      BY <2>1, TrieSameNotions DEF Kept
    <2> QED
      BY <2>1, <2>6, <2>7 DEF Trie!DumpIsLinks
  <1> QED
    BY <1>1, TrieInvariant, PTL
=============================================================================

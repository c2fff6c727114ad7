------------------------------ MODULE Crawler -------------------------------
(***************************************************************************)
(* The crawler of lab4-crawler/bcrawler.c: main() with its libevent loop,  *)
(* send_thread (first send_thread_once) and recv_thread, which hand urls   *)
(* to each other through two queues:                                       *)
(*                                                                         *)
(*   send_queue --> send_thread --> event base --> socket_write_cb,        *)
(*   socket_read_cb --> recv_queue --> recv_thread --> send_queue          *)
(*                                                                         *)
(* A call of enqueue() or dequeue() is one step, as SyncQueue allows, and  *)
(* url_persistence() is UrlIndex, as UrlTrie allows.  The web server and   *)
(* the sockets are the environment.                                        *)
(***************************************************************************)
EXTENDS Integers, Sequences, FiniteSets

CONSTANTS Url,        \* what the pattern of socket_read_cb can capture
          FirstUrl,   \* argv[1]
          NoLink,     \* a line in which pcre_exec finds no link
          Page,       \* Page[u]: the lines the server answers to GET u
          NULL

ASSUME CrawlerAssumption ==
    /\ FirstUrl \in Url
    /\ NoLink \notin Url
    /\ Page \in [Url -> Seq(Url \cup {NoLink})]
    \* P_TYPE holds a url in buf[BUF_SIZE], so there are finitely many.
    /\ IsFiniteSet(Url)

VARIABLES
    \* shared by the threads
    send_queue, recv_queue,   \* the queues, as sequences of P_TYPE
    events,                   \* the events registered with the base
    output,                   \* the lines of the output file
    \* main
    main_pc, cb,              \* cb: the read callback it is in, or NULL
    \* send_thread and recv_thread
    send_pc, send_url,
    recv_pc, recv_url,
    \* the trie, of which recv_thread is the only user
    url_id, links, current_id, ri,
    \* the environment: how much of its answer has reached a socket
    arrived,
    \* how the process ended, and the requests answered in full (history)
    status, answered

vars == <<send_queue, recv_queue, events, output, main_pc, cb, send_pc,
          send_url, recv_pc, recv_url, url_id, links, current_id, ri, arrived,
          status, answered>>

queues == <<send_queue, recv_queue>>
shared == <<queues, events, output>>
main_vars == <<main_pc, cb>>
send_vars == <<send_pc, send_url>>
recv_vars == <<recv_pc, recv_url>>
index_vars == <<url_id, links, current_id, ri>>
server_vars == <<arrived, answered>>

\* The first url has id 0, the trie gives out ids from 1.
Id == 0..Cardinality(Url)

P_TYPE == [id : Id, buf : Url]

\* The read callback main() is in: the arg it was given, and the lines read.
Callback == [url : P_TYPE, nonblocking : BOOLEAN, line : Nat]

\* A NULL pointer is no element of a queue and no callback.
ASSUME NullAssumption == NULL \notin P_TYPE /\ NULL \notin Callback

Index == INSTANCE UrlIndex WITH Empty <- NULL, Linker <- Id, result <- ri

\* Only arrived[i] lines of the answer to request i can be read so far; one
\* more than it has lines means that the server has closed the connection.
Answer(r) == Page[r.url.buf]
Readable(r) == IF arrived[r.url.id] <= Len(Answer(r)) THEN arrived[r.url.id]
               ELSE Len(Answer(r))
AtEOF(r) == arrived[r.url.id] = Len(Answer(r)) + 1

Init ==
    /\ send_queue = << >> /\ recv_queue = << >>
    /\ events = {}
    /\ output = << >>
    /\ main_pc = "start" /\ cb = NULL
    /\ send_pc = "none" /\ send_url = NULL
    /\ recv_pc = "none" /\ recv_url = NULL
    /\ Index!Init
    /\ arrived = [i \in Id |-> 0]
    /\ status = "running"
    /\ answered = {}

-----------------------------------------------------------------------------
(* main() up to its event loop                                             *)

\* The first url is written and queued, and send_thread_once is created.
MainStart ==
    /\ main_pc = "start"
    /\ output' = << [buf |-> FirstUrl, id |-> 0] >>
    /\ send_queue' = << [id |-> 0, buf |-> FirstUrl] >>
    /\ send_pc' = "poll"
    /\ main_pc' = "join"
    /\ UNCHANGED <<recv_queue, events, cb, send_url, recv_vars, index_vars,
                   server_vars, status>>

\* Pthread_join() returns, recv_thread is created.
MainJoin ==
    /\ main_pc = "join"
    /\ send_pc = "done"
    /\ recv_pc' = "poll"
    /\ main_pc' = "loop_once"
    /\ UNCHANGED <<shared, cb, send_vars, recv_url, index_vars, server_vars,
                   status>>

\* event_base_loop(base, EVLOOP_ONCE) has returned, send_thread is created.
MainCreate ==
    /\ main_pc = "create"
    /\ send_pc' = "poll"
    /\ main_pc' = "dispatch"
    /\ UNCHANGED <<shared, cb, send_url, recv_vars, index_vars, server_vars,
                   status>>

-----------------------------------------------------------------------------
(* send_thread_once, while main() waits to join it, then send_thread       *)

\* dequeue() returns NULL: the loop goes round.  (send_thread_once always
\* finds the first url.)
SendPollEmpty == /\ send_pc = "poll" /\ main_pc # "join"
                 /\ send_queue = << >>
                 /\ UNCHANGED vars

\* Mutant: the element stays in the queue.
SendPeek ==
    /\ send_pc = "poll"
    /\ send_queue # << >>
    /\ send_url' = Head(send_queue)
    /\ send_pc' = "open"
    /\ UNCHANGED <<shared, main_vars, recv_vars, index_vars, server_vars,
                   status>>

SendDequeue ==
    /\ send_pc = "poll"
    /\ send_queue # << >>
    /\ send_url' = Head(send_queue)
    /\ send_queue' = Tail(send_queue)
    /\ send_pc' = "open"
    /\ UNCHANGED <<recv_queue, events, output, main_vars, recv_vars,
                   index_vars, server_vars, status>>

\* Open_clientfd() connects ...
SendOpen ==
    /\ send_pc = "open"
    /\ send_pc' = "add"
    /\ UNCHANGED <<shared, main_vars, send_url, recv_vars, index_vars,
                   server_vars, status>>

\* ... or calls unix_error(), which ends the process.
SendOpenError ==
    /\ send_pc = "open"
    /\ status' = "io_error"
    /\ UNCHANGED <<shared, main_vars, send_vars, recv_vars, index_vars,
                   server_vars>>

\* Only send_thread makes its socket non-blocking.
SendAddEvent ==
    /\ send_pc = "add"
    /\ events' = events \cup {[kind |-> "write", url |-> send_url,
                               nonblocking |-> main_pc # "join"]}
    /\ send_url' = NULL
    /\ send_pc' = IF main_pc = "join" THEN "done" ELSE "poll"
    /\ UNCHANGED <<queues, output, main_vars, recv_vars, index_vars,
                   server_vars, status>>

-----------------------------------------------------------------------------
(* The event loop of main(): one callback at a time.  Events are not       *)
(* EV_PERSIST, so an event is gone when its callback runs.                 *)

InLoop == main_pc \in {"loop_once", "dispatch"} /\ cb = NULL

\* EVLOOP_ONCE: the first write callback ends the loop.
AfterCallback == main_pc' = IF main_pc = "loop_once" THEN "create" ELSE main_pc

\* A connected socket is writable: send the request, wait for the answer.
socket_write_cb(e) ==
    /\ InLoop
    /\ e.kind = "write"
    /\ events' = (events \ {e}) \cup {[e EXCEPT !.kind = "read"]}
    /\ AfterCallback
    /\ UNCHANGED <<queues, output, cb, send_vars, recv_vars, index_vars,
                   server_vars, status>>

\* Rio_writen() fails: unix_error().
WriteError(e) ==
    /\ InLoop
    /\ e.kind = "write"
    /\ status' = "io_error"
    /\ UNCHANGED <<shared, main_vars, send_vars, recv_vars, index_vars,
                   server_vars>>

\* A socket with something to read starts socket_read_cb().
ReadStart(e) ==
    /\ InLoop
    /\ e.kind = "read"
    /\ arrived[e.url.id] > 0
    /\ events' = events \ {e}
    /\ cb' = [url |-> e.url, nonblocking |-> e.nonblocking, line |-> 0]
    /\ UNCHANGED <<queues, output, main_pc, send_vars, recv_vars, index_vars,
                   server_vars, status>>

\* Rio_readlineb() has a line; the link in it, if any, goes to recv_queue with
\* the id of the page.
ReadLine ==
    /\ cb # NULL
    /\ cb.line < Readable(cb)
    /\ LET line == Answer(cb)[cb.line + 1]
       IN  recv_queue' = IF line = NoLink THEN recv_queue
                         ELSE Append(recv_queue, [id |-> cb.url.id, buf |-> line])
    /\ cb' = [cb EXCEPT !.line = @ + 1]
    /\ UNCHANGED <<send_queue, events, output, main_pc, send_vars, recv_vars,
                   index_vars, server_vars, status>>

\* Rio_readlineb() returns 0: the callback closes the socket and ends.
ReadEOF ==
    /\ cb # NULL
    /\ cb.line = Len(Answer(cb)) /\ AtEOF(cb)
    /\ answered' = answered \cup {cb.url.id}
    /\ cb' = NULL
    /\ UNCHANGED <<shared, main_pc, send_vars, recv_vars, index_vars, arrived,
                   status>>

\* read() on a non-blocking socket has nothing yet: EAGAIN is an error for
\* rio_readlineb(), and Rio_readlineb() calls unix_error().
ReadWouldBlock ==
    /\ cb # NULL
    /\ cb.nonblocking
    /\ cb.line = Readable(cb) /\ ~AtEOF(cb)
    /\ status' = "would_block"
    /\ UNCHANGED <<shared, main_vars, send_vars, recv_vars, index_vars,
                   server_vars>>

\* Mutant: main() joins recv_thread before it returns.
MainFinishJoins ==
    /\ main_pc = "dispatch" /\ cb = NULL
    /\ events = {}
    /\ recv_pc = "done"
    /\ main_pc' = "finished"
    /\ status' = "finished"
    /\ UNCHANGED <<shared, cb, send_vars, recv_vars, index_vars, server_vars>>

\* event_base_dispatch() returns when no event is registered; main() returns
\* and the process ends, whatever its other threads are doing.
MainFinish ==
    /\ main_pc = "dispatch" /\ cb = NULL
    /\ events = {}
    /\ main_pc' = "finished"
    /\ status' = "finished"
    /\ UNCHANGED <<shared, cb, send_vars, recv_vars, index_vars, server_vars>>

\* The server sends the next line of an answer, or closes the connection.
ServerSend(r) ==
    /\ arrived[r.url.id] <= Len(Answer(r))
    /\ arrived' = [arrived EXCEPT ![r.url.id] = @ + 1]
    /\ UNCHANGED <<shared, main_vars, send_vars, recv_vars, index_vars,
                   answered, status>>

\* The sockets on which a request has been sent.
Waiting == {e \in events : e.kind = "read"} \cup (IF cb = NULL THEN {} ELSE {cb})

-----------------------------------------------------------------------------
(* recv_thread                                                             *)

RecvPollEmpty == /\ recv_pc = "poll"
                 /\ recv_queue = << >>
                 /\ UNCHANGED vars

RecvDequeue ==
    /\ recv_pc = "poll"
    /\ recv_queue # << >>
    /\ recv_url' = Head(recv_queue)
    /\ recv_queue' = Tail(recv_queue)
    /\ recv_pc' = "persist"
    /\ UNCHANGED <<send_queue, events, output, main_vars, send_vars,
                   index_vars, server_vars, status>>

\* Mutant: a url that is known is dropped, and with it the link.
RecvDropKnown ==
    /\ recv_pc = "persist"
    /\ \/ /\ Index!PersistNew(recv_url.buf, recv_url.id)
          /\ recv_pc' = "print"
          /\ UNCHANGED recv_url
       \/ /\ url_id[recv_url.buf] # 0
          /\ recv_pc' = "poll"
          /\ recv_url' = NULL
          /\ UNCHANGED index_vars
    /\ UNCHANGED <<shared, main_vars, send_vars, server_vars, status>>

\* A url seen for the first time goes on, another is freed.
RecvPersist ==
    /\ recv_pc = "persist"
    /\ \/ /\ Index!PersistNew(recv_url.buf, recv_url.id)
          /\ recv_pc' = "print"
          /\ UNCHANGED recv_url
       \/ /\ Index!PersistKnown(recv_url.buf, recv_url.id)
          /\ recv_pc' = "poll"
          /\ recv_url' = NULL
    /\ UNCHANGED <<shared, main_vars, send_vars, server_vars, status>>

\* Mutant: the id of the linking page is written.
RecvPrintLinker ==
    /\ recv_pc = "print"
    /\ output' = Append(output, [buf |-> recv_url.buf, id |-> recv_url.id])
    /\ recv_pc' = "enqueue"
    /\ UNCHANGED <<queues, events, main_vars, send_vars, recv_url, index_vars,
                   server_vars, status>>

RecvPrint ==
    /\ recv_pc = "print"
    /\ output' = Append(output, [buf |-> recv_url.buf, id |-> ri])
    /\ recv_pc' = "enqueue"
    /\ UNCHANGED <<queues, events, main_vars, send_vars, recv_url, index_vars,
                   server_vars, status>>

RecvEnqueue ==
    /\ recv_pc = "enqueue"
    /\ send_queue' = Append(send_queue, [id |-> ri, buf |-> recv_url.buf])
    /\ recv_url' = NULL
    /\ recv_pc' = "poll"
    /\ UNCHANGED <<recv_queue, events, output, main_vars, send_vars,
                   index_vars, server_vars, status>>

-----------------------------------------------------------------------------
Main == \/ MainStart \/ MainJoin \/ MainCreate \/ MainFinish
        \/ \E e \in events : socket_write_cb(e) \/ ReadStart(e)
        \/ ReadLine \/ ReadEOF \/ ReadWouldBlock

Send == SendPollEmpty \/ SendDequeue \/ SendOpen \/ SendAddEvent

Recv == RecvPollEmpty \/ RecvDequeue \/ RecvPersist \/ RecvPrint \/ RecvEnqueue

Server == \E r \in Waiting : ServerSend(r)

Failure == SendOpenError \/ \E e \in events : WriteError(e)

Running == status = "running"

\* Once the process has ended nothing happens.
Ended == ~Running /\ UNCHANGED vars

Next == \/ Running /\ (Main \/ Send \/ Recv \/ Server \/ Failure)
        \/ Ended

Spec == Init /\ [][Next]_vars

\* Every thread is scheduled and the server answers every request to its end.
Fairness == /\ WF_vars(Running /\ Main)
            /\ WF_vars(Running /\ Send)
            /\ WF_vars(Running /\ Recv)
            /\ WF_vars(Running /\ Server)

FairSpec == Spec /\ Fairness

-----------------------------------------------------------------------------
(* Properties                                                              *)

Event == [kind : {"write", "read"}, url : P_TYPE, nonblocking : BOOLEAN]

\* Every variable has its type.
TypeOK ==
    /\ send_queue \in Seq(P_TYPE) /\ recv_queue \in Seq(P_TYPE)
    /\ events \subseteq Event
    /\ output \in Seq([buf : Url, id : Id])
    /\ main_pc \in {"start", "join", "loop_once", "create", "dispatch",
                    "finished"}
    /\ cb \in Callback \cup {NULL}
    /\ send_pc \in {"none", "poll", "open", "add", "done"}
    /\ send_url \in P_TYPE \cup {NULL}
    /\ recv_pc \in {"none", "poll", "persist", "print", "enqueue"}
    /\ recv_url \in P_TYPE \cup {NULL}
    /\ url_id \in [Url -> Id]
    /\ links \in [Url -> SUBSET Id]
    /\ current_id \in 1..Cardinality(Url) + 1
    /\ ri \in Id \cup {-1}
    /\ arrived \in [Id -> Nat]
    /\ status \in {"running", "finished", "io_error", "would_block"}
    /\ answered \subseteq Id

\* Where the request with id i is: each position is counted.
Places(i) ==
    {<<"send_queue", k>> : k \in {j \in DOMAIN send_queue : send_queue[j].id = i}}
    \cup (IF send_url # NULL /\ send_url.id = i THEN {<<"send_thread">>} ELSE {})
    \cup {<<"event", e>> : e \in {f \in events : f.url.id = i}}
    \cup (IF cb # NULL /\ cb.url.id = i THEN {<<"callback">>} ELSE {})
    \cup (IF i \in answered THEN {<<"answered">>} ELSE {})
    \cup (IF recv_pc \in {"print", "enqueue"} /\ ri = i THEN {<<"recv_thread">>}
          ELSE {})

\* A url that got an id is requested exactly once: at any time its request is
\* in one place on its way from recv_thread to the end of its answer.  It is
\* neither lost nor sent twice.
EveryRequestOnce ==
    main_pc # "start" =>
        \A i \in Id : Cardinality(Places(i)) = IF i < current_id THEN 1 ELSE 0

\* The output file lists the urls in the order of their ids, and all of them
\* but the one recv_thread is about to write (main_pc "start" apart).
OutputIsIndex ==
    main_pc # "start" =>
        /\ Len(output) = IF recv_pc = "print" THEN current_id - 1 ELSE current_id
        /\ \A k \in DOMAIN output : output[k].id = k - 1
        /\ \A k \in 2..Len(output) : url_id[output[k].buf] = k - 1

\* The url that has id i, and the links on its page.
UrlOf(i) == IF i = 0 THEN FirstUrl ELSE CHOOSE u \in Url : url_id[u] = i
LinksOn(i) == {Page[UrlOf(i)][k] : k \in DOMAIN Page[UrlOf(i)]} \ {NoLink}

\* The links on their way from a callback to the trie.
InTransit == {recv_queue[k] : k \in DOMAIN recv_queue}
             \cup (IF recv_pc = "persist" THEN {recv_url} ELSE {})

\* Every link recorded or on its way is one the page with that id has:
\* whatever callback read it, it kept the id of its own page.  And no link of
\* a page that has been read to its end is forgotten.
LinksExact ==
    /\ \A u \in Url : \A i \in links[u] : u \in LinksOn(i)
    /\ \A r \in InTransit : r.buf \in LinksOn(r.id)
    /\ \A i \in answered : \A u \in LinksOn(i) :
          i \in links[u] \/ [id |-> i, buf |-> u] \in InTransit

\* Pages may link to each other in circles: the crawler still ends.
Terminates == <>~Running

\* What printf("finished \n") says: no thread has anything left to do.
FinishedMeansDone ==
    status = "finished" =>
        /\ send_queue = << >> /\ send_pc = "poll"
        /\ recv_queue = << >> /\ recv_pc = "poll"

\* What the branch "ERROR when Rio_readlineb" of socket_read_cb() is for: an
\* error while one page is read does not end the crawler.
ReadErrorHandled == status # "would_block"

\* url_persistence() returns -1 for a url there has already been: no url is
\* written twice.
NoUrlTwice ==
    \A j, k \in DOMAIN output : output[j].buf = output[k].buf => j = k
=============================================================================

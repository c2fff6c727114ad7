------------------------------- MODULE OpenFd -------------------------------
(***************************************************************************)
(* open_clientfd() and open_listenfd() of lab4-crawler/csapp.c: a call     *)
(* walks along the addresses that getaddrinfo() has found until one can be *)
(* connected (bound) to.  Every system call may fail.  The wrappers end    *)
(* the process when the call returns an error.                             *)
(***************************************************************************)
EXTENDS Integers, Sequences, FiniteSetsExt

CONSTANTS Descriptors,  \* descriptors, numbers from 0 on, more than are ever open
          MaxAddr       \* bound: the addresses getaddrinfo() finds

VARIABLES call,         \* "open_clientfd" or "open_listenfd"
          pc,           \* "getaddrinfo", "socket", "connect" (or bind), "close",
                        \* "clean up", "listen", "return", "done" or "exit"
          listp, p,     \* the length of the list, 0 when there is none, and how
                        \* far the walk has come: the list has ended at listp + 1
          fd, rc,       \* the descriptor tried, and what the call returns
          others, open, \* the descriptors open before the call, and now
          tried,        \* history: whether connect() or bind() worked, for each
                        \* address at which socket() did
          unclosed      \* history: the descriptors for which close() failed

vars == <<call, pc, listp, p, fd, rc, others, open, tried, unclosed>>
list == <<listp, p>>
history == <<tried, unclosed>>

Init == /\ call \in {"open_clientfd", "open_listenfd"}
        /\ pc = "getaddrinfo"
        /\ listp = 0 /\ p = 0 /\ fd = -1 /\ rc = 0
        /\ others \in SUBSET {0, 1} /\ open = others
        /\ tried = << >> /\ unclosed = {}

Return(result) == rc' = result /\ pc' = "return"

Getaddrinfo ==
    /\ pc = "getaddrinfo"
    /\ \/ Return(-2) /\ UNCHANGED list
       \/ \E n \in 1..MaxAddr : listp' = n /\ p' = 1 /\ pc' = "socket" /\ UNCHANGED rc
    /\ UNCHANGED <<call, fd, others, open, history>>

\* socket() returns the lowest descriptor that is free, or fails.
Socket ==
    /\ pc = "socket" /\ p <= listp
    /\ \/ /\ fd' = Min(Descriptors \ open)
          /\ open' = open \cup {fd'}
          /\ pc' = "connect"
          /\ UNCHANGED p
       \/ fd' = -1 /\ p' = p + 1 /\ UNCHANGED <<pc, open>>
    /\ UNCHANGED <<call, listp, rc, others, history>>

\* connect() or bind()
Connect ==
    /\ pc = "connect"
    /\ \E ok \in BOOLEAN : /\ tried' = Append(tried, ok)
                           /\ pc' = IF ok THEN "clean up" ELSE "close"
    /\ UNCHANGED <<call, list, fd, rc, others, open, unclosed>>

\* Mutant: the socket that could not be connected stays open.
CloseNot == /\ pc = "close"
            /\ p' = p + 1 /\ pc' = "socket"
            /\ UNCHANGED <<call, listp, fd, rc, others, open, history>>

\* Where close() fails the call returns at once, and the list is not freed; the
\* descriptor may be open or not.
Close ==
    /\ pc = "close"
    /\ \/ /\ open' = open \ {fd} /\ p' = p + 1 /\ pc' = "socket"
          /\ UNCHANGED <<rc, unclosed>>
       \/ /\ open' \in {open, open \ {fd}} /\ unclosed' = unclosed \cup {fd}
          /\ Return(-1)
          /\ UNCHANGED p
    /\ UNCHANGED <<call, listp, fd, others, tried>>

ListEnds == /\ pc = "socket" /\ p > listp
            /\ pc' = "clean up"
            /\ UNCHANGED <<call, list, fd, rc, others, open, history>>

\* freeaddrinfo(); p tells how the walk ended.
CleanUp ==
    /\ pc = "clean up"
    /\ listp' = 0
    /\ \/ p > listp /\ Return(-1)
       \/ p <= listp /\ call = "open_clientfd" /\ Return(fd)
       \/ p <= listp /\ call = "open_listenfd" /\ pc' = "listen" /\ UNCHANGED rc
    /\ UNCHANGED <<call, p, fd, others, open, history>>

\* listen() works, or the socket is closed, whatever that close() returns.
Listen ==
    /\ pc = "listen"
    /\ \/ Return(fd) /\ UNCHANGED <<open, unclosed>>
       \/ Return(-1) /\ open' = open \ {fd} /\ UNCHANGED unclosed
       \/ Return(-1) /\ UNCHANGED open /\ unclosed' = unclosed \cup {fd}
    /\ UNCHANGED <<call, list, fd, others, tried>>

\* Open_clientfd(), Open_listenfd(): unix_error() exits.
Wrapper == /\ pc = "return"
           /\ pc' = IF rc < 0 THEN "exit" ELSE "done"
           /\ UNCHANGED <<call, list, fd, rc, others, open, history>>

Ended == pc \in {"done", "exit"} /\ UNCHANGED vars

Next == \/ Getaddrinfo \/ Socket \/ Connect \/ Close \/ ListEnds \/ CleanUp
        \/ Listen \/ Wrapper \/ Ended

Spec == Init /\ [][Next]_vars

-----------------------------------------------------------------------------
(* Properties                                                              *)

\* A call leaves no descriptor behind but the one it returns, whichever of its
\* system calls fail, and has at no time one of its own but the last it got; it returns
\* the first that worked, and an error only when none did, or at a failure
\* after which it does not go on.  The list is freed unless close() failed.
DescriptorsExact ==
    /\ others \subseteq open
    /\ open \ others \subseteq {fd}
    /\ \A t \in DOMAIN tried : tried[t] => t = Len(tried)
    /\ pc \in {"return", "done", "exit"} =>
          /\ rc >= 0 => /\ open = others \cup {rc} /\ rc \notin others
                        /\ tried # << >> /\ tried[Len(tried)]
          /\ rc < 0 => open \ others \subseteq unclosed
          /\ rc = -1 /\ unclosed = {} /\ call = "open_clientfd" =>
                \A t \in DOMAIN tried : ~tried[t]
          /\ listp = 0 \/ unclosed # {}
=============================================================================

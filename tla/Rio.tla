-------------------------------- MODULE Rio ---------------------------------
(***************************************************************************)
(* The buffered reader of lab4-crawler/csapp.c: rio_readlineb(), with      *)
(* which socket_read_cb() reads the answer of the server line by line, and *)
(* rio_readnb(), which reads blocks, both over rio_read().  The caller     *)
(* calls one or the other until a call returns 0.  read() returns as many  *)
(* bytes as it likes, may be interrupted by a signal, and may fail.        *)
(*                                                                         *)
(* One step is one call of read(), or one turn of a loop: that of          *)
(* rio_readlineb() asks rio_read() for one byte, that of rio_readnb() for  *)
(* all bytes still wanted.                                                 *)
(***************************************************************************)
EXTENDS Integers, Sequences

CONSTANTS Texts,        \* the answers a server may give
          NL,           \* the newline
          RIO_BUFSIZE,  \* the size of rio_buf
          MAXLINE,      \* the size of the caller's array
          BLOCK         \* how many bytes a call of rio_readnb() asks for

\* A text is a sequence of bytes; and a call with no room for a byte would return
\* 0, which means the end.
ASSUME RioAssumption == /\ \A t \in Texts : t \in Seq({t[x] : x \in DOMAIN t})
                        /\ RIO_BUFSIZE \in Nat /\ RIO_BUFSIZE > 0
                        /\ MAXLINE \in Nat /\ MAXLINE > 1
                        /\ BLOCK \in Nat /\ BLOCK > 0

VARIABLES stream,       \* what read() has not returned yet
          rio_buf,      \* what the last successful read() returned
          rio_bufptr,   \* the index of the next unread byte in rio_buf
          rio_cnt,      \* how many bytes are unread, or what read() returned
          usrbuf, n,    \* the array being filled, and rio_readlineb()'s n
          pc,           \* "call", "loop" (rio_readlineb()), "block"
                        \* (rio_readnb()), "eof" or "error"
          lines         \* history: what the calls returned

vars == <<stream, rio_buf, rio_bufptr, rio_cnt, usrbuf, n, pc, lines>>

rio_t == <<rio_buf, rio_bufptr, rio_cnt>>

\* rio_readinitb()
Init == /\ stream \in Texts
        /\ rio_buf = << >> /\ rio_bufptr = 1 /\ rio_cnt = 0
        /\ usrbuf = << >> /\ n = 1
        /\ pc = "call"
        /\ lines = << >>

\* Rio_readlineb() or Rio_readnb() is called with the caller's array.
Call == /\ pc = "call"
        /\ usrbuf' = << >> /\ n' = 1
        /\ pc' \in {"loop", "block"}
        /\ UNCHANGED <<stream, rio_t, lines>>

\* The call returns the length of what it has stored.
Return(stored) == /\ lines' = Append(lines, stored)
                  /\ pc' = "call"

\* The loop goes round, and rio_read() has nothing for it.
MustRead == /\ \/ pc = "loop" /\ n < MAXLINE
               \/ pc = "block"
            /\ rio_cnt <= 0

\* read() returns some bytes, not always all that would fit.
Refill ==
    /\ MustRead
    /\ \E k \in 1..Len(stream) :
          /\ k <= RIO_BUFSIZE
          /\ rio_buf' = SubSeq(stream, 1, k)
          /\ rio_cnt' = k
          /\ stream' = SubSeq(stream, k + 1, Len(stream))
    /\ rio_bufptr' = 1
    /\ UNCHANGED <<usrbuf, n, pc, lines>>

\* read() returns -1 with EINTR: rio_read() goes round its loop.
Interrupted == /\ MustRead
               /\ rio_cnt' = -1
               /\ UNCHANGED <<stream, rio_buf, rio_bufptr, usrbuf, n, pc, lines>>

\* read() returns -1 with another error: the wrapper calls unix_error().
ReadFails == /\ MustRead
             /\ rio_cnt' = -1
             /\ pc' = "error"
             /\ UNCHANGED <<stream, rio_buf, rio_bufptr, usrbuf, n, lines>>

\* Mutant: the end of the text ends the call with 0 although bytes are stored.
ReadEOFDroppingRest ==
    /\ MustRead
    /\ stream = << >>
    /\ rio_cnt' = 0
    /\ pc' = "eof" /\ UNCHANGED lines
    /\ UNCHANGED <<stream, rio_buf, rio_bufptr, usrbuf, n>>

\* read() returns 0: so does the call, unless bytes are stored.
ReadEOF ==
    /\ MustRead
    /\ stream = << >>
    /\ rio_cnt' = 0
    /\ \/ usrbuf = << >> /\ pc' = "eof" /\ UNCHANGED lines
       \/ usrbuf # << >> /\ Return(usrbuf)
    /\ UNCHANGED <<stream, rio_buf, rio_bufptr, usrbuf, n>>

\* rio_read() copies one byte; a newline ends the line.
CopyByte ==
    /\ pc = "loop" /\ n < MAXLINE
    /\ rio_cnt > 0
    /\ LET c == rio_buf[rio_bufptr]
       IN  /\ usrbuf' = Append(usrbuf, c)
           /\ \/ c = NL /\ Return(usrbuf')
              \/ c # NL /\ UNCHANGED <<pc, lines>>
    /\ n' = n + 1
    /\ rio_bufptr' = rio_bufptr + 1
    /\ rio_cnt' = rio_cnt - 1
    /\ UNCHANGED <<stream, rio_buf>>

\* rio_read() copies as many bytes as it has, or as are still wanted.
CopyBytes ==
    /\ pc = "block" /\ rio_cnt > 0
    /\ LET wanted == BLOCK - Len(usrbuf)
           cnt == IF rio_cnt < wanted THEN rio_cnt ELSE wanted
       IN  /\ usrbuf' = usrbuf \o SubSeq(rio_buf, rio_bufptr, rio_bufptr + cnt - 1)
           /\ rio_bufptr' = rio_bufptr + cnt
           /\ rio_cnt' = rio_cnt - cnt
           /\ \/ cnt = wanted /\ Return(usrbuf')
              \/ cnt < wanted /\ UNCHANGED <<pc, lines>>
    /\ UNCHANGED <<stream, rio_buf, n>>

\* The loop ends when the array is full; the byte left is for the 0.
Full == /\ pc = "loop" /\ n >= MAXLINE
        /\ Return(usrbuf)
        /\ UNCHANGED <<stream, rio_t, usrbuf, n>>

\* The callback has ended, or the process.
Ended == pc \in {"eof", "error"} /\ UNCHANGED vars

Progress == Call \/ Refill \/ ReadEOF \/ CopyByte \/ CopyBytes \/ Full

Next == Progress \/ Interrupted \/ ReadFails \/ Ended

\* read() does not go on being interrupted for ever.
Spec == Init /\ [][Next]_vars /\ WF_vars(Progress)

-----------------------------------------------------------------------------
(* Properties                                                              *)

Unread == SubSeq(rio_buf, rio_bufptr, rio_bufptr + rio_cnt - 1)

\* What is stored for the call that has not returned.
Stored == IF pc = "call" THEN << >> ELSE usrbuf

AbstractLines == INSTANCE Lines
    WITH Longest <- MAXLINE - 1, Block <- BLOCK,
         rest <- Stored \o Unread \o stream,
         outcome <- IF pc \in {"eof", "error"} THEN pc ELSE "reading"

\* However read() cuts the stream, whenever it is interrupted, and in whatever
\* order the calls are made, they return the lines or blocks of the text in
\* order, each once and whole, the last one also short, and then the end.
ImplementsLines == AbstractLines!Spec
=============================================================================

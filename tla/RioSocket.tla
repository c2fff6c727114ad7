------------------------------ MODULE RioSocket ------------------------------
(***************************************************************************)
(* The unbuffered functions of lab4-crawler/csapp.c, rio_writen() and      *)
(* rio_readn(), at the two ends of a connection.  The writer passes all it *)
(* has to one call of rio_writen() and closes the connection; the reader   *)
(* calls rio_readn() until a call returns fewer bytes than it asked for.   *)
(* write() and read() transfer as much as they like, may be interrupted by *)
(* a signal, and may fail; the process at that end then stops, for         *)
(* Rio_writen() and Rio_readn() call unix_error().                         *)
(*                                                                         *)
(* A step is one call of write() or read().                                *)
(***************************************************************************)
EXTENDS Integers, Sequences, SequencesExt, FiniteSetsExt

CONSTANTS Content,    \* the bytes written, at least one
          SOCKBUF,    \* how many bytes the connection holds, at least one
          N           \* how many bytes a call of rio_readn() asks for

VARIABLES w_pc,       \* "write", "returned" or "error"
          w_left,     \* nleft of rio_writen()
          socket,     \* the bytes written and not read
          r_pc,       \* "read", "eof" or "error"
          r_buf,      \* the bytes stored by the call of rio_readn()
          blocks      \* history: what the calls of rio_readn() returned

vars == <<w_pc, w_left, socket, r_pc, r_buf, blocks>>

Init == /\ w_pc = "write" /\ w_left = Len(Content)
        /\ socket = << >>
        /\ r_pc = "read" /\ r_buf = << >> /\ blocks = << >>

-----------------------------------------------------------------------------
(* rio_writen()                                                            *)

\* How far bufp has come, that is, what the socket was given.
Written == SubSeq(Content, 1, Len(Content) - w_left)

Write == /\ w_pc = "write" /\ r_pc = "read"
         /\ \E k \in 1..Min({w_left, SOCKBUF - Len(socket)}) :
               /\ socket' = socket \o SubSeq(Content, Len(Written) + 1, Len(Written) + k)
               /\ w_left' = w_left - k
         /\ w_pc' = IF w_left' = 0 THEN "returned" ELSE "write"
         /\ UNCHANGED <<r_pc, r_buf, blocks>>

\* Mutant: nwritten stays -1.
WriteInterruptedBack == /\ w_pc = "write" /\ w_left < Len(Content)
                        /\ w_left' = w_left + 1
                        /\ UNCHANGED <<w_pc, socket, r_pc, r_buf, blocks>>

\* write() returns -1 with EINTR: nwritten becomes 0, the loop goes round.
WriteInterrupted == w_pc = "write" /\ UNCHANGED vars

\* write() returns -1 with another error, as it must when the reader is gone.
WriteFails == /\ w_pc = "write"
              /\ w_pc' = "error"
              /\ UNCHANGED <<w_left, socket, r_pc, r_buf, blocks>>

-----------------------------------------------------------------------------
(* rio_readn()                                                             *)

\* A call that has all it asked for returns, and the next one begins.
Read == /\ r_pc = "read" /\ socket # << >>
        /\ \E k \in 1..Min({N - Len(r_buf), Len(socket)}) :
              LET stored == r_buf \o SubSeq(socket, 1, k)
              IN  /\ socket' = SubSeq(socket, k + 1, Len(socket))
                  /\ \/ /\ Len(stored) = N
                        /\ blocks' = Append(blocks, stored) /\ r_buf' = << >>
                     \/ /\ Len(stored) < N
                        /\ r_buf' = stored /\ UNCHANGED blocks
        /\ UNCHANGED <<w_pc, w_left, r_pc>>

\* read() returns -1 with EINTR: nread becomes 0, the loop goes round.
ReadInterrupted == r_pc = "read" /\ UNCHANGED vars

\* Mutant: 0 bytes are added to the others, and the loop goes on.
ReadEOFIgnored == /\ r_pc = "read" /\ socket = << >> /\ w_pc # "write"
                  /\ UNCHANGED vars

\* read() returns 0: the writer is gone, and the call returns what it has.
ReadEOF == /\ r_pc = "read" /\ socket = << >> /\ w_pc # "write"
           /\ r_pc' = "eof"
           /\ blocks' = Append(blocks, r_buf) /\ r_buf' = << >>
           /\ UNCHANGED <<w_pc, w_left, socket>>

ReadFails == /\ r_pc = "read"
             /\ r_pc' = "error"
             /\ UNCHANGED <<w_pc, w_left, socket, r_buf, blocks>>

-----------------------------------------------------------------------------
Writer == Write \/ (r_pc # "read" /\ WriteFails)
Reader == Read \/ ReadEOF

Ended == w_pc # "write" /\ r_pc # "read" /\ UNCHANGED vars

Next == \/ Writer \/ WriteInterrupted \/ WriteFails
        \/ Reader \/ ReadInterrupted \/ ReadFails
        \/ Ended

\* Neither end is interrupted for ever.
Spec == Init /\ [][Next]_vars /\ WF_vars(Writer) /\ WF_vars(Reader)

-----------------------------------------------------------------------------
(* Properties                                                              *)

\* However write() and read() cut the bytes up, none is lost, repeated or out
\* of order; rio_writen() returns when all are written; and every call of
\* rio_readn() returns as many as it asked for, until the writer is gone.
TransferExact ==
    /\ FlattenSeq(blocks) \o r_buf \o socket = Written
    /\ w_pc = "returned" => Written = Content
    /\ \A b \in DOMAIN blocks : Len(blocks[b]) < N <=> r_pc = "eof" /\ b = Len(blocks)

\* A writer that finds the connection full and a reader that finds it empty do
\* not wait for each other for ever.
TransferEnds == <>(w_pc # "write" /\ r_pc # "read")
=============================================================================

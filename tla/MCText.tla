------------------------------ MODULE MCText --------------------------------
(* TLC instance of what moves bytes and what reads characters.  A behaviour *)
(* runs one program, the others have nothing to do:                         *)
(*  - Rio reads a text over a newline and a character up to a length at     *)
(*    which a line is longer than the caller's array and the text is longer *)
(*    than two buffers, by lines and by blocks;                             *)
(*  - RioSocket sends bytes, all different, through a connection that holds *)
(*    fewer of them than a call of rio_readn() asks for;                    *)
(*  - OpenFd tries up to three addresses;                                   *)
(*  - LineReader reads a file that may hold the byte 0xFF, too;             *)
(*  - a caller of utf8.h writes code points of one to four bytes, in either *)
(*    case, of which two have the same first byte;                          *)
(*  - utf8valid() and the functions on case are given a string: any over    *)
(*    bytes of every kind, and every code point up to the last the tables   *)
(*    of case mention.                                                      *)
EXTENDS Rio, SequencesExt

CONSTANTS Programs,     \* the programs that may run
          FF, Char

VARIABLES program,
          w_pc, w_left, socket, r_pc, r_buf, blocks,
          call, open_pc, listp, p, fd, rc, others, open, tried, unclosed,
          file, file_stream, s, strings, file_pc,
          dst, src, given

AllTexts == SeqOf({NL, Char}, 7)
AllFiles == SeqOf({NL, Char, FF}, 5)

File == INSTANCE LineReader WITH Files <- AllFiles, stream <- file_stream,
                                 pc <- file_pc

Socket == INSTANCE RioSocket WITH Content <- << 1, 2, 3, 4, 5, 6, 7 >>, SOCKBUF <- 2, N <- 3

OpenFd == INSTANCE OpenFd WITH Descriptors <- 0..3, MaxAddr <- 3, pc <- open_pc

Utf8 == INSTANCE Utf8Buffers WITH Char <- {65, 97, 201, 233, 20013, 119070}, CAPACITY <- 4

\* ASCII; bytes that continue a code point, of which E0 cannot be followed by
\* the first two nor F0 by the first; C1 is no first byte, F8 neither.
Given == SeqOf({65, 128, 144, 160, 193, 194, 224, 240, 248}, 4)
         \cup { << 240, 144 >> \o t : t \in SeqOf({65, 128}, 3) }
         \cup { Utf8!Encoded(cp) : cp \in 1..1023 }

socket_vars == <<w_pc, w_left, socket, r_pc, r_buf, blocks>>
open_vars == <<call, open_pc, listp, p, fd, rc, others, open, tried, unclosed>>
file_vars == <<file, file_stream, s, strings, file_pc>>
utf8_vars == <<dst, src, given>>
mc_vars == <<program, vars, socket_vars, open_vars, file_vars, utf8_vars>>

MCInit == /\ program \in Programs
          /\ Init /\ (program # "rio" => stream = << >>)
          /\ Socket!Init
          /\ OpenFd!Init
             /\ (program # "open" => call = "open_clientfd" /\ others = {})
          /\ File!Init /\ (program # "getline" => file = << >>)
          /\ Utf8!Init
          /\ given \in IF program = "given" THEN Given ELSE { << >> }

RioRest == UNCHANGED <<program, socket_vars, open_vars, file_vars, utf8_vars>>

\* The others start when Rio, which they give nothing to read, has ended.
MCNext == \/ Next /\ RioRest
          \/ /\ program = "socket" /\ pc = "eof" /\ Socket!Next
             /\ UNCHANGED <<program, vars, open_vars, file_vars, utf8_vars>>
          \/ /\ program = "open" /\ pc = "eof" /\ OpenFd!Next
             /\ UNCHANGED <<program, vars, socket_vars, file_vars, utf8_vars>>
          \/ /\ program = "getline" /\ pc = "eof" /\ File!Next
             /\ UNCHANGED <<program, vars, socket_vars, open_vars, utf8_vars>>
          \/ /\ program = "utf8" /\ pc = "eof" /\ Utf8!Next
             /\ UNCHANGED <<program, vars, socket_vars, open_vars, file_vars, given>>

\* Every program of which more is promised than safety runs on.
MCSpec == /\ MCInit /\ [][MCNext]_mc_vars
          /\ WF_mc_vars(Progress /\ RioRest)
          /\ WF_mc_vars(/\ program = "socket" /\ pc = "eof" /\ Socket!Writer
                        /\ UNCHANGED <<program, vars, open_vars, file_vars, utf8_vars>>)
          /\ WF_mc_vars(/\ program = "socket" /\ pc = "eof" /\ Socket!Reader
                        /\ UNCHANGED <<program, vars, open_vars, file_vars, utf8_vars>>)

\* csapp.c: rio_writen() and rio_readn() hand on all bytes, in order.
TransferExact == Socket!TransferExact

\* csapp.c: both come to an end, whatever the connection holds.
TransferEnds == program = "socket" => <>(pc = "error") \/ Socket!TransferEnds

\* csapp.c: open_clientfd() and open_listenfd() leave one descriptor open, the
\* one they return.
DescriptorsExact == OpenFd!DescriptorsExact

\* bupt_getline() cuts a file into its lines.
StringsAreLines == File!StringsAreLines

\* utf8.h: what is written as bytes is written as characters.
ImplementsText == Utf8!ImplementsText

\* utf8.h: a valid string is the encoding of its code points, another is
\* invalid where utf8valid() points at.
ValidExact == Utf8!ValidExact(given) /\ Utf8!ValidExact(dst)

\* utf8.h: the cases of a letter correspond and have one size.
CaseExact == Utf8!CaseExact(given) /\ Utf8!CaseExact(dst)

\* utf8.h: strings are ordered by their code points, and up to a limit.
OrderExact == Utf8!OrderExact

\* utf8.h: searches find the first place, or the last, and no other.
SearchesExact == Utf8!SearchesExact

\* utf8.h: utf8cspn() and utf8spn() count what their comments say.
SpansExact == Utf8!SpansExact
=============================================================================

----------------------------- MODULE LineReader -----------------------------
(***************************************************************************)
(* bupt_getline() of lab3-patmatch/public.h, which lab1 and lab2 have,     *)
(* too, and the loop around it that every program of theirs begins with:   *)
(* it reads lines until a call returns 0.  A step is one getc().           *)
(*                                                                         *)
(* getc() stores its result in a char, which is signed here: the byte 0xFF *)
(* is not told from EOF.  The newline is replaced by the NUL, and so is    *)
(* whatever character comes last at the end of the file.                   *)
(***************************************************************************)
EXTENDS Integers, Sequences, SequencesExt

CONSTANTS Files,        \* the files that may be read
          NL,           \* the newline
          FF            \* the byte 0xFF

VARIABLES file,         \* the file
          stream,       \* what getc() has not returned yet
          s,            \* the characters stored by the call, p - s is its length
          strings,      \* history: the strings of the calls that have returned
          pc            \* "read", or "done" when a call has returned 0

vars == <<file, stream, s, strings, pc>>

Init == /\ file \in Files
        /\ stream = file
        /\ s = << >>
        /\ strings = << >>
        /\ pc = "read"

\* The next getc() is EOF or taken for it.
AtEOF == stream # << >> => Head(stream) = FF

\* The call returns p - s: the last character stored becomes the NUL.
Return(stored) == /\ strings' = Append(strings, Front(stored))
                  /\ s' = << >>

\* getc() returns a character.
Getc == /\ pc = "read"
        /\ ~AtEOF
        /\ stream' = Tail(stream)
        /\ LET stored == Append(s, Head(stream))
           IN  IF Head(stream) = NL THEN Return(stored)
               ELSE s' = stored /\ UNCHANGED strings
        /\ UNCHANGED <<file, pc>>

\* Mutant: the call returns 0 at the end of the file whatever it has stored.
EndOfFileDropping ==
    /\ pc = "read"
    /\ AtEOF
    /\ stream' = IF stream = << >> THEN stream ELSE Tail(stream)
    /\ pc' = "done"
    /\ UNCHANGED <<file, s, strings>>

\* The call ends with what it has stored, or returns 0 if that is nothing.
EndOfFile ==
    /\ pc = "read"
    /\ AtEOF
    /\ stream' = IF stream = << >> THEN stream ELSE Tail(stream)
    /\ \/ s # << >> /\ Return(s) /\ UNCHANGED pc
       \/ s = << >> /\ pc' = "done" /\ UNCHANGED <<s, strings>>
    /\ UNCHANGED file

Done == pc = "done" /\ UNCHANGED vars

Next == Getc \/ EndOfFile \/ Done

Spec == Init /\ [][Next]_vars

-----------------------------------------------------------------------------
(* Properties                                                              *)

\* A file of whole lines, without the byte 0xFF, which UTF-8 does not use.
TextFile == /\ file = << >> \/ Last(file) = NL
            /\ ~Contains(file, FF)

\* The lines of which strs are the strings.
Lines(strs) == FlattenSeq([k \in DOMAIN strs |-> Append(strs[k], NL)])

\* The strings of a file of lines are its lines, each once and in order.  In
\* any other file without a byte 0xFF, it is the last character, and no more,
\* that is lost.
StringsAreLines ==
    /\ \A k \in DOMAIN strings : ~Contains(strings[k], NL)
    /\ TextFile => Lines(strings) \o s \o stream = file
    /\ pc = "done" /\ ~TextFile /\ ~Contains(file, FF) =>
          Lines(strings) = Append(Front(file), NL)
=============================================================================

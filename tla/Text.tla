-------------------------------- MODULE Text --------------------------------
(***************************************************************************)
(* What the functions of lab1-hash/utf8/utf8.h that write strings promise: *)
(* a string is a sequence of characters, whatever their bytes.  A copy of  *)
(* at most n bytes may end within a character and is no text then.         *)
(***************************************************************************)
EXTENDS Integers, Sequences

CONSTANTS Char,                  \* the characters
          Limit,                 \* the numbers of bytes a copy may be limited to
          Size(_),               \* the bytes of one
          Lower(_), Upper(_)     \* its cases

VARIABLES dst, src               \* two strings: sequences of Char, or NoText

vars == <<dst, src>>

NoText == << -1 >>

Strings == Seq(Char) \cup {NoText}

\* The first n bytes of a text.
Cut[t \in Strings, n \in Nat] ==
    CASE t = << >> \/ n = 0 -> << >>
      [] t # << >> /\ n \in 1 .. Size(Head(t)) - 1 -> NoText
      [] OTHER -> LET rest == Cut[Tail(t), n - Size(Head(t))]
                  IN  IF rest = NoText THEN NoText ELSE << Head(t) >> \o rest

Init == dst = << >> /\ src = << >>

\* What a call may write into a string that holds d, from one that holds s: a
\* copy of s or of its first bytes, d with something appended, or d in
\* another case.
Results[d \in Strings, s \in Strings] ==
    LET copies == {s} \cup {Cut[s, n] : n \in Limit}
    IN  copies \cup
        IF d = NoText THEN {}
        ELSE {Append(d, c) : c \in Char}
             \cup {IF t = NoText THEN NoText ELSE d \o t : t \in copies}
             \cup { [k \in DOMAIN d |-> Lower(d[k])], [k \in DOMAIN d |-> Upper(d[k])] }

Next == \/ dst' \in Results[dst, src] /\ UNCHANGED src
        \/ src' \in {dst} \ {NoText} /\ UNCHANGED dst

Spec == Init /\ [][Next]_vars
=============================================================================

--------------------------- MODULE MCObjectParser ---------------------------
(***************************************************************************)
(* Files from none to two buffers and a byte, reads from none to more than *)
(* two buffers: every residue of a read and of a file's end by the size of *)
(* the buffer.  Of the texts that fit: all of up to three lexemes, all of  *)
(* four tokens, set apart by newlines, and some longer ones.               *)
(***************************************************************************)
EXTENDS ObjectParser

MCSizes     == 0 .. 9
MCReadSizes == 0 .. 8

LinesEnd(c) == \A i \in DOMAIN c : c[i] = "stream" => i < Len(c) /\ c[i + 1] = White
Apart(c) == FlattenSeq([i \in DOMAIN c |-> <<c[i], White>>])
Short == UNION {[1 .. n -> Lexemes] : n \in 0 .. 3}
Spaced == {Apart(c) : c \in [1 .. 4 -> {"0", "7", "R", "[", "]", "<<", ">>", "/N"}]}
Longer ==
    {<<"[">> \o c \o <<"]">> : c \in [1 .. 3 -> {"7", White, "R", "[", "]", "/N"}]} \cup
    {<<"<<", "/N">> \o c \o <<">>", "stream", White, "7">> :
        c \in [1 .. 2 -> {White, "7", "/N", "[", "]", ">>"}]}

MCContents == {c \in Short \cup Spaced \cup Longer : LinesEnd(c)}
=============================================================================

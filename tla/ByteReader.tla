----------------------------- MODULE ByteReader -----------------------------
(***************************************************************************)
(* What a positioned byte source (IByteReaderWithPosition) promises to the *)
(* parsers that read from it: one position, reads that return the bytes of *)
(* the file from there on, and seeks that move it. A byte of the file is   *)
(* known by its offset, so that "the right bytes" is a run of offsets.     *)
(***************************************************************************)
EXTENDS Integers, Sequences

CONSTANTS
    Sizes,      \* the sizes the file may have
    ReadSizes,  \* the counts that a caller may ask for
    Positions   \* the offsets that a caller may seek

VARIABLES
    size,       \* the number of bytes of the file
    position,   \* where the next byte is read
    last        \* the last call: its name, its argument, the bytes returned

(* The bytes at offsets p, p + 1, ..., p + n - 1. *)
Run(p, n) == [i \in 1 .. n |-> p + i - 1]

(* How many of n bytes the file holds from offset p on. *)
Available(p, n) == IF p + n <= size THEN n ELSE IF p <= size THEN size - p ELSE 0

Done(call, arg, data) == last' = [call |-> call, arg |-> arg, data |-> data]

OpenFile == position' = 0 /\ Done("OpenFile", 0, << >>)

Init ==
    /\ size \in Sizes
    /\ position = 0
    /\ last = [call |-> "OpenFile", arg |-> 0, data |-> << >>]

Read(n) ==
    /\ position' = position + Available(position, n)
    /\ Done("Read", n, Run(position, Available(position, n)))

Skip(n) == position' = position + n /\ Done("Skip", n, << >>)

SetPosition(p) == position' = p /\ Done("SetPosition", p, << >>)

SetPositionFromEnd(p) ==
    /\ position' = IF p <= size THEN size - p ELSE 0
    /\ Done("SetPositionFromEnd", p, << >>)

GetFileSize == UNCHANGED position /\ Done("GetFileSize", 0, << >>)

Next ==
    /\ \/ \E n \in ReadSizes : Read(n) \/ Skip(n)
       \/ \E p \in Positions : SetPosition(p) \/ SetPositionFromEnd(p)
       \/ GetFileSize
       \/ OpenFile
    /\ UNCHANGED size

Spec == Init /\ [][Next]_<<size, position, last>>
=============================================================================

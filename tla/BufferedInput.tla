--------------------------- MODULE BufferedInput ---------------------------
(***************************************************************************)
(* The stream that every parser of the library reads a file through: an    *)
(* InputBufferedStream over the InputFileStream of an InputFile. A byte is *)
(* known by its offset in the file. Of the buffer the model keeps what is  *)
(* between mCurrentBufferIndex and mLastAvailableIndex: no operation moves *)
(* the first index backwards.                                              *)
(***************************************************************************)
EXTENDS Integers, Sequences

CONSTANTS
    Sizes,          \* the sizes the file may have
    BufferSize,     \* mBufferSize
    ReadSizes,      \* the counts a caller passes to Read and Skip
    MaxPosition     \* bound on the positions that seeks reach

ASSUME SizesAssumption == Sizes \subseteq Nat /\ ReadSizes \subseteq Nat
ASSUME BufferSizeAssumption == BufferSize \in Nat \ {0}
ASSUME MaxPositionAssumption == MaxPosition \in Nat

VARIABLES
    size,       \* the number of bytes of the file
    at,         \* the position of the FILE (ftell)
    ended,      \* its end-of-file indicator (feof)
    unread,     \* the bytes of the buffer that were not yet delivered
    last        \* the last call: its name, its argument, the bytes returned

vars == <<size, at, ended, unread, last>>

Run(p, n) == [i \in 1 .. n |-> p + i - 1]

Available(p, n) == IF p + n <= size THEN n ELSE IF p <= size THEN size - p ELSE 0

(* fread of n bytes at p: what it returns, where it leaves the FILE, and   *)
(* whether it met the end of the file.                                     *)
FileRead(p, n) ==
    [data |-> Run(p, Available(p, n)),
     at   |-> p + Available(p, n),
     ended |-> Available(p, n) < n]

GetCurrentPosition == at - Len(unread)

(* Mutant: what is left in the buffer is not asked about. *)
NotEndedOfFile == ~ended

NotEnded == ~ended \/ unread # << >>

Init ==
    /\ size \in Sizes
    /\ at = 0
    /\ ended = FALSE
    /\ unread = << >>
    /\ last = [call |-> "OpenFile", arg |-> 0, data |-> << >>]

Done(call, arg, data) == last' = [call |-> call, arg |-> arg, data |-> data]

ReadFromBuffer(n) ==
    /\ n <= Len(unread)
    /\ Done("Read", n, SubSeq(unread, 1, n))
    /\ unread' = SubSeq(unread, n + 1, Len(unread))
    /\ UNCHANGED <<size, at, ended>>

(* Mutant: a read is content with what the buffer has. *)
ReadWhatIsThere(n) ==
    /\ n > Len(unread)
    /\ Done("Read", n, unread)
    /\ unread' = << >>
    /\ UNCHANGED <<size, at, ended>>

ReadAtEnd(n) ==
    /\ n > Len(unread)
    /\ ended
    /\ Done("Read", n, unread)
    /\ unread' = << >>
    /\ UNCHANGED <<size, at, ended>>

(* The part that fills whole buffers is read past the buffer, and only if  *)
(* that did not meet the end is the buffer filled and its head delivered.  *)
InBuffer(n) == (n - Len(unread)) % BufferSize
Direct(n)   == FileRead(at, n - Len(unread) - InBuffer(n))
Fill(n)     == FileRead(Direct(n).at, BufferSize)
Taken(n)    == IF InBuffer(n) <= Len(Fill(n).data) THEN InBuffer(n) ELSE Len(Fill(n).data)

ReadFromFile(n) ==
    /\ n > Len(unread)
    /\ ~ended
    /\ \/ /\ Direct(n).ended
          /\ Done("Read", n, unread \o Direct(n).data)
          /\ unread' = << >>
          /\ at' = Direct(n).at
          /\ ended' = TRUE
       \/ /\ ~Direct(n).ended
          /\ Done("Read", n, unread \o Direct(n).data \o SubSeq(Fill(n).data, 1, Taken(n)))
          /\ unread' = SubSeq(Fill(n).data, Taken(n) + 1, Len(Fill(n).data))
          /\ at' = Fill(n).at
          /\ ended' = Fill(n).ended
    /\ UNCHANGED size

Read(n) == ReadFromBuffer(n) \/ ReadAtEnd(n) \/ ReadFromFile(n)

(* fseek: the indicator is cleared, and the end of the file may be passed. *)
FileSeek(p) == at' = p /\ ended' = FALSE

(* Mutant: the bytes in the buffer are skipped twice. *)
SkipTwice(n) ==
    /\ GetCurrentPosition + n <= MaxPosition
    /\ \/ /\ n <= Len(unread)
          /\ unread' = SubSeq(unread, n + 1, Len(unread))
          /\ UNCHANGED <<at, ended>>
       \/ /\ n > Len(unread)
          /\ FileSeek(at + n)
          /\ unread' = << >>
    /\ Done("Skip", n, << >>)
    /\ UNCHANGED size

Skip(n) ==
    /\ GetCurrentPosition + n <= MaxPosition
    /\ \/ /\ n <= Len(unread)
          /\ unread' = SubSeq(unread, n + 1, Len(unread))
          /\ UNCHANGED <<at, ended>>
       \/ /\ n > Len(unread)
          /\ FileSeek(at + (n - Len(unread)))
          /\ unread' = << >>
    /\ Done("Skip", n, << >>)
    /\ UNCHANGED size

(* Mutant: the buffer survives the seek. *)
SetPositionKeepsBuffer(p) ==
    /\ FileSeek(p)
    /\ Done("SetPosition", p, << >>)
    /\ UNCHANGED <<size, unread>>

SetPosition(p) ==
    /\ FileSeek(p)
    /\ unread' = << >>
    /\ Done("SetPosition", p, << >>)
    /\ UNCHANGED size

(* Mutant: a seek to before the start is taken at its word. *)
SetPositionBeforeStart(p) ==
    /\ FileSeek(size - p)
    /\ unread' = << >>
    /\ Done("SetPositionFromEnd", p, << >>)
    /\ UNCHANGED size

(* A seek to before the start fails, and the start is sought instead. *)
SetPositionFromEnd(p) ==
    /\ FileSeek(IF p <= size THEN size - p ELSE 0)
    /\ unread' = << >>
    /\ Done("SetPositionFromEnd", p, << >>)
    /\ UNCHANGED size

(* InputFile::GetFileSize seeks the FILE under the buffer to its end and   *)
(* back.                                                                   *)
GetFileSize ==
    /\ FileSeek(at)
    /\ Done("GetFileSize", 0, << >>)
    /\ UNCHANGED <<size, unread>>

(* InputFile::OpenFile closes what was open and starts with a new buffer.  *)
OpenFile ==
    /\ FileSeek(0)
    /\ unread' = << >>
    /\ Done("OpenFile", 0, << >>)
    /\ UNCHANGED size

Next ==
    \/ \E n \in ReadSizes : Read(n) \/ Skip(n)
    \/ \E p \in 0 .. MaxPosition : SetPosition(p) \/ SetPositionFromEnd(p)
    \/ GetFileSize
    \/ OpenFile

Spec == Init /\ [][Next]_vars
-----------------------------------------------------------------------------
Calls == {"OpenFile", "Read", "Skip", "SetPosition", "SetPositionFromEnd", "GetFileSize"}

TypeOK ==
    /\ size \in Sizes
    /\ at \in Nat
    /\ ended \in BOOLEAN
    /\ unread \in Seq(Nat)
    /\ last \in [call : Calls, arg : Nat, data : Seq(Nat)]

(* The buffer holds the bytes that end where the FILE stands: what is in   *)
(* it is what a seek of the FILE to the stream's position would read. It   *)
(* breaks when one of Read, Skip, the seeks or the size query moves the    *)
(* FILE and not the buffer (InputBufferedStream.cpp:55-150).               *)
BufferEndsAtFile ==
    /\ Len(unread) <= at
    /\ unread # << >> => at <= size
    /\ unread = Run(at - Len(unread), Len(unread))

(* The indicator of the end is only up when the FILE is at the end. *)
EndIsAtEnd == ended => at >= size

(* A reader that stops because NotEnded is false has seen every byte       *)
(* (PDFParserTokenizer, the copies of OutputStreamTraits).                 *)
EndIsReal == ~NotEnded => GetCurrentPosition >= size

(* IByteReader.h:42: NotEnded tells "whether reading will get more content *)
(* or not"; but the end is only known to a read that met it.               *)
NotEndedIsRight == NotEnded => GetCurrentPosition < size

(* A Read returns fewer bytes than were asked only at the end, and the end *)
(* is then seen: a loop "while NotEnded, Read" stops, although NotEnded    *)
(* may be true one Read too long.                                          *)
ShortReadEnds ==
    [][\A n \in ReadSizes : Read(n) /\ Len(last'.data) < n => ~NotEnded']_vars

(* The buffered stream is the byte source that its callers believe to      *)
(* have: no order of reads, skips, seeks and size queries lets one see     *)
(* that there is a buffer.                                                 *)
Promise == INSTANCE ByteReader
    WITH position <- GetCurrentPosition, Positions <- 0 .. MaxPosition
IsByteReader == Promise!Spec

(* The buffer and the indicator of the end agree with the file.            *)
BufferIsRight ==
    /\ TypeOK
    /\ BufferEndsAtFile
    /\ EndIsReal
=============================================================================

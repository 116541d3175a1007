--------------------------- MODULE StreamWriting ---------------------------
(***************************************************************************)
(* A stream object on its way to the device: PDFStream hands content to an *)
(* OutputFlateEncodeStream, that to an encryption stream, that to the      *)
(* OutputBufferedStream of the document (or to a temporary stream, when    *)
(* the length of the stream is written before it), that to the C library's *)
(* FILE, on a device that may fail and work again.                         *)
(*                                                                         *)
(* The bytes are units: those of the content are numbered, an encoded unit *)
(* says what it was made of. What a step of the chain may result in is a   *)
(* set of outcomes [c, ok]: the chain after it, and whether its caller was *)
(* told that everything went well.                                         *)
(***************************************************************************)
EXTENDS Integers, Sequences, SequencesExt

CONSTANTS
    Compressions,   \* whether streams are compressed: a subset of BOOLEAN
    Ciphers,        \* a subset of {"none", "rc4", "aes"}
    Directs,        \* whether the length is written first: of BOOLEAN
    BufferSize,     \* mBufferSize of the document's stream
    CacheSize,      \* units that a FILE holds back at most
    BlockSize,      \* units of an AES block
    WriteSizes,     \* the counts a content writer passes to Write
    MaxUnits,       \* bound on the units of the content
    MaxFaults       \* bound on the failures of the device

ASSUME ConfigurationsAssumption ==
    /\ Compressions \subseteq BOOLEAN
    /\ Ciphers \subseteq {"none", "rc4", "aes"}
    /\ Directs \subseteq BOOLEAN
ASSUME SizesAssumption ==
    /\ BufferSize \in Nat \ {0}
    /\ BlockSize \in Nat \ {0}
    /\ CacheSize \in Nat
    /\ WriteSizes \subseteq Nat
    /\ MaxUnits \in Nat
    /\ MaxFaults \in Nat

VARIABLES
    setup,      \* the configuration: [compress, cipher, direct], never changed
    phase,      \* where the writer of the document is
    chain,      \* the state of the streams
    given,      \* units of content handed over
    short,      \* some Write returned less than it was given
    stream,     \* where the stream starts, how long it is, how it ended
    closing     \* what CloseFile's Flush and fclose returned

streamVars == <<setup, phase, chain, given, short, stream, closing>>

Raw(n)   == [kind |-> "raw", n |-> n, of |-> << >>]
Plain    == [kind |-> "plain", n |-> 0, of |-> << >>]
Zipped(u) == [kind |-> "z", n |-> 0, of |-> <<u>>]
ZipEnd   == [kind |-> "zend", n |-> 0, of |-> << >>]
IV       == [kind |-> "iv", n |-> 0, of |-> << >>]
Block(s) == [kind |-> "block", n |-> Len(s), of |-> s]
Keyed(k, u) == [kind |-> "rc4", n |-> k, of |-> <<u>>]

Prefix(s, n) == SubSeq(s, 1, n)
Rest(s, n)   == SubSeq(s, n + 1, Len(s))

Fine(c) == {[c |-> c, ok |-> TRUE]}

(* The next call is made when the last one went well; whatever it said; or *)
(* whatever it said, and what it said is forgotten.                        *)
AndThen(S, Call(_))   == UNION {IF o.ok THEN Call(o.c) ELSE {o} : o \in S}
Regardless(S, Call(_)) ==
    UNION {{[n EXCEPT !.ok = @ /\ o.ok] : n \in Call(o.c)} : o \in S}
Ignored(S) == {[o EXCEPT !.ok = TRUE] : o \in S}

MayFail(c) == c.faults < MaxFaults
Failed(c)  == [c EXCEPT !.faults = @ + 1]
-----------------------------------------------------------------------------
(* fwrite: the units accepted follow the earlier ones; how many of the     *)
(* last ones are still in memory is the C library's choice. It accepts     *)
(* less than asked only when the device fails.                             *)
FileWrite(c, data) ==
    LET Held(n) == IF c.held + n <= CacheSize THEN c.held + n ELSE CacheSize
        Took(n, h) == [c EXCEPT !.bytes = @ \o Prefix(data, n), !.held = h]
    IN  {[c |-> Took(Len(data), h), ok |-> TRUE] : h \in {0, Held(Len(data))}}
        \cup {[c |-> Failed(Took(n, Held(n))), ok |-> FALSE] :
                n \in IF MayFail(c) THEN 0 .. Len(data) - 1 ELSE {}}

(* The device fails under fflush or fclose: what was in memory is kept for *)
(* another attempt, or a part of it is lost.                               *)
Lost(c) ==
    IF MayFail(c)
    THEN {[c EXCEPT !.bytes = Prefix(@, Len(@) - n), !.held = 0, !.faults = @ + 1] :
            n \in 1 .. c.held}
    ELSE {}

FileFlush(c) ==
    Fine([c EXCEPT !.held = 0])
    \cup {[c |-> d, ok |-> FALSE] : d \in Lost(c)}
    \cup {[c |-> Failed(c), ok |-> FALSE] : n \in IF MayFail(c) /\ c.held > 0 THEN {1} ELSE {}}

FileClose(c) ==
    Fine([c EXCEPT !.held = 0]) \cup {[c |-> d, ok |-> FALSE] : d \in Lost(c)}

(* Mutant: a buffer that could not be written is not heard of.             *)
FlushBufferSilently(c) ==
    IF c.buffer = << >>
    THEN Fine(c)
    ELSE Ignored(FileWrite([c EXCEPT !.buffer = << >>], c.buffer))

(* Mutant: a buffer that could not be written is tried again.              *)
FlushBufferRetries(c) ==
    IF c.buffer = << >>
    THEN Fine(c)
    ELSE {IF o.ok THEN o ELSE [o EXCEPT !.c.buffer = c.buffer] :
            o \in FileWrite([c EXCEPT !.buffer = << >>], c.buffer)}

(* What could not be written is dropped: the buffer is empty either way.   *)
FlushBuffer(c) ==
    IF c.buffer = << >>
    THEN Fine(c)
    ELSE FileWrite([c EXCEPT !.buffer = << >>], c.buffer)

BufferedWrite(c, data) ==
    LET tail  == Len(data) % BufferSize
        whole == Len(data) - tail
        Directly(b) == FileWrite(b, Prefix(data, whole))
        Keep(b)     == Fine([b EXCEPT !.buffer = @ \o Rest(data, whole)])
    IN  IF Len(data) <= BufferSize - Len(c.buffer)
        THEN Fine([c EXCEPT !.buffer = @ \o data])
        ELSE AndThen(AndThen(FlushBuffer(c), Directly), Keep)

BufferedFlush(c) ==
    Regardless(FlushBuffer([c EXCEPT !.flushes = @ + 1]), FileFlush)

Position(c) == Len(c.bytes) + Len(c.buffer)
-----------------------------------------------------------------------------
(* A stream whose length is written first is collected in memory.          *)
TargetWrite(c, data) ==
    IF setup.direct
    THEN Fine([c EXCEPT !.temporary = @ \o data])
    ELSE BufferedWrite(c, data)

TargetFlush(c) == IF setup.direct THEN Fine(c) ELSE BufferedFlush(c)

(* Every byte is written on its own, and nobody looks at what Write says.  *)
RC4WriteOne(S, u) ==
    UNION {Ignored(TargetWrite([o.c EXCEPT !.key = @ + 1], <<Keyed(o.c.key + 1, u)>>)) : o \in S}

RC4Write(c, data) ==
    LET After[n \in 0 .. Len(data)] ==
            IF n = 0 THEN Fine(c) ELSE RC4WriteOne(After[n - 1], data[n])
    IN  After[Len(data)]

EnsureIVWritten(c) ==
    LET Wrote(d) == Fine([d EXCEPT !.iv = TRUE])
    IN  IF c.iv THEN Fine(c) ELSE AndThen(TargetWrite(c, <<IV>>), Wrote)

(* Mutant: a block is written when it is more than full.                   *)
WriteFullBlockLate(c) ==
    LET Wrote(d) == Fine([d EXCEPT !.block = << >>])
    IN  IF Len(c.block) <= BlockSize
        THEN Fine(c)
        ELSE AndThen(TargetWrite(c, <<Block(c.block)>>), Wrote)

(* A full block is encrypted and written; it stays when that fails.        *)
WriteFullBlock(c) ==
    LET Wrote(d) == Fine([d EXCEPT !.block = << >>])
    IN  IF Len(c.block) < BlockSize
        THEN Fine(c)
        ELSE AndThen(TargetWrite(c, <<Block(c.block)>>), Wrote)

(* A byte joins its block; the block is written before, when it was left   *)
(* full, and after, when it is full now.                                   *)
AESWriteOne(S, u) ==
    LET Add(d) == Fine([d EXCEPT !.block = Append(@, u)])
    IN  AndThen(AndThen(AndThen(S, WriteFullBlock), Add), WriteFullBlock)

AESWrite(c, data) ==
    LET After[n \in 0 .. Len(data)] ==
            IF n = 0 THEN EnsureIVWritten(c) ELSE AESWriteOne(After[n - 1], data[n])
    IN  After[Len(data)]

(* Mutant: the padding is written with every Flush.                        *)
AESFlushAgain(c) ==
    LET Pad(d) == TargetWrite(d, <<Block(d.block)>>)
    IN  AndThen(AndThen(EnsureIVWritten(c), WriteFullBlock), Pad)

(* The last block is padded, an empty one too; a second Flush does nothing.*)
AESFlush(c) ==
    LET Pad(d) == TargetWrite(d, <<Block(d.block)>>)
    IN  IF c.padded
        THEN Fine(c)
        ELSE AndThen(AndThen(EnsureIVWritten([c EXCEPT !.padded = TRUE]), WriteFullBlock), Pad)

CipherWrite(c, data) ==
    CASE setup.cipher = "none" -> TargetWrite(c, data)
      [] setup.cipher = "rc4"  -> RC4Write(c, data)
      [] setup.cipher = "aes"  -> AESWrite(c, data)

CipherFlush(c) ==
    CASE setup.cipher = "none" -> TargetFlush(c)
      [] setup.cipher = "rc4"  -> Fine(c)
      [] setup.cipher = "aes"  -> AESFlush(c)

ZippedAll(s) == [i \in 1 .. Len(s) |-> Zipped(s[i])]

(* deflate puts out nothing yet or all that it has. When that cannot be    *)
(* written the encoder is given up, and what is written later passes it by.*)
FlateWrite(c, data) ==
    LET all == c.pending \o data
        Out(n) == CipherWrite([c EXCEPT !.pending = Rest(all, n)], ZippedAll(Prefix(all, n)))
    IN  IF ~c.encoding
        THEN CipherWrite(c, data)
        ELSE {IF o.ok THEN o ELSE [o EXCEPT !.c.encoding = FALSE, !.c.pending = << >>] :
                o \in Out(0) \cup Out(Len(all))}

FinalizeEncoding(c) ==
    IF ~c.encoding
    THEN Fine(c)
    ELSE CipherWrite([c EXCEPT !.encoding = FALSE, !.pending = << >>],
                     Append(ZippedAll(c.pending), ZipEnd))

FlateFlush(c) == Regardless(FinalizeEncoding(c), CipherFlush)
-----------------------------------------------------------------------------
Idle == [bytes |-> << >>, held |-> 0, buffer |-> << >>, flushes |-> 0,
         temporary |-> << >>, key |-> 0, iv |-> FALSE, block |-> << >>,
         padded |-> FALSE, pending |-> << >>, encoding |-> FALSE, faults |-> 0]

StreamInit ==
    /\ setup \in [compress : Compressions, cipher : Ciphers, direct : Directs]
    /\ phase = "before"
    /\ chain = Idle
    /\ given = 0
    /\ short = FALSE
    /\ stream = [start |-> 0, length |-> 0, ok |-> FALSE]
    /\ closing = [flushed |-> FALSE, closed |-> FALSE]

(* A keyword or a dictionary of the document: what Write says is ignored.  *)
WriteAround ==
    /\ phase \in {"before", "after"}
    /\ Position(chain) < MaxUnits
    /\ \E o \in BufferedWrite(chain, <<Plain>>) :
          /\ chain' = o.c
          /\ short' = (short \/ ~o.ok)
    /\ UNCHANGED <<setup, phase, given, stream, closing>>

StartPDFStream ==
    /\ phase = "before"
    /\ phase' = "stream"
    /\ chain' = [chain EXCEPT !.encoding = setup.compress]
    /\ stream' = [stream EXCEPT !.start = Position(chain)]
    /\ UNCHANGED <<setup, given, short, closing>>

Write(n) ==
    /\ phase = "stream"
    /\ given + n <= MaxUnits
    /\ \E o \in LET data == [i \in 1 .. n |-> Raw(given + i)]
                IN  IF setup.compress THEN FlateWrite(chain, data) ELSE CipherWrite(chain, data) :
          /\ chain' = o.c
          /\ short' = (short \/ ~o.ok)
    /\ given' = given + n
    /\ UNCHANGED <<setup, phase, stream, closing>>

(* The encoder is flushed and then detached, which flushes it once more;   *)
(* the encryption stream is flushed after it, and once more when deleted.  *)
FinalizeStreamWrite(c) ==
    LET Detach(d)  == Ignored(FlateFlush(d))
        Encoded    == IF setup.compress THEN Regardless(FlateFlush(c), Detach) ELSE Fine(c)
        Delete(d)  == Ignored(CipherFlush(d))
        Encrypt(d) == Regardless(CipherFlush(d), Delete)
    IN  IF setup.cipher = "none" THEN Encoded ELSE Regardless(Encoded, Encrypt)

(* A stream collected in memory is copied after its dictionary, and what   *)
(* the copy says is ignored.                                               *)
EndPDFStream ==
    /\ phase = "stream"
    /\ phase' = "after"
    /\ \E o \in FinalizeStreamWrite(chain) :
          \/ /\ ~setup.direct
             /\ chain' = o.c
             /\ stream' = [stream EXCEPT !.length = Position(o.c) - stream.start, !.ok = o.ok]
          \/ /\ setup.direct
             /\ \E w \in BufferedWrite(o.c, o.c.temporary) : chain' = w.c
             /\ stream' = [start |-> Position(o.c), length |-> Len(o.c.temporary), ok |-> o.ok]
    /\ UNCHANGED <<setup, given, short, closing>>

CloseFile ==
    /\ phase = "after"
    /\ phase' = "closed"
    /\ \E f \in BufferedFlush(chain) : \E o \in FileClose(f.c) :
          /\ chain' = o.c
          /\ closing' = [flushed |-> f.ok, closed |-> o.ok]
    /\ UNCHANGED <<setup, given, short, stream>>

StreamNext ==
    \/ WriteAround
    \/ StartPDFStream
    \/ \E n \in WriteSizes : Write(n)
    \/ EndPDFStream
    \/ CloseFile

StreamSpec == StreamInit /\ [][StreamNext]_streamVars
-----------------------------------------------------------------------------
StreamsTyped ==
    /\ setup \in [compress : Compressions, cipher : Ciphers, direct : Directs]
    /\ phase \in {"before", "stream", "after", "closed"}
    /\ Len(chain.buffer) <= BufferSize
    /\ chain.held \in 0 .. CacheSize /\ chain.held <= Len(chain.bytes)
    /\ Len(chain.block) <= BlockSize
    /\ chain.faults \in 0 .. MaxFaults + 1
    /\ given \in 0 .. MaxUnits
    /\ short \in BOOLEAN
    /\ stream \in [start : Nat, length : Int, ok : BOOLEAN]
    /\ closing \in [flushed : BOOLEAN, closed : BOOLEAN]

(* The file as it is or will be once the buffer is written. *)
File == chain.bytes \o chain.buffer

Garbage == <<Plain>>

(* The stream as a reader of the file gets at it: from its start, for the  *)
(* length that its dictionary states.                                      *)
Section == SubSeq(File, stream.start + 1, stream.start + stream.length)

Decrypted(s) ==
    CASE setup.cipher = "none" -> s
      [] setup.cipher = "rc4"  ->
            IF \A k \in DOMAIN s : s[k].kind = "rc4" /\ s[k].n = k
            THEN [k \in DOMAIN s |-> s[k].of[1]]
            ELSE Garbage
      [] setup.cipher = "aes"  ->
            IF /\ Len(s) > 1 /\ s[1] = IV
               /\ \A k \in 2 .. Len(s) :
                    s[k].kind = "block" /\ (s[k].n < BlockSize <=> k = Len(s))
            THEN FlattenSeq([k \in 1 .. Len(s) - 1 |-> s[k + 1].of])
            ELSE Garbage

Inflated(s) ==
    IF ~setup.compress
    THEN s
    ELSE IF /\ s # << >> /\ Last(s) = ZipEnd
            /\ \A k \in 1 .. Len(s) - 1 : s[k].kind = "z"
         THEN [k \in 1 .. Len(s) - 1 |-> s[k].of[1]]
         ELSE Garbage

(* A reader of the file gets the content that was written. *)
StreamReads ==
    /\ stream.length >= 0 /\ stream.start + stream.length <= Len(File)
    /\ Inflated(Decrypted(Section)) = [i \in 1 .. given |-> Raw(i)]

(* On a device that works, every chain of encoders leaves a stream that    *)
(* decodes to its content, between the positions that the document records *)
(* for it: nothing stays behind in an encoder, an IV or a padding is there *)
(* once, however the streams flush each other (PDFStream.cpp:117-155).     *)
WorkingDevice ==
    phase \in {"after", "closed"} /\ chain.faults = 0 => StreamReads

AllWell == phase = "closed" /\ ~short /\ stream.ok /\ closing.closed

(* A device that fails, and perhaps works again, cannot lose a part of a   *)
(* stream with no call saying so: a Write, the end of the stream, or the   *)
(* Flush or the fclose that close the file. Not so for RC4, nor for a      *)
(* stream whose length is written first.                                   *)
LossIsTold ==
    AllWell /\ closing.flushed /\ setup.cipher # "rc4" /\ ~setup.direct => StreamReads

(* However the device fails, what was written first comes first, and       *)
(* nothing is in the file twice (OutputBufferedStream.cpp:103).            *)
NumberOf(u) == IF u.kind = "raw" THEN u.n ELSE u.of[1].n
Numbered(u) == u.kind = "raw" \/ (u.kind \in {"z", "rc4"} /\ u.of[1].kind = "raw")
InOrder ==
    \A i, j \in DOMAIN File :
        i < j /\ Numbered(File[i]) /\ Numbered(File[j])
            => NumberOf(File[i]) < NumberOf(File[j])

(* OutputFile.cpp:76 closes the file "explicitly ... so status may be      *)
(* retrieved"; but what the Flush before it says is not part of it.        *)
CloseTells == AllWell => StreamReads

(* PDFStream.h:59: FinalizeStreamWrite "returns eFailure if compression or *)
(* encryption could not be finalized (e.g. a failed write to the           *)
(* underlying stream)"; but an encoder that gave up earlier has nothing    *)
(* left to finalize.                                                       *)
FinalizeTells ==
    phase = "after" /\ setup.compress /\ stream.ok
        => \E i \in DOMAIN File : File[i] = ZipEnd

(* IByteWriter.h:36: Write returns "the number of written bytes"; the RC4  *)
(* stream counts those that its target did not take.                       *)
WriteTells == AllWell /\ closing.flushed => StreamReads

(* IByteWriter.h:42: "_flush is intended for one time call only before     *)
(* finishing_. after that no more writing is expected"; but every          *)
(* compressed stream flushes the document's stream, twice.                 *)
FlushedOnce == chain.flushes <= 1

(* What comes out of the encoders is the content of the stream, whole      *)
(* while the device works, and in order even when it does not.             *)
StreamsAreRight ==
    /\ StreamsTyped
    /\ WorkingDevice
    /\ InOrder
=============================================================================

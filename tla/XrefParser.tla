----------------------------- MODULE XrefParser -----------------------------
(***************************************************************************)
(* PDFParser's reading of the cross-reference sections of a file: the      *)
(* newest trailer first, then back along Prev, each older section read     *)
(* into a table of its own that waits for those before it to be merged,    *)
(* and the newest section over all of them at last.  Sections are tables,  *)
(* streams, or hybrids of both.  A position is the number of a section in  *)
(* the file.                                                               *)
(***************************************************************************)
EXTENDS Integers, SequencesExt

CONSTANTS
    Files,         \* files to parse: [sections, startxref]
    MaxXrefSize,   \* MAX_XREF_SIZE
    MaxIDs,        \* greatest ObjectIDType
    MaxDepth,      \* bound: ParsePreviousXrefs calls inside each other
    MaxParses      \* bound: files parsed

(***************************************************************************)
(* A section has its kind, the Size of its trailer (NoSize when that is    *)
(* missing), where Prev and XRefStm point (None when the key is missing),  *)
(* the subsections it declares, and its lines: entries, or "Bad" for what  *)
(* does not parse as one.                                                  *)
(***************************************************************************)
None == 0
NoSize == -1

EntryTypes == {"Existing", "Delete", "StreamObject", "Bad"}

Section ==
    [kind : {"table", "stream", "other"}, size : Nat \cup {NoSize}, prev : Int, xrefStm : Nat,
     subsections : Seq([start : Nat, size : Nat]),
     lines : Seq([type : EntryTypes, position : Nat, revision : Nat])]

ASSUME XrefParserAssumption ==
    /\ MaxXrefSize \in Nat /\ MaxIDs \in Nat /\ MaxXrefSize <= MaxIDs
    /\ MaxDepth \in Nat /\ MaxParses \in Nat
    /\ \A f \in Files : f.sections \in Seq(Section) /\ f.startxref \in Nat

VARIABLES
    file,         \* the file being parsed
    status,       \* "idle", "parsing", "success" or "failure"
    xrefTable,    \* mXrefTable: entry i + 1 is the one of object i
    xrefSize,     \* mXrefSize
    parsedXrefs,  \* mParsedXrefs
    frames,       \* the running ParsePreviousXrefs calls, innermost last
    descending,   \* is there a Prev to look at, or a table to merge?
    parses

vars == <<file, status, xrefTable, xrefSize, parsedXrefs, frames, descending, parses>>

EmptyEntry == [type |-> "Undefined", position |-> 0, revision |-> 0]

Larger(a, b) == IF a >= b THEN a ELSE b
Smaller(a, b) == IF a <= b THEN a ELSE b

SectionAt(position) ==
    IF position \in DOMAIN file.sections
    THEN file.sections[position]
    ELSE [kind |-> "other", size |-> NoSize, prev |-> None, xrefStm |-> None,
          subsections |-> <<>>, lines |-> <<>>]
-----------------------------------------------------------------------------
(***************************************************************************)
(* Reading.  read = [ok, table, size, line, next]: the table and its       *)
(* logical size, the next line, and the object after the last one read.    *)
(***************************************************************************)
Fail(read) == [read EXCEPT !.ok = FALSE]

(* A stream that ends has just nothing more to say; a table too short for  *)
(* its subsection has its trailer taken for entries.                       *)
EntriesThere(section, read, size) ==
    IF section.kind = "stream" THEN Smaller(size, Len(section.lines) - read.line + 1) ELSE size

(* Mutants: the size is not limited; a bad line is passed over.            *)
AnyEntries(section, read, start, count) ==
    \A j \in 0 .. count - 1 :
        read.line + j <= Len(section.lines) /\ section.lines[read.line + j].type # "Bad"
EntriesWithoutCheck(section, read, start, count) ==
    read.line + count - 1 <= Len(section.lines) /\ start + count <= MaxXrefSize

EntriesParse(section, read, start, count) ==
    /\ count > 0 => start + count <= MaxXrefSize
    /\ \A j \in 0 .. count - 1 :
          read.line + j <= Len(section.lines) /\ section.lines[read.line + j].type # "Bad"

ExtendXrefToSize(table, size) == table \o [i \in 1 .. size - Len(table) |-> EmptyEntry]

(* The lines from line on become the entries of start and up.              *)
Overwritten(table, start, count, lines, line) ==
    LET extended == ExtendXrefToSize(table, start + count)
    IN IF count = 0 THEN table
       ELSE SubSeq(extended, 1, start) \o SubSeq(lines, line, line + count - 1)
                \o SubSeq(extended, start + count + 1, Len(extended))

(* One subsection.  Objects past the declared size make it larger, the     *)
(* policy of mAllowExtendingSegments.                                      *)
ReadSubsection(section, read, start, size) ==
    LET count == EntriesThere(section, read, size)
    IN IF size = 0 /\ section.kind = "table" THEN [read EXCEPT !.next = start]
       ELSE IF \/ section.kind = "table" /\ size > MaxIDs - start
               \/ ~EntriesParse(section, read, start, count)
       THEN Fail(read)
       ELSE [ok |-> TRUE, size |-> Larger(read.size, start + size),
             line |-> read.line + count, next |-> start + size,
             table |-> Overwritten(read.table, start, count, section.lines, read.line)]

(* "for first xref (one with no Prev), first object must be 0.  some files *)
(* incorrectly start at 1".                                                *)
StartOf(section, read, subsection) ==
    IF section.kind = "table" /\ section.prev = None /\ read.next = 0
    THEN 0 ELSE subsection.start

(* A bound r is evaluated once.                                            *)
ReadNext(section, read, s) ==
    CHOOSE next \in
        {IF r.ok THEN ReadSubsection(section, r, StartOf(section, r, s), s.size) ELSE r : r \in {read}} :
            TRUE

ReadSubsections(section, table, size) ==
    LET after[n \in 0 .. Len(section.subsections)] ==
            IF n = 0 THEN [ok |-> TRUE, table |-> table, size |-> size, line |-> 1, next |-> 0]
            ELSE ReadNext(section, after[n - 1], section.subsections[n])
    IN after[Len(section.subsections)]

(* ParseXrefFromXrefTable or ParseXrefFromXrefStream, and for a hybrid the *)
(* stream after the table.                                                 *)
ReadSection(section, table, size) ==
    LET read == ReadSubsections(section, table, size)
        stream == SectionAt(section.xrefStm)
    IN IF ~read.ok \/ section.kind # "table" \/ section.xrefStm = None THEN read
       ELSE IF stream.kind # "stream" THEN Fail(read)
       ELSE ReadSubsections(stream, read.table, read.size)
-----------------------------------------------------------------------------
NoFile == [sections |-> <<>>, startxref |-> 0]

Init ==
    /\ file = NoFile
    /\ status = "idle"
    /\ xrefTable = <<>> /\ xrefSize = 0 /\ parsedXrefs = {}
    /\ frames = <<>> /\ descending = FALSE /\ parses = 0

(* StartPDFParsing up to the chain of Prev: the newest trailer gives the   *)
(* size.  mXrefSize alone outlives ResetParser.                            *)
StartPDFParsing(f) ==
    /\ status # "parsing" /\ parses < MaxParses
    /\ parses' = parses + 1
    /\ file' = f
    /\ LET newest == IF f.startxref \in DOMAIN f.sections
                     THEN f.sections[f.startxref] ELSE [kind |-> "other", size |-> NoSize]
           readable == newest.kind # "other" /\ newest.size # NoSize
       IN /\ status' = IF readable THEN "parsing" ELSE "failure"
          /\ xrefSize' = IF readable THEN newest.size ELSE xrefSize
          /\ parsedXrefs' = IF readable THEN {f.startxref} ELSE {}
          /\ descending' = readable
    /\ xrefTable' = <<>> /\ frames' = <<>>

(* The trailer whose Prev is looked at.                                    *)
CurrentPosition == IF frames = <<>> THEN file.startxref ELSE Last(frames).position
Prev == SectionAt(CurrentPosition).prev

(* The failure returns through all the calls, and nothing is merged.       *)
Stop ==
    /\ status' = "failure" /\ frames' = <<>>
    /\ UNCHANGED <<file, xrefTable, xrefSize, descending, parses>>

(* Mutant: any position may be read again.                                 *)
PrevIsReadable == Prev >= 0

(* "safeguard against [...] trying to get the parser to endlessly loop".   *)
PrevIsNew == Prev >= 0 /\ Prev \notin parsedXrefs

(* ParsePreviousXrefs up to the recursion: the older section is read into  *)
(* a table of its own.                                                     *)
ParsePreviousXrefs ==
    /\ status = "parsing" /\ descending /\ Prev # None /\ Len(frames) < MaxDepth
    /\ IF ~PrevIsNew THEN Stop /\ UNCHANGED parsedXrefs
       ELSE LET section == SectionAt(Prev)
                read == ReadSection(section, <<>>, xrefSize)
            IN /\ parsedXrefs' = parsedXrefs \cup {Prev}
               /\ IF section.kind = "other" \/ ~read.ok THEN Stop
                  ELSE /\ frames' = Append(frames, [position |-> Prev, table |-> read.table,
                                                    size |-> read.size])
                       /\ UNCHANGED <<file, status, xrefTable, xrefSize, descending, parses>>

EndOfChain ==
    /\ status = "parsing" /\ descending /\ Prev = None
    /\ descending' = FALSE
    /\ UNCHANGED <<file, status, xrefTable, xrefSize, parsedXrefs, frames, parses>>

(* Mutant: holes are merged.                                               *)
MergeHoles(table, newer) ==
    [i \in 1 .. Larger(Len(table), Len(newer)) |->
        IF i <= Len(newer) THEN newer[i] ELSE table[i]]

Merged(table, newer) ==
    [i \in 1 .. Larger(Len(table), Len(newer)) |->
        IF i <= Len(newer) /\ newer[i].type # "Undefined" THEN newer[i]
        ELSE IF i <= Len(table) THEN table[i] ELSE EmptyEntry]

(* The recursion is back from what is older.                               *)
MergeXrefWithMainXref ==
    /\ status = "parsing" /\ ~descending /\ frames # <<>>
    /\ xrefTable' = Merged(xrefTable, Last(frames).table)
    /\ xrefSize' = Larger(xrefSize, Last(frames).size)
    /\ frames' = Front(frames)
    /\ UNCHANGED <<file, status, parsedXrefs, descending, parses>>

(* The rest of BuildXrefTableFromTable and of                              *)
(* BuildXrefTableAndTrailerFromXrefStream.  Of a section that is bad the   *)
(* subsections before the bad one stay.                                    *)
ReadNewestSection ==
    /\ status = "parsing" /\ ~descending /\ frames = <<>>
    /\ LET read == ReadSection(SectionAt(file.startxref), xrefTable, xrefSize)
       IN /\ xrefTable' = read.table
          /\ xrefSize' = IF read.ok THEN read.size ELSE xrefSize
          /\ status' = IF read.ok THEN "success" ELSE "failure"
    /\ UNCHANGED <<file, parsedXrefs, frames, descending, parses>>

Step == ParsePreviousXrefs \/ EndOfChain \/ MergeXrefWithMainXref \/ ReadNewestSection

Next == (\E f \in Files : StartPDFParsing(f)) \/ Step

Spec == Init /\ [][Next]_vars /\ WF_vars(Step)

GetXrefSize == Smaller(xrefSize, Len(xrefTable))
GetXrefEntry(id) == IF id < GetXrefSize THEN xrefTable[id + 1] ELSE EmptyEntry
-----------------------------------------------------------------------------
TypeOK ==
    /\ file \in Files \cup {NoFile}
    /\ status \in {"idle", "parsing", "success", "failure"}
    /\ xrefTable \in Seq([type : EntryTypes \cup {"Undefined"}, position : Nat, revision : Nat])
    /\ Len(xrefTable) <= MaxXrefSize
    /\ xrefSize \in Nat /\ parsedXrefs \subseteq Nat /\ descending \in BOOLEAN
    /\ \A i \in DOMAIN frames :
          frames[i].position \in parsedXrefs /\ Len(frames[i].table) <= MaxXrefSize

(***************************************************************************)
(* What a file says, without a look at how it is read.  Position k is      *)
(* where k steps along Prev lead, and the chain is the steps up to the     *)
(* section without Prev.                                                   *)
(***************************************************************************)
Positions ==
    LET back[k \in 0 .. Len(file.sections)] ==
            IF k = 0 THEN file.startxref ELSE SectionAt(back[k - 1]).prev
    IN back

EndsAt(k) == SectionAt(Positions[k]).prev = None

Chain == {k \in 0 .. Len(file.sections) : \A j \in 0 .. k - 1 : ~EndsAt(j)}

(* The IDs of a section's lines, one after the other.  Those of a document *)
(* begin at 0.                                                             *)
IsFirst(section) == section.kind = "table" /\ section.prev = None

IDsOf(section, before, s) ==
    [j \in 1 .. s.size |-> j - 1 + IF IsFirst(section) /\ before = <<>> THEN 0 ELSE s.start]

Numbering(section) ==
    LET after[n \in 0 .. Len(section.subsections)] ==
            IF n = 0 THEN <<>>
            ELSE after[n - 1] \o IDsOf(section, after[n - 1], section.subsections[n])
    IN after[Len(section.subsections)]

(* What a section says of an object: the last of its lines.                *)
EntryIn(section, id) ==
    LET numbering == Numbering(section)
        lines == {k \in DOMAIN numbering : numbering[k] = id /\ k <= Len(section.lines)}
        line == CHOOSE k \in lines : \A other \in lines : other <= k
    IN IF lines = {} THEN EmptyEntry ELSE section.lines[line]

(* At a position; of a hybrid the stream counts first.                     *)
IsHybrid(section) == section.kind = "table" /\ section.xrefStm # None

EntryAt(position, id) ==
    LET section == SectionAt(position)
        hidden == IF IsHybrid(section) THEN EntryIn(SectionAt(section.xrefStm), id) ELSE EmptyEntry
    IN IF hidden # EmptyEntry THEN hidden ELSE EntryIn(section, id)

SectionIsReadable(section) ==
    /\ section.kind # "other"
    /\ LET numbering == Numbering(section) IN
       /\ section.kind = "table" => Len(numbering) <= Len(section.lines)
       /\ \A k \in DOMAIN numbering :
             k <= Len(section.lines) =>
                 section.lines[k].type # "Bad" /\ numbering[k] < MaxXrefSize

IsReadableAt(position) ==
    LET section == SectionAt(position)
        stream == SectionAt(section.xrefStm)
    IN /\ SectionIsReadable(section)
       /\ IsHybrid(section) => stream.kind = "stream" /\ SectionIsReadable(stream)

ChainIsReadable ==
    /\ \E k \in Chain : EndsAt(k)
    /\ \A k \in Chain : IsReadableAt(Positions[k])
    /\ SectionAt(file.startxref).size # NoSize

(* The parser has of each object what the newest section that lists it     *)
(* says, however many sections older ones and newer ones list; and finds   *)
(* every listed object, past the declared size too.                        *)
NewestSectionWins ==
    status = "success" =>
        \A id \in 0 .. MaxXrefSize :
            LET listing == {k \in Chain : EntryAt(Positions[k], id) # EmptyEntry}
                newest == CHOOSE k \in listing : \A other \in listing : k <= other
            IN GetXrefEntry(id) =
                   IF listing = {} THEN EmptyEntry ELSE EntryAt(Positions[newest], id)

(* A file is refused if and only if its chain of sections cannot be read:  *)
(* no bad or circular chain is taken, and no good one is turned down.      *)
RefusedWhenUnreadable ==
    /\ status = "success" => ChainIsReadable
    /\ status = "failure" => ~ChainIsReadable

(* Behind its first lines no first table has an empty subsection at 0: the *)
(* one after it would have its start ignored as well.                      *)
StartsAreClear(section) ==
    LET subsections == section.subsections IN
    IsFirst(section) =>
        \A k \in DOMAIN subsections :
            subsections[k] = [start |-> 0, size |-> 0] =>
                \A before \in 1 .. k : subsections[before].size = 0

FileIsClear == \A k \in DOMAIN file.sections : StartsAreClear(file.sections[k])

(* Parsing ends, whatever Prev points to.                                  *)
ParsingEnds == (status = "parsing") ~> (status # "parsing")

(* A file's chain of sections is taken if and only if it can be read, and  *)
(* then as a whole, the newest section first.                              *)
XrefIsRight ==
    /\ NewestSectionWins
    /\ RefusedWhenUnreadable
=============================================================================

---------------------------- MODULE XrefWriting ----------------------------
(***************************************************************************)
(* Sessions over one file: a document is created or modified through the   *)
(* references registry, its cross-reference section is written             *)
(* (ObjectsContext::WriteXrefTable or WriteXrefStream), and the file that  *)
(* results is parsed again to start the next, incremental, session.        *)
(* The section is modelled as written: numbered subsections followed by    *)
(* unnumbered lines, which a reader must number again.                     *)
(***************************************************************************)
EXTENDS ReferencesRegistry, SequencesExt

CONSTANT MaxSessions   \* bound: sessions over the file

VARIABLES
    xref,      \* the section written last: its subsections and its lines
    table,     \* what a parser makes of the whole file: one XrefEntryInput per ID
    status,    \* "open", or the EStatusCode of the finalization
    session

xrefVars == <<xref, table, status, session>>
allVars == <<registry, headers, validate, firstNewID, xref, table, status, session>>

Undefined == [type |-> "Undefined", position |-> 0, revision |-> 0]

IsDirty(reg, id) == reg[id + 1].dirty
IsDirtyAndFree(reg, id) == IsDirty(reg, id) /\ reg[id + 1].type = "Free"

(***************************************************************************)
(* The loop over subsections: from startID, the IDs up to the first that   *)
(* needs no update; then on to the next that does.                         *)
(***************************************************************************)
FirstIDNotInRange(reg, startID) ==
    Min({id \in startID .. Len(reg) : id = Len(reg) \/ ~IsDirty(reg, id)})

NextStartID(reg, id) ==
    Min({next \in id .. Len(reg) : next = Len(reg) \/ IsDirty(reg, next)})

Subsections(reg) ==
    LET From[startID \in 0 .. Len(reg)] ==
            LET end == FirstIDNotInRange(reg, startID) IN
            IF startID = Len(reg) THEN <<>>
            ELSE <<[start |-> startID, size |-> end - startID]>>
                     \o From[NextStartID(reg, end)]
    IN From[0]

(***************************************************************************)
(* The lines, in ID order.  nextFreeObject is carried from one free entry  *)
(* to the next and wraps to 0 at the end of the registry.                  *)
(***************************************************************************)
(* Mutant: free entries of the original file are put on the list.          *)
NextFreeOfAnyAge(reg, nextFree) ==
    LET next == Min({id \in nextFree + 1 .. Len(reg) :
                        id = Len(reg) \/ reg[id + 1].type = "Free"})
    IN IF next = Len(reg) THEN 0 ELSE next

NextFreeObject(reg, nextFree) ==
    LET next == Min({id \in nextFree + 1 .. Len(reg) :
                        id = Len(reg) \/ IsDirtyAndFree(reg, id)})
    IN IF next = Len(reg) THEN 0 ELSE next

WithLine(written, kind, value, generation) ==
    [written EXCEPT !.lines = Append(@, [kind |-> kind, value |-> value, generation |-> generation])]

WithFreeLine(reg, written, generation) ==
    LET next == NextFreeObject(reg, written.nextFree)
    IN [WithLine(written, "f", next, generation) EXCEPT !.nextFree = next]

(* Mutants: an entry is emitted without a look at mObjectWritten; the      *)
(* generation is not written.                                              *)
WriteUnwritten(reg, written, id) ==
    LET e == reg[id + 1]
    IN IF ~e.dirty THEN written
       ELSE IF e.type = "Used" THEN WithLine(written, "n", e.position, e.generation)
       ELSE WithFreeLine(reg, written, e.generation)
WriteFirstGeneration(reg, written, id) ==
    LET e == reg[id + 1]
    IN IF written.status = "failure" \/ ~e.dirty THEN written
       ELSE IF e.type # "Used" THEN WithFreeLine(reg, written, 0)
       ELSE IF e.written THEN WithLine(written, "n", e.position, 0)
       ELSE [written EXCEPT !.status = "failure"]

WriteEntry(reg, written, id) ==
    LET e == reg[id + 1]
    IN IF written.status = "failure" \/ ~e.dirty THEN written
       ELSE IF e.type # "Used" THEN WithFreeLine(reg, written, e.generation)
       ELSE IF e.written THEN WithLine(written, "n", e.position, e.generation)
       ELSE [written EXCEPT !.status = "failure"]

WriteEntries(reg) ==
    LET Below[id \in 0 .. Len(reg)] ==
            IF id = 0 THEN [lines |-> <<>>, nextFree |-> 0, status |-> "success"]
            ELSE WriteEntry(reg, Below[id - 1], id - 1)
    IN Below[Len(reg)]

(***************************************************************************)
(* PDFParser on that section: the lines are numbered by the subsections    *)
(* (the first one of a file without Prev is taken to start at 0) and       *)
(* override what the previous sections said.                               *)
(***************************************************************************)
Numbering(subsections, hasPrev) ==
    FlattenSeq([k \in 1 .. Len(subsections) |->
        LET start == IF k = 1 /\ ~hasPrev THEN 0 ELSE subsections[k].start
        IN [j \in 1 .. subsections[k].size |-> start + j - 1]])

ReadEntry(line) ==
    [type |-> IF line.kind = "n" THEN "Existing" ELSE "Delete",
     position |-> line.value, revision |-> line.generation]

(* Mutants: the older section wins; the older section is not merged.       *)
ReadOldestFirst(section, size, previous) ==
    LET numbering == Numbering(section.subsections, previous # <<>>) IN
    [i \in 1 .. size |->
        IF i <= Len(previous) THEN previous[i]
        ELSE IF \E k \in DOMAIN numbering : numbering[k] = i - 1
        THEN ReadEntry(section.lines[CHOOSE k \in DOMAIN numbering : numbering[k] = i - 1])
        ELSE Undefined]
ReadLastOnly(section, size, previous) ==
    LET numbering == Numbering(section.subsections, previous # <<>>) IN
    [i \in 1 .. size |->
        IF \E k \in DOMAIN numbering : numbering[k] = i - 1
        THEN ReadEntry(section.lines[CHOOSE k \in DOMAIN numbering : numbering[k] = i - 1])
        ELSE Undefined]

ReadXref(section, size, previous) ==
    LET numbering == Numbering(section.subsections, previous # <<>>) IN
    [i \in 1 .. size |->
        IF \E k \in DOMAIN numbering : numbering[k] = i - 1
        THEN ReadEntry(section.lines[CHOOSE k \in DOMAIN numbering : numbering[k] = i - 1])
        ELSE IF i <= Len(previous) THEN previous[i]
        ELSE Undefined]

-----------------------------------------------------------------------------
NoSection == [subsections |-> <<>>, lines |-> <<>>]

XrefInit ==
    /\ \E file \in OriginalFiles : StartSession(file) /\ table = file.xref
    /\ xref = NoSection
    /\ status = "open"
    /\ session = 1

(* A step of the registry's client while the document is open.             *)
Write ==
    /\ status = "open"
    /\ AllocateNewObjectID \/ StartNewIndirectObject
    /\ UNCHANGED xrefVars

Change(id) ==
    /\ status = "open"
    /\ \/ StartAllocatedIndirectObject(id)
       \/ StartModifiedIndirectObject(id)
       \/ DeleteObject(id)
    /\ UNCHANGED xrefVars

WriteSection(reg) ==
    LET written == WriteEntries(reg)
        section == [subsections |-> Subsections(reg), lines |-> written.lines]
    IN /\ status' = written.status
       /\ xref' = section
       /\ table' = IF written.status = "success"
                   THEN ReadXref(section, Len(reg), table)
                   ELSE table

(* FinalizeNewPDF and FinalizeModifiedPDF with a table.                    *)
WriteXrefTable ==
    /\ status = "open"
    /\ validate
    /\ WriteSection(registry)
    /\ UNCHANGED <<registry, headers, validate, firstNewID, session>>

(* The same with an xref stream, itself a new indirect object and so one   *)
(* of the entries it lists.                                                *)
WriteXrefStream ==
    /\ status = "open"
    /\ ~validate
    /\ StartNewIndirectObject
    /\ WriteSection(registry')
    /\ UNCHANGED session

(* ModifyPDF of the file just written.                                     *)
ModifyPDF ==
    /\ status = "success"
    /\ session < MaxSessions
    /\ session' = session + 1
    /\ status' = "open"
    /\ xref' = NoSection
    /\ registry' = RegistryOfFile(table)
    /\ firstNewID' = Len(registry')
    /\ validate' \in BOOLEAN
    /\ ~validate => ~validate'   \* RequiresXrefStream
    /\ UNCHANGED <<headers, table>>

XrefNext ==
    \/ Write
    \/ \E id \in ObjectIDs : Change(id)
    \/ WriteXrefTable
    \/ WriteXrefStream
    \/ ModifyPDF

XrefSpec == XrefInit /\ [][XrefNext]_allVars

-----------------------------------------------------------------------------
(* Reading the file back gives the registry back: after a successful       *)
(* finalization every entry, of this session and of the earlier ones, is   *)
(* parsed with the type, position and generation the registry holds (this  *)
(* is what lets SetupXrefFromModifiedFile continue from the file).         *)
RoundTrip ==
    status = "success" =>
        LET reread == RegistryOfFile(table) IN
        /\ Len(reread) = GetObjectsCount
        /\ \A i \in 2 .. Len(reread) :
              /\ reread[i].type = registry[i].type
              /\ registry[i].type = "Used" => reread[i].position = registry[i].position
              /\ reread[i].generation = registry[i].generation

(* A reader of the file sees the newest version of each object, whichever  *)
(* session wrote it, never one that a later session superseded.            *)
NewestVersionVisible ==
    status = "success" =>
        \A i \in 1 .. Len(table) :
            table[i].type = "Existing" => IsNewestHeader(headers, table[i].position, i - 1)

(* The free entries of the written section form a cycle from entry 0       *)
(* through each of them, in ID order, and back to 0.                       *)
FreeListIsCycle ==
    status = "success" =>
        LET numbering == Numbering(xref.subsections, TRUE)
            free == {k \in DOMAIN numbering : xref.lines[k].kind = "f"}
            freeIDs == {numbering[k] : k \in free}
        IN /\ 0 \in freeIDs
           /\ \A k \in free :
                 LET after == {id \in freeIDs : id > numbering[k]} IN
                 xref.lines[k].value = IF after = {} THEN 0 ELSE Min(after)

(* Finalization accounts for every allocated ID: it succeeds only when     *)
(* each one is in the file or free, and fails only when one is neither     *)
(* ("probably means it was not written").                                  *)
AllocatedAreAccountedFor ==
    LET missing == {id \in firstNewID .. GetObjectsCount - 1 :
                       /\ GetNthObjectReference(id).type = "Used"
                       /\ \A h \in 1 .. Len(headers) : headers[h].id # id}
    IN /\ status = "success" => missing = {}
       /\ status = "failure" => missing # {}

(* A table has no position its ten digits cannot hold; xref streams may.   *)
TablePositionsFit ==
    validate /\ status = "success" =>
        \A k \in DOMAIN xref.lines :
            xref.lines[k].kind = "n" => xref.lines[k].value <= MaxXrefPosition

(* What a session does not touch reads as it did before: an incremental    *)
(* section never disturbs an entry whose object was neither modified nor   *)
(* deleted.                                                                *)
UntouchedEntriesKept ==
    [][\A i \in 2 .. Len(table) :
          ~registry[i].dirty => table'[i] = table[i]]_allVars

(* What a finalization wrote can be read back as the registry it stands    *)
(* for: its numbering, its free list and its positions; and it is written  *)
(* only if every ID is accounted for.                                      *)
SectionIsRight ==
    /\ RoundTrip
    /\ FreeListIsCycle
    /\ AllocatedAreAccountedFor
    /\ TablePositionsFit

(* Readers find the newest version of each object, and what no session     *)
(* touched where it was.                                                   *)
NewestIsFound ==
    /\ []NewestVersionVisible
    /\ UntouchedEntriesKept
=============================================================================

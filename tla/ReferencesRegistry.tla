------------------------- MODULE ReferencesRegistry -------------------------
(***************************************************************************)
(* The table of indirect objects (IndirectObjectsReferenceRegistry) and    *)
(* the operations of ObjectsContext that start an indirect object.  The    *)
(* output file is reduced to the sequence of object headers "id gen obj"   *)
(* written so far: a header's index is its position in the file.  Object   *)
(* bodies, and the writing of the cross-reference section, are left out    *)
(* (see XrefWriting for the latter).                                       *)
(***************************************************************************)
EXTENDS Integers, Sequences

CONSTANTS
    MaxObjects,        \* bound: how many entries the registry may have
    MaxFileLength,     \* bound: how many headers may be written
    MaxGeneration,     \* 65535 in the code
    MaxXrefPosition,   \* 9999999999 in the code
    OriginalFiles      \* the files a session may start from

ObjectReferenceTypes == {"Free", "Used"}

ObjectWriteInformation ==
    [written : BOOLEAN, dirty : BOOLEAN, position : Nat,
     type : ObjectReferenceTypes, generation : 0 .. MaxGeneration]

Header == [id : Nat, generation : 0 .. MaxGeneration]

(* What PDFParser knows of one object of a parsed file.                    *)
XrefEntryInput ==
    [type : {"Existing", "Delete", "StreamObject", "Undefined"},
     position : Nat, revision : 0 .. MaxGeneration]

(***************************************************************************)
(* A file has the headers of its objects and a parsed xref: entry i + 1 is *)
(* the one of object i.  The file of a new document is empty.              *)
(***************************************************************************)
ASSUME ConstantsAssumption ==
    /\ MaxGeneration \in Nat \ {0}
    /\ MaxXrefPosition \in Nat
    /\ MaxObjects \in Nat
    /\ MaxFileLength \in Nat

ASSUME OriginalFilesAssumption ==
    \A f \in OriginalFiles :
        /\ f.headers \in Seq(Header)
        /\ f.xref \in Seq(XrefEntryInput)
        /\ f.asStream \in BOOLEAN
        /\ \A h \in 1 .. Len(f.headers) : f.headers[h].id < Len(f.xref)

VARIABLES
    registry,    \* mObjectsWritesRegistry: entry i + 1 is the one of object i
    headers,     \* the object headers in the output file, oldest first
    validate,    \* mShouldValidateMaxWritePositionForXref: the xref will be a table
    firstNewID   \* the number of IDs the file had when the session started

vars == <<registry, headers, validate, firstNewID>>

GetObjectsCount == Len(registry)
ObjectIDs == 0 .. GetObjectsCount - 1
GetNthObjectReference(id) == registry[id + 1]

SingleFreeObject ==
    [written |-> FALSE, dirty |-> TRUE, position |-> 0,
     type |-> "Free", generation |-> MaxGeneration]

NewObject ==
    [written |-> FALSE, dirty |-> TRUE, position |-> 0,
     type |-> "Used", generation |-> 0]

(* SetupXrefFromModifiedFile and AppendExistingItem: a hole in the parsed  *)
(* xref ("Undefined") becomes a used entry.                                *)
ExistingItem(entry) ==
    LET used == entry.type # "Delete" IN
    [written    |-> used,
     dirty      |-> FALSE,
     position   |-> IF used THEN entry.position ELSE 0,
     type       |-> IF used THEN "Used" ELSE "Free",
     generation |-> IF entry.type # "StreamObject" THEN entry.revision ELSE 0]

RegistryOfFile(xref) ==
    [i \in 1 .. IF xref = <<>> THEN 1 ELSE Len(xref) |->
        IF i = 1 THEN SingleFreeObject ELSE ExistingItem(xref[i])]

StartSession(file) ==
    /\ registry = RegistryOfFile(file.xref)
    /\ headers = file.headers
    /\ validate = ~file.asStream
    /\ firstNewID = Len(registry)

Init == \E file \in OriginalFiles : StartSession(file)

-----------------------------------------------------------------------------
CurrentPosition == Len(headers) + 1

(* Mutant: positions are never validated.                                  *)
AnyPositionIsValid == TRUE

MaxWritePositionIsValid == validate => CurrentPosition <= MaxXrefPosition

CanWrite == Len(headers) < MaxFileLength

(* Every header the writer emits carries generation 0.                     *)
WriteHeader(id) == headers' = Append(headers, [id |-> id, generation |-> 0])

AllocateNewObjectID ==
    /\ GetObjectsCount < MaxObjects
    /\ registry' = Append(registry, NewObject)
    /\ UNCHANGED <<headers, validate, firstNewID>>

(* StartNewIndirectObject(): allocates, then marks as written.  When the   *)
(* position is out of range the ID stays allocated and 0 is returned.      *)
StartNewIndirectObject ==
    /\ GetObjectsCount < MaxObjects
    /\ CanWrite
    /\ IF MaxWritePositionIsValid
       THEN /\ registry' = Append(registry, [NewObject EXCEPT
                                !.position = CurrentPosition,
                                !.written = TRUE])
            /\ WriteHeader(GetObjectsCount)
       ELSE /\ registry' = Append(registry, NewObject)
            /\ UNCHANGED headers
    /\ UNCHANGED <<validate, firstNewID>>

(* Mutant: an object already written may be written again.                 *)
MarkTwice(id) ==
    /\ id < GetObjectsCount
    /\ MaxWritePositionIsValid

MarkObjectAsWrittenSucceeds(id) ==
    /\ id < GetObjectsCount
    /\ ~GetNthObjectReference(id).written
    /\ MaxWritePositionIsValid

(* Mutants: the flag is not set; the entry of the previous object is.      *)
MarkWithoutFlag(id) ==
    registry' = [registry EXCEPT ![id + 1].dirty = TRUE,
                                 ![id + 1].position = CurrentPosition]
MarkPrevious(id) ==
    registry' = [registry EXCEPT ![id].position = CurrentPosition,
                                 ![id + 1].written = TRUE]

MarkObjectAsWritten(id) ==
    registry' = [registry EXCEPT ![id + 1].dirty = TRUE,
                                 ![id + 1].position = CurrentPosition,
                                 ![id + 1].written = TRUE]

(* StartNewIndirectObject(inObjectID), "for objects that already have been *)
(* allocated in advance": id is an ID of this session.  A call that fails   *)
(* changes nothing.                                                        *)
StartAllocatedIndirectObject(id) ==
    /\ CanWrite
    /\ id >= firstNewID
    /\ MarkObjectAsWrittenSucceeds(id)
    /\ MarkObjectAsWritten(id)
    /\ WriteHeader(id)
    /\ UNCHANGED <<validate, firstNewID>>

MarkObjectAsUpdatedSucceeds(id) ==
    /\ id < GetObjectsCount
    /\ MaxWritePositionIsValid

(* Mutant: the entry keeps the position of the old version.                *)
UpdateWithoutMoving(id) ==
    registry' = [registry EXCEPT ![id + 1].dirty = TRUE,
                                 ![id + 1].type = "Used"]

MarkObjectAsUpdated(id) ==
    registry' = [registry EXCEPT ![id + 1].dirty = TRUE,
                                 ![id + 1].position = CurrentPosition,
                                 ![id + 1].type = "Used"]

(* StartModifiedIndirectObject, "modify an existing object": one that has  *)
(* been written, in this session or in the original file.                  *)
StartModifiedIndirectObject(id) ==
    /\ CanWrite
    /\ MarkObjectAsUpdatedSucceeds(id)
    /\ GetNthObjectReference(id).written
    /\ MarkObjectAsUpdated(id)
    /\ WriteHeader(id)
    /\ UNCHANGED <<validate, firstNewID>>

(* Mutant: the maximal generation number is not refused.                   *)
DeleteWithoutLimit(id) ==
    /\ id < GetObjectsCount
    /\ registry' = [registry EXCEPT ![id + 1].dirty = TRUE,
                                    ![id + 1].generation = @ + 1,
                                    ![id + 1].position = 0,
                                    ![id + 1].type = "Free"]
    /\ UNCHANGED <<headers, validate, firstNewID>>

(* DeleteObject of any ID: one that was never written too, which is what   *)
(* PDFDocumentHandler::CopyInDirectObject does for a missing source.       *)
DeleteObject(id) ==
    /\ id < GetObjectsCount
    /\ GetNthObjectReference(id).generation # MaxGeneration
    /\ registry' = [registry EXCEPT ![id + 1].dirty = TRUE,
                                    ![id + 1].generation = @ + 1,
                                    ![id + 1].position = 0,
                                    ![id + 1].type = "Free"]
    /\ UNCHANGED <<headers, validate, firstNewID>>

Next ==
    \/ AllocateNewObjectID
    \/ StartNewIndirectObject
    \/ \E id \in ObjectIDs :
          \/ StartAllocatedIndirectObject(id)
          \/ StartModifiedIndirectObject(id)
          \/ DeleteObject(id)

Spec == Init /\ [][Next]_vars

-----------------------------------------------------------------------------
TypeOK ==
    /\ registry \in Seq(ObjectWriteInformation)
    /\ headers \in Seq(Header)
    /\ validate \in BOOLEAN
    /\ firstNewID \in Nat
    /\ 1 <= firstNewID /\ firstNewID <= Len(registry)

(* Is h the position of the newest header of object id in the file?        *)
IsNewestHeader(file, h, id) ==
    /\ h \in 1 .. Len(file)
    /\ file[h].id = id
    /\ \A later \in h + 1 .. Len(file) : file[later].id # id

(* The registry never points into the middle of nowhere: an entry this     *)
(* session will emit as used and written has the position of the newest    *)
(* header of exactly that object, after any sequence of allocations,       *)
(* writes, updates and deletions (WriteXrefTable and WriteXrefStream emit  *)
(* the position without looking at the file).                              *)
DirtyEntriesResolve ==
    \A id \in ObjectIDs :
        LET e == GetNthObjectReference(id) IN
        e.dirty /\ e.written /\ e.type = "Used" => IsNewestHeader(headers, e.position, id)

(* An ID handed out in this session and not marked as written has no       *)
(* object in the file yet: an allocation is either still owed or written.  *)
UnwrittenHasNoHeader ==
    \A id \in ObjectIDs :
        id >= firstNewID /\ ~GetNthObjectReference(id).written =>
            \A h \in 1 .. Len(headers) : headers[h].id # id

(* "trying to mark as written an object that was already marked as such":  *)
(* an object is begun as new at most once, so the file never holds two     *)
(* first versions of one ID.                                               *)
NewObjectsWrittenOnce ==
    [][\A id \in ObjectIDs :
          StartAllocatedIndirectObject(id) =>
              \A h \in 1 .. Len(headers) : headers[h].id # id]_vars

(* An entry's position moves only to a header written by the same step or, *)
(* when the object is freed, to 0: no other object's write disturbs it.    *)
PositionsFollowHeaders ==
    [][\A id \in ObjectIDs :
          registry'[id + 1].position # registry[id + 1].position =>
              \/ registry'[id + 1].type = "Free" /\ registry'[id + 1].position = 0
              \/ /\ Len(headers') = Len(headers) + 1
                 /\ registry'[id + 1].position = Len(headers')
                 /\ headers'[Len(headers')].id = id]_vars

(* mGenerationNumber is the "object generation number": what the header of *)
(* the object says.  Refuted: StartModifiedIndirectObject writes generation*)
(* 0 whatever the entry holds.                                             *)
HeaderHasEntryGeneration ==
    \A id \in ObjectIDs :
        LET e == GetNthObjectReference(id) IN
        e.dirty /\ e.written /\ e.type = "Used" =>
            headers[e.position].generation = e.generation

(* What the registry says of an object holds in the file, at any time: the *)
(* well-typed entries that the xref will emit resolve, and an ID that is   *)
(* still owed has no object yet.                                           *)
RegistryIsSound ==
    /\ TypeOK
    /\ DirtyEntriesResolve
    /\ UnwrittenHasNoHeader

(* No call rewrites history: objects begin as new once, and an entry       *)
(* follows only the headers of its own object.                             *)
HistoryIsKept ==
    /\ NewObjectsWrittenOnce
    /\ PositionsFollowHeaders
=============================================================================

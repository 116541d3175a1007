------------------------- MODULE XrefWritingProofs -------------------------
(***************************************************************************)
(* Proofs about ReferencesRegistry and XrefWriting, for any file to start  *)
(* from and any number of objects, headers and sessions: within a session  *)
(* entries resolve to the newest header of their object; what a            *)
(* finalization writes is read back as the registry it stands for; and the *)
(* registry stays sound from one session to the next.                      *)
(***************************************************************************)
EXTENDS XrefWriting, SequenceTheorems, WellFoundedInduction, TLAPS

-----------------------------------------------------------------------------
(***************************************************************************)
(* The registry within a session.                                          *)
(***************************************************************************)
(* No header names an object the registry does not know.                   *)
HeadersKnown == \A h \in 1 .. Len(headers) : headers[h].id < Len(registry)

(* The inductive invariant.                                                *)
IInv ==
    /\ TypeOK
    /\ HeadersKnown
    /\ UnwrittenHasNoHeader
    /\ DirtyEntriesResolve

(***************************************************************************)
(* A session starts with well-typed entries, whatever file it continues.   *)
(***************************************************************************)
LEMMA RegistryOfFileType ==
    ASSUME NEW old \in Seq(XrefEntryInput)
    PROVE  /\ RegistryOfFile(old) \in Seq(ObjectWriteInformation)
           /\ Len(RegistryOfFile(old)) >= 1
           /\ Len(RegistryOfFile(old)) >= Len(old)
           /\ \A i \in 1 .. Len(RegistryOfFile(old)) :
                 RegistryOfFile(old)[i].dirty => RegistryOfFile(old)[i].type = "Free"
<1> DEFINE n == IF old = <<>> THEN 1 ELSE Len(old)
<1>1. n \in Nat /\ n >= 1 /\ n >= Len(old)
  <2>1. old # <<>> => Len(old) >= 1
    OBVIOUS
  <2>. QED BY <2>1
<1>2. ASSUME NEW i \in 1 .. n, i # 1
      PROVE  /\ ExistingItem(old[i]) \in ObjectWriteInformation
             /\ ~ExistingItem(old[i]).dirty
  <2>1. old[i] \in XrefEntryInput
    BY <1>2
  <2>. QED
    BY <2>1, ConstantsAssumption
       DEF XrefEntryInput, ExistingItem, ObjectWriteInformation, ObjectReferenceTypes
<1>3. /\ SingleFreeObject \in ObjectWriteInformation
      /\ SingleFreeObject.type = "Free"
  BY ConstantsAssumption DEF SingleFreeObject, ObjectWriteInformation, ObjectReferenceTypes
<1>4. RegistryOfFile(old) =
        [i \in 1 .. n |-> IF i = 1 THEN SingleFreeObject ELSE ExistingItem(old[i])]
  BY DEF RegistryOfFile
<1>. HIDE DEF n
<1>5. RegistryOfFile(old) \in [1 .. n -> ObjectWriteInformation]
  BY <1>1, <1>2, <1>3, <1>4
<1>6. RegistryOfFile(old) \in Seq(ObjectWriteInformation) /\ Len(RegistryOfFile(old)) = n
  BY <1>1, <1>5
<1>7. \A i \in 1 .. n :
         RegistryOfFile(old)[i].dirty => RegistryOfFile(old)[i].type = "Free"
  BY <1>2, <1>3, <1>4
<1>. QED BY <1>1, <1>6, <1>7

LEMMA InitIInv == Init => IInv
<1> SUFFICES ASSUME NEW file \in OriginalFiles, StartSession(file)
             PROVE  IInv
  BY DEF Init
<1> USE DEF StartSession
<1>1. /\ file.headers \in Seq(Header)
      /\ file.xref \in Seq(XrefEntryInput)
      /\ file.asStream \in BOOLEAN
      /\ \A h \in 1 .. Len(file.headers) : file.headers[h].id < Len(file.xref)
  BY OriginalFilesAssumption
<1>2. /\ registry \in Seq(ObjectWriteInformation)
      /\ Len(registry) >= 1
      /\ Len(registry) >= Len(file.xref)
      /\ \A i \in 1 .. Len(registry) : registry[i].dirty => registry[i].type = "Free"
  BY <1>1, RegistryOfFileType
<1>3. TypeOK
  BY <1>1, <1>2 DEF TypeOK
<1>4. HeadersKnown
  <2> SUFFICES ASSUME NEW h \in 1 .. Len(headers)
               PROVE  headers[h].id < Len(registry)
    BY DEF HeadersKnown
  <2>1. headers[h] \in Header
    BY <1>1
  <2>. QED BY <1>1, <1>2, <2>1 DEF Header
<1>5. UnwrittenHasNoHeader
  BY <1>2 DEF UnwrittenHasNoHeader, ObjectIDs, GetObjectsCount
<1>6. DirtyEntriesResolve
  BY <1>2 DEF DirtyEntriesResolve, ObjectIDs, GetObjectsCount, GetNthObjectReference
<1>. QED BY <1>3, <1>4, <1>5, <1>6 DEF IInv

(***************************************************************************)
(* What the three updates of an entry leave behind.                        *)
(***************************************************************************)
LEMMA WrittenUpdate ==
    ASSUME NEW e \in ObjectWriteInformation, NEW p \in Nat
    PROVE  LET new == [e EXCEPT !.dirty = TRUE, !.position = p, !.written = TRUE]
           IN new \in ObjectWriteInformation /\ new.position = p /\ new.written
<1>1. [e EXCEPT !.dirty = TRUE, !.position = p, !.written = TRUE] \in ObjectWriteInformation
  BY DEF ObjectWriteInformation
<1>2. [e EXCEPT !.dirty = TRUE, !.position = p, !.written = TRUE].position = p
  BY DEF ObjectWriteInformation
<1>3. [e EXCEPT !.dirty = TRUE, !.position = p, !.written = TRUE].written
  BY DEF ObjectWriteInformation
<1>. QED BY <1>1, <1>2, <1>3

LEMMA NewlyWrittenUpdate ==
    ASSUME NEW e \in ObjectWriteInformation, NEW p \in Nat
    PROVE  LET new == [e EXCEPT !.position = p, !.written = TRUE]
           IN new \in ObjectWriteInformation /\ new.position = p /\ new.written
<1>1. [e EXCEPT !.position = p, !.written = TRUE] \in ObjectWriteInformation
  BY DEF ObjectWriteInformation
<1>2. [e EXCEPT !.position = p, !.written = TRUE].position = p
  BY DEF ObjectWriteInformation
<1>3. [e EXCEPT !.position = p, !.written = TRUE].written
  BY DEF ObjectWriteInformation
<1>. QED BY <1>1, <1>2, <1>3

LEMMA ModifiedUpdate ==
    ASSUME NEW e \in ObjectWriteInformation, NEW p \in Nat, e.written
    PROVE  LET new == [e EXCEPT !.dirty = TRUE, !.position = p, !.type = "Used"]
           IN new \in ObjectWriteInformation /\ new.position = p /\ new.written
<1>1. [e EXCEPT !.dirty = TRUE, !.position = p, !.type = "Used"] \in ObjectWriteInformation
  BY DEF ObjectWriteInformation, ObjectReferenceTypes
<1>2. [e EXCEPT !.dirty = TRUE, !.position = p, !.type = "Used"].position = p
  BY DEF ObjectWriteInformation
<1>3. [e EXCEPT !.dirty = TRUE, !.position = p, !.type = "Used"].written = e.written
  BY DEF ObjectWriteInformation
<1>. QED BY <1>1, <1>2, <1>3

LEMMA DeletedUpdate ==
    ASSUME NEW e \in ObjectWriteInformation, e.generation # MaxGeneration
    PROVE  LET new == [e EXCEPT !.dirty = TRUE, !.generation = @ + 1,
                                !.position = 0, !.type = "Free"]
           IN /\ new \in ObjectWriteInformation
              /\ new.type = "Free"
              /\ new.written = e.written
<1>1. e.generation + 1 \in 0 .. MaxGeneration
  BY ConstantsAssumption DEF ObjectWriteInformation
<1>2. [e EXCEPT !.dirty = TRUE, !.generation = @ + 1, !.position = 0, !.type = "Free"]
        \in ObjectWriteInformation
  BY <1>1 DEF ObjectWriteInformation, ObjectReferenceTypes
<1>3. [e EXCEPT !.dirty = TRUE, !.generation = @ + 1, !.position = 0, !.type = "Free"].type
        = "Free"
  BY DEF ObjectWriteInformation
<1>4. [e EXCEPT !.dirty = TRUE, !.generation = @ + 1, !.position = 0, !.type = "Free"].written
        = e.written
  BY DEF ObjectWriteInformation
<1>. QED BY <1>2, <1>3, <1>4

(***************************************************************************)
(* Writing the header of id at the end of the file: other objects keep     *)
(* their newest header.                                                    *)
(***************************************************************************)
LEMMA AppendedHeader ==
    ASSUME TypeOK, NEW id \in Nat, WriteHeader(id)
    PROVE  /\ headers' \in Seq(Header)
           /\ Len(headers') = Len(headers) + 1
           /\ headers'[Len(headers) + 1].id = id
           /\ \A h \in 1 .. Len(headers) : headers'[h] = headers[h]
           /\ IsNewestHeader(headers', Len(headers) + 1, id)
           /\ \A other \in Nat \ {id}, h \in Nat :
                 IsNewestHeader(headers, h, other) => IsNewestHeader(headers', h, other)
<1> USE DEF WriteHeader
<1>0. headers \in Seq(Header) /\ [id |-> id, generation |-> 0] \in Header
  BY ConstantsAssumption DEF TypeOK, Header
<1>1. /\ headers' \in Seq(Header)
      /\ Len(headers') = Len(headers) + 1
      /\ headers'[Len(headers) + 1].id = id
      /\ \A h \in 1 .. Len(headers) : headers'[h] = headers[h]
  BY <1>0
<1>2. IsNewestHeader(headers', Len(headers) + 1, id)
  BY <1>0, <1>1 DEF IsNewestHeader
<1>3. ASSUME NEW other \in Nat \ {id}, NEW h \in Nat, IsNewestHeader(headers, h, other)
      PROVE  IsNewestHeader(headers', h, other)
  BY <1>0, <1>1, <1>3 DEF IsNewestHeader
<1>. QED BY <1>1, <1>2, <1>3

(***************************************************************************)
(* One entry changes and the header of its object is written: the shape of *)
(* StartAllocatedIndirectObject and StartModifiedIndirectObject.           *)
(***************************************************************************)
LEMMA WrittenEntry ==
    ASSUME IInv, NEW id \in ObjectIDs, WriteHeader(id),
           UNCHANGED firstNewID,
           NEW entry \in ObjectWriteInformation,
           registry' = [registry EXCEPT ![id + 1] = entry],
           entry.position = Len(headers) + 1,
           entry.written,
           UNCHANGED validate
    PROVE  IInv'
<1> USE DEF ObjectIDs, GetObjectsCount, GetNthObjectReference
<1>1. TypeOK /\ id \in Nat /\ id + 1 \in 1 .. Len(registry)
  BY DEF IInv, TypeOK
<1>2. /\ registry' \in Seq(ObjectWriteInformation)
      /\ Len(registry') = Len(registry)
      /\ registry'[id + 1] = entry
      /\ \A i \in 1 .. Len(registry) : i # id + 1 => registry'[i] = registry[i]
  BY <1>1 DEF TypeOK
<1>3. TypeOK'
  BY <1>1, <1>2, AppendedHeader DEF TypeOK
<1>4. HeadersKnown'
  BY <1>1, <1>2, AppendedHeader DEF IInv, HeadersKnown
<1>5. UnwrittenHasNoHeader'
  <2> SUFFICES ASSUME NEW other \in 0 .. Len(registry) - 1, other >= firstNewID,
                      ~registry'[other + 1].written,
                      NEW h \in 1 .. Len(headers')
               PROVE  headers'[h].id # other
    BY <1>2 DEF UnwrittenHasNoHeader
  <2>1. other # id
    BY <1>2
  <2>2. registry'[other + 1] = registry[other + 1]
    BY <1>1, <1>2, <2>1
  <2>3. \A k \in 1 .. Len(headers) : headers[k].id # other
    BY <2>2 DEF IInv, UnwrittenHasNoHeader
  <2>. QED BY <1>1, <2>1, <2>3, AppendedHeader DEF TypeOK
<1>6. DirtyEntriesResolve'
  <2> SUFFICES ASSUME NEW other \in 0 .. Len(registry) - 1,
                      registry'[other + 1].dirty, registry'[other + 1].written,
                      registry'[other + 1].type = "Used"
               PROVE  IsNewestHeader(headers', registry'[other + 1].position, other)
    BY <1>2 DEF DirtyEntriesResolve
  <2>1. CASE other = id
    BY <1>1, <1>2, <2>1, AppendedHeader
  <2>2. CASE other # id
    <3>1. registry'[other + 1] = registry[other + 1]
      BY <1>1, <1>2, <2>2
    <3>2. IsNewestHeader(headers, registry[other + 1].position, other)
      BY <3>1 DEF IInv, DirtyEntriesResolve
    <3>3. registry[other + 1].position \in Nat
      <4>1. registry[other + 1] \in ObjectWriteInformation
        BY <1>1 DEF TypeOK
      <4>. QED BY <4>1 DEF ObjectWriteInformation
    <3>. QED BY <1>1, <2>2, <3>1, <3>2, <3>3, AppendedHeader
  <2>. QED BY <2>1, <2>2
<1>. QED BY <1>3, <1>4, <1>5, <1>6 DEF IInv

(***************************************************************************)
(* An entry is appended to the registry and the file does not change.      *)
(***************************************************************************)
LEMMA AllocatedEntry ==
    ASSUME IInv,
           registry' = Append(registry, NewObject),
           UNCHANGED <<headers, validate, firstNewID>>
    PROVE  IInv'
<1> USE DEF ObjectIDs, GetObjectsCount, GetNthObjectReference
<1>1. NewObject \in ObjectWriteInformation /\ ~NewObject.written
  BY ConstantsAssumption DEF NewObject, ObjectWriteInformation, ObjectReferenceTypes
<1>2. TypeOK
  BY DEF IInv
<1>3. /\ registry' \in Seq(ObjectWriteInformation)
      /\ Len(registry') = Len(registry) + 1
      /\ registry'[Len(registry) + 1] = NewObject
      /\ \A i \in 1 .. Len(registry) : registry'[i] = registry[i]
  BY <1>1, <1>2 DEF TypeOK
<1>4. TypeOK'
  BY <1>2, <1>3 DEF TypeOK
<1>5. HeadersKnown'
  <2> SUFFICES ASSUME NEW h \in 1 .. Len(headers) PROVE headers[h].id < Len(registry')
    BY DEF HeadersKnown
  <2>1. headers[h] \in Header /\ headers[h].id < Len(registry)
    BY <1>2 DEF IInv, TypeOK, HeadersKnown
  <2>2. headers[h].id \in Nat
    BY <2>1 DEF Header
  <2>. QED BY <1>2, <1>3, <2>1, <2>2 DEF TypeOK
<1>6. UnwrittenHasNoHeader'
  <2> SUFFICES ASSUME NEW id \in 0 .. Len(registry), id >= firstNewID,
                      ~registry'[id + 1].written,
                      NEW h \in 1 .. Len(headers)
               PROVE  headers[h].id # id
    BY <1>3 DEF UnwrittenHasNoHeader
  <2>1. CASE id = Len(registry)
    BY <1>2, <2>1 DEF IInv, TypeOK, HeadersKnown, Header
  <2>2. CASE id # Len(registry)
    BY <1>2, <1>3, <2>2 DEF IInv, TypeOK, UnwrittenHasNoHeader
  <2>. QED BY <2>1, <2>2
<1>7. DirtyEntriesResolve'
  <2> SUFFICES ASSUME NEW id \in 0 .. Len(registry),
                      registry'[id + 1].dirty, registry'[id + 1].written,
                      registry'[id + 1].type = "Used"
               PROVE  IsNewestHeader(headers, registry'[id + 1].position, id)
    BY <1>3 DEF DirtyEntriesResolve
  <2>1. id # Len(registry)
    BY <1>1, <1>3
  <2>. QED BY <1>2, <1>3, <2>1 DEF IInv, DirtyEntriesResolve
<1>. QED BY <1>4, <1>5, <1>6, <1>7 DEF IInv

(***************************************************************************)
(* StartNewIndirectObject appends an entry that is written already.        *)
(***************************************************************************)
LEMMA StartedEntry ==
    ASSUME IInv,
           registry' = Append(registry, [NewObject EXCEPT
                                 !.position = CurrentPosition, !.written = TRUE]),
           WriteHeader(GetObjectsCount),
           UNCHANGED <<validate, firstNewID>>
    PROVE  IInv'
<1> USE DEF ObjectIDs, GetObjectsCount, GetNthObjectReference
<1> DEFINE entry == [NewObject EXCEPT !.position = CurrentPosition, !.written = TRUE]
<1>1. TypeOK /\ Len(registry) \in Nat
  BY DEF IInv, TypeOK
<1>2. /\ entry \in ObjectWriteInformation
      /\ entry.written
      /\ entry.position = Len(headers) + 1
  <2>1. CurrentPosition = Len(headers) + 1 /\ CurrentPosition \in Nat
    BY <1>1 DEF CurrentPosition, TypeOK
  <2>2. NewObject \in ObjectWriteInformation
    BY ConstantsAssumption DEF NewObject, ObjectWriteInformation, ObjectReferenceTypes
  <2>. QED BY <2>1, <2>2, NewlyWrittenUpdate
<1>3. registry' = Append(registry, entry)
  OBVIOUS
<1> HIDE DEF entry
<1>4. /\ registry' \in Seq(ObjectWriteInformation)
      /\ Len(registry') = Len(registry) + 1
      /\ registry'[Len(registry) + 1] = entry
      /\ \A i \in 1 .. Len(registry) : registry'[i] = registry[i]
  BY <1>1, <1>2, <1>3 DEF TypeOK
<1>5. TypeOK'
  BY <1>1, <1>4, AppendedHeader DEF TypeOK
<1>6. HeadersKnown'
  <2> SUFFICES ASSUME NEW h \in 1 .. Len(headers) + 1
               PROVE  headers'[h].id < Len(registry) + 1
    BY <1>1, <1>4, AppendedHeader DEF HeadersKnown
  <2>1. CASE h = Len(headers) + 1
    BY <1>1, <2>1, AppendedHeader
  <2>2. CASE h # Len(headers) + 1
    <3>1. h \in 1 .. Len(headers)
      BY <1>1, <2>2 DEF TypeOK
    <3>2. headers[h] \in Header /\ headers[h].id < Len(registry)
      BY <1>1, <3>1 DEF IInv, TypeOK, HeadersKnown
    <3>3. headers[h].id \in Nat
      BY <3>2 DEF Header
    <3>4. headers'[h] = headers[h]
      BY <1>1, <3>1, AppendedHeader
    <3>. QED BY <1>1, <3>2, <3>3, <3>4
  <2>. QED BY <2>1, <2>2
<1>7. UnwrittenHasNoHeader'
  <2> SUFFICES ASSUME NEW id \in 0 .. Len(registry), id >= firstNewID,
                      ~registry'[id + 1].written,
                      NEW h \in 1 .. Len(headers')
               PROVE  headers'[h].id # id
    BY <1>4 DEF UnwrittenHasNoHeader
  <2>1. id # Len(registry)
    BY <1>2, <1>4
  <2>2. \A k \in 1 .. Len(headers) : headers[k].id # id
    BY <1>1, <1>4, <2>1 DEF IInv, UnwrittenHasNoHeader
  <2>. QED BY <1>1, <2>1, <2>2, AppendedHeader, SMTT(30) DEF TypeOK
<1>8. DirtyEntriesResolve'
  <2> SUFFICES ASSUME NEW id \in 0 .. Len(registry),
                      registry'[id + 1].dirty, registry'[id + 1].written,
                      registry'[id + 1].type = "Used"
               PROVE  IsNewestHeader(headers', registry'[id + 1].position, id)
    BY <1>4 DEF DirtyEntriesResolve
  <2>1. CASE id = Len(registry)
    BY <1>1, <1>2, <1>4, <2>1, AppendedHeader
  <2>2. CASE id # Len(registry)
    <3>1. registry[id + 1] \in ObjectWriteInformation /\ registry'[id + 1] = registry[id + 1]
      BY <1>1, <1>4, <2>2 DEF TypeOK
    <3>2. IsNewestHeader(headers, registry[id + 1].position, id)
      BY <2>2, <3>1 DEF IInv, DirtyEntriesResolve
    <3>3. registry[id + 1].position \in Nat
      BY <3>1 DEF ObjectWriteInformation
    <3>. QED BY <1>1, <2>2, <3>1, <3>2, <3>3, AppendedHeader
  <2>. QED BY <2>1, <2>2
<1>. QED BY <1>5, <1>6, <1>7, <1>8 DEF IInv

(***************************************************************************)
(* Every step of the client keeps the invariant.                           *)
(***************************************************************************)
LEMMA NextIInv == IInv /\ [Next]_vars => IInv'
<1> SUFFICES ASSUME IInv, [Next]_vars PROVE IInv'
  OBVIOUS
<1> USE DEF ObjectIDs, GetObjectsCount, GetNthObjectReference
<1>0. TypeOK
  BY DEF IInv
<1>t. \A i \in 1 .. Len(registry) : registry[i] \in ObjectWriteInformation
  BY <1>0 DEF TypeOK
<1>p. CurrentPosition = Len(headers) + 1 /\ CurrentPosition \in Nat
  BY <1>0 DEF CurrentPosition, TypeOK
<1>1. CASE AllocateNewObjectID
  BY <1>1, AllocatedEntry DEF AllocateNewObjectID
<1>2. CASE StartNewIndirectObject
  BY <1>2, AllocatedEntry, StartedEntry DEF StartNewIndirectObject
<1>3. ASSUME NEW id \in ObjectIDs, StartAllocatedIndirectObject(id) PROVE IInv'
  <2> DEFINE entry == [registry[id + 1] EXCEPT !.dirty = TRUE,
                                               !.position = CurrentPosition,
                                               !.written = TRUE]
  <2>1. /\ entry \in ObjectWriteInformation
        /\ entry.position = Len(headers) + 1
        /\ entry.written
    <3>1. registry[id + 1] \in ObjectWriteInformation
      BY <1>0, <1>t DEF TypeOK
    <3>. QED BY <1>p, <3>1, WrittenUpdate
  <2>2. registry' = [registry EXCEPT ![id + 1] = entry]
    BY <1>3 DEF StartAllocatedIndirectObject, MarkObjectAsWritten
  <2>3. WriteHeader(id) /\ UNCHANGED <<validate, firstNewID>>
    BY <1>3 DEF StartAllocatedIndirectObject
  <2> HIDE DEF entry
  <2>. QED BY <2>1, <2>2, <2>3, WrittenEntry
<1>4. ASSUME NEW id \in ObjectIDs, StartModifiedIndirectObject(id) PROVE IInv'
  <2> DEFINE entry == [registry[id + 1] EXCEPT !.dirty = TRUE,
                                               !.position = CurrentPosition,
                                               !.type = "Used"]
  <2>1. /\ entry \in ObjectWriteInformation
        /\ entry.position = Len(headers) + 1
        /\ entry.written
    <3>1. registry[id + 1] \in ObjectWriteInformation
      BY <1>0, <1>t DEF TypeOK
    <3>2. registry[id + 1].written
      BY <1>4 DEF StartModifiedIndirectObject
    <3>. QED BY <1>p, <3>1, <3>2, ModifiedUpdate
  <2>2. registry' = [registry EXCEPT ![id + 1] = entry]
    BY <1>4 DEF StartModifiedIndirectObject, MarkObjectAsUpdated
  <2>3. WriteHeader(id) /\ UNCHANGED <<validate, firstNewID>>
    BY <1>4 DEF StartModifiedIndirectObject
  <2> HIDE DEF entry
  <2>. QED BY <2>1, <2>2, <2>3, WrittenEntry
<1>5. ASSUME NEW id \in ObjectIDs, DeleteObject(id) PROVE IInv'
  <2> DEFINE entry == [registry[id + 1] EXCEPT !.dirty = TRUE,
                                               !.generation = @ + 1,
                                               !.position = 0,
                                               !.type = "Free"]
  <2>1. /\ entry \in ObjectWriteInformation
        /\ entry.type = "Free"
        /\ entry.written = registry[id + 1].written
    <3>1. registry[id + 1] \in ObjectWriteInformation
      BY <1>0, <1>t DEF TypeOK
    <3>2. registry[id + 1].generation # MaxGeneration
      BY <1>5 DEF DeleteObject
    <3>. QED BY <3>1, <3>2, DeletedUpdate
  <2>2. /\ registry' = [registry EXCEPT ![id + 1] = entry]
        /\ UNCHANGED <<headers, validate, firstNewID>>
    BY <1>5 DEF DeleteObject
  <2> HIDE DEF entry
  <2>3. /\ registry' \in Seq(ObjectWriteInformation)
        /\ Len(registry') = Len(registry)
        /\ registry'[id + 1] = entry
        /\ \A i \in 1 .. Len(registry) : i # id + 1 => registry'[i] = registry[i]
    BY <1>0, <2>1, <2>2 DEF TypeOK
  <2>4. TypeOK' /\ HeadersKnown'
    BY <1>0, <2>2, <2>3 DEF IInv, TypeOK, HeadersKnown
  <2>5. UnwrittenHasNoHeader'
    BY <2>1, <2>2, <2>3 DEF IInv, UnwrittenHasNoHeader
  <2>6. DirtyEntriesResolve'
    BY <2>1, <2>2, <2>3 DEF IInv, DirtyEntriesResolve
  <2>. QED BY <2>4, <2>5, <2>6 DEF IInv
<1>6. CASE UNCHANGED vars
  BY <1>6
     DEF vars, IInv, TypeOK, HeadersKnown, UnwrittenHasNoHeader, DirtyEntriesResolve
<1>. QED BY <1>1, <1>2, <1>3, <1>4, <1>5, <1>6 DEF Next

(* The inductive invariant holds in every state, in any order of calls of  *)
(* IndirectObjectsReferenceRegistry and ObjectsContext.                    *)
THEOREM InductiveInvariant == Spec => []IInv
<1>. QED BY InitIInv, NextIInv, PTL DEF Spec

-----------------------------------------------------------------------------
(* The registry, the headers and the session's first ID keep their types,  *)
(* generation numbers their limit of 65535 among them.                     *)
THEOREM TypeCorrect == Spec => []TypeOK
<1>1. IInv => TypeOK
  BY DEF IInv
<1>. QED BY <1>1, InductiveInvariant, PTL

(* Every used and written entry that the next section will list has the    *)
(* position of the newest header of its own object.                        *)
THEOREM EntriesResolve == Spec => []DirtyEntriesResolve
<1>1. IInv => DirtyEntriesResolve
  BY DEF IInv
<1>. QED BY <1>1, InductiveInvariant, PTL

(* An ID of this session not marked as written has no object in the file.  *)
THEOREM NothingUnregistered == Spec => []UnwrittenHasNoHeader
<1>1. IInv => UnwrittenHasNoHeader
  BY DEF IInv
<1>. QED BY <1>1, InductiveInvariant, PTL

(* No object is begun as new when the file has an object of its ID.        *)
THEOREM WrittenOnce == Spec => NewObjectsWrittenOnce
<1> DEFINE Once == \A id \in ObjectIDs :
                      StartAllocatedIndirectObject(id) =>
                          \A h \in 1 .. Len(headers) : headers[h].id # id
<1>1. IInv => Once
  BY DEF IInv, UnwrittenHasNoHeader, StartAllocatedIndirectObject, MarkObjectAsWrittenSucceeds
<1>2. IInv /\ [Next]_vars => [Once]_vars
  BY <1>1
<1>. QED BY <1>2, InductiveInvariant, PTL DEF Spec, NewObjectsWrittenOnce

(***************************************************************************)
(* One step moves the position of id only with a header of id, or to 0.    *)
(***************************************************************************)
Follows(id) ==
    registry'[id + 1].position # registry[id + 1].position =>
        \/ registry'[id + 1].type = "Free" /\ registry'[id + 1].position = 0
        \/ /\ Len(headers') = Len(headers) + 1
           /\ registry'[id + 1].position = Len(headers')
           /\ headers'[Len(headers')].id = id

LEMMA PositionsMoveWithHeaders ==
    ASSUME IInv, Next, NEW other \in ObjectIDs
    PROVE  Follows(other)
<1> USE DEF ObjectIDs, GetObjectsCount, GetNthObjectReference
<1>1. /\ TypeOK
      /\ registry \in Seq(ObjectWriteInformation)
      /\ other \in Nat /\ other + 1 \in 1 .. Len(registry)
  BY DEF IInv, TypeOK
<1>2. CASE AllocateNewObjectID \/ StartNewIndirectObject
  <2>1. PICK entry : registry' = Append(registry, entry)
    BY <1>2 DEF AllocateNewObjectID, StartNewIndirectObject
  <2>2. registry'[other + 1] = registry[other + 1]
    BY <1>1, <2>1
  <2>. QED BY <2>2 DEF Follows
<1>3. ASSUME NEW id \in ObjectIDs, id # other,
             NEW entry, registry' = [registry EXCEPT ![id + 1] = entry]
      PROVE  Follows(other)
  <2>1. registry'[other + 1] = registry[other + 1]
    BY <1>1, <1>3
  <2>. QED BY <2>1 DEF Follows
<1>4. ASSUME WriteHeader(other), NEW entry \in ObjectWriteInformation,
             entry.position = CurrentPosition,
             registry' = [registry EXCEPT ![other + 1] = entry]
      PROVE  Follows(other)
  <2>1. registry'[other + 1].position = Len(headers) + 1
    BY <1>1, <1>4 DEF CurrentPosition
  <2>2. Len(headers') = Len(headers) + 1 /\ headers'[Len(headers) + 1].id = other
    BY <1>1, <1>4, AppendedHeader
  <2>. QED BY <2>1, <2>2 DEF Follows
<1>5. ASSUME NEW id \in ObjectIDs, StartAllocatedIndirectObject(id) PROVE Follows(other)
  <2> DEFINE entry == [registry[id + 1] EXCEPT !.dirty = TRUE,
                                               !.position = CurrentPosition,
                                               !.written = TRUE]
  <2>1. registry' = [registry EXCEPT ![id + 1] = entry] /\ WriteHeader(id)
    BY <1>5 DEF StartAllocatedIndirectObject, MarkObjectAsWritten
  <2>2. entry \in ObjectWriteInformation /\ entry.position = CurrentPosition
    <3>1. registry[id + 1] \in ObjectWriteInformation /\ CurrentPosition \in Nat
      BY <1>1 DEF CurrentPosition
    <3>. QED BY <3>1, WrittenUpdate
  <2> HIDE DEF entry
  <2>. QED BY <1>3, <1>4, <2>1, <2>2
<1>6. ASSUME NEW id \in ObjectIDs, StartModifiedIndirectObject(id) PROVE Follows(other)
  <2> DEFINE entry == [registry[id + 1] EXCEPT !.dirty = TRUE,
                                               !.position = CurrentPosition,
                                               !.type = "Used"]
  <2>1. registry' = [registry EXCEPT ![id + 1] = entry] /\ WriteHeader(id)
    BY <1>6 DEF StartModifiedIndirectObject, MarkObjectAsUpdated
  <2>2. entry \in ObjectWriteInformation /\ entry.position = CurrentPosition
    <3>1. registry[id + 1] \in ObjectWriteInformation /\ CurrentPosition \in Nat
      BY <1>1 DEF CurrentPosition
    <3>2. registry[id + 1].written
      BY <1>6 DEF StartModifiedIndirectObject
    <3>. QED BY <3>1, <3>2, ModifiedUpdate
  <2> HIDE DEF entry
  <2>. QED BY <1>3, <1>4, <2>1, <2>2
<1>7. ASSUME NEW id \in ObjectIDs, DeleteObject(id) PROVE Follows(other)
  <2> DEFINE entry == [registry[id + 1] EXCEPT !.dirty = TRUE,
                                               !.generation = @ + 1,
                                               !.position = 0,
                                               !.type = "Free"]
  <2>1. registry' = [registry EXCEPT ![id + 1] = entry]
    BY <1>7 DEF DeleteObject
  <2>2. entry.type = "Free" /\ entry.position = 0
    <3>1. registry[id + 1] \in ObjectWriteInformation
      BY <1>1
    <3>. QED BY <3>1 DEF ObjectWriteInformation
  <2> HIDE DEF entry
  <2>3. CASE id # other
    BY <1>3, <2>1, <2>3
  <2>4. CASE id = other
    BY <1>1, <2>1, <2>2, <2>4 DEF Follows
  <2>. QED BY <2>3, <2>4
<1>. QED BY <1>2, <1>5, <1>6, <1>7 DEF Next

(* A position moves only to a header of its own object, written in the     *)
(* same step, or to 0 when the object is freed; and no object is begun as  *)
(* new when the file has one of its ID.                                    *)
THEOREM HistoryHolds == Spec => HistoryIsKept
<1> DEFINE Moves == \A id \in ObjectIDs :
                       registry'[id + 1].position # registry[id + 1].position =>
                           \/ registry'[id + 1].type = "Free" /\ registry'[id + 1].position = 0
                           \/ /\ Len(headers') = Len(headers) + 1
                              /\ registry'[id + 1].position = Len(headers')
                              /\ headers'[Len(headers')].id = id
<1>1. IInv /\ [Next]_vars => [Moves]_vars
  BY PositionsMoveWithHeaders DEF Follows
<1>2. Spec => PositionsFollowHeaders
  BY <1>1, InductiveInvariant, PTL DEF Spec, PositionsFollowHeaders
<1>. QED BY <1>2, WrittenOnce DEF HistoryIsKept

(* The registry is sound at any time: what the three theorems before say.  *)
THEOREM RegistryHolds == Spec => []RegistryIsSound
<1>1. IInv => RegistryIsSound
  BY DEF IInv, RegistryIsSound
<1>. QED BY <1>1, InductiveInvariant, PTL

-----------------------------------------------------------------------------
(***************************************************************************)
(* Induction, with the sets that the library's theorem about minima takes. *)
(***************************************************************************)

(* A set of numbers that is not empty has a least one.                     *)
LEMMA LeastNumber ==
    ASSUME NEW T, T \subseteq Nat, T # {}
    PROVE  \E x \in T : \A y \in T : x <= y
  <1> DEFINE Less == OpToRel(<, Nat)
  <1>1. IsWellFoundedOn(Less, Nat)
    BY NatLessThanWellFounded
  <1>2. \A x, y \in Nat : x < y => <<x, y>> \in Less
    BY DEF OpToRel
  <1> HIDE DEF Less
  <1>3. PICK x \in T : \A y \in T : ~ (<<y, x>> \in Less)
    BY <1>1, WFMin
  <1>4. \A y \in T : ~ (y < x)
    BY <1>2, <1>3
  <1> QED
    BY <1>3, <1>4

(* A set with 0 in it, and with each of its numbers the next, has them all.*)
LEMMA Induction ==
    ASSUME NEW S, 0 \in S, \A n \in Nat : n \in S => n + 1 \in S
    PROVE  \A n \in Nat : n \in S
  <1> SUFFICES ASSUME NEW k \in Nat \ S PROVE FALSE
    OBVIOUS
  <1>1. PICK x \in Nat \ S : \A y \in Nat \ S : x <= y
    BY LeastNumber
  <1>2. x - 1 \in Nat
    BY <1>1
  <1> QED
    BY <1>1, <1>2

(* The same from 0 to a limit.                                             *)
LEMMA InductionUpTo ==
    ASSUME NEW S, NEW n \in Nat, 0 \in S, \A k \in 0 .. n - 1 : k \in S => k + 1 \in S
    PROVE  \A k \in 0 .. n : k \in S
  <1> DEFINE T == {k \in Nat : k <= n => k \in S}
  <1>1. 0 \in T
    OBVIOUS
  <1>2. \A k \in Nat : k \in T => k + 1 \in T
    OBVIOUS
  <1> HIDE DEF T
  <1>3. \A k \in Nat : k \in T
    BY <1>1, <1>2, Induction
  <1> QED
    BY <1>3 DEF T

(* A step after the other gives a function.                                *)
Steps(f, V, base, n, step) ==
    /\ f \in [0 .. n -> V] /\ f[0] = base
    /\ \A k \in 1 .. n : f[k] = step[<<k, f[k - 1]>>]

LEMMA Recursion ==
    ASSUME NEW V, NEW base, base \in V, NEW n, n \in Nat, NEW step, step \in [(1 .. n) \X V -> V]
    PROVE  \E f : Steps(f, V, base, n, step)
  <1> DEFINE UpTo(f, m) == /\ f \in [0 .. m -> V] /\ f[0] = base
                           /\ \A k \in 1 .. m : f[k] = step[<<k, f[k - 1]>>]
             S == {m \in 0 .. n : \E f : UpTo(f, m)}
  <1> HIDE DEF UpTo
  <1>1. 0 \in S
    <2>1. UpTo([k \in 0 .. 0 |-> base], 0)
      BY DEF UpTo
    <2> QED
      BY <2>1
  <1>2. ASSUME NEW m \in 0 .. n - 1, m \in S
        PROVE  m + 1 \in S
    <2>1. PICK f : UpTo(f, m)
      BY <1>2
    <2> DEFINE last == step[<<m + 1, f[m]>>]
               g == [k \in 0 .. m + 1 |-> IF k <= m THEN f[k] ELSE last]
    <2>2. f[m] \in V /\ m + 1 \in 1 .. n
      BY <2>1 DEF UpTo
    <2>3. last \in V
      BY <2>2
    <2> HIDE DEF last
    <2>4. g \in [0 .. m + 1 -> V] /\ g[0] = base
      BY <2>1, <2>3 DEF UpTo
    <2>5. \A k \in 1 .. m + 1 : g[k] = step[<<k, g[k - 1]>>]
      <3> SUFFICES ASSUME NEW k \in 1 .. m + 1 PROVE g[k] = step[<<k, g[k - 1]>>]
        OBVIOUS
      <3>1. g[k - 1] = f[k - 1] /\ g[k] = IF k <= m THEN f[k] ELSE last
        OBVIOUS
      <3> HIDE DEF g
      <3>2. CASE k <= m
        <4>1. k \in 1 .. m
          BY <3>2
        <4> QED
          BY <2>1, <3>1, <3>2, <4>1 DEF UpTo
      <3>3. CASE k = m + 1
        <4>1. ~(k <= m) /\ k - 1 = m
          BY <3>3
        <4> QED
          BY <3>1, <3>3, <4>1 DEF last
      <3> QED
        BY <3>2, <3>3
    <2> HIDE DEF g
    <2>6. UpTo(g, m + 1)
      BY <2>4, <2>5 DEF UpTo
    <2> QED
      BY <2>6
  <1> HIDE DEF S
  <1>3. \A m \in 0 .. n : m \in S
    BY <1>1, <1>2, InductionUpTo
  <1>4. PICK f : UpTo(f, n)
    BY <1>3 DEF S
  <1> QED
    BY <1>4 DEF UpTo, Steps

LEMMA MinIs ==
    ASSUME NEW S, S \subseteq Nat, S # {}
    PROVE  Min(S) \in S /\ \A y \in S : Min(S) <= y
  BY LeastNumber DEF Min
-----------------------------------------------------------------------------
(***************************************************************************)
(* The rank of an ID: how many entries below it the section has.           *)
(***************************************************************************)
Ranks(reg, rank) ==
    /\ rank \in [0 .. Len(reg) -> Nat] /\ rank[0] = 0
    /\ \A id \in 0 .. Len(reg) - 1 : rank[id + 1] = rank[id] + (IF IsDirty(reg, id) THEN 1 ELSE 0)

LEMMA RanksExist ==
    ASSUME NEW reg, Len(reg) \in Nat
    PROVE  \E rank : Ranks(reg, rank)
  <1>0. PICK n \in Nat : n = Len(reg)
    OBVIOUS
  <1> DEFINE step == [p \in (1 .. n) \X Nat |-> p[2] + (IF IsDirty(reg, p[1] - 1) THEN 1 ELSE 0)]
  <1>1. step \in [(1 .. n) \X Nat -> Nat]
    OBVIOUS
  <1>2. \A k \in 1 .. n, v \in Nat : step[<<k, v>>] = v + (IF IsDirty(reg, k - 1) THEN 1 ELSE 0)
    OBVIOUS
  <1> HIDE DEF step
  <1>3. PICK f : Steps(f, Nat, 0, n, step)
    BY <1>1, Recursion
  <1>4. ASSUME NEW id \in 0 .. n - 1
        PROVE  f[id + 1] = f[id] + (IF IsDirty(reg, id) THEN 1 ELSE 0)
    <2>1. id + 1 \in 1 .. n /\ (id + 1) - 1 = id /\ f[id] \in Nat
      BY <1>3 DEF Steps
    <2> QED
      BY <1>2, <1>3, <2>1 DEF Steps
  <1>5. Ranks(reg, f)
    BY <1>0, <1>3, <1>4 DEF Ranks, Steps
  <1> QED
    BY <1>5

LEMMA RanksGrow ==
    ASSUME NEW reg, Len(reg) \in Nat, NEW rank, Ranks(reg, rank)
    PROVE  \A j \in 0 .. Len(reg) : \A i \in 0 .. j : rank[i] <= rank[j]
  <1> DEFINE S == {j \in 0 .. Len(reg) : \A i \in 0 .. j : rank[i] <= rank[j]}
  <1>1. 0 \in S
    BY DEF Ranks
  <1>2. ASSUME NEW j \in 0 .. Len(reg) - 1, j \in S
        PROVE  j + 1 \in S
    <2>1. rank[j + 1] >= rank[j] /\ rank[j] \in Nat /\ rank[j + 1] \in Nat
      <3>1. j \in 0 .. Len(reg) /\ j + 1 \in 0 .. Len(reg)
        OBVIOUS
      <3>2. rank[j] \in Nat /\ rank[j + 1] \in Nat
        BY <3>1 DEF Ranks
      <3>3. rank[j + 1] = rank[j] + (IF IsDirty(reg, j) THEN 1 ELSE 0)
        BY DEF Ranks
      <3> QED
        BY <3>2, <3>3
    <2>2. ASSUME NEW i \in 0 .. j + 1
          PROVE  rank[i] <= rank[j + 1]
      <3>1. CASE i = j + 1
        BY <2>1, <3>1
      <3>2. CASE i \in 0 .. j
        <4>1. rank[i] <= rank[j] /\ rank[i] \in Nat
          BY <1>2, <3>2 DEF Ranks
        <4> QED
          BY <2>1, <4>1
      <3> QED
        BY <3>1, <3>2
    <2> QED
      BY <2>2
  <1> HIDE DEF S
  <1>3. \A j \in 0 .. Len(reg) : j \in S
    BY <1>1, <1>2, InductionUpTo
  <1> QED
    BY <1>3 DEF S

(* Different entries have different ranks, and each rank is that of one.   *)
LEMMA RanksDiffer ==
    ASSUME NEW reg, Len(reg) \in Nat, NEW rank, Ranks(reg, rank),
           NEW i \in 0 .. Len(reg) - 1, NEW j \in 0 .. Len(reg) - 1,
           IsDirty(reg, i), IsDirty(reg, j), rank[i] = rank[j]
    PROVE  i = j
  <1>1. ASSUME NEW k \in 0 .. Len(reg) - 1, NEW l \in 0 .. Len(reg) - 1, k < l, IsDirty(reg, k)
        PROVE  rank[k] < rank[l]
    <2>1. rank[k + 1] = rank[k] + 1
      BY <1>1 DEF Ranks
    <2>2. rank[k + 1] <= rank[l]
      BY <1>1, RanksGrow
    <2>3. rank[k] \in Nat /\ rank[l] \in Nat
      <3>1. k \in 0 .. Len(reg) /\ l \in 0 .. Len(reg)
        OBVIOUS
      <3> QED
        BY <3>1 DEF Ranks
    <2> QED
      BY <2>1, <2>2, <2>3
  <1>2. rank[i] \in Nat
    BY DEF Ranks
  <1> QED
    BY <1>1, <1>2

LEMMA RanksMeet ==
    ASSUME NEW reg, Len(reg) \in Nat, NEW rank, Ranks(reg, rank)
    PROVE  \A k \in 1 .. rank[Len(reg)] :
              \E id \in 0 .. Len(reg) - 1 : IsDirty(reg, id) /\ rank[id] + 1 = k
  <1> DEFINE Met(m) == \A k \in 1 .. rank[m] : \E id \in 0 .. m - 1 : IsDirty(reg, id) /\ rank[id] + 1 = k
             S == {m \in 0 .. Len(reg) : Met(m)}
  <1>1. 0 \in S
    BY DEF Ranks
  <1>2. ASSUME NEW m \in 0 .. Len(reg) - 1, m \in S
        PROVE  m + 1 \in S
    <2>1. rank[m + 1] = rank[m] + (IF IsDirty(reg, m) THEN 1 ELSE 0) /\ rank[m] \in Nat
      BY DEF Ranks
    <2>2. ASSUME NEW k \in 1 .. rank[m + 1]
          PROVE  \E id \in 0 .. (m + 1) - 1 : IsDirty(reg, id) /\ rank[id] + 1 = k
      <3>1. CASE k \in 1 .. rank[m]
        <4>1. PICK id \in 0 .. m - 1 : IsDirty(reg, id) /\ rank[id] + 1 = k
          BY <1>2, <3>1
        <4>2. id \in 0 .. (m + 1) - 1
          OBVIOUS
        <4> QED
          BY <4>1, <4>2
      <3>2. CASE k \notin 1 .. rank[m]
        <4>1. IsDirty(reg, m) /\ rank[m] + 1 = k
          BY <2>1, <2>2, <3>2
        <4>2. m \in 0 .. (m + 1) - 1
          OBVIOUS
        <4> QED
          BY <4>1, <4>2
      <3> QED
        BY <3>1, <3>2
    <2> QED
      BY <2>2
  <1> HIDE DEF S
  <1>3. \A m \in 0 .. Len(reg) : m \in S
    BY <1>1, <1>2, InductionUpTo
  <1> QED
    BY <1>3 DEF S
-----------------------------------------------------------------------------
(***************************************************************************)
(* The lines.                                                              *)
(***************************************************************************)
Lines == [kind : {"n", "f"}, value : Nat, generation : 0 .. MaxGeneration]

Progress(n) == [lines : Seq(Lines), nextFree : 0 .. n - 1, status : {"success", "failure"}]

LineOf(reg, id) ==
    IF reg[id + 1].type = "Used"
    THEN [kind |-> "n", value |-> reg[id + 1].position, generation |-> reg[id + 1].generation]
    ELSE [kind |-> "f", value |-> NextFreeObject(reg, id), generation |-> reg[id + 1].generation]

IsMissing(reg, id) == IsDirty(reg, id) /\ reg[id + 1].type = "Used" /\ ~reg[id + 1].written

(* The free entries from an ID on, and the first of them, or 0.            *)
FreeFrom(reg, id) == {j \in id .. Len(reg) - 1 : IsDirtyAndFree(reg, j)}
FirstOf(ids) == IF ids = {} THEN 0 ELSE Min(ids)

LEMMA NextFreeIs ==
    ASSUME NEW reg, Len(reg) \in Nat, NEW id \in 0 .. Len(reg) - 1
    PROVE  /\ NextFreeObject(reg, id) = FirstOf(FreeFrom(reg, id + 1))
           /\ NextFreeObject(reg, id) \in 0 .. Len(reg) - 1
  <1> DEFINE later == {i \in id + 1 .. Len(reg) : i = Len(reg) \/ IsDirtyAndFree(reg, i)}
             free == FreeFrom(reg, id + 1)
  <1>1. NextFreeObject(reg, id) = IF Min(later) = Len(reg) THEN 0 ELSE Min(later)
    BY DEF NextFreeObject
  <1>2. later \subseteq Nat /\ Len(reg) \in later /\ later = free \cup {Len(reg)}
    BY DEF FreeFrom
  <1>3. free \subseteq Nat /\ \A i \in free : i < Len(reg)
    BY DEF FreeFrom
  <1> HIDE DEF later, free
  <1>4. Min(later) \in later /\ \A i \in later : Min(later) <= i
    BY <1>2, MinIs
  <1>5. CASE free = {}
    BY <1>1, <1>2, <1>4, <1>5 DEF FirstOf, free
  <1>6. CASE free # {}
    <2>1. Min(free) \in free /\ \A i \in free : Min(free) <= i
      BY <1>3, <1>6, MinIs
    <2>2. Min(later) = Min(free) /\ Min(later) # Len(reg)
      <3>1. PICK a, b : a = Min(later) /\ b = Min(free)
        OBVIOUS
      <3>2. b \in later /\ b < Len(reg) /\ a <= b
        BY <1>2, <1>3, <1>4, <2>1, <3>1
      <3>3. a \in Nat /\ b \in Nat
        BY <1>2, <1>3, <1>4, <2>1, <3>1
      <3>4. a \in free /\ b <= a
        BY <1>2, <1>4, <2>1, <3>1, <3>2, <3>3
      <3> QED
        BY <3>1, <3>2, <3>3, <3>4
    <2> QED
      BY <1>1, <1>3, <1>6, <2>1, <2>2 DEF FirstOf, free
  <1> QED
    BY <1>5, <1>6

LEMMA FirstOfFree ==
    ASSUME NEW reg, Len(reg) \in Nat, NEW id \in 0 .. Len(reg) - 1
    PROVE  /\ IsDirtyAndFree(reg, id) => FirstOf(FreeFrom(reg, id)) = id
           /\ ~IsDirtyAndFree(reg, id) => FreeFrom(reg, id) = FreeFrom(reg, id + 1)
  <1>1. CASE IsDirtyAndFree(reg, id)
    <2>1. id \in FreeFrom(reg, id) /\ FreeFrom(reg, id) \subseteq Nat
          /\ \A j \in FreeFrom(reg, id) : id <= j
      BY <1>1 DEF FreeFrom
    <2>2. Min(FreeFrom(reg, id)) = id
      <3>1. /\ Min(FreeFrom(reg, id)) \in FreeFrom(reg, id)
            /\ \A j \in FreeFrom(reg, id) : Min(FreeFrom(reg, id)) <= j
        BY <2>1, MinIs
      <3> QED
        BY <2>1, <3>1
    <2> QED
      BY <1>1, <2>1, <2>2 DEF FirstOf
  <1>2. CASE ~IsDirtyAndFree(reg, id)
    <2>1. \A j \in Int : j \in id .. Len(reg) - 1 <=> (j = id \/ j \in id + 1 .. Len(reg) - 1)
      OBVIOUS
    <2> QED
      BY <1>2, <2>1 DEF FreeFrom
  <1> QED
    BY <1>1, <1>2

(* An entry has no line, or the next one.                                  *)
LEMMA EntryIsWritten ==
    ASSUME NEW reg \in Seq(ObjectWriteInformation), NEW id \in 0 .. Len(reg) - 1,
           NEW w \in Progress(Len(reg)), NEW next, next = WriteEntry(reg, w, id)
    PROVE  /\ next \in Progress(Len(reg))
           /\ next.status = "success" <=> w.status = "success" /\ ~IsMissing(reg, id)
           /\ ~IsDirty(reg, id) => next = w
           /\ next.status = "success" /\ IsDirty(reg, id) /\ ~IsDirtyAndFree(reg, id) =>
                 next.lines = Append(w.lines, LineOf(reg, id)) /\ next.nextFree = w.nextFree
           /\ next.status = "success" /\ IsDirtyAndFree(reg, id) /\ w.nextFree = id =>
                 /\ next.lines = Append(w.lines, LineOf(reg, id))
                 /\ next.nextFree = NextFreeObject(reg, id)
  <1> DEFINE e == reg[id + 1]
             free == NextFreeObject(reg, w.nextFree)
             used == [kind |-> "n", value |-> e.position, generation |-> e.generation]
             unused == [kind |-> "f", value |-> free, generation |-> e.generation]
  <1>1. e \in ObjectWriteInformation
    BY ElementOfSeq
  <1>2. /\ e.dirty \in BOOLEAN /\ e.written \in BOOLEAN /\ e.type \in {"Free", "Used"}
        /\ e.position \in Nat /\ e.generation \in 0 .. MaxGeneration
    BY <1>1 DEF ObjectWriteInformation, ObjectReferenceTypes
  <1>3. w.lines \in Seq(Lines) /\ w.nextFree \in 0 .. Len(reg) - 1 /\ w.status \in {"success", "failure"}
    BY DEF Progress
  <1>4. free \in 0 .. Len(reg) - 1
    BY <1>3, NextFreeIs
  <1>6. used \in Lines /\ unused \in Lines
    BY <1>2, <1>4 DEF Lines
  <1>7. /\ IsDirty(reg, id) <=> e.dirty
        /\ IsDirtyAndFree(reg, id) <=> e.dirty /\ e.type = "Free"
        /\ IsMissing(reg, id) <=> e.dirty /\ e.type = "Used" /\ ~e.written
    BY DEF IsDirty, IsDirtyAndFree, IsMissing
  <1>8. /\ e.type = "Used" => LineOf(reg, id) = used
        /\ e.type = "Free" /\ w.nextFree = id => LineOf(reg, id) = unused /\ free = NextFreeObject(reg, id)
    BY DEF LineOf
  <1>13. /\ Append(w.lines, used) \in Seq(Lines) /\ Append(w.lines, unused) \in Seq(Lines)
    BY <1>3, <1>6
  <1> DEFINE more == Append(w.lines, used)
             moreFree == Append(w.lines, unused)
  <1>14. next = IF w.status = "failure" \/ ~e.dirty THEN w
                ELSE IF e.type # "Used" THEN [[w EXCEPT !.lines = moreFree] EXCEPT !.nextFree = free]
                ELSE IF e.written THEN [w EXCEPT !.lines = more]
                ELSE [w EXCEPT !.status = "failure"]
    BY Zenon DEF WriteEntry, WithLine, WithFreeLine
  <1> HIDE DEF e, used, unused, free, more, moreFree
  <1>9. CASE w.status = "failure" \/ ~e.dirty
    <2>1. next = w
      BY <1>9, <1>14
    <2> QED
      BY <1>3, <1>7, <1>9, <2>1
  <1>10. CASE w.status = "success" /\ e.dirty /\ e.type = "Used" /\ e.written
    <2>1. next = [w EXCEPT !.lines = more]
      BY <1>14, <1>10
    <2>2. next \in Progress(Len(reg)) /\ next.lines = more /\ next.nextFree = w.nextFree
          /\ next.status = "success"
      BY <1>10, <1>13, <2>1 DEF Progress, more
    <2> QED
      BY <1>7, <1>8, <1>10, <2>2 DEF more
  <1>11. CASE w.status = "success" /\ e.dirty /\ e.type = "Used" /\ ~e.written
    <2>1. next = [w EXCEPT !.status = "failure"]
      BY <1>11, <1>14
    <2>2. next \in Progress(Len(reg)) /\ next.status = "failure"
      BY <2>1 DEF Progress
    <2> QED
      BY <1>7, <1>11, <2>2
  <1>12. CASE w.status = "success" /\ e.dirty /\ e.type = "Free"
    <2>1. next = [[w EXCEPT !.lines = moreFree] EXCEPT !.nextFree = free]
      BY <1>14, <1>12
    <2>2. next \in Progress(Len(reg)) /\ next.lines = moreFree /\ next.nextFree = free
          /\ next.status = "success"
      BY <1>4, <1>12, <1>13, <2>1 DEF Progress, moreFree
    <2> QED
      BY <1>7, <1>8, <1>12, <2>2 DEF moreFree
  <1> QED
    BY <1>2, <1>3, <1>9, <1>10, <1>11, <1>12

(* What the loop over the entries has done before an ID.                   *)
PartWritten(reg, rank, id, w) ==
    /\ w \in Progress(Len(reg))
    /\ w.status = "success" <=> \A j \in 0 .. id - 1 : ~IsMissing(reg, j)
    /\ w.status = "success" =>
          /\ Len(w.lines) = rank[id]
          /\ w.nextFree = FirstOf(FreeFrom(reg, id))
          /\ \A j \in 0 .. id - 1 : IsDirty(reg, j) => w.lines[rank[j] + 1] = LineOf(reg, j)

LEMMA OneEntryMore ==
    ASSUME NEW reg \in Seq(ObjectWriteInformation), NEW rank, Ranks(reg, rank),
           NEW id \in 0 .. Len(reg) - 1, NEW w, PartWritten(reg, rank, id, w)
    PROVE  PartWritten(reg, rank, id + 1, WriteEntry(reg, w, id))
  <1>1. PICK next : next = WriteEntry(reg, w, id)
    OBVIOUS
  <1>2. w \in Progress(Len(reg)) /\ w.lines \in Seq(Lines)
    BY DEF PartWritten, Progress
  <1>3. /\ next \in Progress(Len(reg))
        /\ next.status = "success" <=> w.status = "success" /\ ~IsMissing(reg, id)
        /\ ~IsDirty(reg, id) => next = w
        /\ next.status = "success" /\ IsDirty(reg, id) /\ ~IsDirtyAndFree(reg, id) =>
              next.lines = Append(w.lines, LineOf(reg, id)) /\ next.nextFree = w.nextFree
        /\ next.status = "success" /\ IsDirtyAndFree(reg, id) /\ w.nextFree = id =>
              /\ next.lines = Append(w.lines, LineOf(reg, id))
              /\ next.nextFree = NextFreeObject(reg, id)
    BY <1>1, <1>2, EntryIsWritten
  <1>4. \A j \in Int : j \in 0 .. (id + 1) - 1 <=> j \in 0 .. id - 1 \/ j = id
    OBVIOUS
  <1>5. next.status = "success" <=> \A j \in 0 .. (id + 1) - 1 : ~IsMissing(reg, j)
    BY <1>3, <1>4 DEF PartWritten
  <1>6. ASSUME next.status = "success"
        PROVE  /\ Len(next.lines) = rank[id + 1]
               /\ next.nextFree = FirstOf(FreeFrom(reg, id + 1))
               /\ \A j \in 0 .. (id + 1) - 1 : IsDirty(reg, j) => next.lines[rank[j] + 1] = LineOf(reg, j)
    <2>1. /\ Len(w.lines) = rank[id]
          /\ w.nextFree = FirstOf(FreeFrom(reg, id))
          /\ \A j \in 0 .. id - 1 : IsDirty(reg, j) => w.lines[rank[j] + 1] = LineOf(reg, j)
      BY <1>3, <1>6 DEF PartWritten
    <2>2. /\ rank[id + 1] = rank[id] + (IF IsDirty(reg, id) THEN 1 ELSE 0)
          /\ rank[id] \in Nat
      BY DEF Ranks
    <2>3. next.nextFree = FirstOf(FreeFrom(reg, id + 1))
      <3>1. CASE IsDirtyAndFree(reg, id)
        <4>1. w.nextFree = id
          BY <2>1, <3>1, FirstOfFree
        <4> QED
          BY <1>3, <1>6, <3>1, <4>1, NextFreeIs
      <3>2. CASE ~IsDirtyAndFree(reg, id)
        <4>1. next.nextFree = w.nextFree
          BY <1>3, <1>6, <3>2
        <4> QED
          BY <2>1, <3>2, <4>1, FirstOfFree
      <3> QED
        BY <3>1, <3>2
    <2>4. CASE ~IsDirty(reg, id)
      <3>1. next = w /\ rank[id + 1] = rank[id]
        BY <1>3, <2>2, <2>4
      <3>2. \A j \in 0 .. (id + 1) - 1 : IsDirty(reg, j) => j \in 0 .. id - 1
        BY <2>4
      <3> QED
        BY <2>1, <2>3, <3>1, <3>2
    <2>5. CASE IsDirty(reg, id)
      <3>1. next.lines = Append(w.lines, LineOf(reg, id))
        <4>1. IsDirtyAndFree(reg, id) => w.nextFree = id
          BY <2>1, FirstOfFree
        <4> QED
          BY <1>3, <1>6, <2>5, <4>1
      <3>2. /\ Len(next.lines) = rank[id] + 1
            /\ next.lines[rank[id] + 1] = LineOf(reg, id)
            /\ \A k \in 1 .. rank[id] : next.lines[k] = w.lines[k]
        BY <1>2, <2>1, <2>2, <3>1
      <3>3. rank[id + 1] = rank[id] + 1
        BY <2>2, <2>5
      <3>4. ASSUME NEW j \in 0 .. (id + 1) - 1, IsDirty(reg, j)
            PROVE  next.lines[rank[j] + 1] = LineOf(reg, j)
        <4>1. CASE j = id
          BY <3>2, <4>1
        <4>2. CASE j \in 0 .. id - 1
          <5>1. j \in 0 .. Len(reg) - 1 /\ j + 1 \in 0 .. id /\ id \in 0 .. Len(reg)
            BY <4>2
          <5>2. rank[j + 1] = rank[j] + 1 /\ rank[j] \in Nat
            BY <3>4, <5>1 DEF Ranks
          <5>3. rank[j + 1] <= rank[id]
            BY <5>1, RanksGrow
          <5>4. rank[j] + 1 \in 1 .. rank[id]
            BY <2>2, <5>2, <5>3
          <5> QED
            BY <2>1, <3>2, <3>4, <4>2, <5>4
        <4> QED
          BY <4>1, <4>2
      <3> QED
        BY <2>3, <3>2, <3>3, <3>4
    <2> QED
      BY <2>4, <2>5
  <1> QED
    BY <1>1, <1>3, <1>5, <1>6 DEF PartWritten

(* The lines of a registry whose entry 0 is free: one for each entry to be *)
(* listed, in ID order; none is missing, or the section is refused.        *)
LEMMA EntriesAreWritten ==
    ASSUME NEW reg \in Seq(ObjectWriteInformation), Len(reg) >= 1, IsDirtyAndFree(reg, 0),
           NEW rank, Ranks(reg, rank)
    PROVE  PartWritten(reg, rank, Len(reg), WriteEntries(reg))
  <1>0. PICK n \in Nat : n = Len(reg)
    OBVIOUS
  <1> DEFINE base == [lines |-> <<>>, nextFree |-> 0, status |-> "success"]
             Def(below, id) == IF id = 0 THEN base ELSE WriteEntry(reg, below[id - 1], id - 1)
             below == CHOOSE f : f = [id \in 0 .. n |-> Def(f, id)]
             step == [p \in (1 .. n) \X Progress(n) |-> WriteEntry(reg, p[2], p[1] - 1)]
  <1>1. WriteEntries(reg) = below[n]
    BY <1>0 DEF WriteEntries
  <1>2. base \in Progress(n)
    BY <1>0 DEF Progress
  <1>3. \A k \in 1 .. n, v \in Progress(n) : step[<<k, v>>] = WriteEntry(reg, v, k - 1)
    OBVIOUS
  <1>4. \A k \in 1 .. n, v \in Progress(n) : WriteEntry(reg, v, k - 1) \in Progress(n)
    <2>1. ASSUME NEW k \in 1 .. n, NEW v \in Progress(n)
          PROVE  WriteEntry(reg, v, k - 1) \in Progress(n)
      <3>1. k - 1 \in 0 .. Len(reg) - 1 /\ v \in Progress(Len(reg))
        BY <1>0
      <3> QED
        BY <1>0, <3>1, EntryIsWritten
    <2> QED
      BY <2>1
  <1>5. step \in [(1 .. n) \X Progress(n) -> Progress(n)]
    BY <1>4
  <1> HIDE DEF step, base
  <1>6. PICK f : Steps(f, Progress(n), base, n, step)
    BY <1>2, <1>5, Recursion
  <1>7. f = [id \in 0 .. n |-> Def(f, id)]
    <2>1. f \in [0 .. n -> Progress(n)] /\ f[0] = base
      BY <1>6 DEF Steps
    <2>2. ASSUME NEW id \in 0 .. n PROVE f[id] = Def(f, id)
      <3>1. CASE id = 0
        BY <2>1, <3>1
      <3>2. CASE id # 0
        <4>1. id \in 1 .. n /\ id - 1 \in 0 .. n
          BY <3>2
        <4>2. f[id] = step[<<id, f[id - 1]>>] /\ f[id - 1] \in Progress(n)
          BY <1>6, <2>1, <4>1 DEF Steps
        <4> QED
          BY <1>3, <3>2, <4>1, <4>2
      <3> QED
        BY <3>1, <3>2
    <2> QED
      BY <2>1, <2>2
  <1>8. below = [id \in 0 .. n |-> Def(below, id)]
    BY <1>7
  <1>9. /\ below[0] = base
        /\ \A k \in 0 .. n - 1 : below[k + 1] = WriteEntry(reg, below[k], k)
    <2>1. \A id \in 0 .. n : below[id] = Def(below, id)
      BY <1>8
    <2> HIDE DEF below
    <2>2. below[0] = base
      BY <2>1
    <2>3. ASSUME NEW k \in 0 .. n - 1 PROVE below[k + 1] = WriteEntry(reg, below[k], k)
      <3>1. k + 1 \in 0 .. n /\ k + 1 # 0 /\ (k + 1) - 1 = k
        OBVIOUS
      <3>2. below[k + 1] = Def(below, k + 1)
        BY <2>1, <3>1
      <3> QED
        BY <3>1, <3>2
    <2> QED
      BY <2>2, <2>3
  <1> HIDE DEF below, Def
  <1> DEFINE S == {k \in 0 .. n : PartWritten(reg, rank, k, below[k])}
  <1>10. 0 \in S
    <2>1. FirstOf(FreeFrom(reg, 0)) = 0
      BY FirstOfFree
    <2>2. Len(base.lines) = 0 /\ base.nextFree = 0 /\ base.status = "success"
      BY DEF base
    <2>3. base \in Progress(Len(reg)) /\ rank[0] = 0
      BY <1>0, <1>2 DEF Ranks
    <2>4. PartWritten(reg, rank, 0, base)
      BY <2>1, <2>2, <2>3 DEF PartWritten
    <2> QED
      BY <1>9, <2>4
  <1>11. \A k \in 0 .. n - 1 : k \in S => k + 1 \in S
    <2>1. ASSUME NEW k \in 0 .. n - 1, PartWritten(reg, rank, k, below[k])
          PROVE  PartWritten(reg, rank, k + 1, below[k + 1])
      <3>1. k \in 0 .. Len(reg) - 1
        BY <1>0
      <3> QED
        BY <1>9, <2>1, <3>1, OneEntryMore
    <2> QED
      BY <2>1
  <1> HIDE DEF S
  <1>12. \A k \in 0 .. n : k \in S
    BY <1>10, <1>11, InductionUpTo
  <1>13. n \in S
    BY <1>12
  <1> QED
    BY <1>0, <1>1, <1>13 DEF S
-----------------------------------------------------------------------------
(***************************************************************************)
(* The subsections.                                                        *)
(***************************************************************************)
Ranges == [start : Nat, size : Nat]

(* The IDs of a range need an update, and those from its end to the next   *)
(* range do not.                                                           *)
LEMMA RangeEnds ==
    ASSUME NEW reg, Len(reg) \in Nat, NEW s \in 0 .. Len(reg) - 1,
           NEW end, end = FirstIDNotInRange(reg, s), NEW next, next = NextStartID(reg, end)
    PROVE  /\ end \in s .. Len(reg) /\ next \in end .. Len(reg) /\ s < next
           /\ \A id \in s .. end - 1 : IsDirty(reg, id)
           /\ \A id \in end .. next - 1 : ~IsDirty(reg, id)
           /\ next = Len(reg) \/ IsDirty(reg, next)
           /\ IsDirty(reg, s) => s < end
  <1> DEFINE ends == {id \in s .. Len(reg) : id = Len(reg) \/ ~IsDirty(reg, id)}
             starts == {id \in end .. Len(reg) : id = Len(reg) \/ IsDirty(reg, id)}
  <1>1. end = Min(ends)
    BY DEF FirstIDNotInRange
  <1>2. end \in ends /\ \A id \in ends : end <= id
    <2>1. ends \subseteq Nat /\ Len(reg) \in ends
      OBVIOUS
    <2> HIDE DEF ends
    <2>2. ends # {}
      BY <2>1
    <2> QED
      BY <1>1, <2>1, <2>2, MinIs
  <1>3. next = Min(starts)
    BY DEF NextStartID
  <1>4. next \in starts /\ \A id \in starts : next <= id
    <2>1. starts \subseteq Nat /\ Len(reg) \in starts
      BY <1>2
    <2> HIDE DEF starts
    <2>2. starts # {}
      BY <2>1
    <2> QED
      BY <1>3, <2>1, <2>2, MinIs
  <1>5. end \in s .. Len(reg) /\ next \in end .. Len(reg)
    BY <1>2, <1>4
  <1>6. \A id \in s .. end - 1 : IsDirty(reg, id)
    <2>1. SUFFICES ASSUME NEW id \in s .. end - 1, ~IsDirty(reg, id) PROVE FALSE
      OBVIOUS
    <2>2. id \in ends
      BY <1>5, <2>1
    <2> QED
      BY <1>2, <1>5, <2>2
  <1>7. \A id \in end .. next - 1 : ~IsDirty(reg, id)
    <2>1. SUFFICES ASSUME NEW id \in end .. next - 1, IsDirty(reg, id) PROVE FALSE
      OBVIOUS
    <2>2. id \in starts
      BY <1>5, <2>1
    <2> QED
      BY <1>4, <1>5, <2>2
  <1>8. /\ next = Len(reg) \/ IsDirty(reg, next)
        /\ end = Len(reg) \/ ~IsDirty(reg, end)
    BY <1>2, <1>4
  <1>9. IsDirty(reg, s) => s < end
    <2>1. s = end => ~IsDirty(reg, s)
      BY <1>8
    <2> QED
      BY <1>5, <2>1
  <1>10. s < next
    <2>1. s = end => ~IsDirty(reg, s)
      BY <1>8
    <2>2. s = next => s = end
      BY <1>5
    <2>3. s # next
      BY <1>8, <2>1, <2>2
    <2> QED
      BY <1>5, <2>3
  <1> HIDE DEF ends, starts
  <1> QED
    BY <1>5, <1>6, <1>7, <1>8, <1>9, <1>10

(* What the loop over subsections yields from an ID on.                    *)
SubsectionsFrom(reg, from, s) ==
    LET end == FirstIDNotInRange(reg, s) IN
    IF s = Len(reg) THEN <<>>
    ELSE <<[start |-> s, size |-> end - s]>> \o from[NextStartID(reg, end)]

LEMMA SubsectionsExist ==
    ASSUME NEW reg, Len(reg) \in Nat
    PROVE  \E from : /\ from \in [0 .. Len(reg) -> Seq(Ranges)]
                     /\ from = [s \in 0 .. Len(reg) |-> SubsectionsFrom(reg, from, s)]
  <1>0. PICK n \in Nat : n = Len(reg)
    OBVIOUS
  <1> DEFINE From(f, m) == /\ f \in [0 .. n -> Seq(Ranges)]
                           /\ \A s \in n - m .. n : f[s] = SubsectionsFrom(reg, f, s)
             S == {m \in 0 .. n : \E f : From(f, m)}
  <1>1. ASSUME NEW s \in 0 .. n, NEW f \in [0 .. n -> Seq(Ranges)]
        PROVE  /\ SubsectionsFrom(reg, f, s) \in Seq(Ranges)
               /\ \A g : (\A t \in s + 1 .. n : g[t] = f[t]) =>
                            SubsectionsFrom(reg, g, s) = SubsectionsFrom(reg, f, s)
    <2>1. CASE s = n
      BY <1>0, <2>1 DEF SubsectionsFrom
    <2>2. CASE s # n
      <3>1. PICK end, next : end = FirstIDNotInRange(reg, s) /\ next = NextStartID(reg, end)
        OBVIOUS
      <3>2. end \in s .. n /\ next \in end .. n /\ s < next
        <4>1. s \in 0 .. Len(reg) - 1
          BY <1>0, <2>2
        <4> QED
          BY <1>0, <3>1, <4>1, RangeEnds
      <3>3. next \in s + 1 .. n /\ next \in 0 .. n /\ end - s \in Nat
        BY <3>2
      <3>4. \A g : SubsectionsFrom(reg, g, s) = <<[start |-> s, size |-> end - s]>> \o g[next]
        BY <1>0, <2>2, <3>1 DEF SubsectionsFrom
      <3>5. <<[start |-> s, size |-> end - s]>> \in Seq(Ranges) /\ f[next] \in Seq(Ranges)
        BY <3>3 DEF Ranges
      <3>6. SubsectionsFrom(reg, f, s) \in Seq(Ranges)
        <4>1. PICK one, rest : one = <<[start |-> s, size |-> end - s]>> /\ rest = f[next]
          OBVIOUS
        <4>2. one \o rest \in Seq(Ranges)
          BY <3>5, <4>1
        <4> QED
          BY <3>4, <4>1, <4>2
      <3>7. ASSUME NEW g, \A t \in s + 1 .. n : g[t] = f[t]
            PROVE  SubsectionsFrom(reg, g, s) = SubsectionsFrom(reg, f, s)
        <4>1. g[next] = f[next]
          BY <3>3, <3>7
        <4> QED
          BY <3>4, <4>1
      <3> QED
        BY <3>6, <3>7
    <2> QED
      BY <2>1, <2>2
  <1> HIDE DEF From
  <1>2. 0 \in S
    <2> DEFINE f == [s \in 0 .. n |-> <<>>]
    <2>1. f \in [0 .. n -> Seq(Ranges)] /\ f[n] = <<>>
      OBVIOUS
    <2> HIDE DEF f
    <2>2. f[n] = SubsectionsFrom(reg, f, n)
      BY <1>0, <2>1 DEF SubsectionsFrom
    <2>3. \A s \in n - 0 .. n : s = n
      OBVIOUS
    <2>4. From(f, 0)
      BY <2>1, <2>2, <2>3 DEF From
    <2> QED
      BY <2>4
  <1>3. ASSUME NEW m \in 0 .. n - 1, m \in S
        PROVE  m + 1 \in S
    <2>1. PICK f : From(f, m)
      BY <1>3
    <2>2. f \in [0 .. n -> Seq(Ranges)] /\ \A s \in n - m .. n : f[s] = SubsectionsFrom(reg, f, s)
      BY <2>1 DEF From
    <2>3. PICK here : here = n - (m + 1)
      OBVIOUS
    <2>4. here \in 0 .. n /\ here + 1 = n - m
      BY <2>3
    <2> DEFINE g == [f EXCEPT ![here] = SubsectionsFrom(reg, f, here)]
    <2>5. SubsectionsFrom(reg, f, here) \in Seq(Ranges)
      BY <1>1, <2>2, <2>4
    <2>6. /\ g \in [0 .. n -> Seq(Ranges)] /\ g[here] = SubsectionsFrom(reg, f, here)
          /\ \A t \in here + 1 .. n : g[t] = f[t]
      BY <2>2, <2>4, <2>5
    <2> HIDE DEF g
    <2>7. ASSUME NEW s \in here .. n PROVE g[s] = SubsectionsFrom(reg, g, s)
      <3>1. s \in 0 .. n /\ \A t \in s + 1 .. n : g[t] = f[t]
        BY <2>4, <2>6, <2>7
      <3>2. SubsectionsFrom(reg, g, s) = SubsectionsFrom(reg, f, s)
        BY <1>1, <2>2, <3>1
      <3>3. s = here \/ (s \in here + 1 .. n /\ s \in n - m .. n)
        BY <2>4, <2>7
      <3> QED
        BY <2>2, <2>6, <3>2, <3>3
    <2>8. From(g, m + 1)
      BY <2>3, <2>6, <2>7 DEF From
    <2> QED
      BY <2>8
  <1> HIDE DEF S
  <1>4. \A m \in 0 .. n : m \in S
    BY <1>2, <1>3, InductionUpTo
  <1>5. PICK f : From(f, n)
    BY <1>4 DEF S
  <1>6. f \in [0 .. n -> Seq(Ranges)] /\ \A s \in 0 .. n : f[s] = SubsectionsFrom(reg, f, s)
    BY <1>5 DEF From
  <1>7. f = [s \in 0 .. n |-> SubsectionsFrom(reg, f, s)]
    BY <1>6
  <1> QED
    BY <1>0, <1>6, <1>7

(* The ranges are those of the IDs, from one on, that need an update, in   *)
(* order and without a gap.                                                *)
EndOf(range) == range.start + range.size

Splits(reg, s, ranges) ==
    /\ ranges \in Seq(Ranges)
    /\ s < Len(reg) => Len(ranges) >= 1 /\ ranges[1].start = s
    /\ s = Len(reg) => Len(ranges) = 0
    /\ \A k \in 1 .. Len(ranges) :
          /\ ranges[k].size >= 1 /\ EndOf(ranges[k]) <= Len(reg)
          /\ \A id \in ranges[k].start .. EndOf(ranges[k]) - 1 : IsDirty(reg, id)
    /\ \A k \in 1 .. Len(ranges) - 1 :
          /\ EndOf(ranges[k]) <= ranges[k + 1].start
          /\ \A id \in EndOf(ranges[k]) .. ranges[k + 1].start - 1 : ~IsDirty(reg, id)
    /\ Len(ranges) >= 1 => \A id \in EndOf(ranges[Len(ranges)]) .. Len(reg) - 1 : ~IsDirty(reg, id)

LEMMA OneRangeMore ==
    ASSUME NEW reg, Len(reg) \in Nat, NEW s \in 0 .. Len(reg) - 1,
           NEW end \in s + 1 .. Len(reg), NEW next \in end .. Len(reg),
           \A id \in s .. end - 1 : IsDirty(reg, id),
           \A id \in end .. next - 1 : ~IsDirty(reg, id),
           NEW rest, Splits(reg, next, rest),
           NEW ranges, ranges = <<[start |-> s, size |-> end - s]>> \o rest
    PROVE  Splits(reg, s, ranges)
  <1>0. PICK first : first = [start |-> s, size |-> end - s]
    OBVIOUS
  <1>1. first \in Ranges /\ first.start = s /\ first.size = end - s /\ EndOf(first) = end
    BY <1>0 DEF Ranges, EndOf
  <1>2. rest \in Seq(Ranges) /\ Len(rest) \in Nat
    BY DEF Splits
  <1>3. /\ ranges \in Seq(Ranges) /\ Len(ranges) = Len(rest) + 1 /\ ranges[1] = first
        /\ \A k \in 1 .. Len(rest) : ranges[k + 1] = rest[k]
    <2>1. ranges = <<first>> \o rest
      BY <1>0
    <2> QED
      BY <1>1, <1>2, <2>1
  <1>m. PICK m \in Nat : m = Len(rest) /\ m + 1 = Len(ranges)
    BY <1>2, <1>3
  <1>4. ASSUME NEW k \in 1 .. Len(ranges), k # 1
        PROVE  k - 1 \in 1 .. Len(rest) /\ ranges[k] = rest[k - 1]
    <2>1. k - 1 \in 1 .. Len(rest) /\ (k - 1) + 1 = k
      BY <1>2, <1>3, <1>4
    <2> QED
      BY <1>3, <2>1
  <1>5. ASSUME NEW k \in 1 .. Len(ranges)
        PROVE  /\ ranges[k].size >= 1 /\ EndOf(ranges[k]) <= Len(reg)
               /\ \A id \in ranges[k].start .. EndOf(ranges[k]) - 1 : IsDirty(reg, id)
    <2>1. CASE k = 1
      BY <1>1, <1>3, <2>1
    <2>2. CASE k # 1
      BY <1>4, <2>2 DEF Splits
    <2> QED
      BY <2>1, <2>2
  <1>6. next < Len(reg) => Len(rest) >= 1 /\ rest[1].start = next
    BY DEF Splits
  <1>7. next = Len(reg) => Len(rest) = 0
    BY DEF Splits
  <1>8. ASSUME NEW k \in 1 .. Len(ranges) - 1
        PROVE  /\ EndOf(ranges[k]) <= ranges[k + 1].start
               /\ \A id \in EndOf(ranges[k]) .. ranges[k + 1].start - 1 : ~IsDirty(reg, id)
    <2>0. k \in 1 .. m /\ k \in 1 .. Len(rest) /\ ranges[k + 1] = rest[k]
      <3>1. k \in 1 .. m
        BY <1>m
      <3> QED
        BY <1>3, <1>m, <3>1
    <2>1. CASE k = 1
      <3>1. next < Len(reg)
        <4>1. m >= 1
          BY <2>0
        <4>2. next # Len(reg)
          BY <1>7, <1>m, <4>1
        <4> QED
          BY <4>2
      <3>2. EndOf(ranges[k]) = end
        BY <1>1, <1>3, <2>1
      <3>3. ranges[k + 1].start = next
        BY <1>6, <2>0, <2>1, <3>1
      <3>4. PICK a, b : a = EndOf(ranges[k]) /\ b = ranges[k + 1].start
        OBVIOUS
      <3>5. a = end /\ b = next
        BY <3>2, <3>3, <3>4
      <3>6. a <= b /\ \A id \in a .. b - 1 : ~IsDirty(reg, id)
        BY <3>5
      <3> QED
        BY <3>4, <3>6
    <2>2. CASE k # 1
      <3>1. k - 1 \in 1 .. Len(rest) - 1 /\ (k - 1) + 1 = k
        <4>1. k - 1 \in 1 .. m - 1 /\ (k - 1) + 1 = k
          BY <2>0, <2>2
        <4> QED
          BY <1>m, <4>1
      <3>2. ranges[k] = rest[k - 1]
        BY <1>4, <2>2
      <3>3. \A i \in 1 .. Len(rest) - 1 :
               /\ EndOf(rest[i]) <= rest[i + 1].start
               /\ \A id \in EndOf(rest[i]) .. rest[i + 1].start - 1 : ~IsDirty(reg, id)
        BY DEF Splits
      <3>4. /\ EndOf(rest[k - 1]) <= rest[(k - 1) + 1].start
            /\ \A id \in EndOf(rest[k - 1]) .. rest[(k - 1) + 1].start - 1 : ~IsDirty(reg, id)
        BY <3>1, <3>3
      <3> QED
        BY <2>0, <3>1, <3>2, <3>4
    <2> QED
      BY <2>1, <2>2
  <1>9. \A id \in EndOf(ranges[Len(ranges)]) .. Len(reg) - 1 : ~IsDirty(reg, id)
    <2>1. CASE Len(rest) = 0
      <3>1. next = Len(reg)
        BY <1>6, <2>1
      <3>2. EndOf(ranges[Len(ranges)]) = end
        BY <1>1, <1>3, <2>1
      <3> QED
        BY <3>1, <3>2
    <2>2. CASE Len(rest) >= 1
      <3>1. ranges[Len(ranges)] = rest[Len(rest)]
        BY <1>2, <1>3, <2>2
      <3> QED
        BY <2>2, <3>1 DEF Splits
    <2> QED
      BY <1>2, <2>1, <2>2
  <1>10. Len(ranges) >= 1 /\ ranges[1].start = s
    BY <1>1, <1>2, <1>3
  <1>11. /\ s < Len(reg) => Len(ranges) >= 1 /\ ranges[1].start = s
         /\ s = Len(reg) => Len(ranges) = 0
    BY <1>10
  <1> QED
    BY <1>3, <1>5, <1>8, <1>9, <1>11 DEF Splits

(* The subsections are the ranges of all IDs to be listed.                 *)
LEMMA SubsectionsSplit ==
    ASSUME NEW reg, Len(reg) \in Nat, Len(reg) >= 1, IsDirty(reg, 0)
    PROVE  Splits(reg, 0, Subsections(reg))
  <1>0. PICK n \in Nat : n = Len(reg)
    OBVIOUS
  <1> DEFINE from == CHOOSE f : f = [s \in 0 .. n |-> SubsectionsFrom(reg, f, s)]
  <1>1. Subsections(reg) = from[0]
    BY <1>0 DEF Subsections, SubsectionsFrom
  <1>2. from = [s \in 0 .. n |-> SubsectionsFrom(reg, from, s)]
    <2>1. PICK f : f = [s \in 0 .. n |-> SubsectionsFrom(reg, f, s)]
      BY <1>0, SubsectionsExist
    <2> QED
      BY <2>1
  <1> HIDE DEF from
  <1>3. \A s \in 0 .. n : from[s] = SubsectionsFrom(reg, from, s)
    BY <1>2
  <1> DEFINE Split(s) == s = n \/ IsDirty(reg, s) => Splits(reg, s, from[s])
             S == {m \in 0 .. n : \A s \in n - m .. n : Split(s)}
  <1>4. 0 \in S
    <2>1. from[n] = <<>>
      <3>1. from[n] = SubsectionsFrom(reg, from, n)
        BY <1>3
      <3> QED
        BY <1>0, <3>1 DEF SubsectionsFrom
    <2>2. Splits(reg, n, <<>>)
      BY <1>0 DEF Splits
    <2>3. Split(n)
      BY <2>1, <2>2
    <2>4. \A s \in n - 0 .. n : s = n
      OBVIOUS
    <2> HIDE DEF Split
    <2> QED
      BY <2>3, <2>4
  <1>5. ASSUME NEW m \in 0 .. n - 1, \A s \in n - m .. n : Split(s)
        PROVE  \A s \in n - (m + 1) .. n : Split(s)
    <2>1. PICK s \in 0 .. n - 1 : s = n - (m + 1)
      OBVIOUS
    <2>2. ASSUME IsDirty(reg, s) PROVE Splits(reg, s, from[s])
      <3>1. PICK end, next : end = FirstIDNotInRange(reg, s) /\ next = NextStartID(reg, end)
        OBVIOUS
      <3>2. /\ end \in s .. n /\ next \in end .. n /\ s < next
            /\ \A id \in s .. end - 1 : IsDirty(reg, id)
            /\ \A id \in end .. next - 1 : ~IsDirty(reg, id)
            /\ next = n \/ IsDirty(reg, next)
            /\ s < end
        <4>1. s \in 0 .. Len(reg) - 1
          BY <1>0
        <4> QED
          BY <1>0, <2>2, <3>1, <4>1, RangeEnds
      <3>3. from[s] = <<[start |-> s, size |-> end - s]>> \o from[next]
        <4>1. s \in 0 .. n /\ s # Len(reg)
          BY <1>0
        <4>2. from[s] = SubsectionsFrom(reg, from, s)
          BY <1>3, <4>1
        <4> QED
          BY <3>1, <4>1, <4>2 DEF SubsectionsFrom
      <3>4. Splits(reg, next, from[next])
        <4>1. next \in n - m .. n
          BY <2>1, <3>2
        <4>2. Split(next)
          BY <1>5, <4>1
        <4> QED
          BY <3>2, <4>2
      <3>5. /\ s \in 0 .. Len(reg) - 1 /\ end \in s + 1 .. Len(reg) /\ next \in end .. Len(reg)
        BY <1>0, <3>2
      <3> QED
        BY <3>2, <3>3, <3>4, <3>5, OneRangeMore
    <2>3. \A t \in n - (m + 1) .. n : t = s \/ t \in n - m .. n
      BY <2>1
    <2>4. Split(s)
      BY <2>2
    <2> HIDE DEF Split
    <2> QED
      BY <1>5, <2>3, <2>4
  <1> HIDE DEF Split
  <1>6. ASSUME NEW m \in 0 .. n - 1, m \in S
        PROVE  m + 1 \in S
    <2>1. \A s \in n - (m + 1) .. n : Split(s)
      BY <1>5, <1>6
    <2>2. m + 1 \in 0 .. n
      OBVIOUS
    <2> QED
      BY <2>1, <2>2
  <1> HIDE DEF S
  <1>7. \A m \in 0 .. n : m \in S
    BY <1>4, <1>6, InductionUpTo
  <1>8. Split(0)
    BY <1>7 DEF S
  <1> QED
    BY <1>1, <1>8 DEF Split
-----------------------------------------------------------------------------
(***************************************************************************)
(* The numbers a reader gives to the lines.                                *)
(***************************************************************************)
LEMMA RanksInRange ==
    ASSUME NEW reg, Len(reg) \in Nat, NEW rank, Ranks(reg, rank),
           NEW a \in 0 .. Len(reg), NEW b \in a .. Len(reg),
           \A id \in a .. b - 1 : IsDirty(reg, id)
    PROVE  \A id \in a .. b : rank[id] = rank[a] + (id - a)
  <1> DEFINE S == {j \in 0 .. b - a : rank[a + j] = rank[a] + j}
  <1>1. 0 \in S
    BY DEF Ranks
  <1>2. ASSUME NEW j \in 0 .. (b - a) - 1, j \in S
        PROVE  j + 1 \in S
    <2>1. a + j \in a .. b - 1 /\ a + j \in 0 .. Len(reg) - 1 /\ (a + j) + 1 = a + (j + 1)
      OBVIOUS
    <2>2. rank[(a + j) + 1] = rank[a + j] + 1
      BY <2>1 DEF Ranks
    <2>3. rank[a] \in Nat
      BY DEF Ranks
    <2> QED
      BY <1>2, <2>1, <2>2, <2>3
  <1> HIDE DEF S
  <1>0. b - a \in Nat
    OBVIOUS
  <1>3. \A j \in 0 .. b - a : j \in S
    BY <1>0, <1>1, <1>2, InductionUpTo
  <1>4. ASSUME NEW id \in a .. b
        PROVE  rank[id] = rank[a] + (id - a)
    <2>1. id - a \in 0 .. b - a /\ a + (id - a) = id
      OBVIOUS
    <2>2. id - a \in S
      BY <1>3, <2>1
    <2> QED
      BY <2>1, <2>2 DEF S
  <1> QED
    BY <1>4

LEMMA RanksInGap ==
    ASSUME NEW reg, Len(reg) \in Nat, NEW rank, Ranks(reg, rank),
           NEW a \in 0 .. Len(reg), NEW b \in a .. Len(reg),
           \A id \in a .. b - 1 : ~IsDirty(reg, id)
    PROVE  rank[b] = rank[a]
  <1> DEFINE S == {j \in 0 .. b - a : rank[a + j] = rank[a]}
  <1>1. 0 \in S
    BY DEF Ranks
  <1>2. ASSUME NEW j \in 0 .. (b - a) - 1, j \in S
        PROVE  j + 1 \in S
    <2>1. a + j \in a .. b - 1 /\ a + j \in 0 .. Len(reg) - 1 /\ (a + j) + 1 = a + (j + 1)
      OBVIOUS
    <2>2. rank[(a + j) + 1] = rank[a + j] + 0 /\ rank[a + j] \in Nat
      <3>1. a + j \in 0 .. Len(reg) /\ ~IsDirty(reg, a + j)
        BY <2>1
      <3>2. rank[(a + j) + 1] = rank[a + j] + (IF IsDirty(reg, a + j) THEN 1 ELSE 0)
        BY <2>1 DEF Ranks
      <3>3. rank[a + j] \in Nat
        BY <3>1 DEF Ranks
      <3> QED
        BY <3>1, <3>2, <3>3
    <2> QED
      BY <1>2, <2>1, <2>2
  <1> HIDE DEF S
  <1>0. b - a \in Nat
    OBVIOUS
  <1>3. \A j \in 0 .. b - a : j \in S
    BY <1>0, <1>1, <1>2, InductionUpTo
  <1>4. b - a \in 0 .. b - a /\ a + (b - a) = b
    OBVIOUS
  <1> QED
    BY <1>3, <1>4 DEF S

(* The numbers of a range, and of the lines below an ID.                   *)
NumbersOf(a, b, numbers) ==
    /\ numbers \in Seq(Nat) /\ Len(numbers) = b - a
    /\ \A j \in 1 .. b - a : numbers[j] = a + j - 1

NumbersTo(reg, rank, last, numbers) ==
    /\ numbers \in Seq(Nat) /\ Len(numbers) = rank[last]
    /\ \A id \in 0 .. last - 1 : IsDirty(reg, id) => numbers[rank[id] + 1] = id

(* A range comes next after an ID: none is to be listed in between.        *)
ComesNext(reg, last, a, b) ==
    /\ last \in 0 .. Len(reg) /\ a \in last .. Len(reg) /\ b \in a .. Len(reg)
    /\ \A id \in last .. a - 1 : ~IsDirty(reg, id)
    /\ \A id \in a .. b - 1 : IsDirty(reg, id)

LEMMA NumbersOfRange ==
    ASSUME NEW reg, Len(reg) \in Nat, NEW rank, Ranks(reg, rank),
           NEW last, NEW a, NEW b, ComesNext(reg, last, a, b),
           NEW numbers, NumbersTo(reg, rank, last, numbers),
           NEW range, NumbersOf(a, b, range)
    PROVE  NumbersTo(reg, rank, b, numbers \o range)
  <1>m. PICK more : more = numbers \o range
    OBVIOUS
  <1>a. /\ last \in 0 .. Len(reg) /\ a \in last .. Len(reg) /\ b \in a .. Len(reg)
        /\ \A id \in last .. a - 1 : ~IsDirty(reg, id)
        /\ \A id \in a .. b - 1 : IsDirty(reg, id)
    BY DEF ComesNext
  <1>0. a \in 0 .. Len(reg) /\ b \in 0 .. Len(reg)
    BY <1>a
  <1>1. /\ range \in Seq(Nat) /\ Len(range) = b - a
        /\ \A j \in 1 .. b - a : range[j] = a + j - 1
    BY DEF NumbersOf
  <1>2. numbers \in Seq(Nat) /\ Len(numbers) = rank[last] /\ rank[last] \in Nat
    BY DEF NumbersTo, Ranks
  <1>3. rank[a] = rank[last]
    BY <1>0, <1>a, RanksInGap
  <1>4. \A id \in a .. b : rank[id] = rank[last] + (id - a)
    <2>1. \A id \in a .. b : rank[id] = rank[a] + (id - a)
      BY <1>0, <1>a, RanksInRange
    <2> QED
      BY <1>3, <2>1
  <1>6. /\ more \in Seq(Nat) /\ Len(more) = rank[last] + (b - a)
        /\ \A k \in 1 .. rank[last] : more[k] = numbers[k]
        /\ \A j \in 1 .. b - a : more[rank[last] + j] = a + j - 1
    <2>1. PICK r, d : r = rank[last] /\ d = b - a
      OBVIOUS
    <2>2. r \in Nat /\ d \in Nat /\ Len(numbers) = r /\ Len(range) = d
      BY <1>1, <1>2, <1>a, <2>1
    <2>3. /\ more \in Seq(Nat) /\ Len(more) = r + d
          /\ \A i \in 1 .. Len(more) : more[i] = IF i <= r THEN numbers[i] ELSE range[i - r]
      <3>1. /\ numbers \o range \in Seq(Nat)
            /\ Len(numbers \o range) = Len(numbers) + Len(range)
            /\ \A i \in 1 .. Len(numbers) + Len(range) :
                  (numbers \o range)[i] = IF i <= Len(numbers) THEN numbers[i] ELSE range[i - Len(numbers)]
        BY <1>1, <1>2, ConcatProperties
      <3> QED
        BY <1>m, <2>2, <3>1
    <2>4. \A k \in 1 .. r : more[k] = numbers[k]
      BY <2>2, <2>3
    <2>5. ASSUME NEW j \in 1 .. d PROVE more[r + j] = range[j]
      <3>1. r + j \in 1 .. Len(more) /\ ~(r + j <= r) /\ (r + j) - r = j
        BY <2>2, <2>3
      <3> QED
        BY <2>3, <3>1
    <2> QED
      BY <1>1, <2>1, <2>3, <2>4, <2>5
  <1>7. Len(more) = rank[b]
    <2>1. b \in a .. b /\ b - a \in Nat
      BY <1>a
    <2> QED
      BY <1>4, <1>6, <2>1
  <1>8. ASSUME NEW id \in 0 .. b - 1, IsDirty(reg, id)
        PROVE  more[rank[id] + 1] = id
    <2>1. CASE id \in 0 .. last - 1
      <3>0. id \in 0 .. Len(reg) - 1 /\ id \in 0 .. Len(reg)
        BY <1>0, <1>8
      <3>1. rank[id + 1] = rank[id] + 1 /\ rank[id] \in Nat
        BY <1>8, <3>0 DEF Ranks
      <3>2. rank[id + 1] <= rank[last]
        <4>1. id + 1 \in 0 .. last
          BY <1>a, <2>1
        <4>2. last \in 0 .. Len(reg)
          BY <1>a
        <4> QED
          BY <4>1, <4>2, RanksGrow
      <3>3. rank[id] + 1 \in 1 .. rank[last]
        <4>1. PICK r, i : r = rank[last] /\ i = rank[id]
          OBVIOUS
        <4>2. r \in Nat /\ i \in Nat /\ i + 1 <= r
          BY <1>2, <3>1, <3>2, <4>1
        <4> QED
          BY <4>1, <4>2
      <3>4. numbers[rank[id] + 1] = id
        BY <1>8, <2>1 DEF NumbersTo
      <3> QED
        BY <1>6, <3>3, <3>4
    <2>2. CASE id \in a .. b - 1
      <3>1. rank[id] = rank[last] + (id - a)
        BY <1>a, <1>4, <2>2
      <3>2. PICK j : j = (id - a) + 1
        OBVIOUS
      <3>3. j \in 1 .. b - a /\ rank[id] + 1 = rank[last] + j /\ a + j - 1 = id
        BY <1>2, <1>a, <2>2, <3>1, <3>2
      <3> QED
        BY <1>6, <3>3
    <2>3. id \notin last .. a - 1
      BY <1>8, <1>a
    <2>4. id \in 0 .. last - 1 \/ id \in a .. b - 1
      BY <1>a, <2>3
    <2> QED
      BY <2>1, <2>2, <2>4
  <1> QED
    BY <1>m, <1>6, <1>7, <1>8 DEF NumbersTo

(* Whether or not the file has an older section, the lines are numbered    *)
(* with the IDs of the entries to be listed, in their order.               *)
LEMMA NumbersOfSection ==
    ASSUME NEW reg, Len(reg) \in Nat, Len(reg) >= 1, IsDirty(reg, 0),
           NEW rank, Ranks(reg, rank), NEW hasPrev
    PROVE  NumbersTo(reg, rank, Len(reg), Numbering(Subsections(reg), hasPrev))
  <1>0. PICK ranges, n : ranges = Subsections(reg) /\ n = Len(ranges)
    OBVIOUS
  <1>1. Splits(reg, 0, ranges)
    BY <1>0, SubsectionsSplit
  <1>2. ranges \in Seq(Ranges) /\ n \in Nat /\ n >= 1 /\ ranges[1].start = 0
    BY <1>0, <1>1 DEF Splits
  <1>3. \A k \in 1 .. n :
           /\ ranges[k].start \in Nat /\ ranges[k].size \in Nat
           /\ EndOf(ranges[k]) \in ranges[k].start .. Len(reg)
           /\ \A id \in ranges[k].start .. EndOf(ranges[k]) - 1 : IsDirty(reg, id)
    <2>1. ASSUME NEW k \in 1 .. n
          PROVE  /\ ranges[k].start \in Nat /\ ranges[k].size \in Nat
                 /\ EndOf(ranges[k]) \in ranges[k].start .. Len(reg)
                 /\ \A id \in ranges[k].start .. EndOf(ranges[k]) - 1 : IsDirty(reg, id)
      <3>1. ranges[k] \in Ranges
        BY <1>0, <1>2
      <3>2. /\ ranges[k].start \in Nat /\ ranges[k].size \in Nat
        BY <3>1 DEF Ranges
      <3>3. /\ EndOf(ranges[k]) <= Len(reg)
            /\ \A id \in ranges[k].start .. EndOf(ranges[k]) - 1 : IsDirty(reg, id)
        BY <1>0, <1>1 DEF Splits
      <3> QED
        BY <3>2, <3>3 DEF EndOf
    <2> QED
      BY <2>1
  <1> DEFINE piece == [k \in 1 .. n |->
                 LET start == IF k = 1 /\ ~hasPrev THEN 0 ELSE ranges[k].start
                 IN [j \in 1 .. ranges[k].size |-> start + j - 1]]
             flatten == CHOOSE f : f = [i \in 1 .. n |-> IF i = 1 THEN piece[i] ELSE f[i - 1] \o piece[i]]
  <1>4. Numbering(ranges, hasPrev) = flatten[n]
    <2>1. Numbering(ranges, hasPrev) = FlattenSeq(piece)
      BY <1>0 DEF Numbering
    <2>2. Len(piece) = n
      BY <1>2
    <2> HIDE DEF piece
    <2>3. Len(piece) # 0
      BY <1>2, <2>2
    <2> QED
      BY <2>1, <2>2, <2>3 DEF FlattenSeq
  <1>5. \A k \in 1 .. n :
           piece[k] = [j \in 1 .. EndOf(ranges[k]) - ranges[k].start |-> ranges[k].start + j - 1]
    <2>1. ASSUME NEW k \in 1 .. n
          PROVE  piece[k] = [j \in 1 .. EndOf(ranges[k]) - ranges[k].start |-> ranges[k].start + j - 1]
      <3>1. ranges[k].size = EndOf(ranges[k]) - ranges[k].start
        BY <1>3 DEF EndOf
      <3>2. piece[k] = LET start == IF k = 1 /\ ~hasPrev THEN 0 ELSE ranges[k].start
                       IN [j \in 1 .. ranges[k].size |-> start + j - 1]
        OBVIOUS
      <3>3. ranges[k].start = IF k = 1 /\ ~hasPrev THEN 0 ELSE ranges[k].start
        BY <1>2
      <3> HIDE DEF piece
      <3> QED
        BY Zenon, <3>1, <3>2, <3>3
    <2> QED
      BY <2>1
  <1>6. \A k \in 1 .. n : piece[k] \in Seq(Nat)
    <2>1. ASSUME NEW k \in 1 .. n PROVE piece[k] \in Seq(Nat)
      <3>1. PICK a, b : a = ranges[k].start /\ b = EndOf(ranges[k])
        OBVIOUS
      <3>2. a \in Nat /\ b \in a .. Len(reg) /\ piece[k] = [j \in 1 .. b - a |-> a + j - 1]
        BY <1>3, <1>5, <3>1
      <3> HIDE DEF piece
      <3> QED
        BY <3>2
    <2> QED
      BY <2>1
  <1> HIDE DEF piece
  <1>7. flatten = [i \in 1 .. n |-> IF i = 1 THEN piece[i] ELSE flatten[i - 1] \o piece[i]]
    <2> DEFINE V == Seq(Nat)
               step == [p \in (1 .. n - 1) \X V |-> p[2] \o piece[p[1] + 1]]
    <2>1. \A k \in 1 .. n - 1, v \in V : step[<<k, v>>] = v \o piece[k + 1]
      OBVIOUS
    <2>2. step \in [(1 .. n - 1) \X V -> V]
      <3>1. ASSUME NEW k \in 1 .. n - 1, NEW v \in V PROVE v \o piece[k + 1] \in V
        <4>1. k + 1 \in 1 .. n
          BY <1>2
        <4>2. piece[k + 1] \in V
          BY <1>6, <4>1
        <4> QED
          BY <4>2
      <3> QED
        BY <3>1
    <2>3. piece[1] \in V /\ n - 1 \in Nat
      BY <1>2, <1>6
    <2> HIDE DEF step, V
    <2>4. PICK g : Steps(g, V, piece[1], n - 1, step)
      BY <2>2, <2>3, Recursion
    <2> DEFINE f == [i \in 1 .. n |-> g[i - 1]]
    <2>5. ASSUME NEW i \in 1 .. n
          PROVE  f[i] = IF i = 1 THEN piece[i] ELSE f[i - 1] \o piece[i]
      <3>1. f[i] = g[i - 1]
        OBVIOUS
      <3>2. CASE i = 1
        BY <2>4, <3>1, <3>2 DEF Steps
      <3>3. CASE i # 1
        <4>1. i - 1 \in 1 .. n - 1 /\ i - 1 \in 1 .. n /\ (i - 1) + 1 = i /\ (i - 1) - 1 \in 0 .. n - 1
          BY <1>2, <3>3
        <4>2. f[i - 1] = g[(i - 1) - 1] /\ g[(i - 1) - 1] \in V
          BY <2>4, <4>1 DEF Steps
        <4>3. g[i - 1] = step[<<i - 1, g[(i - 1) - 1]>>]
          BY <2>4, <4>1 DEF Steps
        <4> HIDE DEF f
        <4> QED
          BY <2>1, <3>1, <3>3, <4>1, <4>2, <4>3
      <3> QED
        BY <3>2, <3>3
    <2>6. f = [i \in 1 .. n |-> IF i = 1 THEN piece[i] ELSE f[i - 1] \o piece[i]]
      BY <2>5
    <2> QED
      BY <2>6
  <1> HIDE DEF flatten
  <1>8. \A i \in 1 .. n : flatten[i] = IF i = 1 THEN piece[i] ELSE flatten[i - 1] \o piece[i]
    BY <1>7
  <1> DEFINE Numbered(k) == NumbersTo(reg, rank, EndOf(ranges[k]), flatten[k])
             S == {k \in 0 .. n - 1 : Numbered(k + 1)}
  <1>9. Numbered(1)
    <2>1. 1 \in 1 .. n
      BY <1>2
    <2>2. NumbersTo(reg, rank, 0, <<>>)
      BY DEF NumbersTo, Ranks
    <2>3. PICK b : b = EndOf(ranges[1])
      OBVIOUS
    <2>4. b \in 0 .. Len(reg) /\ \A id \in 0 .. b - 1 : IsDirty(reg, id)
      BY <1>2, <1>3, <2>1, <2>3
    <2>5. flatten[1] = [j \in 1 .. b - 0 |-> 0 + j - 1]
      BY <1>2, <1>5, <1>8, <2>1, <2>3
    <2>6. flatten[1] = <<>> \o [j \in 1 .. b - 0 |-> 0 + j - 1]
      <3>1. [j \in 1 .. b - 0 |-> 0 + j - 1] \in Seq(Nat)
        BY <2>4
      <3> QED
        BY <2>5, <3>1, ConcatEmptySeq
    <2>7. NumbersTo(reg, rank, b, flatten[1])
      <3>1. ComesNext(reg, 0, 0, b)
        BY <2>4 DEF ComesNext
      <3>2. PICK range : range = [j \in 1 .. b - 0 |-> 0 + j - 1]
        OBVIOUS
      <3>3. flatten[1] = <<>> \o range /\ NumbersOf(0, b, range)
        BY <2>4, <2>6, <3>2 DEF NumbersOf
      <3>4. NumbersTo(reg, rank, b, <<>> \o range)
        BY <2>2, <3>1, <3>3, NumbersOfRange
      <3> QED
        BY <3>3, <3>4
    <2> QED
      BY <2>3, <2>7
  <1>10. ASSUME NEW k \in 1 .. n - 1, Numbered(k)
         PROVE  Numbered(k + 1)
    <2>1. PICK last, a, b : last = EndOf(ranges[k]) /\ a = ranges[k + 1].start /\ b = EndOf(ranges[k + 1])
      OBVIOUS
    <2>2. k \in 1 .. n /\ k + 1 \in 1 .. n /\ k + 1 # 1 /\ (k + 1) - 1 = k
      BY <1>2
    <2>3. /\ last \in 0 .. Len(reg) /\ a \in Nat /\ b \in a .. Len(reg)
          /\ \A id \in a .. b - 1 : IsDirty(reg, id)
      BY <1>3, <2>1, <2>2
    <2>4. last <= a /\ \A id \in last .. a - 1 : ~IsDirty(reg, id)
      <3>1. \A i \in 1 .. Len(ranges) - 1 :
               /\ EndOf(ranges[i]) <= ranges[i + 1].start
               /\ \A id \in EndOf(ranges[i]) .. ranges[i + 1].start - 1 : ~IsDirty(reg, id)
        BY <1>1 DEF Splits
      <3> QED
        BY <1>0, <2>1, <3>1
    <2>5. a \in last .. Len(reg)
      BY <2>3, <2>4
    <2>6. flatten[k + 1] = flatten[k] \o [j \in 1 .. b - a |-> a + j - 1]
      <3>1. flatten[k + 1] = flatten[k] \o piece[k + 1]
        BY <1>8, <2>2
      <3>2. piece[k + 1] = [j \in 1 .. b - a |-> a + j - 1]
        BY <1>5, <2>1, <2>2
      <3> QED
        BY <3>1, <3>2
    <2>7. NumbersTo(reg, rank, last, flatten[k])
      BY <1>10, <2>1
    <2>8. NumbersTo(reg, rank, b, flatten[k + 1])
      <3>1. ComesNext(reg, last, a, b)
        BY <2>3, <2>4, <2>5 DEF ComesNext
      <3>2. PICK numbers, range : numbers = flatten[k] /\ range = [j \in 1 .. b - a |-> a + j - 1]
        OBVIOUS
      <3>3. flatten[k + 1] = numbers \o range /\ NumbersOf(a, b, range)
        BY <2>3, <2>6, <3>2 DEF NumbersOf
      <3>4. NumbersTo(reg, rank, last, numbers)
        BY <2>7, <3>2
      <3>5. NumbersTo(reg, rank, b, numbers \o range)
        BY <3>1, <3>3, <3>4, NumbersOfRange
      <3> QED
        BY <3>3, <3>5
    <2> QED
      BY <2>1, <2>8
  <1> HIDE DEF Numbered
  <1>11. 0 \in S
    BY <1>2, <1>9
  <1>12. ASSUME NEW k \in 0 .. (n - 1) - 1, k \in S
         PROVE  k + 1 \in S
    <2>1. k + 1 \in 1 .. n - 1 /\ k + 1 \in 0 .. n - 1
      BY <1>2
    <2>2. Numbered(k + 1)
      BY <1>12
    <2>3. Numbered((k + 1) + 1)
      BY <1>10, <2>1, <2>2
    <2> QED
      BY <2>1, <2>3
  <1> HIDE DEF S
  <1>13. \A k \in 0 .. n - 1 : k \in S
    <2>1. n - 1 \in Nat
      BY <1>2
    <2> QED
      BY <1>11, <1>12, <2>1, InductionUpTo
  <1>14. Numbered(n)
    <2>1. n - 1 \in 0 .. n - 1 /\ (n - 1) + 1 = n
      BY <1>2
    <2>2. n - 1 \in S
      BY <1>13, <2>1
    <2>3. Numbered((n - 1) + 1)
      BY <2>2 DEF S
    <2> QED
      BY <2>1, <2>3
  <1>15. PICK last : last = EndOf(ranges[n])
    OBVIOUS
  <1>16. last \in 0 .. Len(reg) /\ \A id \in last .. Len(reg) - 1 : ~IsDirty(reg, id)
    <2>1. n \in 1 .. n
      BY <1>2
    <2>2. \A id \in EndOf(ranges[Len(ranges)]) .. Len(reg) - 1 : ~IsDirty(reg, id)
      BY <1>0, <1>1, <1>2 DEF Splits
    <2> QED
      BY <1>0, <1>3, <1>15, <2>1, <2>2
  <1>17. rank[Len(reg)] = rank[last]
    <2>1. Len(reg) \in last .. Len(reg)
      BY <1>16
    <2> QED
      BY <1>16, <2>1, RanksInGap
  <1>18. NumbersTo(reg, rank, last, flatten[n])
    BY <1>14, <1>15 DEF Numbered
  <1>19. \A id \in 0 .. Len(reg) - 1 : IsDirty(reg, id) => id \in 0 .. last - 1
    BY <1>16
  <1>20. NumbersTo(reg, rank, Len(reg), flatten[n])
    BY <1>17, <1>18, <1>19 DEF NumbersTo
  <1> QED
    BY <1>0, <1>4, <1>20
-----------------------------------------------------------------------------
(***************************************************************************)
(* What is written is read back.                                           *)
(***************************************************************************)

(* Is the section one of the registry?  Each line has the number of an     *)
(* entry to be listed, each such entry has a line, and the line is its own.*)
ListsTheRegistry(reg, numbering, lines) ==
    /\ Len(numbering) = Len(lines) /\ numbering \in Seq(Nat) /\ lines \in Seq(Lines)
    /\ \A k \in 1 .. Len(lines) :
          /\ numbering[k] \in 0 .. Len(reg) - 1 /\ IsDirty(reg, numbering[k])
          /\ lines[k] = LineOf(reg, numbering[k])
    /\ \A id \in 0 .. Len(reg) - 1 : IsDirty(reg, id) => \E k \in 1 .. Len(lines) : numbering[k] = id
    /\ \A k, l \in 1 .. Len(lines) : numbering[k] = numbering[l] => k = l

LEMMA SectionListsTheRegistry ==
    ASSUME NEW reg \in Seq(ObjectWriteInformation), Len(reg) >= 1, IsDirtyAndFree(reg, 0),
           WriteEntries(reg).status = "success", NEW hasPrev
    PROVE  ListsTheRegistry(reg, Numbering(Subsections(reg), hasPrev), WriteEntries(reg).lines)
  <1>0. Len(reg) \in Nat /\ IsDirty(reg, 0)
    BY DEF IsDirtyAndFree
  <1>1. PICK rank : Ranks(reg, rank)
    BY <1>0, RanksExist
  <1>2. PICK written, numbering : /\ written = WriteEntries(reg)
                                  /\ numbering = Numbering(Subsections(reg), hasPrev)
    OBVIOUS
  <1>3. PartWritten(reg, rank, Len(reg), written)
    BY <1>1, <1>2, EntriesAreWritten
  <1>4. PICK lines, n : lines = written.lines /\ n = Len(reg)
    OBVIOUS
  <1>5. /\ lines \in Seq(Lines) /\ Len(lines) = rank[n]
        /\ \A id \in 0 .. n - 1 : IsDirty(reg, id) => lines[rank[id] + 1] = LineOf(reg, id)
    BY <1>2, <1>3, <1>4 DEF PartWritten, Progress
  <1>6. /\ numbering \in Seq(Nat) /\ Len(numbering) = rank[n]
        /\ \A id \in 0 .. n - 1 : IsDirty(reg, id) => numbering[rank[id] + 1] = id
    <2>1. NumbersTo(reg, rank, Len(reg), numbering)
      BY <1>0, <1>1, <1>2, NumbersOfSection
    <2> QED
      BY <1>4, <2>1 DEF NumbersTo
  <1>7. \A k \in 1 .. rank[n] : \E id \in 0 .. n - 1 : IsDirty(reg, id) /\ rank[id] + 1 = k
    BY <1>0, <1>1, <1>4, RanksMeet
  <1>8. \A id \in 0 .. n - 1 : IsDirty(reg, id) => rank[id] + 1 \in 1 .. rank[n]
    <2>1. ASSUME NEW id \in 0 .. n - 1, IsDirty(reg, id) PROVE rank[id] + 1 \in 1 .. rank[n]
      <3>1. id \in 0 .. n /\ id + 1 \in 0 .. n /\ n \in 0 .. n /\ n \in Nat
        BY <1>0, <1>4
      <3>2. rank[id + 1] = rank[id] + 1 /\ rank[id] \in Nat /\ rank[n] \in Nat
        BY <1>1, <1>4, <2>1, <3>1 DEF Ranks
      <3>3. rank[id + 1] <= rank[n]
        BY <1>0, <1>1, <1>4, <3>1, RanksGrow
      <3> QED
        BY <3>2, <3>3
    <2> QED
      BY <2>1
  <1>9. ASSUME NEW k \in 1 .. Len(lines)
        PROVE  /\ numbering[k] \in 0 .. n - 1 /\ IsDirty(reg, numbering[k])
               /\ lines[k] = LineOf(reg, numbering[k]) /\ k = rank[numbering[k]] + 1
    <2>1. PICK id \in 0 .. n - 1 : IsDirty(reg, id) /\ rank[id] + 1 = k
      BY <1>5, <1>7
    <2> QED
      BY <1>5, <1>6, <2>1
  <1>10. ASSUME NEW id \in 0 .. n - 1, IsDirty(reg, id)
         PROVE  \E k \in 1 .. Len(lines) : numbering[k] = id
    <2>1. rank[id] + 1 \in 1 .. Len(lines) /\ numbering[rank[id] + 1] = id
      BY <1>5, <1>6, <1>8, <1>10
    <2> QED
      BY <2>1
  <1>11. \A k, l \in 1 .. Len(lines) : numbering[k] = numbering[l] => k = l
    BY <1>9
  <1>12. ListsTheRegistry(reg, numbering, lines)
    BY <1>4, <1>5, <1>6, <1>9, <1>10, <1>11 DEF ListsTheRegistry
  <1> QED
    BY <1>2, <1>4, <1>12

(* The entry a reader has for an object.                                   *)
LEMMA WhatIsRead ==
    ASSUME NEW reg, NEW section, NEW previous, Len(previous) \in Nat,
           ListsTheRegistry(reg, Numbering(section.subsections, previous # <<>>), section.lines),
           NEW i \in 1 .. Len(reg)
    PROVE  LET read == ReadXref(section, Len(reg), previous)
           IN /\ IsDirty(reg, i - 1) => read[i] = ReadEntry(LineOf(reg, i - 1))
              /\ ~IsDirty(reg, i - 1) =>
                    read[i] = IF i <= Len(previous) THEN previous[i] ELSE Undefined
  <1>1. PICK numbering, lines : /\ numbering = Numbering(section.subsections, previous # <<>>)
                                /\ lines = section.lines
    OBVIOUS
  <1>2. ListsTheRegistry(reg, numbering, lines)
    BY <1>1
  <1>3. ReadXref(section, Len(reg), previous)[i] =
           IF \E k \in DOMAIN numbering : numbering[k] = i - 1
           THEN ReadEntry(lines[CHOOSE k \in DOMAIN numbering : numbering[k] = i - 1])
           ELSE IF i <= Len(previous) THEN previous[i] ELSE Undefined
    BY <1>1 DEF ReadXref
  <1>4. DOMAIN numbering = 1 .. Len(lines)
    BY <1>2 DEF ListsTheRegistry
  <1>5. CASE IsDirty(reg, i - 1)
    <2>1. i - 1 \in 0 .. Len(reg) - 1
      OBVIOUS
    <2>2. \E k \in DOMAIN numbering : numbering[k] = i - 1
      BY <1>2, <1>4, <1>5, <2>1 DEF ListsTheRegistry
    <2>3. PICK c : c = CHOOSE k \in DOMAIN numbering : numbering[k] = i - 1
      OBVIOUS
    <2>4. c \in DOMAIN numbering /\ numbering[c] = i - 1
      BY <2>2, <2>3
    <2>5. lines[c] = LineOf(reg, i - 1)
      BY <1>2, <1>4, <2>4 DEF ListsTheRegistry
    <2> QED
      BY <1>3, <1>5, <2>2, <2>3, <2>5
  <1>6. CASE ~IsDirty(reg, i - 1)
    <2>1. ~ \E k \in DOMAIN numbering : numbering[k] = i - 1
      BY <1>2, <1>4, <1>6 DEF ListsTheRegistry
    <2> QED
      BY <1>3, <1>6, <2>1
  <1> QED
    BY <1>5, <1>6
-----------------------------------------------------------------------------
(***************************************************************************)
(* The registry during a session, and what it keeps of the table that the  *)
(* file was parsed to: entry 0 is the head of the free list; the entries   *)
(* of new objects are to be listed; those of old ones have an object; and  *)
(* an entry that is not to be listed is the parsed one.                    *)
(***************************************************************************)
Fits(e) == validate => e.position <= MaxXrefPosition

EntriesAreKept(tab) ==
    \A i \in 1 .. Len(registry) :
       ~registry[i].dirty => i <= Len(tab) /\ registry[i] = ExistingItem(tab[i])

Session(tab) ==
    /\ IInv
    /\ registry[1] = SingleFreeObject
    /\ Len(tab) <= Len(registry)
    /\ \A i \in 1 .. Len(registry) :
          /\ i > firstNewID => registry[i].dirty
          /\ i <= firstNewID /\ registry[i].type = "Used" => registry[i].written
          /\ registry[i].dirty => Fits(registry[i])
    /\ EntriesAreKept(tab)

(* Of those entries, the ones in use are where the newest headers are.     *)
UntouchedAreNewest(tab) ==
    \A i \in 1 .. Len(registry) :
       ~registry[i].dirty /\ tab[i].type = "Existing" =>
           IsNewestHeader(headers, tab[i].position, i - 1)

(* A step of the registry's client adds an entry, or changes that of one   *)
(* object, which is then to be listed; a header is that object's.          *)
Adds(e) ==
    /\ registry' = Append(registry, e)
    /\ headers' = headers \/ WriteHeader(Len(registry))

Changes(id, e) ==
    /\ id \in 1 .. Len(registry) - 1
    /\ registry' = [registry EXCEPT ![id + 1] = e]
    /\ headers' = headers \/ WriteHeader(id)
    /\ id < firstNewID /\ e.type = "Used" => e.written

Touches(e) ==
    /\ e \in ObjectWriteInformation /\ e.dirty /\ Fits(e)
    /\ UNCHANGED <<validate, firstNewID>>
    /\ Adds(e) \/ \E id : Changes(id, e)

LEMMA StepsTouch ==
    ASSUME NEW tab, Session(tab), Next
    PROVE  \E e : Touches(e)
  <1> USE DEF ObjectIDs, GetObjectsCount, GetNthObjectReference
  <1>1. /\ TypeOK /\ registry \in Seq(ObjectWriteInformation) /\ headers \in Seq(Header)
        /\ registry[1] = SingleFreeObject /\ firstNewID \in 1 .. Len(registry)
        /\ validate \in BOOLEAN
        /\ \A i \in 1 .. Len(registry) : registry[i] \in ObjectWriteInformation
        /\ \A i \in 1 .. Len(registry) : i <= firstNewID /\ registry[i].type = "Used" => registry[i].written
    BY DEF Session, IInv, TypeOK
  <1>2. /\ NewObject \in ObjectWriteInformation /\ NewObject.dirty /\ NewObject.position = 0
        /\ 0 \in Nat /\ MaxXrefPosition \in Nat
    BY ConstantsAssumption DEF NewObject, ObjectWriteInformation, ObjectReferenceTypes
  <1>3. CurrentPosition \in Nat
    BY <1>1 DEF CurrentPosition
  <1>4. ~SingleFreeObject.written /\ SingleFreeObject.generation = MaxGeneration
    BY DEF SingleFreeObject
  <1>5. CASE AllocateNewObjectID
    <2>1. Adds(NewObject)
      BY <1>5 DEF AllocateNewObjectID, Adds
    <2>2. Touches(NewObject)
      BY <1>2, <1>5, <2>1 DEF Touches, Fits, AllocateNewObjectID
    <2> QED
      BY <2>2
  <1>6. CASE StartNewIndirectObject
    <2> DEFINE e == [NewObject EXCEPT !.position = CurrentPosition, !.written = TRUE]
    <2>1. e \in ObjectWriteInformation /\ e.dirty /\ e.position = CurrentPosition
      BY <1>2, <1>3 DEF ObjectWriteInformation, NewObject
    <2>2. CASE MaxWritePositionIsValid
      <3>1. registry' = Append(registry, e) /\ WriteHeader(Len(registry))
            /\ UNCHANGED <<validate, firstNewID>>
        BY <1>6, <2>2 DEF StartNewIndirectObject
      <3> HIDE DEF e
      <3>2. Fits(e)
        BY <2>1, <2>2 DEF Fits, MaxWritePositionIsValid
      <3>3. Touches(e)
        BY <2>1, <3>1, <3>2 DEF Touches, Adds
      <3> QED
        BY <3>3
    <2>3. CASE ~MaxWritePositionIsValid
      <3>1. registry' = Append(registry, NewObject) /\ headers' = headers
            /\ UNCHANGED <<validate, firstNewID>>
        BY <1>6, <2>3 DEF StartNewIndirectObject
      <3>2. Touches(NewObject)
        BY <1>2, <3>1 DEF Touches, Adds, Fits
      <3> QED
        BY <3>2
    <2> QED
      BY <2>2, <2>3
  <1>7. ASSUME NEW id \in ObjectIDs, StartAllocatedIndirectObject(id)
        PROVE  \E e : Touches(e)
    <2> DEFINE e == [registry[id + 1] EXCEPT !.dirty = TRUE, !.position = CurrentPosition,
                                             !.written = TRUE]
    <2>1. id >= firstNewID /\ MaxWritePositionIsValid
      BY <1>7 DEF StartAllocatedIndirectObject, MarkObjectAsWrittenSucceeds
    <2>2. id \in 1 .. Len(registry) - 1
      BY <1>1, <2>1
    <2>3. e \in ObjectWriteInformation /\ e.dirty /\ e.position = CurrentPosition /\ e.written
      <3>1. registry[id + 1] \in ObjectWriteInformation
        BY <1>1
      <3> QED
        BY <1>3, <3>1 DEF ObjectWriteInformation
    <2>4. /\ registry' = [registry EXCEPT ![id + 1] = e] /\ WriteHeader(id)
          /\ UNCHANGED <<validate, firstNewID>>
      BY <1>7 DEF StartAllocatedIndirectObject, MarkObjectAsWritten
    <2> HIDE DEF e
    <2>5. Fits(e)
      BY <2>1, <2>3 DEF Fits, MaxWritePositionIsValid
    <2>6. Changes(id, e)
      BY <2>2, <2>3, <2>4 DEF Changes
    <2>7. Touches(e)
      BY <2>3, <2>4, <2>5, <2>6 DEF Touches
    <2> QED
      BY <2>7
  <1>8. ASSUME NEW id \in ObjectIDs, StartModifiedIndirectObject(id)
        PROVE  \E e : Touches(e)
    <2> DEFINE e == [registry[id + 1] EXCEPT !.dirty = TRUE, !.position = CurrentPosition,
                                             !.type = "Used"]
    <2>1. registry[id + 1].written /\ MaxWritePositionIsValid
      BY <1>8 DEF StartModifiedIndirectObject, MarkObjectAsUpdatedSucceeds
    <2>2. id \in 1 .. Len(registry) - 1
      <3>1. id # 0
        BY <1>1, <1>4, <2>1
      <3> QED
        BY <1>1, <3>1
    <2>3. e \in ObjectWriteInformation /\ e.dirty /\ e.position = CurrentPosition /\ e.written
      <3>1. registry[id + 1] \in ObjectWriteInformation
        BY <1>1
      <3> QED
        BY <1>3, <2>1, <3>1 DEF ObjectWriteInformation, ObjectReferenceTypes
    <2>4. /\ registry' = [registry EXCEPT ![id + 1] = e] /\ WriteHeader(id)
          /\ UNCHANGED <<validate, firstNewID>>
      BY <1>8 DEF StartModifiedIndirectObject, MarkObjectAsUpdated
    <2> HIDE DEF e
    <2>5. Fits(e)
      BY <2>1, <2>3 DEF Fits, MaxWritePositionIsValid
    <2>6. Changes(id, e)
      BY <2>2, <2>3, <2>4 DEF Changes
    <2>7. Touches(e)
      BY <2>3, <2>4, <2>5, <2>6 DEF Touches
    <2> QED
      BY <2>7
  <1>9. ASSUME NEW id \in ObjectIDs, DeleteObject(id)
        PROVE  \E e : Touches(e)
    <2> DEFINE e == [registry[id + 1] EXCEPT !.dirty = TRUE, !.generation = @ + 1,
                                             !.position = 0, !.type = "Free"]
    <2>1. registry[id + 1].generation # MaxGeneration
      BY <1>9 DEF DeleteObject
    <2>2. id \in 1 .. Len(registry) - 1
      <3>1. id # 0
        BY <1>1, <1>4, <2>1
      <3> QED
        BY <1>1, <3>1
    <2>3. e \in ObjectWriteInformation /\ e.dirty /\ e.position = 0 /\ e.type = "Free"
      <3>1. registry[id + 1] \in ObjectWriteInformation
        BY <1>1
      <3>2. e \in ObjectWriteInformation /\ e.type = "Free"
        BY <2>1, <3>1, DeletedUpdate
      <3>3. e.dirty /\ e.position = 0
        BY <3>1 DEF ObjectWriteInformation
      <3> QED
        BY <3>2, <3>3
    <2>4. /\ registry' = [registry EXCEPT ![id + 1] = e] /\ headers' = headers
          /\ UNCHANGED <<validate, firstNewID>>
      BY <1>9 DEF DeleteObject
    <2> HIDE DEF e
    <2>5. Fits(e)
      BY <1>2, <2>3 DEF Fits
    <2>6. Changes(id, e)
      BY <2>2, <2>3, <2>4 DEF Changes
    <2>7. Touches(e)
      BY <2>3, <2>4, <2>5, <2>6 DEF Touches
    <2> QED
      BY <2>7
  <1> QED
    BY <1>5, <1>6, <1>7, <1>8, <1>9 DEF Next

(* The header of one object leaves those of the others the newest.         *)
LEMMA StillNewest ==
    ASSUME TypeOK, NEW id \in Nat, WriteHeader(id), NEW p, NEW other, other # id,
           IsNewestHeader(headers, p, other)
    PROVE  IsNewestHeader(headers', p, other)
  <1>1. PICK n : n = Len(headers)
    OBVIOUS
  <1>2. n \in Nat /\ p \in 1 .. n /\ headers[p].id = other
        /\ \A later \in p + 1 .. n : headers[later].id # other
    BY <1>1 DEF IsNewestHeader, TypeOK
  <1>3. /\ Len(headers') = n + 1 /\ headers'[n + 1].id = id
        /\ \A h \in 1 .. n : headers'[h] = headers[h]
    BY <1>1, AppendedHeader
  <1>4. p \in 1 .. Len(headers') /\ headers'[p].id = other
    BY <1>2, <1>3
  <1>5. ASSUME NEW later \in p + 1 .. Len(headers')
        PROVE  headers'[later].id # other
    <2>1. CASE later = n + 1
      BY <1>3, <2>1
    <2>2. CASE later # n + 1
      <3>1. later \in p + 1 .. n /\ later \in 1 .. n
        BY <1>2, <1>3, <2>2
      <3> QED
        BY <1>2, <1>3, <3>1
    <2> QED
      BY <2>1, <2>2
  <1> QED
    BY <1>4, <1>5 DEF IsNewestHeader

LEMMA SessionGoesOn ==
    ASSUME NEW tab, Len(tab) \in Nat, Session(tab), Next
    PROVE  /\ Session(tab)'
           /\ \A i \in 1 .. Len(registry) : ~registry'[i].dirty => registry'[i] = registry[i]
           /\ Len(registry') >= Len(registry)
           /\ UntouchedAreNewest(tab) => UntouchedAreNewest(tab)'
  <1>0. IInv'
    BY NextIInv DEF Session
  <1>1. PICK e : Touches(e)
    BY StepsTouch
  <1>2. /\ TypeOK /\ registry \in Seq(ObjectWriteInformation) /\ headers \in Seq(Header)
        /\ firstNewID \in 1 .. Len(registry)
    BY DEF Session, IInv, TypeOK
  <1>3. /\ e \in ObjectWriteInformation /\ e.dirty /\ Fits(e)
        /\ validate' = validate /\ firstNewID' = firstNewID
    BY <1>1 DEF Touches
  <1>4. CASE Adds(e)
    <2> DEFINE n == Len(registry)
    <2>1. /\ Len(registry') = n + 1 /\ registry'[n + 1] = e
          /\ \A i \in 1 .. n : registry'[i] = registry[i]
      BY <1>2, <1>4 DEF Adds
    <2>2. n \in Nat /\ n >= 1
      BY <1>2
    <2> HIDE DEF n
    <2>3. \A i \in 1 .. Len(registry') : i = n + 1 \/ i \in 1 .. n
      BY <2>1, <2>2
    <2>4. registry'[1] = SingleFreeObject /\ Len(tab) <= Len(registry')
      BY <2>1, <2>2 DEF Session, n
    <2>5. ASSUME NEW i \in 1 .. Len(registry')
          PROVE  /\ i > firstNewID' => registry'[i].dirty
                 /\ i <= firstNewID' /\ registry'[i].type = "Used" => registry'[i].written
                 /\ registry'[i].dirty => Fits(registry[i])'
                 /\ ~registry'[i].dirty => i <= Len(tab) /\ registry'[i] = ExistingItem(tab[i])
      <3>1. CASE i = n + 1
        BY <1>2, <1>3, <2>1, <3>1 DEF Fits, n
      <3>2. CASE i \in 1 .. n
        <4>1. registry'[i] = registry[i]
          BY <2>1, <3>2
        <4> QED
          BY <1>3, <3>2, <4>1 DEF Session, EntriesAreKept, Fits, n
      <3> QED
        BY <2>3, <3>1, <3>2
    <2>6. Session(tab)'
      BY <1>0, <2>4, <2>5 DEF Session, EntriesAreKept
    <2>7. ASSUME UntouchedAreNewest(tab), NEW i \in 1 .. Len(registry'), ~registry'[i].dirty,
                 tab[i].type = "Existing"
          PROVE  IsNewestHeader(headers', tab[i].position, i - 1)
      <3>1. i \in 1 .. n /\ registry'[i] = registry[i]
        BY <1>3, <2>1, <2>3, <2>7
      <3>2. IsNewestHeader(headers, tab[i].position, i - 1)
        BY <2>7, <3>1 DEF UntouchedAreNewest, n
      <3>3. CASE headers' = headers
        BY <3>2, <3>3
      <3>4. CASE WriteHeader(Len(registry))
        <4>1. i - 1 # Len(registry) /\ Len(registry) \in Nat
          BY <1>2, <3>1 DEF n
        <4> QED
          BY <1>2, <3>2, <3>4, <4>1, StillNewest
      <3> QED
        BY <1>4, <3>3, <3>4 DEF Adds
    <2> QED
      BY <2>1, <2>2, <2>6, <2>7 DEF UntouchedAreNewest, n
  <1>5. ASSUME NEW id, Changes(id, e)
        PROVE  /\ Session(tab)'
               /\ \A i \in 1 .. Len(registry) : ~registry'[i].dirty => registry'[i] = registry[i]
               /\ Len(registry') >= Len(registry)
               /\ UntouchedAreNewest(tab) => UntouchedAreNewest(tab)'
    <2>1. /\ id \in 1 .. Len(registry) - 1
          /\ id < firstNewID /\ e.type = "Used" => e.written
          /\ headers' = headers \/ WriteHeader(id)
      BY <1>5 DEF Changes
    <2>2. /\ Len(registry') = Len(registry) /\ registry'[id + 1] = e
          /\ \A i \in 1 .. Len(registry) : i # id + 1 => registry'[i] = registry[i]
      BY <1>2, <1>5, <2>1 DEF Changes
    <2>4. registry'[1] = SingleFreeObject /\ Len(tab) <= Len(registry')
      <3>1. 1 \in 1 .. Len(registry) /\ 1 # id + 1
        BY <1>2, <2>1
      <3> QED
        BY <2>2, <3>1 DEF Session
    <2>5. ASSUME NEW i \in 1 .. Len(registry')
          PROVE  /\ i > firstNewID' => registry'[i].dirty
                 /\ i <= firstNewID' /\ registry'[i].type = "Used" => registry'[i].written
                 /\ registry'[i].dirty => Fits(registry[i])'
                 /\ ~registry'[i].dirty => i <= Len(tab) /\ registry'[i] = ExistingItem(tab[i])
      <3>1. CASE i = id + 1
        <4>1. i <= firstNewID => id < firstNewID
          BY <1>2, <2>1, <3>1
        <4> QED
          BY <1>3, <2>1, <2>2, <3>1, <4>1 DEF Fits
      <3>2. CASE i # id + 1
        <4>1. registry'[i] = registry[i] /\ i \in 1 .. Len(registry)
          BY <2>2, <3>2
        <4> QED
          BY <1>3, <4>1 DEF Session, EntriesAreKept, Fits
      <3> QED
        BY <3>1, <3>2
    <2>6. Session(tab)'
      BY <1>0, <2>4, <2>5 DEF Session, EntriesAreKept
    <2>7. ASSUME UntouchedAreNewest(tab), NEW i \in 1 .. Len(registry'), ~registry'[i].dirty,
                 tab[i].type = "Existing"
          PROVE  IsNewestHeader(headers', tab[i].position, i - 1)
      <3>1. i \in 1 .. Len(registry) /\ i # id + 1 /\ registry'[i] = registry[i]
        BY <1>3, <2>2, <2>7
      <3>2. IsNewestHeader(headers, tab[i].position, i - 1)
        BY <2>7, <3>1 DEF UntouchedAreNewest
      <3>3. CASE headers' = headers
        BY <3>2, <3>3
      <3>4. CASE WriteHeader(id)
        <4>1. i - 1 # id /\ id \in Nat
          BY <2>1, <3>1
        <4> QED
          BY <1>2, <3>2, <3>4, <4>1, StillNewest
      <3> QED
        BY <2>1, <3>3, <3>4
    <2>8. \A i \in 1 .. Len(registry) : ~registry'[i].dirty => registry'[i] = registry[i]
      BY <1>3, <2>2
    <2> QED
      BY <1>2, <2>2, <2>6, <2>7, <2>8 DEF UntouchedAreNewest
  <1> QED
    BY <1>1, <1>4, <1>5 DEF Touches
-----------------------------------------------------------------------------
(***************************************************************************)
(* A finalization.                                                         *)
(***************************************************************************)
Section(reg) == [subsections |-> Subsections(reg), lines |-> WriteEntries(reg).lines]

(* A registry whose section can be written.                                *)
Writable(reg) == reg \in Seq(ObjectWriteInformation) /\ Len(reg) >= 1 /\ IsDirtyAndFree(reg, 0)

LEMMA LineOfEntry ==
    ASSUME NEW reg, Writable(reg), NEW id \in 0 .. Len(reg) - 1
    PROVE  /\ LineOf(reg, id) \in Lines
           /\ reg[id + 1].type = "Used" =>
                 LineOf(reg, id) = [kind |-> "n", value |-> reg[id + 1].position,
                                    generation |-> reg[id + 1].generation]
           /\ reg[id + 1].type = "Free" =>
                 LineOf(reg, id) = [kind |-> "f", value |-> FirstOf(FreeFrom(reg, id + 1)),
                                    generation |-> reg[id + 1].generation]
           /\ reg[id + 1].type \in {"Used", "Free"}
  <1> DEFINE e == reg[id + 1]
             next == FirstOf(FreeFrom(reg, id + 1))
  <1>1. Len(reg) \in Nat /\ e \in ObjectWriteInformation
    BY DEF Writable
  <1>2. /\ e.type \in {"Used", "Free"} /\ e.position \in Nat /\ e.generation \in 0 .. MaxGeneration
    BY <1>1 DEF ObjectWriteInformation, ObjectReferenceTypes
  <1>3. NextFreeObject(reg, id) = next /\ next \in Nat
    <2>1. NextFreeObject(reg, id) = next /\ NextFreeObject(reg, id) \in 0 .. Len(reg) - 1
      BY <1>1, NextFreeIs
    <2> HIDE DEF next
    <2> QED
      BY <1>1, <2>1
  <1>4. LineOf(reg, id) =
           IF e.type = "Used" THEN [kind |-> "n", value |-> e.position, generation |-> e.generation]
           ELSE [kind |-> "f", value |-> next, generation |-> e.generation]
    BY <1>3 DEF LineOf
  <1> HIDE DEF e, next
  <1>5. LineOf(reg, id) \in Lines
    BY <1>2, <1>3, <1>4 DEF Lines
  <1> QED
    BY <1>2, <1>4, <1>5 DEF e, next

(* What a reader makes of the section: an entry of the table for each of   *)
(* the registry, that of an object to be listed from its line, the others  *)
(* from the older table.                                                   *)
LEMMA TableOfSection ==
    ASSUME NEW reg, Writable(reg), WriteEntries(reg).status = "success",
           NEW previous \in Seq(XrefEntryInput),
           NEW read, read = ReadXref(Section(reg), Len(reg), previous)
    PROVE  /\ read \in Seq(XrefEntryInput) /\ Len(read) = Len(reg)
           /\ \A i \in 1 .. Len(reg) :
                 /\ IsDirty(reg, i - 1) => read[i] = ReadEntry(LineOf(reg, i - 1))
                 /\ ~IsDirty(reg, i - 1) =>
                       read[i] = IF i <= Len(previous) THEN previous[i] ELSE Undefined
  <1>0. PICK n \in Nat : n = Len(reg)
    BY DEF Writable
  <1>1. ListsTheRegistry(reg, Numbering(Section(reg).subsections, previous # <<>>), Section(reg).lines)
    BY SectionListsTheRegistry DEF Section, Writable
  <1>2. \A i \in 1 .. n :
           /\ IsDirty(reg, i - 1) => read[i] = ReadEntry(LineOf(reg, i - 1))
           /\ ~IsDirty(reg, i - 1) =>
                 read[i] = IF i <= Len(previous) THEN previous[i] ELSE Undefined
    <2>1. Len(previous) \in Nat
      OBVIOUS
    <2>2. PICK section : section = Section(reg)
      OBVIOUS
    <2>3. ListsTheRegistry(reg, Numbering(section.subsections, previous # <<>>), section.lines)
      BY <1>1, <2>2
    <2> QED
      BY <1>0, <2>1, <2>2, <2>3, WhatIsRead
  <1>3. ASSUME NEW i \in 1 .. n PROVE read[i] \in XrefEntryInput
    <2>1. CASE IsDirty(reg, i - 1)
      <3>1. i - 1 \in 0 .. Len(reg) - 1
        BY <1>0
      <3>2. LineOf(reg, i - 1) \in Lines
        BY <3>1, LineOfEntry
      <3>3. ReadEntry(LineOf(reg, i - 1)) \in XrefEntryInput
        BY <3>2 DEF ReadEntry, Lines, XrefEntryInput
      <3> QED
        BY <1>2, <2>1, <3>3
    <2>2. CASE ~IsDirty(reg, i - 1)
      <3>1. Undefined \in XrefEntryInput
        BY ConstantsAssumption DEF Undefined, XrefEntryInput
      <3>2. i <= Len(previous) => previous[i] \in XrefEntryInput
        OBVIOUS
      <3> QED
        BY <1>2, <2>2, <3>1, <3>2
    <2> QED
      BY <2>1, <2>2
  <1>4. \E g : read = [i \in 1 .. n |-> g[i]]
    <2> DEFINE numbering == Numbering(Section(reg).subsections, previous # <<>>)
               value(i) == IF \E k \in DOMAIN numbering : numbering[k] = i - 1
                           THEN ReadEntry(Section(reg).lines[CHOOSE k \in DOMAIN numbering : numbering[k] = i - 1])
                           ELSE IF i <= Len(previous) THEN previous[i] ELSE Undefined
               g == [i \in 1 .. n |-> value(i)]
    <2>1. read = g
      BY <1>0 DEF ReadXref
    <2> HIDE DEF value
    <2>2. g = [i \in 1 .. n |-> g[i]]
      OBVIOUS
    <2> QED
      BY <2>1, <2>2
  <1>5. read \in [1 .. n -> XrefEntryInput]
    BY <1>3, <1>4
  <1>6. read \in Seq(XrefEntryInput) /\ Len(read) = n
    BY <1>0, <1>5
  <1> QED
    BY <1>0, <1>2, <1>6

(* The registry that the next session makes of the line of an entry.       *)
LEMMA LineReadBack ==
    ASSUME NEW reg, Writable(reg), NEW id \in 0 .. Len(reg) - 1,
           NEW item, item = ExistingItem(ReadEntry(LineOf(reg, id)))
    PROVE  /\ item.type = reg[id + 1].type /\ item.generation = reg[id + 1].generation
           /\ item.type = "Used" => item.position = reg[id + 1].position
           /\ ReadEntry(LineOf(reg, id)).type = "Existing" =>
                 /\ reg[id + 1].type = "Used"
                 /\ ReadEntry(LineOf(reg, id)).position = reg[id + 1].position
  <1> DEFINE e == reg[id + 1]
  <1>1. CASE e.type = "Used"
    <2>1. LineOf(reg, id) = [kind |-> "n", value |-> e.position, generation |-> e.generation]
      BY <1>1, LineOfEntry
    <2> HIDE DEF e
    <2>2. ReadEntry(LineOf(reg, id)) = [type |-> "Existing", position |-> e.position, revision |-> e.generation]
      BY <2>1 DEF ReadEntry
    <2> QED
      BY <1>1, <2>2 DEF ExistingItem, e
  <1>2. CASE e.type = "Free"
    <2>1. LineOf(reg, id).kind = "f" /\ LineOf(reg, id).generation = e.generation
      BY <1>2, LineOfEntry
    <2> HIDE DEF e
    <2>2. ReadEntry(LineOf(reg, id)).type = "Delete" /\ ReadEntry(LineOf(reg, id)).revision = e.generation
      BY <2>1 DEF ReadEntry
    <2> QED
      BY <1>2, <2>2 DEF ExistingItem, e
  <1> QED
    BY <1>1, <1>2, LineOfEntry

(* The document is finalized with the table tab of the session before.     *)
Finalizes(tab) ==
    /\ tab \in Seq(XrefEntryInput)
    /\ Session(tab)'
    /\ status' = WriteEntries(registry').status
    /\ xref' = Section(registry')
    /\ table' = IF status' = "success" THEN ReadXref(Section(registry'), Len(registry'), tab) ELSE tab

LEMMA FinalizedRegistry ==
    ASSUME NEW tab, Finalizes(tab)
    PROVE  /\ Writable(registry')
           /\ \A i \in 1 .. Len(registry') :
                 /\ IsDirty(registry', i - 1) <=> registry'[i].dirty
                 /\ registry'[i] \in ObjectWriteInformation
           /\ status' \in {"success", "failure"}
           /\ status' = "success" <=> \A id \in 0 .. Len(registry') - 1 : ~IsMissing(registry', id)
  <1>1. PICK reg : reg = registry'
    OBVIOUS
  <1>2. reg \in Seq(ObjectWriteInformation) /\ Len(reg) >= 1 /\ reg[1] = SingleFreeObject
    BY <1>1 DEF Finalizes, Session, IInv, TypeOK
  <1>3. Writable(reg)
    BY <1>2 DEF Writable, IsDirtyAndFree, IsDirty, SingleFreeObject
  <1>4. PICK rank : Ranks(reg, rank)
    BY <1>2, RanksExist
  <1>5. PartWritten(reg, rank, Len(reg), WriteEntries(reg))
    BY <1>3, <1>4, EntriesAreWritten DEF Writable
  <1>6. WriteEntries(reg) \in Progress(Len(reg))
        /\ (WriteEntries(reg).status = "success" <=> \A id \in 0 .. Len(reg) - 1 : ~IsMissing(reg, id))
    BY <1>5 DEF PartWritten
  <1>7. WriteEntries(reg).status \in {"success", "failure"}
    BY <1>6 DEF Progress
  <1>8. \A i \in 1 .. Len(reg) :
           /\ IsDirty(reg, i - 1) <=> reg[i].dirty
           /\ reg[i] \in ObjectWriteInformation
    BY <1>2 DEF IsDirty
  <1>9. status' = WriteEntries(reg).status
    BY <1>1 DEF Finalizes
  <1> QED
    BY <1>1, <1>3, <1>6, <1>7, <1>8, <1>9

LEMMA FinalizedTable ==
    ASSUME NEW tab, Finalizes(tab), status' = "success"
    PROVE  /\ table' \in Seq(XrefEntryInput) /\ Len(table') = Len(registry')
           /\ \A i \in 1 .. Len(registry') :
                 /\ registry'[i].dirty => table'[i] = ReadEntry(LineOf(registry', i - 1))
                 /\ ~registry'[i].dirty => i <= Len(tab) /\ table'[i] = tab[i]
  <1>1. PICK reg, read : reg = registry' /\ read = table'
    OBVIOUS
  <1>2. /\ Writable(reg) /\ WriteEntries(reg).status = "success"
        /\ tab \in Seq(XrefEntryInput) /\ read = ReadXref(Section(reg), Len(reg), tab)
        /\ \A i \in 1 .. Len(reg) : IsDirty(reg, i - 1) <=> reg[i].dirty
    BY <1>1, FinalizedRegistry DEF Finalizes
  <1>3. /\ read \in Seq(XrefEntryInput) /\ Len(read) = Len(reg)
        /\ \A i \in 1 .. Len(reg) :
              /\ IsDirty(reg, i - 1) => read[i] = ReadEntry(LineOf(reg, i - 1))
              /\ ~IsDirty(reg, i - 1) => read[i] = IF i <= Len(tab) THEN tab[i] ELSE Undefined
    BY <1>2, TableOfSection
  <1>4. \A i \in 1 .. Len(reg) : ~reg[i].dirty => i <= Len(tab)
    BY <1>1 DEF Finalizes, Session, EntriesAreKept
  <1> QED
    BY <1>1, <1>2, <1>3, <1>4

LEMMA SessionIsKept ==
    ASSUME NEW tab, Finalizes(tab)
    PROVE  /\ Session(table)'
           /\ (table \in Seq(XrefEntryInput))'
           /\ status' = "success" => Len(table') = Len(registry')
           /\ UntouchedAreNewest(tab)' => UntouchedAreNewest(table)'
  <1>1. Session(tab)' /\ tab \in Seq(XrefEntryInput)
    BY DEF Finalizes
  <1>2. CASE status' = "success"
    <2>1. /\ table' \in Seq(XrefEntryInput) /\ Len(table') = Len(registry')
          /\ \A i \in 1 .. Len(registry') : ~registry'[i].dirty => i <= Len(tab) /\ table'[i] = tab[i]
      BY <1>2, FinalizedTable
    <2>2. EntriesAreKept(table)'
      BY <1>1, <2>1 DEF Session, EntriesAreKept
    <2>3. Len(table') <= Len(registry')
      BY <2>1
    <2>4. Session(table)'
      BY <1>1, <2>2, <2>3 DEF Session
    <2>5. UntouchedAreNewest(tab)' => UntouchedAreNewest(table)'
      BY <2>1 DEF UntouchedAreNewest
    <2> QED
      BY <2>1, <2>4, <2>5
  <1>3. CASE status' # "success"
    <2>1. table' = tab
      BY <1>3 DEF Finalizes
    <2>2. Session(table)' /\ (UntouchedAreNewest(tab)' => UntouchedAreNewest(table)')
      BY <1>1, <2>1 DEF Session, EntriesAreKept, UntouchedAreNewest
    <2> QED
      BY <1>1, <1>3, <2>1, <2>2
  <1> QED
    BY <1>2, <1>3

LEMMA RoundTripIsMade ==
    ASSUME NEW tab, Finalizes(tab)
    PROVE  RoundTrip'
  <1> SUFFICES ASSUME status' = "success" PROVE RoundTrip'
    BY DEF RoundTrip
  <1>1. PICK reg, read : reg = registry' /\ read = table'
    OBVIOUS
  <1>2. /\ Writable(reg) /\ read \in Seq(XrefEntryInput) /\ Len(read) = Len(reg)
        /\ \A i \in 1 .. Len(reg) :
              /\ reg[i].dirty => read[i] = ReadEntry(LineOf(reg, i - 1))
              /\ ~reg[i].dirty => i <= Len(tab) /\ read[i] = tab[i] /\ reg[i] = ExistingItem(tab[i])
    BY <1>1, FinalizedRegistry, FinalizedTable DEF Finalizes, Session, EntriesAreKept
  <1>3. PICK n \in Nat : n = Len(reg) /\ n >= 1
    BY <1>2 DEF Writable
  <1>4. read # <<>>
    BY <1>2, <1>3
  <1>5. PICK reread : reread = RegistryOfFile(read)
    OBVIOUS
  <1>6. reread = [i \in 1 .. n |-> IF i = 1 THEN SingleFreeObject ELSE ExistingItem(read[i])]
    BY <1>2, <1>3, <1>4, <1>5 DEF RegistryOfFile
  <1>7. Len(reread) = n
    BY <1>6
  <1>8. ASSUME NEW i \in 2 .. n
        PROVE  /\ reread[i].type = reg[i].type
               /\ reg[i].type = "Used" => reread[i].position = reg[i].position
               /\ reread[i].generation = reg[i].generation
    <2>1. reread[i] = ExistingItem(read[i]) /\ i \in 1 .. n
      BY <1>6
    <2>2. CASE reg[i].dirty
      <3>1. i - 1 \in 0 .. Len(reg) - 1 /\ (i - 1) + 1 = i
        BY <1>3
      <3>2. reread[i] = ExistingItem(ReadEntry(LineOf(reg, i - 1)))
        BY <1>2, <1>3, <2>1, <2>2
      <3>3. /\ reread[i].type = reg[(i - 1) + 1].type /\ reread[i].generation = reg[(i - 1) + 1].generation
            /\ reread[i].type = "Used" => reread[i].position = reg[(i - 1) + 1].position
        BY <1>2, <3>1, <3>2, LineReadBack
      <3> QED
        BY <3>1, <3>3
    <2>3. CASE ~reg[i].dirty
      <3>1. reread[i] = reg[i]
        BY <1>2, <1>3, <2>1, <2>3
      <3> QED
        BY <3>1
    <2> QED
      BY <2>2, <2>3
  <1>9. /\ Len(reread) = Len(reg)
        /\ \A i \in 2 .. Len(reread) :
              /\ reread[i].type = reg[i].type
              /\ reg[i].type = "Used" => reread[i].position = reg[i].position
              /\ reread[i].generation = reg[i].generation
    BY <1>3, <1>7, <1>8
  <1> QED
    BY <1>1, <1>5, <1>9 DEF RoundTrip, GetObjectsCount

LEMMA AllocatedAreThere ==
    ASSUME NEW tab, Finalizes(tab)
    PROVE  AllocatedAreAccountedFor'
  <1> DEFINE NoHeader(id) == \A h \in 1 .. Len(headers') : headers'[h].id # id
             missing == {id \in firstNewID' .. Len(registry') - 1 :
                            registry'[id + 1].type = "Used" /\ NoHeader(id)}
  <1>1. /\ DirtyEntriesResolve' /\ UnwrittenHasNoHeader' /\ firstNewID' \in 1 .. Len(registry')
        /\ \A i \in 1 .. Len(registry') :
              /\ i > firstNewID' => registry'[i].dirty
              /\ i <= firstNewID' /\ registry'[i].type = "Used" => registry'[i].written
    BY DEF Finalizes, Session, IInv, TypeOK
  <1>2. /\ \A i \in 1 .. Len(registry') : IsDirty(registry', i - 1) <=> registry'[i].dirty
        /\ Len(registry') \in Nat
        /\ status' = "success" <=> \A id \in 0 .. Len(registry') - 1 : ~IsMissing(registry', id)
    BY FinalizedRegistry DEF Writable
  <1>3. ASSUME status' = "success", NEW id \in missing PROVE FALSE
    <2>1. id \in 0 .. Len(registry') - 1 /\ id >= firstNewID' /\ id + 1 \in 1 .. Len(registry')
          /\ (id + 1) - 1 = id
      BY <1>1, <1>2
    <2>2. registry'[id + 1].dirty /\ registry'[id + 1].type = "Used"
      BY <1>1, <2>1
    <2>3. registry'[id + 1].written
      <3>1. IsDirty(registry', id) /\ ~IsMissing(registry', id)
        BY <1>2, <1>3, <2>1, <2>2
      <3> QED
        BY <2>2, <3>1 DEF IsMissing
    <2>4. IsNewestHeader(headers', registry'[id + 1].position, id)
      BY <1>1, <2>1, <2>2, <2>3
         DEF DirtyEntriesResolve, ObjectIDs, GetObjectsCount, GetNthObjectReference
    <2> QED
      BY <2>4 DEF IsNewestHeader
  <1>4. ASSUME status' = "failure" PROVE missing # {}
    <2>1. PICK id \in 0 .. Len(registry') - 1 : IsMissing(registry', id)
      BY <1>2, <1>4
    <2>2. id + 1 \in 1 .. Len(registry') /\ registry'[id + 1].type = "Used" /\ ~registry'[id + 1].written
      BY <1>2, <2>1 DEF IsMissing
    <2>3. id >= firstNewID'
      BY <1>1, <2>2
    <2>4. NoHeader(id)
      BY <1>1, <2>1, <2>2, <2>3
         DEF UnwrittenHasNoHeader, ObjectIDs, GetObjectsCount, GetNthObjectReference
    <2>5. id \in missing
      BY <1>1, <2>1, <2>2, <2>3, <2>4
    <2> QED
      BY <2>5
  <1> QED
    BY <1>3, <1>4 DEF AllocatedAreAccountedFor, GetObjectsCount, GetNthObjectReference

(* What a successful section lists, whichever way it is numbered.          *)
LEMMA FinalizedSection ==
    ASSUME NEW tab, Finalizes(tab), status' = "success", NEW hasPrev
    PROVE  ListsTheRegistry(registry', Numbering(xref'.subsections, hasPrev), xref'.lines)
  <1>1. PICK reg, section : reg = registry' /\ section = xref'
    OBVIOUS
  <1>2. Writable(reg) /\ WriteEntries(reg).status = "success" /\ section = Section(reg)
    BY <1>1, FinalizedRegistry DEF Finalizes
  <1>3. ListsTheRegistry(reg, Numbering(Subsections(reg), hasPrev), WriteEntries(reg).lines)
    BY <1>2, SectionListsTheRegistry DEF Writable
  <1>4. section.subsections = Subsections(reg) /\ section.lines = WriteEntries(reg).lines
    BY <1>2 DEF Section
  <1> QED
    BY <1>1, <1>3, <1>4

LEMMA PositionsFit ==
    ASSUME NEW tab, Finalizes(tab)
    PROVE  TablePositionsFit'
  <1> SUFFICES ASSUME validate', status' = "success", NEW k \in DOMAIN xref'.lines,
                      xref'.lines[k].kind = "n"
               PROVE  xref'.lines[k].value <= MaxXrefPosition
    BY DEF TablePositionsFit
  <1>1. PICK reg, numbering, lines : /\ reg = registry' /\ lines = xref'.lines
                                     /\ numbering = Numbering(xref'.subsections, TRUE)
    OBVIOUS
  <1>2. ListsTheRegistry(reg, numbering, lines) /\ Writable(reg)
    BY <1>1, FinalizedSection, FinalizedRegistry
  <1>3. PICK id : id = numbering[k]
    OBVIOUS
  <1>4. id \in 0 .. Len(reg) - 1 /\ IsDirty(reg, id) /\ lines[k] = LineOf(reg, id)
    <2>1. k \in 1 .. Len(lines)
      BY <1>1, <1>2 DEF ListsTheRegistry
    <2> QED
      BY <1>2, <1>3, <2>1 DEF ListsTheRegistry
  <1>5. lines[k].value = reg[id + 1].position
    <2>1. lines[k].kind = "n"
      BY <1>1
    <2> QED
      BY <1>2, <1>4, <2>1, LineOfEntry
  <1>6. id + 1 \in 1 .. Len(reg) /\ reg[id + 1].dirty
    BY <1>2, <1>4 DEF IsDirty, Writable
  <1>7. reg[id + 1].position <= MaxXrefPosition
    BY <1>1, <1>6 DEF Finalizes, Session, Fits
  <1> QED
    BY <1>1, <1>5, <1>7

(* What FreeListIsCycle says of a numbering and its lines.                 *)
IsCycle(numbering, lines) ==
    LET free == {k \in DOMAIN numbering : lines[k].kind = "f"}
        freeIDs == {numbering[k] : k \in free}
    IN /\ 0 \in freeIDs
       /\ \A k \in free :
             LET after == {id \in freeIDs : id > numbering[k]} IN
             lines[k].value = IF after = {} THEN 0 ELSE Min(after)

LEMMA FreeEntriesAreLinked ==
    ASSUME NEW tab, Finalizes(tab)
    PROVE  FreeListIsCycle'
  <1> SUFFICES ASSUME status' = "success" PROVE FreeListIsCycle'
    BY DEF FreeListIsCycle
  <1>1. PICK reg, numbering, lines : /\ reg = registry' /\ lines = xref'.lines
                                     /\ numbering = Numbering(xref'.subsections, TRUE)
    OBVIOUS
  <1>2. ListsTheRegistry(reg, numbering, lines) /\ Writable(reg)
    BY <1>1, FinalizedSection, FinalizedRegistry
  <1>3. /\ DOMAIN numbering = 1 .. Len(lines) /\ Len(reg) \in Nat /\ Len(reg) >= 1
        /\ \A k \in 1 .. Len(lines) :
              /\ numbering[k] \in 0 .. Len(reg) - 1 /\ IsDirty(reg, numbering[k])
              /\ lines[k] = LineOf(reg, numbering[k])
        /\ \A id \in 0 .. Len(reg) - 1 : IsDirty(reg, id) => \E k \in 1 .. Len(lines) : numbering[k] = id
    BY <1>2 DEF ListsTheRegistry, Writable
  <1> DEFINE free == {k \in DOMAIN numbering : lines[k].kind = "f"}
             freeIDs == {numbering[k] : k \in free}
  <1>4. \A k \in 1 .. Len(lines) : lines[k].kind = "f" <=> reg[numbering[k] + 1].type = "Free"
    <2>1. ASSUME NEW k \in 1 .. Len(lines)
          PROVE  lines[k].kind = "f" <=> reg[numbering[k] + 1].type = "Free"
      <3>1. PICK id \in 0 .. Len(reg) - 1 : id = numbering[k] /\ lines[k] = LineOf(reg, id)
        BY <1>3
      <3>2. PICK e, line : e = reg[id + 1] /\ line = LineOf(reg, id)
        OBVIOUS
      <3>3. /\ e.type \in {"Used", "Free"}
            /\ e.type = "Used" =>
                  line = [kind |-> "n", value |-> e.position, generation |-> e.generation]
            /\ e.type = "Free" =>
                  line = [kind |-> "f", value |-> FirstOf(FreeFrom(reg, id + 1)), generation |-> e.generation]
        BY <1>2, <3>1, <3>2, LineOfEntry
      <3>4. /\ e.type = "Used" => line.kind = "n"
            /\ e.type = "Free" => line.kind = "f"
        BY <3>3
      <3> QED
        BY <3>1, <3>2, <3>3, <3>4
    <2> QED
      BY <2>1
  <1>5. \A id : id \in freeIDs <=> id \in 0 .. Len(reg) - 1 /\ IsDirtyAndFree(reg, id)
    <2>1. ASSUME NEW id, id \in freeIDs PROVE id \in 0 .. Len(reg) - 1 /\ IsDirtyAndFree(reg, id)
      BY <1>3, <1>4, <2>1 DEF IsDirtyAndFree
    <2>2. ASSUME NEW id \in 0 .. Len(reg) - 1, IsDirtyAndFree(reg, id) PROVE id \in freeIDs
      <3>1. PICK k \in 1 .. Len(lines) : numbering[k] = id
        BY <1>3, <2>2 DEF IsDirtyAndFree
      <3>2. k \in free
        BY <1>3, <1>4, <2>2, <3>1 DEF IsDirtyAndFree
      <3> QED
        BY <3>1, <3>2
    <2> QED
      BY <2>1, <2>2
  <1>6. 0 \in freeIDs
    BY <1>2, <1>3, <1>5 DEF Writable
  <1>7. ASSUME NEW k \in free
        PROVE  LET after == {id \in freeIDs : id > numbering[k]}
               IN lines[k].value = IF after = {} THEN 0 ELSE Min(after)
    <2> DEFINE after == {id \in freeIDs : id > numbering[k]}
    <2>1. k \in 1 .. Len(lines) /\ lines[k].kind = "f"
      BY <1>3
    <2>2. PICK id \in 0 .. Len(reg) - 1 : id = numbering[k] /\ lines[k] = LineOf(reg, id)
      BY <1>3, <2>1
    <2>3. reg[id + 1].type = "Free"
      BY <1>4, <2>1, <2>2
    <2>4. lines[k].value = FirstOf(FreeFrom(reg, id + 1))
      BY <1>2, <2>2, <2>3, LineOfEntry
    <2> HIDE DEF freeIDs
    <2>5. after = FreeFrom(reg, id + 1)
      <3>1. \A x : x \in after <=> x \in 0 .. Len(reg) - 1 /\ IsDirtyAndFree(reg, x) /\ x > id
        BY <1>5, <2>2
      <3>2. \A x : x \in FreeFrom(reg, id + 1) <=>
                      x \in 0 .. Len(reg) - 1 /\ IsDirtyAndFree(reg, x) /\ x > id
        BY <1>3 DEF FreeFrom
      <3> QED
        BY <3>1, <3>2
    <2> HIDE DEF after
    <2>6. lines[k].value = IF after = {} THEN 0 ELSE Min(after)
      BY <2>4, <2>5 DEF FirstOf
    <2> QED
      BY <2>6 DEF after
  <1>8. IsCycle(numbering, lines)
    BY <1>6, <1>7 DEF IsCycle
  <1>9. IsCycle(Numbering(xref'.subsections, TRUE), xref'.lines)
    BY <1>1, <1>8
  <1> QED
    BY Zenon, <1>9 DEF FreeListIsCycle, IsCycle

LEMMA NewestIsRead ==
    ASSUME NEW tab, Finalizes(tab), UntouchedAreNewest(tab)'
    PROVE  NewestVersionVisible'
  <1> SUFFICES ASSUME status' = "success", NEW i \in 1 .. Len(table'), table'[i].type = "Existing"
               PROVE  IsNewestHeader(headers', table'[i].position, i - 1)
    BY DEF NewestVersionVisible
  <1>1. /\ i \in 1 .. Len(registry') /\ Len(registry') \in Nat
        /\ registry'[i].dirty => table'[i] = ReadEntry(LineOf(registry', i - 1))
        /\ ~registry'[i].dirty => table'[i] = tab[i]
    BY FinalizedTable, FinalizedRegistry DEF Writable
  <1>2. CASE registry'[i].dirty
    <2>1. PICK reg, id : reg = registry' /\ id = i - 1
      OBVIOUS
    <2>2. /\ Writable(reg) /\ id \in 0 .. Len(reg) - 1 /\ id + 1 = i
          /\ \A j \in 0 .. Len(reg) - 1 : ~IsMissing(reg, j)
          /\ IsDirty(reg, id)
      BY <1>1, <1>2, <2>1, FinalizedRegistry
    <2>3. reg[id + 1].type = "Used" /\ ReadEntry(LineOf(reg, id)).position = reg[id + 1].position
      BY <1>1, <1>2, <2>1, <2>2, LineReadBack
    <2>4. reg[id + 1].written
      BY <2>2, <2>3 DEF IsMissing
    <2>5. DirtyEntriesResolve'
      BY DEF Finalizes, Session, IInv
    <2>6. IsNewestHeader(headers', reg[id + 1].position, id)
      BY <1>2, <2>1, <2>2, <2>3, <2>4, <2>5
         DEF DirtyEntriesResolve, ObjectIDs, GetObjectsCount, GetNthObjectReference
    <2> QED
      BY <1>1, <1>2, <2>1, <2>3, <2>6
  <1>3. CASE ~registry'[i].dirty
    BY <1>1, <1>3 DEF UntouchedAreNewest
  <1> QED
    BY <1>2, <1>3
-----------------------------------------------------------------------------
(***************************************************************************)
(* The sessions.                                                           *)
(***************************************************************************)
XrefIInv ==
    /\ Session(table)
    /\ table \in Seq(XrefEntryInput)
    /\ status \in {"open", "success", "failure"}
    /\ status = "success" => Len(table) = Len(registry)
    /\ SectionIsRight

(* The registry that a session starts with.                                *)
LEMMA StartingRegistry ==
    ASSUME NEW tab \in Seq(XrefEntryInput), NEW reg, reg = RegistryOfFile(tab)
    PROVE  /\ Len(reg) \in Nat /\ Len(reg) >= 1 /\ Len(tab) <= Len(reg)
           /\ reg[1] = SingleFreeObject
           /\ \A i \in 1 .. Len(reg) :
                 /\ reg[i].type = "Used" => reg[i].written
                 /\ reg[i].dirty => reg[i].position = 0 /\ reg[i].type = "Free"
                 /\ ~reg[i].dirty => i <= Len(tab) /\ reg[i] = ExistingItem(tab[i])
                 /\ ~reg[i].dirty => i # 1
  <1>1. PICK n : n = IF tab = <<>> THEN 1 ELSE Len(tab)
    OBVIOUS
  <1>2. n \in Nat /\ n >= 1 /\ Len(tab) <= n /\ (n # 1 => n = Len(tab))
    BY <1>1
  <1>3. reg = [i \in 1 .. n |-> IF i = 1 THEN SingleFreeObject ELSE ExistingItem(tab[i])]
    BY <1>1 DEF RegistryOfFile
  <1>4. Len(reg) = n /\ reg[1] = SingleFreeObject
        /\ \A i \in 2 .. n : reg[i] = ExistingItem(tab[i])
    BY <1>2, <1>3
  <1>5. /\ SingleFreeObject.dirty /\ SingleFreeObject.position = 0 /\ SingleFreeObject.type = "Free"
    BY DEF SingleFreeObject
  <1>6. ASSUME NEW i \in 2 .. n
        PROVE  ~reg[i].dirty /\ (reg[i].type = "Used" => reg[i].written)
    <2>1. PICK entry, e : entry = tab[i] /\ e = reg[i]
      OBVIOUS
    <2>2. e = ExistingItem(entry)
      BY <1>4, <2>1
    <2>3. ~e.dirty /\ (e.type = "Used" => e.written)
      BY <2>2 DEF ExistingItem
    <2> QED
      BY <2>1, <2>3
  <1>7. \A i \in 1 .. n : i = 1 \/ (i \in 2 .. n /\ i <= Len(tab))
    BY <1>2
  <1> QED
    BY <1>2, <1>4, <1>5, <1>6, <1>7

LEMMA XrefInitIInv == XrefInit => XrefIInv
  <1> SUFFICES ASSUME XrefInit PROVE XrefIInv
    OBVIOUS
  <1>1. PICK file \in OriginalFiles : StartSession(file) /\ table = file.xref
    BY DEF XrefInit
  <1>2. status = "open"
    BY DEF XrefInit
  <1>3. IInv
    BY <1>1, InitIInv DEF Init
  <1>4. PICK tab : tab = table
    OBVIOUS
  <1>5. tab \in Seq(XrefEntryInput) /\ registry = RegistryOfFile(tab) /\ firstNewID = Len(registry)
    BY <1>1, <1>4, OriginalFilesAssumption DEF StartSession
  <1>6. MaxXrefPosition \in Nat
    BY ConstantsAssumption
  <1>7. Session(tab)
    BY <1>3, <1>5, <1>6, StartingRegistry DEF Session, EntriesAreKept, Fits
  <1>8. SectionIsRight
    BY <1>2 DEF SectionIsRight, RoundTrip, FreeListIsCycle, AllocatedAreAccountedFor, TablePositionsFit
  <1> QED
    BY <1>2, <1>4, <1>5, <1>7, <1>8 DEF XrefIInv

(* The next session starts from the file as it was read.                   *)
LEMMA NextSessionStarts ==
    ASSUME XrefIInv, ModifyPDF
    PROVE  Session(table)'
  <1>1. PICK tab : tab = table
    OBVIOUS
  <1>2. /\ tab \in Seq(XrefEntryInput) /\ Len(tab) = Len(registry)
        /\ registry' = RegistryOfFile(tab) /\ firstNewID' = Len(registry') /\ headers' = headers
        /\ validate' \in BOOLEAN /\ table' = tab
        /\ TypeOK /\ HeadersKnown
    BY <1>1 DEF XrefIInv, Session, IInv, ModifyPDF
  <1>3. PICK reg : reg = registry'
    OBVIOUS
  <1>4. /\ Len(reg) \in Nat /\ Len(reg) >= 1 /\ Len(tab) <= Len(reg)
        /\ reg[1] = SingleFreeObject /\ reg \in Seq(ObjectWriteInformation)
        /\ \A i \in 1 .. Len(reg) :
              /\ reg[i].type = "Used" => reg[i].written
              /\ reg[i].dirty => reg[i].position = 0 /\ reg[i].type = "Free"
              /\ ~reg[i].dirty => i <= Len(tab) /\ reg[i] = ExistingItem(tab[i])
    BY <1>2, <1>3, StartingRegistry, RegistryOfFileType
  <1>5. TypeOK'
    BY <1>2, <1>3, <1>4 DEF TypeOK
  <1>6. HeadersKnown'
    <2>1. ASSUME NEW h \in 1 .. Len(headers') PROVE headers'[h].id < Len(registry')
      <3>0. h \in 1 .. Len(headers) /\ headers \in Seq(Header) /\ Len(registry) \in Nat
        BY <1>2, <2>1 DEF TypeOK
      <3>1. headers[h].id < Len(registry) /\ headers[h].id \in Nat /\ Len(registry) \in Nat
        <4>1. headers[h] \in Header
          BY <3>0
        <4> QED
          BY <1>2, <3>0, <4>1 DEF HeadersKnown, Header
      <3> QED
        BY <1>2, <1>3, <1>4, <3>1
    <2> QED
      BY <2>1 DEF HeadersKnown
  <1>7. UnwrittenHasNoHeader'
    BY <1>2, <1>3, <1>4 DEF UnwrittenHasNoHeader, ObjectIDs, GetObjectsCount
  <1>8. DirtyEntriesResolve'
    <2>1. ASSUME NEW id \in 0 .. Len(reg) - 1, reg[id + 1].dirty, reg[id + 1].type = "Used" PROVE FALSE
      BY <1>4, <2>1
    <2> QED
      BY <1>3, <2>1 DEF DirtyEntriesResolve, ObjectIDs, GetObjectsCount, GetNthObjectReference
  <1>9. MaxXrefPosition \in Nat
    BY ConstantsAssumption
  <1> QED
    BY <1>2, <1>3, <1>4, <1>5, <1>6, <1>7, <1>8, <1>9 DEF Session, IInv, EntriesAreKept, Fits

(* A finalization begins with the registry of the session, to which an     *)
(* xref stream adds its own object.                                        *)
LEMMA WritingFinalizes ==
    ASSUME XrefIInv, WriteXrefTable \/ WriteXrefStream, NEW tab, tab = table
    PROVE  /\ Finalizes(tab)
           /\ \A i \in 1 .. Len(registry) : ~registry'[i].dirty => registry'[i] = registry[i]
           /\ Len(registry') >= Len(registry)
           /\ UntouchedAreNewest(tab) => UntouchedAreNewest(tab)'
           /\ WriteXrefTable => registry' = registry
           /\ UNCHANGED firstNewID
  <1>1. Session(tab) /\ tab \in Seq(XrefEntryInput) /\ Len(registry) \in Nat
    BY DEF XrefIInv, Session, IInv, TypeOK, EntriesAreKept
  <1>2. CASE WriteXrefTable
    <2>1. /\ registry' = registry /\ headers' = headers /\ validate' = validate /\ firstNewID' = firstNewID
          /\ WriteSection(registry')
      BY <1>2 DEF WriteXrefTable
    <2>2. Session(tab)'
      BY <1>1, <2>1
         DEF Session, EntriesAreKept, IInv, TypeOK, HeadersKnown, UnwrittenHasNoHeader, DirtyEntriesResolve,
             Fits, ObjectIDs, GetObjectsCount, GetNthObjectReference
    <2>3. UntouchedAreNewest(tab) => UntouchedAreNewest(tab)'
      BY <2>1 DEF UntouchedAreNewest
    <2>4. Finalizes(tab)
      BY <1>1, <2>1, <2>2 DEF Finalizes, WriteSection, Section
    <2> QED
      BY <1>1, <2>1, <2>3, <2>4
  <1>3. CASE WriteXrefStream
    <2>1. Next /\ WriteSection(registry') /\ UNCHANGED firstNewID
      BY <1>3 DEF WriteXrefStream, Next, StartNewIndirectObject
    <2>2. /\ Session(tab)'
          /\ \A i \in 1 .. Len(registry) : ~registry'[i].dirty => registry'[i] = registry[i]
          /\ Len(registry') >= Len(registry)
          /\ UntouchedAreNewest(tab) => UntouchedAreNewest(tab)'
      BY <1>1, <2>1, SessionGoesOn
    <2>3. Finalizes(tab)
      BY <1>1, <2>1, <2>2 DEF Finalizes, WriteSection, Section
    <2>4. WriteXrefTable => registry' = registry
      BY DEF WriteXrefTable
    <2> QED
      BY <2>1, <2>2, <2>3, <2>4
  <1> QED
    BY <1>2, <1>3

LEMMA XrefNextIInv == XrefIInv /\ [XrefNext]_allVars => XrefIInv'
  <1> SUFFICES ASSUME XrefIInv, [XrefNext]_allVars PROVE XrefIInv'
    OBVIOUS
  <1>1. PICK tab : tab = table
    OBVIOUS
  <1>2. Session(tab) /\ tab \in Seq(XrefEntryInput)
    BY <1>1 DEF XrefIInv, Session, EntriesAreKept
  <1>3. ASSUME status' = "open", Session(table)', table' = tab
        PROVE  XrefIInv'
    <2>1. SectionIsRight'
      BY <1>3 DEF SectionIsRight, RoundTrip, FreeListIsCycle, AllocatedAreAccountedFor, TablePositionsFit
    <2> QED
      BY <1>2, <1>3, <2>1 DEF XrefIInv
  <1>4. ASSUME Next, status = "open", UNCHANGED xrefVars
        PROVE  XrefIInv'
    <2>1. Session(tab)'
      BY <1>2, <1>4, SessionGoesOn
    <2>2. status' = "open" /\ table' = tab
      BY <1>1, <1>4 DEF xrefVars
    <2>3. Session(table)'
      BY <2>1, <2>2 DEF Session, EntriesAreKept
    <2> QED
      BY <1>3, <2>2, <2>3
  <1>5. CASE Write
    BY <1>4, <1>5 DEF Write, Next
  <1>6. CASE \E id \in ObjectIDs : Change(id)
    BY <1>4, <1>6 DEF Change, Next
  <1>7. CASE WriteXrefTable \/ WriteXrefStream
    <2>1. Finalizes(tab)
      BY <1>1, <1>7, WritingFinalizes
    <2>2. SectionIsRight'
      BY <2>1, RoundTripIsMade, AllocatedAreThere, PositionsFit, FreeEntriesAreLinked DEF SectionIsRight
    <2>3. status' \in {"open", "success", "failure"}
      BY <2>1, FinalizedRegistry
    <2> QED
      BY <2>1, <2>2, <2>3, SessionIsKept DEF XrefIInv
  <1>8. CASE ModifyPDF
    BY <1>1, <1>3, <1>8, NextSessionStarts DEF ModifyPDF
  <1>9. CASE UNCHANGED allVars
    <2>1. /\ registry' = registry /\ headers' = headers /\ validate' = validate
          /\ firstNewID' = firstNewID /\ xref' = xref /\ table' = table /\ status' = status
      BY <1>9 DEF allVars
    <2>2. Session(table)'
      BY <2>1
         DEF XrefIInv, Session, EntriesAreKept, IInv, TypeOK, HeadersKnown, UnwrittenHasNoHeader,
             DirtyEntriesResolve, Fits, ObjectIDs, GetObjectsCount, GetNthObjectReference
    <2>3. RoundTrip' /\ TablePositionsFit'
      BY <2>1 DEF XrefIInv, SectionIsRight, RoundTrip, TablePositionsFit, GetObjectsCount
    <2>4. AllocatedAreAccountedFor'
      BY <2>1
         DEF XrefIInv, SectionIsRight, AllocatedAreAccountedFor, GetObjectsCount, GetNthObjectReference
    <2>5. FreeListIsCycle'
      <3>1. FreeListIsCycle
        BY DEF XrefIInv, SectionIsRight
      <3>2. status = "success" => IsCycle(Numbering(xref.subsections, TRUE), xref.lines)
        BY Zenon, <3>1 DEF FreeListIsCycle, IsCycle
      <3>3. status' = "success" => IsCycle(Numbering(xref'.subsections, TRUE), xref'.lines)
        BY <2>1, <3>2
      <3> QED
        BY Zenon, <3>3 DEF FreeListIsCycle, IsCycle
    <2> QED
      BY <2>1, <2>2, <2>3, <2>4, <2>5 DEF XrefIInv, SectionIsRight
  <1> QED
    BY <1>5, <1>6, <1>7, <1>8, <1>9 DEF XrefNext

(* The inductive invariant holds in any order of calls, through any number *)
(* of sessions.                                                            *)
THEOREM XrefInductiveInvariant == XrefSpec => []XrefIInv
  <1> QED
    BY XrefInitIInv, XrefNextIInv, PTL DEF XrefSpec

(* A finalization that succeeds has written a section that is read back as *)
(* the registry: types, positions and generations of all objects, the free *)
(* ones in a cycle, none of the session's allocated ones missing, and in a *)
(* table no position of more than ten digits.  One that fails had an       *)
(* allocated object that was never written.                                *)
THEOREM SectionHolds == XrefSpec => []SectionIsRight
  <1>1. XrefIInv => SectionIsRight
    BY DEF XrefIInv
  <1> QED
    BY <1>1, XrefInductiveInvariant, PTL

(* The registry is sound in every session, those that continue a file that *)
(* an earlier session wrote included.                                      *)
THEOREM RegistryHoldsInSessions == XrefSpec => []RegistryIsSound
  <1>1. XrefIInv => RegistryIsSound
    BY DEF XrefIInv, Session, IInv, RegistryIsSound
  <1> QED
    BY <1>1, XrefInductiveInvariant, PTL

LEMMA PositionsMoveInSessions ==
    ASSUME XrefIInv, XrefNext, NEW id \in ObjectIDs
    PROVE  Follows(id) \/ UNCHANGED vars
  <1>0. IInv
    BY DEF XrefIInv, Session
  <1>1. CASE Write \/ (\E i \in ObjectIDs : Change(i)) \/ WriteXrefStream
    <2>1. Next
      BY <1>1 DEF Write, Change, WriteXrefStream, Next
    <2> QED
      BY <1>0, <2>1, PositionsMoveWithHeaders
  <1>2. CASE WriteXrefTable
    BY <1>2 DEF WriteXrefTable, vars
  <1>3. CASE ModifyPDF
    <2>1. PICK tab, reread : tab = table /\ reread = RegistryOfFile(tab)
      OBVIOUS
    <2>2. /\ tab \in Seq(XrefEntryInput) /\ registry' = reread /\ registry[1] = SingleFreeObject
          /\ RoundTrip /\ status = "success"
      BY <1>3, <2>1 DEF ModifyPDF, XrefIInv, Session, SectionIsRight
    <2>3. /\ Len(reread) = Len(registry)
          /\ \A i \in 2 .. Len(reread) :
                /\ reread[i].type = registry[i].type
                /\ registry[i].type = "Used" => reread[i].position = registry[i].position
      BY <2>1, <2>2 DEF RoundTrip, GetObjectsCount
    <2>4. /\ reread[1] = SingleFreeObject
          /\ \A i \in 1 .. Len(reread) : ~reread[i].dirty => reread[i] = ExistingItem(tab[i])
          /\ \A i \in 1 .. Len(reread) : reread[i].dirty => reread[i].position = 0 /\ reread[i].type = "Free"
      BY <2>1, <2>2, StartingRegistry
    <2>5. PICK i : i = id + 1
      OBVIOUS
    <2>6. i \in 1 .. Len(reread) /\ Len(registry) \in Nat
      BY <1>0, <2>3, <2>5 DEF ObjectIDs, GetObjectsCount, IInv, TypeOK
    <2>7. registry[i] \in ObjectWriteInformation
      BY <1>0, <2>3, <2>6 DEF IInv, TypeOK
    <2>8. \/ reread[i].position = registry[i].position
          \/ reread[i].type = "Free" /\ reread[i].position = 0
      <3>1. CASE i = 1
        BY <2>2, <2>4, <3>1
      <3>2. CASE i # 1 /\ registry[i].type = "Used"
        <4>1. i \in 2 .. Len(reread)
          BY <2>6, <3>2
        <4> QED
          BY <2>3, <3>2, <4>1
      <3>3. CASE i # 1 /\ registry[i].type # "Used"
        <4>1. i \in 2 .. Len(reread) /\ registry[i].type = "Free"
          BY <2>6, <2>7, <3>3 DEF ObjectWriteInformation, ObjectReferenceTypes
        <4>2. reread[i].type = "Free"
          BY <2>3, <4>1
        <4>3. CASE ~reread[i].dirty
          <5>1. PICK entry, e : entry = tab[i] /\ e = reread[i]
            OBVIOUS
          <5>2. e = ExistingItem(entry) /\ e.type = "Free"
            BY <2>4, <2>6, <4>2, <4>3, <5>1
          <5>3. e.position = 0
            BY <5>2 DEF ExistingItem
          <5> QED
            BY <4>2, <5>1, <5>3
        <4> QED
          BY <2>4, <2>6, <4>2, <4>3
      <3> QED
        BY <3>1, <3>2, <3>3
    <2> QED
      BY <2>2, <2>5, <2>8 DEF Follows
  <1> QED
    BY <1>1, <1>2, <1>3 DEF XrefNext

(* No session begins an object as new that the file has, or moves the      *)
(* position of an entry but to a header of its own object or to 0; going   *)
(* on from the file as it was read moves none.                             *)
THEOREM HistoryHoldsInSessions == XrefSpec => HistoryIsKept
  <1> DEFINE Once == \A id \in ObjectIDs :
                        StartAllocatedIndirectObject(id) =>
                            \A h \in 1 .. Len(headers) : headers[h].id # id
             Moves == \A id \in ObjectIDs :
                         registry'[id + 1].position # registry[id + 1].position =>
                             \/ registry'[id + 1].type = "Free" /\ registry'[id + 1].position = 0
                             \/ /\ Len(headers') = Len(headers) + 1
                                /\ registry'[id + 1].position = Len(headers')
                                /\ headers'[Len(headers')].id = id
  <1>1. XrefIInv => Once
    BY DEF XrefIInv, Session, IInv, UnwrittenHasNoHeader, StartAllocatedIndirectObject,
           MarkObjectAsWrittenSucceeds
  <1>2. XrefIInv /\ [XrefNext]_allVars => [Once]_vars
    BY <1>1
  <1>3. XrefIInv /\ [XrefNext]_allVars => [Moves]_vars
    <2> SUFFICES ASSUME XrefIInv, XrefNext, ~UNCHANGED vars, NEW id \in ObjectIDs
                 PROVE  Follows(id)
      BY DEF allVars, vars, Follows
    <2> QED
      BY PositionsMoveInSessions
  <1>4. XrefSpec => NewObjectsWrittenOnce
    BY <1>2, XrefInductiveInvariant, PTL DEF XrefSpec, NewObjectsWrittenOnce
  <1>5. XrefSpec => PositionsFollowHeaders
    BY <1>3, XrefInductiveInvariant, PTL DEF XrefSpec, PositionsFollowHeaders
  <1> QED
    BY <1>4, <1>5 DEF HistoryIsKept

-----------------------------------------------------------------------------
(***************************************************************************)
(* What readers find.                                                      *)
(***************************************************************************)

(* The table of an original file has its objects where they are: an entry  *)
(* in use has the position of the newest header of its object.             *)
FilesAreRight ==
    \A file \in OriginalFiles : \A i \in 2 .. Len(file.xref) :
        file.xref[i].type = "Existing" => IsNewestHeader(file.headers, file.xref[i].position, i - 1)

NewestIInv == UntouchedAreNewest(table) /\ NewestVersionVisible

LEMMA InitNewest ==
    ASSUME FilesAreRight
    PROVE  XrefInit => NewestIInv
  <1> SUFFICES ASSUME XrefInit PROVE NewestIInv
    OBVIOUS
  <1>1. PICK file \in OriginalFiles : StartSession(file) /\ table = file.xref
    BY DEF XrefInit
  <1>2. PICK tab : tab = table
    OBVIOUS
  <1>3. /\ tab \in Seq(XrefEntryInput) /\ registry = RegistryOfFile(tab) /\ headers = file.headers
        /\ tab = file.xref
    BY <1>1, <1>2, OriginalFilesAssumption DEF StartSession
  <1>4. ASSUME NEW i \in 1 .. Len(registry), ~registry[i].dirty, tab[i].type = "Existing"
        PROVE  IsNewestHeader(headers, tab[i].position, i - 1)
    <2>1. i \in 2 .. Len(tab)
      BY <1>3, <1>4, StartingRegistry
    <2> QED
      BY <1>3, <1>4, <2>1 DEF FilesAreRight
  <1>5. status = "open"
    BY DEF XrefInit
  <1> QED
    BY <1>2, <1>4, <1>5 DEF NewestIInv, UntouchedAreNewest, NewestVersionVisible

LEMMA NextNewest ==
    XrefIInv /\ NewestIInv /\ [XrefNext]_allVars => NewestIInv'
  <1> SUFFICES ASSUME XrefIInv, NewestIInv, [XrefNext]_allVars PROVE NewestIInv'
    OBVIOUS
  <1>1. PICK tab : tab = table
    OBVIOUS
  <1>2. /\ Session(tab) /\ tab \in Seq(XrefEntryInput) /\ UntouchedAreNewest(tab)
    BY <1>1 DEF XrefIInv, NewestIInv, Session, EntriesAreKept, UntouchedAreNewest
  <1>3. ASSUME Next, status = "open", UNCHANGED xrefVars
        PROVE  NewestIInv'
    <2>1. UntouchedAreNewest(tab)'
      BY <1>2, <1>3, SessionGoesOn
    <2>2. status' = "open" /\ table' = tab
      BY <1>1, <1>3 DEF xrefVars
    <2> QED
      BY <2>1, <2>2 DEF NewestIInv, UntouchedAreNewest, NewestVersionVisible
  <1>4. CASE Write \/ \E id \in ObjectIDs : Change(id)
    BY <1>3, <1>4 DEF Write, Change, Next
  <1>5. CASE WriteXrefTable \/ WriteXrefStream
    <2>1. Finalizes(tab) /\ UntouchedAreNewest(tab)'
      BY <1>1, <1>2, <1>5, WritingFinalizes
    <2> QED
      BY <2>1, SessionIsKept, NewestIsRead DEF NewestIInv
  <1>6. CASE ModifyPDF
    <2>1. /\ status = "success" /\ status' = "open" /\ table' = tab /\ headers' = headers
          /\ registry' = RegistryOfFile(tab)
      BY <1>1, <1>6 DEF ModifyPDF
    <2>2. ASSUME NEW i \in 1 .. Len(registry'), ~registry'[i].dirty, tab[i].type = "Existing"
          PROVE  IsNewestHeader(headers', tab[i].position, i - 1)
      <3>1. i \in 1 .. Len(tab)
        BY <1>2, <2>1, <2>2, StartingRegistry
      <3> QED
        BY <1>1, <2>1, <2>2, <3>1 DEF NewestIInv, NewestVersionVisible
    <2> QED
      BY <2>1, <2>2 DEF NewestIInv, UntouchedAreNewest, NewestVersionVisible
  <1>7. CASE UNCHANGED allVars
    BY <1>7 DEF allVars, NewestIInv, UntouchedAreNewest, NewestVersionVisible
  <1> QED
    BY <1>4, <1>5, <1>6, <1>7 DEF XrefNext

(* Once a file is written, its readers find the newest version of each     *)
(* object, whichever session wrote it, if they did so in the file that the *)
(* first session began with; and an entry whose object a session neither   *)
(* modified nor deleted reads as it did before.                            *)
THEOREM NewestHolds ==
    ASSUME FilesAreRight
    PROVE  XrefSpec => NewestIsFound
  <1> DEFINE Kept == \A i \in 2 .. Len(table) : ~registry[i].dirty => table'[i] = table[i]
  <1>1. XrefSpec => []NewestIInv
    BY InitNewest, NextNewest, XrefInductiveInvariant, PTL DEF XrefSpec
  <1>2. NewestIInv => NewestVersionVisible
    BY DEF NewestIInv
  <1>3. XrefIInv /\ [XrefNext]_allVars => [Kept]_allVars
    <2> SUFFICES ASSUME XrefIInv, XrefNext, NEW i \in 2 .. Len(table), ~registry[i].dirty
                 PROVE  table'[i] = table[i]
      OBVIOUS
    <2>1. CASE Write \/ (\E id \in ObjectIDs : Change(id)) \/ ModifyPDF
      BY <2>1 DEF Write, Change, ModifyPDF, xrefVars
    <2>2. CASE WriteXrefTable \/ WriteXrefStream
      <3>1. PICK tab : tab = table
        OBVIOUS
      <3>2. Finalizes(tab)
        BY <2>2, <3>1, WritingFinalizes
      <3>3. ~registry'[i].dirty /\ i \in 1 .. Len(registry')
        <4>1. i \in 1 .. Len(registry) /\ registry \in Seq(ObjectWriteInformation)
          BY DEF XrefIInv, Session, IInv, TypeOK
        <4>2. \/ registry' = registry
              \/ \E e : registry' = Append(registry, e)
          BY <2>2 DEF WriteXrefTable, WriteXrefStream, StartNewIndirectObject
        <4> QED
          BY <4>1, <4>2
      <3>4. CASE status' = "success"
        BY <3>1, <3>2, <3>3, <3>4, FinalizedTable
      <3>5. CASE status' # "success"
        BY <3>1, <3>2, <3>5 DEF Finalizes
      <3> QED
        BY <3>4, <3>5
    <2> QED
      BY <2>1, <2>2 DEF XrefNext
  <1>4. XrefSpec => []NewestVersionVisible
    BY <1>1, <1>2, PTL
  <1>5. XrefSpec => UntouchedEntriesKept
    BY <1>3, XrefInductiveInvariant, PTL DEF XrefSpec, UntouchedEntriesKept
  <1> QED
    BY <1>4, <1>5 DEF NewestIsFound
============================================================================

----------------------- MODULE WriterLifecycleProofs -----------------------
(***************************************************************************)
(* Proofs about WriterLifecycle, for any keys and any number of objects    *)
(* and documents, of programs that do not start another document with a    *)
(* writer that has encrypted one, nor suspend an encrypted document.       *)
(***************************************************************************)
EXTENDS WriterLifecycle, TLAPS

Cautious == ~ReuseAfterEncryption /\ ~ContinueEncryption

KeyOrNone == Keys \cup {NoKey}
Phases == {"idle", "writing", "shutdown", "finished", "failed"}

Cryptor == [key : KeyOrNone, stack : Seq(Keys \X (1 .. MaxObjects))]

Helper == [encrypted : BOOLEAN, supports : BOOLEAN, pauseLevel : Nat, hadFailure : BOOLEAN,
           xcrypt : Cryptor, current : Cryptor, shared : BOOLEAN, values : KeyOrNone]

Document == [requested : KeyOrNone, isModified : BOOLEAN, sourceKey : KeyOrNone,
             content : Seq(SUBSET Ciphers), next : Nat, dictionaryID : Nat,
             encryptKey : KeyOrNone]

State == [encrypted : BOOLEAN, supports : BOOLEAN, key : KeyOrNone, values : KeyOrNone,
          isModified : BOOLEAN, exists : BOOLEAN]

Typed ==
    /\ helper \in Helper /\ hasHelper \in BOOLEAN
    /\ phase \in Phases
    /\ document \in Document /\ document.next = Len(document.content) + 1
    /\ openObject \in 0 .. Len(document.content) /\ openObject <= MaxObjects
    /\ inStream \in BOOLEAN /\ state \in State
    /\ documents \in 0 .. MaxDocuments

(* Objects are open only while a document is written, and streams only in  *)
(* objects, where they have paused the helper that was told of them.       *)
Nested ==
    /\ inStream => openObject # 0
    /\ openObject # 0 => phase = "writing"
    /\ inStream /\ hasHelper => helper.pauseLevel >= 1

Underway == phase \in {"writing", "shutdown"}

Unfinished == Underway => document.dictionaryID = 0 /\ document.encryptKey = NoKey

Suspended == phase = "shutdown" => state.key = NoKey /\ ~state.encrypted

(* A writer that has encrypted nothing yet.                                *)
Fresh ==
    /\ helper.xcrypt = NoCryptor /\ ~helper.encrypted
    /\ Underway =>
          /\ document.requested = NoKey /\ document.sourceKey = NoKey
          /\ \A id \in DOMAIN document.content : document.content[id] \subseteq {Plain}

Paused == IF inStream THEN 1 ELSE 0

StackFor(key) ==
    IF openObject = 0 \/ key \in IsPDF20 THEN <<>> ELSE <<ObjectKey(key, openObject)>>

(* A writer of an encrypted document, and what it has written.             *)
Armed ==
    /\ helper.xcrypt.key \in Keys /\ helper.encrypted /\ helper.shared
    /\ helper.values = helper.xcrypt.key
    /\ phase \in {"writing", "finished", "failed"}
    /\ phase = "writing" =>
          /\ hasHelper
          /\ document.requested = helper.xcrypt.key
          /\ document.isModified => document.sourceKey = helper.xcrypt.key
          /\ helper.pauseLevel = Paused
          /\ helper.xcrypt.stack = StackFor(helper.xcrypt.key)
          /\ \A id \in DOMAIN document.content :
                document.content[id] \subseteq
                    {ObjectKey(helper.xcrypt.key, id)} \cup
                    (IF helper.hadFailure THEN {Broken} ELSE {})

(* The inductive invariant.                                                *)
IInv ==
    /\ Typed
    /\ Nested
    /\ Unfinished
    /\ Suspended
    /\ Fresh \/ Armed
    /\ DocumentIsReadable
    /\ BrokenStringsAreReported
-----------------------------------------------------------------------------
(* No object key is mistaken for what is not one.                          *)
LEMMA KeysAreNotWords ==
    ASSUME NEW key, NEW id
    PROVE  /\ ObjectKey(key, id) # Broken
           /\ ObjectKey(key, id) # Plain
  <1>1. Len(Broken) = 1 /\ Len(Plain) = 1
    BY DEF Broken, Plain
  <1>2. Len(ObjectKey(key, id)) = 2
    BY DEF ObjectKey
  <1> QED
    BY <1>1, <1>2

(* What the helper of a writer that encrypted nothing does when told of    *)
(* objects: nothing; and strings are written as they are.                  *)
LEMMA FreshCalls ==
    ASSUME Typed, Fresh
    PROVE  /\ CipherNow(helper) = Plain
           /\ \A id : OnObjectStart(helper, id) = helper
           /\ OnObjectEnd(helper) = helper
           /\ OnObjectEnd(StreamRelease(helper)) = StreamRelease(helper)
  <1>1. ~helper.encrypted
    BY DEF Fresh
  <1>2. StreamRelease(helper).encrypted = helper.encrypted
    BY DEF StreamRelease, Typed, Helper
  <1> QED
    BY <1>1, <1>2 DEF CipherNow, IsEncrypting, OnObjectStart, OnObjectEnd

(* The keys that an armed helper gives to strings, outside of streams.     *)
LEMMA ArmedCipher ==
    ASSUME Typed, Armed, phase = "writing", openObject # 0, ~inStream
    PROVE  CipherNow(helper) = ObjectKey(helper.xcrypt.key, openObject)
  <1>1. hasHelper /\ IsEncrypting(helper)
    BY DEF Armed, IsEncrypting, Paused
  <1>2. CipherNow(helper) = CurrentObjectKey(helper) /\ helper.shared
    BY <1>1 DEF CipherNow, Armed
  <1>3. CASE helper.xcrypt.key \in IsPDF20
    BY <1>2, <1>3 DEF CurrentObjectKey, ObjectKey
  <1>4. CASE helper.xcrypt.key \notin IsPDF20
    <2>1. helper.xcrypt.stack = <<ObjectKey(helper.xcrypt.key, openObject)>>
      BY <1>4 DEF Armed, StackFor
    <2>2. /\ helper.xcrypt.stack # <<>>
          /\ helper.xcrypt.stack[Len(helper.xcrypt.stack)]
                = ObjectKey(helper.xcrypt.key, openObject)
      BY <2>1
    <2> QED
      BY <1>2, <1>4, <2>2 DEF CurrentObjectKey
  <1> QED
    BY <1>3, <1>4

(* An armed helper told of the start of an object, between objects.        *)
LEMMA ArmedStart ==
    ASSUME Typed, Armed, phase = "writing", openObject = 0, ~inStream,
           NEW id \in 1 .. MaxObjects
    PROVE  /\ OnObjectStart(helper, id)
                 = [helper EXCEPT !.xcrypt = [key |-> helper.xcrypt.key,
                        stack |-> IF helper.xcrypt.key \in IsPDF20 THEN <<>>
                                  ELSE <<ObjectKey(helper.xcrypt.key, id)>>]]
           /\ OnObjectStart(helper, id) \in Helper
  <1>1. hasHelper /\ IsEncrypting(helper) /\ helper.xcrypt.stack = <<>>
    BY DEF Armed, IsEncrypting, Paused, StackFor
  <1>2. helper \in Helper /\ helper.xcrypt \in Cryptor /\ helper.xcrypt.key \in Keys
    BY DEF Typed, Helper, Armed
  <1>3. CASE helper.xcrypt.key \in IsPDF20
    <2>1. OnObjectStart(helper, id) = helper
      BY <1>3 DEF OnObjectStart
    <2>2. helper.xcrypt = [key |-> helper.xcrypt.key, stack |-> <<>>]
      BY <1>1, <1>2 DEF Cryptor
    <2> QED
      BY <1>2, <1>3, <2>1, <2>2 DEF Helper
  <1>4. CASE helper.xcrypt.key \notin IsPDF20
    <2> DEFINE k == ObjectKey(helper.xcrypt.key, id)
    <2>1. k \in Keys \X (1 .. MaxObjects)
      BY <1>2, <1>4 DEF ObjectKey
    <2>2. Append(helper.xcrypt.stack, k) = <<k>> /\ <<k>> \in Seq(Keys \X (1 .. MaxObjects))
      BY <1>1, <2>1
    <2>3. OnObjectStart(helper, id) = [helper EXCEPT !.xcrypt.stack = Append(@, k)]
      BY <1>1, <1>4 DEF OnObjectStart
    <2> HIDE DEF k
    <2>4. [helper.xcrypt EXCEPT !.stack = <<k>>] = [key |-> helper.xcrypt.key, stack |-> <<k>>]
      BY <1>2 DEF Cryptor
    <2>5. OnObjectStart(helper, id)
            = [helper EXCEPT !.xcrypt = [key |-> helper.xcrypt.key, stack |-> <<k>>]]
      BY <1>2, <2>2, <2>3, <2>4
    <2>6. [key |-> helper.xcrypt.key, stack |-> <<k>>] \in Cryptor
      BY <1>2, <2>2 DEF Cryptor, KeyOrNone
    <2>7. OnObjectStart(helper, id) \in Helper
      BY <1>2, <2>5, <2>6 DEF Helper
    <2> QED
      BY <1>4, <2>5, <2>7 DEF k
  <1> QED
    BY <1>3, <1>4

(* An armed helper told of the end of the open object, once it is not      *)
(* paused.                                                                 *)
LEMMA ArmedEnd ==
    ASSUME Typed, Armed, phase = "writing", openObject # 0,
           NEW h \in Helper,
           h.xcrypt = helper.xcrypt, h.encrypted, h.pauseLevel = 0
    PROVE  /\ OnObjectEnd(h) = [h EXCEPT !.xcrypt = NewCryptor(helper.xcrypt.key)]
           /\ OnObjectEnd(h) \in Helper
  <1>1. hasHelper /\ IsEncrypting(h)
    BY DEF Armed, IsEncrypting
  <1>2. h.xcrypt \in Cryptor /\ h.xcrypt.key \in Keys
    BY DEF Helper, Armed
  <1>3. NewCryptor(helper.xcrypt.key) \in Cryptor
    BY <1>2 DEF NewCryptor, Cryptor, KeyOrNone
  <1>4. CASE h.xcrypt.key \in IsPDF20
    <2>1. OnObjectEnd(h) = h
      BY <1>4 DEF OnObjectEnd
    <2>2. h.xcrypt.stack = <<>>
      BY <1>4 DEF Armed, StackFor
    <2>3. h.xcrypt = NewCryptor(helper.xcrypt.key)
      BY <1>2, <2>2 DEF Cryptor, NewCryptor
    <2> QED
      BY <2>1, <2>3 DEF Helper
  <1>5. CASE h.xcrypt.key \notin IsPDF20
    <2> DEFINE k == ObjectKey(helper.xcrypt.key, openObject)
    <2>1. h.xcrypt.stack = <<k>>
      BY <1>5 DEF Armed, StackFor
    <2> HIDE DEF k
    <2>2. SubSeq(h.xcrypt.stack, 1, Len(h.xcrypt.stack) - 1) = <<>>
      BY <2>1
    <2>3. OnObjectEnd(h) = [h EXCEPT !.xcrypt.stack = SubSeq(@, 1, Len(@) - 1)]
      BY <1>1, <1>5 DEF OnObjectEnd
    <2>4. [h.xcrypt EXCEPT !.stack = <<>>] = NewCryptor(helper.xcrypt.key)
      BY <1>2 DEF Cryptor, NewCryptor
    <2>5. OnObjectEnd(h) = [h EXCEPT !.xcrypt = NewCryptor(helper.xcrypt.key)]
      BY <2>2, <2>3, <2>4 DEF Helper
    <2> QED
      BY <1>3, <2>5 DEF Helper
  <1> QED
    BY <1>4, <1>5-----------------------------------------------------------------------------
(* What a document is after a string: as it was, but for the open object.  *)
LEMMA CipherAdded ==
    ASSUME Typed, openObject # 0, NEW cipher \in Ciphers, AddCipher(cipher)
    PROVE  /\ document' \in Document
           /\ document' = [document EXCEPT !.content = document'.content]
           /\ Len(document'.content) = Len(document.content)
           /\ DOMAIN document'.content = DOMAIN document.content
           /\ \A id \in DOMAIN document.content :
                 document'.content[id] = IF id = openObject
                                         THEN document.content[id] \cup {cipher}
                                         ELSE document.content[id]
  <1> DEFINE c == document.content
             new == [c EXCEPT ![openObject] = c[openObject] \cup {cipher}]
  <1>1. document \in Document /\ c \in Seq(SUBSET Ciphers) /\ openObject \in 1 .. Len(c)
    BY DEF Typed, Document
  <1>2. document' = [document EXCEPT !.content = new]
    BY <1>1 DEF AddCipher, Document
  <1>3. new \in Seq(SUBSET Ciphers) /\ Len(new) = Len(c) /\ DOMAIN new = DOMAIN c
    <2>1. c[openObject] \cup {cipher} \in SUBSET Ciphers
      BY <1>1
    <2> QED
      BY <1>1, <2>1
  <1>4. document'.content = new
    BY <1>1, <1>2 DEF Document
  <1>5. \A id \in DOMAIN c : new[id] = IF id = openObject THEN c[id] \cup {cipher} ELSE c[id]
    BY <1>1
  <1> HIDE DEF new
  <1>6. document' \in Document
    BY <1>1, <1>2, <1>3 DEF Document
  <1> QED
    BY <1>2, <1>3, <1>4, <1>5, <1>6

(* The ciphers an armed helper gives are ciphers.                          *)
LEMMA KeysAreCiphers ==
    ASSUME NEW key \in Keys, NEW id \in 1 .. MaxObjects
    PROVE  ObjectKey(key, id) \in Ciphers
  BY LifecycleAssumption DEF ObjectKey, Ciphers

(* The invariant holds of a new writer.                                    *)
LEMMA InitIInv == Init => IInv
  <1> SUFFICES ASSUME Init PROVE IInv
    OBVIOUS
  <1> USE LifecycleAssumption DEF Init
  <1>1. NoCryptor \in Cryptor
    BY DEF NoCryptor, Cryptor, KeyOrNone
  <1>2. helper \in Helper
    BY <1>1 DEF NewHelper, Helper, KeyOrNone
  <1>3. document \in Document /\ document.next = Len(document.content) + 1
    BY DEF NoDocument, Document, KeyOrNone
  <1>4. state \in State
    BY DEF NoState, State, KeyOrNone
  <1>5. openObject \in 0 .. Len(document.content)
    BY <1>3 DEF Document
  <1>6. Typed
    <2>1. phase \in Phases /\ hasHelper \in BOOLEAN /\ inStream \in BOOLEAN
      BY DEF Phases
    <2>2. openObject <= MaxObjects /\ documents \in 0 .. MaxDocuments
      OBVIOUS
    <2> QED
      BY <1>2, <1>3, <1>4, <1>5, <2>1, <2>2 DEF Typed
  <1>7. Nested /\ Unfinished /\ Suspended
    BY DEF Nested, Unfinished, Suspended, Underway, NoDocument, NoState
  <1>8. Fresh
    BY DEF Fresh, Underway, NewHelper
  <1>9. DocumentIsReadable /\ BrokenStringsAreReported
    BY DEF DocumentIsReadable, EncryptionAsRequested, ObjectsReadable, BrokenStringsAreReported
  <1> QED
    BY <1>6, <1>7, <1>8, <1>9 DEF IInv

(* Nothing is claimed of a document that is not reported as finished.      *)
LEMMA UnfinishedIsReadable ==
    ASSUME phase' # "finished"
    PROVE  DocumentIsReadable' /\ BrokenStringsAreReported'
  BY DEF DocumentIsReadable, EncryptionAsRequested, ObjectsReadable, BrokenStringsAreReported

(* A writer may start a document only if it encrypted nothing yet.         *)
LEMMA StartsAreFresh ==
    ASSUME Cautious, IInv, MayStart
    PROVE  /\ Fresh /\ openObject = 0 /\ ~inStream
           /\ phase \in {"idle", "finished", "failed"}
  <1>1. helper.xcrypt = NoCryptor /\ helper.xcrypt.key = NoKey
    BY DEF Cautious, MayStart, NoCryptor
  <1>2. ~Armed
    BY <1>1, LifecycleAssumption DEF Armed
  <1> QED
    BY <1>2 DEF IInv, Nested, MayStart

LEMMA NoDocumentIsOne ==
    /\ NoDocument \in Document /\ NoDocument.next = Len(NoDocument.content) + 1
    /\ 0 \in 0 .. Len(NoDocument.content)
    /\ NoDocument.content = <<>>
  BY LifecycleAssumption DEF NoDocument, Document, KeyOrNone

LEMMA NewWriterStep ==
    ASSUME Cautious, IInv, NewWriter
    PROVE  IInv'
  <1> USE DEF NewWriter
  <1>1. Typed'
    <2>1. NoCryptor \in Cryptor
      BY LifecycleAssumption DEF NoCryptor, Cryptor, KeyOrNone
    <2>2. NewHelper \in Helper
      BY <2>1, LifecycleAssumption DEF NewHelper, Helper, KeyOrNone
    <2> QED
      BY <2>2 DEF IInv, Typed
  <1>2. Nested' /\ Unfinished' /\ Suspended'
    BY DEF IInv, Nested, Unfinished, Suspended, Underway
  <1>3. Fresh'
    <2>1. helper'.xcrypt = NoCryptor /\ ~helper'.encrypted
      BY DEF NewHelper
    <2>2. Underway => Fresh
      BY DEF IInv, Armed, Underway
    <2> QED
      BY <2>1, <2>2 DEF Fresh, Underway
  <1>4. DocumentIsReadable' /\ BrokenStringsAreReported'
    BY DEF IInv, DocumentIsReadable, EncryptionAsRequested, ObjectsReadable,
           BrokenStringsAreReported
  <1> QED
    BY <1>1, <1>2, <1>3, <1>4 DEF IInv

(* Starting a document that is not encrypted.                              *)
LEMMA PlainStartStep ==
    ASSUME Cautious, IInv, StartPlain \/ ModifyPlain
    PROVE  IInv'
  <1>1. document' \in {NoDocument, [NoDocument EXCEPT !.isModified = TRUE]}
    BY DEF StartPlain, ModifyPlain
  <1>2. MayStart /\ phase' = "writing" /\ documents' = documents + 1
        /\ UNCHANGED <<helper, hasHelper, openObject, inStream, state>>
    BY DEF StartPlain, ModifyPlain
  <1>3. Fresh /\ openObject = 0 /\ ~inStream
    BY <1>2, StartsAreFresh
  <1>4. /\ document' \in Document /\ document'.content = <<>> /\ document'.next = 1
        /\ document'.dictionaryID = 0 /\ document'.encryptKey = NoKey
        /\ document'.requested = NoKey /\ document'.sourceKey = NoKey
    <2>1. document' \in Document
      BY <1>1, NoDocumentIsOne DEF Document
    <2>2. /\ document'.content = NoDocument.content /\ document'.next = NoDocument.next
          /\ document'.dictionaryID = NoDocument.dictionaryID
          /\ document'.encryptKey = NoDocument.encryptKey
          /\ document'.requested = NoDocument.requested
          /\ document'.sourceKey = NoDocument.sourceKey
      BY <1>1, NoDocumentIsOne DEF Document
    <2> QED
      BY <2>1, <2>2 DEF NoDocument
  <1>5. Typed'
    BY <1>2, <1>3, <1>4, LifecycleAssumption DEF IInv, Typed, MayStart, Phases
  <1>6. Nested' /\ Unfinished' /\ Suspended'
    BY <1>2, <1>3, <1>4 DEF Nested, Unfinished, Suspended, Underway
  <1>7. Fresh'
    BY <1>2, <1>3, <1>4 DEF Fresh
  <1>8. DocumentIsReadable' /\ BrokenStringsAreReported'
    BY <1>2, UnfinishedIsReadable
  <1> QED
    BY <1>5, <1>6, <1>7, <1>8 DEF IInv

(* Starting an encrypted document arms the helper.                         *)
LEMMA EncryptedStartStep ==
    ASSUME Cautious, IInv, StartEncrypted \/ ModifyEncrypted
    PROVE  IInv'
  <1>1. PICK key \in Keys :
            /\ helper' = Setup(helper, key)
            /\ document' \in {[NoDocument EXCEPT !.requested = key],
                             [NoDocument EXCEPT !.requested = key, !.sourceKey = key,
                                                !.isModified = TRUE]}
    BY DEF StartEncrypted, ModifyEncrypted
  <1>2. /\ MayStart /\ hasHelper' = TRUE /\ phase' = "writing" /\ documents' = documents + 1
        /\ UNCHANGED <<openObject, inStream, state>>
    BY DEF StartEncrypted, ModifyEncrypted
  <1>3. Fresh /\ openObject = 0 /\ ~inStream
    BY <1>2, StartsAreFresh
  <1>4. /\ helper' \in Helper /\ helper'.xcrypt = NewCryptor(key)
        /\ helper'.encrypted /\ helper'.shared /\ helper'.values = key
        /\ helper'.pauseLevel = 0
    <2>1. NewCryptor(key) \in Cryptor /\ NoCryptor \in Cryptor
      BY DEF NewCryptor, NoCryptor, Cryptor, KeyOrNone
    <2>2. helper \in Helper /\ helper.xcrypt = NoCryptor
      BY <1>3 DEF IInv, Typed, Fresh
    <2>3. helper' = [helper EXCEPT !.xcrypt = NewCryptor(key), !.current = NoCryptor,
                                  !.shared = TRUE, !.encrypted = TRUE, !.supports = TRUE,
                                  !.pauseLevel = 0, !.hadFailure = FALSE, !.values = key]
      BY <1>1, <2>2 DEF Setup, WithCryptor, Helper
    <2> QED
      BY <2>1, <2>2, <2>3 DEF Helper, KeyOrNone
  <1>5. /\ document' \in Document /\ document'.content = <<>> /\ document'.next = 1
        /\ document'.dictionaryID = 0 /\ document'.encryptKey = NoKey
        /\ document'.requested = key
        /\ document'.isModified => document'.sourceKey = key
    BY <1>1, NoDocumentIsOne DEF NoDocument, Document, KeyOrNone
  <1>6. Typed'
    BY <1>2, <1>3, <1>4, <1>5, LifecycleAssumption DEF IInv, Typed, MayStart, Phases
  <1>7. Nested' /\ Unfinished' /\ Suspended'
    BY <1>2, <1>3, <1>5 DEF Nested, Unfinished, Suspended, Underway
  <1>8. Armed'
    <2>1. helper'.xcrypt.key = key /\ helper'.xcrypt.stack = <<>>
      BY <1>4 DEF NewCryptor
    <2>2. StackFor(key)' = <<>> /\ Paused' = 0
      BY <1>2, <1>3 DEF StackFor, Paused
    <2> QED
      BY <1>2, <1>4, <1>5, <2>1, <2>2 DEF Armed
  <1>9. DocumentIsReadable' /\ BrokenStringsAreReported'
    BY <1>2, UnfinishedIsReadable
  <1> QED
    BY <1>6, <1>7, <1>8, <1>9 DEF IInv

LEMMA StartUnsupportedStep ==
    ASSUME Cautious, IInv, StartUnsupported
    PROVE  IInv'
  <1> USE DEF StartUnsupported
  <1>1. Fresh /\ openObject = 0 /\ ~inStream
    BY StartsAreFresh
  <1>2. helper' \in Helper /\ helper'.xcrypt = NoCryptor /\ ~helper'.encrypted
    BY <1>1 DEF IInv, Typed, Fresh, SetupFailed, Helper
  <1>3. Typed'
    BY <1>1, <1>2, NoDocumentIsOne, LifecycleAssumption DEF IInv, Typed, MayStart, Phases
  <1>4. Nested' /\ Unfinished' /\ Suspended'
    BY <1>1 DEF Nested, Unfinished, Suspended, Underway
  <1>5. Fresh'
    BY <1>2 DEF Fresh, Underway
  <1>6. DocumentIsReadable' /\ BrokenStringsAreReported'
    BY UnfinishedIsReadable
  <1> QED
    BY <1>3, <1>4, <1>5, <1>6 DEF IInv-----------------------------------------------------------------------------
LEMMA StartObjectStep ==
    ASSUME Cautious, IInv, StartNewIndirectObject
    PROVE  IInv'
  <1> USE DEF StartNewIndirectObject
  <1> DEFINE c == document.content
             n == document.next
  <1>1. /\ Typed /\ document \in Document /\ helper \in Helper
        /\ c \in Seq(SUBSET Ciphers) /\ n = Len(c) + 1 /\ n \in 1 .. MaxObjects
        /\ ~inStream
    BY DEF IInv, Typed, Nested, Document
  <1>2. /\ document' = [document EXCEPT !.next = n + 1, !.content = Append(c, {})]
        /\ Append(c, {}) \in Seq(SUBSET Ciphers) /\ Len(Append(c, {})) = n
        /\ DOMAIN Append(c, {}) = 1 .. n /\ DOMAIN c = 1 .. n - 1
        /\ \A id \in 1 .. n : Append(c, {})[id] = IF id = n THEN {} ELSE c[id]
    BY <1>1
  <1>3. /\ document' \in Document /\ document'.next = Len(document'.content) + 1
        /\ document'.content = Append(c, {})
    <2>1. document'.content = Append(c, {}) /\ document'.next = n + 1 /\ n + 1 \in Nat
      BY <1>1, <1>2 DEF Document
    <2>2. document' \in Document
      BY <1>1, <1>2, <2>1 DEF Document
    <2> QED
      BY <1>2, <2>1, <2>2
  <1>4. /\ UNCHANGED <<document.requested, document.isModified, document.sourceKey,
                       document.dictionaryID, document.encryptKey>>
    BY <1>1, <1>2 DEF Document
  <1> HIDE DEF c, n
  <1>5. openObject' \in 0 .. Len(document'.content) /\ openObject' <= MaxObjects
    BY <1>1, <1>2, <1>3 DEF n
  <1>6. Nested' /\ Unfinished' /\ Suspended'
    BY <1>1, <1>4 DEF IInv, Nested, Unfinished, Suspended, Underway
  <1>7. DocumentIsReadable' /\ BrokenStringsAreReported'
    BY UnfinishedIsReadable
  <1>8. CASE Fresh
    <2>1. helper' = helper
      BY <1>1, <1>8, FreshCalls
    <2>2. Typed'
      BY <1>1, <1>3, <1>5, <2>1 DEF Typed
    <2>3. \A id \in DOMAIN document'.content : document'.content[id] \subseteq {Plain}
      BY <1>2, <1>3, <1>8 DEF Fresh, Underway, c
    <2>4. Fresh'
      BY <1>4, <1>8, <2>1, <2>3 DEF Fresh, Underway
    <2> QED
      BY <1>6, <1>7, <2>2, <2>4 DEF IInv
  <1>9. CASE Armed
    <2> DEFINE key == helper.xcrypt.key
               entry == [key |-> key, stack |-> IF key \in IsPDF20 THEN <<>>
                                                ELSE <<ObjectKey(key, n)>>]
    <2>1. helper' = [helper EXCEPT !.xcrypt = entry] /\ helper' \in Helper
      BY <1>1, <1>9, ArmedStart DEF n
    <2> HIDE DEF entry
    <2>2. Typed'
      BY <1>1, <1>3, <1>5, <2>1 DEF Typed
    <2>3. /\ helper'.xcrypt = entry
          /\ UNCHANGED <<helper.encrypted, helper.shared, helper.values, helper.pauseLevel,
                         helper.hadFailure>>
      BY <1>1, <2>1 DEF Helper
    <2>4. entry.key = key /\ entry.stack = StackFor(helper.xcrypt.key)'
      <3>1. openObject' = n /\ n # 0
        BY <1>1 DEF n
      <3>2. helper'.xcrypt.key = key
        BY <2>3 DEF entry
      <3> QED
        BY <3>1, <3>2 DEF entry, StackFor
    <2>5. Paused' = Paused
      BY DEF Paused
    <2>6. \A id \in DOMAIN document'.content :
              document'.content[id] \subseteq
                  {ObjectKey(key, id)} \cup (IF helper.hadFailure THEN {Broken} ELSE {})
      BY <1>2, <1>3, <1>9 DEF Armed, c
    <2>7. Armed'
      BY <1>4, <1>9, <2>3, <2>4, <2>5, <2>6 DEF Armed
    <2> QED
      BY <1>6, <1>7, <2>2, <2>7 DEF IInv
  <1> QED
    BY <1>8, <1>9 DEF IInv

(* A string, or the start of a stream: the ciphers added are those that    *)
(* the document and the helper stand for.                                  *)
LEMMA CipherStep ==
    ASSUME IInv, openObject # 0, phase = "writing", ~inStream,
           NEW cipher, cipher = CipherNow(helper), AddCipher(cipher)
    PROVE  /\ document' \in Document /\ document'.next = Len(document'.content) + 1
           /\ Len(document'.content) = Len(document.content)
           /\ UNCHANGED <<document.requested, document.isModified, document.sourceKey,
                          document.dictionaryID, document.encryptKey>>
           /\ Fresh => \A id \in DOMAIN document'.content : document'.content[id] \subseteq {Plain}
           /\ Armed => \A id \in DOMAIN document'.content :
                  document'.content[id] \subseteq
                      {ObjectKey(helper.xcrypt.key, id)} \cup
                      (IF helper.hadFailure THEN {Broken} ELSE {})
  <1>1. Typed /\ openObject \in 1 .. MaxObjects /\ document \in Document
    BY DEF IInv, Typed
  <1>2. CASE Fresh
    <2>1. cipher = Plain /\ cipher \in Ciphers
      BY <1>1, <1>2, FreshCalls DEF Ciphers
    <2>2. \A id \in DOMAIN document.content : document.content[id] \subseteq {Plain}
      BY <1>2 DEF Fresh, Underway
    <2>3. ~Armed
      BY <1>2, LifecycleAssumption DEF Fresh, Armed, NoCryptor
    <2> QED
      BY <1>1, <2>1, <2>2, <2>3, CipherAdded DEF Typed, Document
  <1>3. CASE Armed
    <2>1. cipher = ObjectKey(helper.xcrypt.key, openObject)
      BY <1>1, <1>3, ArmedCipher
    <2>2. cipher \in Ciphers
      BY <1>1, <1>3, <2>1, KeysAreCiphers DEF Armed
    <2>3. \A id \in DOMAIN document.content :
             document.content[id] \subseteq
                {ObjectKey(helper.xcrypt.key, id)} \cup
                (IF helper.hadFailure THEN {Broken} ELSE {})
      BY <1>3 DEF Armed
    <2>4. ~Fresh
      BY <1>3, LifecycleAssumption DEF Fresh, Armed, NoCryptor
    <2> QED
      BY <1>1, <2>1, <2>2, <2>3, <2>4, CipherAdded, ZenonT(60) DEF Typed, Document
  <1> QED
    BY <1>2, <1>3 DEF IInv

LEMMA WriteStringStep ==
    ASSUME Cautious, IInv, WriteString
    PROVE  IInv'
  <1> USE DEF WriteString
  <1>1. /\ document' \in Document /\ document'.next = Len(document'.content) + 1
        /\ Len(document'.content) = Len(document.content)
        /\ UNCHANGED <<document.requested, document.isModified, document.sourceKey,
                       document.dictionaryID, document.encryptKey>>
        /\ Fresh => \A id \in DOMAIN document'.content : document'.content[id] \subseteq {Plain}
        /\ Armed => \A id \in DOMAIN document'.content :
               document'.content[id] \subseteq
                   {ObjectKey(helper.xcrypt.key, id)} \cup
                   (IF helper.hadFailure THEN {Broken} ELSE {})
    BY CipherStep
  <1>2. Typed'
    BY <1>1 DEF IInv, Typed
  <1>3. Nested' /\ Unfinished' /\ Suspended'
    BY <1>1 DEF IInv, Nested, Unfinished, Suspended, Underway
  <1>4. Fresh => Fresh'
    BY <1>1 DEF Fresh, Underway
  <1>5. Armed => Armed'
    BY <1>1 DEF Armed, Paused, StackFor
  <1>6. DocumentIsReadable' /\ BrokenStringsAreReported'
    BY UnfinishedIsReadable
  <1> QED
    BY <1>2, <1>3, <1>4, <1>5, <1>6 DEF IInv

LEMMA StartStreamStep ==
    ASSUME Cautious, IInv, StartPDFStream
    PROVE  IInv'
  <1> USE DEF StartPDFStream
  <1>1. /\ document' \in Document /\ document'.next = Len(document'.content) + 1
        /\ Len(document'.content) = Len(document.content)
        /\ UNCHANGED <<document.requested, document.isModified, document.sourceKey,
                       document.dictionaryID, document.encryptKey>>
        /\ Fresh => \A id \in DOMAIN document'.content : document'.content[id] \subseteq {Plain}
        /\ Armed => \A id \in DOMAIN document'.content :
               document'.content[id] \subseteq
                   {ObjectKey(helper.xcrypt.key, id)} \cup
                   (IF helper.hadFailure THEN {Broken} ELSE {})
    BY CipherStep
  <1>2. /\ helper \in Helper /\ helper' \in Helper
        /\ UNCHANGED <<helper.xcrypt, helper.encrypted, helper.shared, helper.values,
                       helper.hadFailure>>
        /\ helper'.pauseLevel = helper.pauseLevel + (IF hasHelper THEN 1 ELSE 0)
    BY DEF IInv, Typed, StreamPause, Helper
  <1>3. Typed'
    BY <1>1, <1>2 DEF IInv, Typed
  <1>4. Nested'
    <2>1. helper.pauseLevel \in Nat
      BY <1>2 DEF Helper
    <2> QED
      BY <1>2, <2>1 DEF Nested
  <1>5. Unfinished' /\ Suspended'
    BY <1>1 DEF IInv, Unfinished, Suspended, Underway
  <1>6. Fresh => Fresh'
    BY <1>1, <1>2 DEF Fresh, Underway
  <1>7. Armed => Armed'
    <2>1. Paused = 0 /\ Paused' = 1
      BY DEF Paused
    <2>2. StackFor(helper.xcrypt.key)' = StackFor(helper.xcrypt.key)
      BY <1>2 DEF StackFor
    <2> QED
      BY <1>1, <1>2, <2>1, <2>2 DEF Armed
  <1>8. DocumentIsReadable' /\ BrokenStringsAreReported'
    BY UnfinishedIsReadable
  <1> QED
    BY <1>3, <1>4, <1>5, <1>6, <1>7, <1>8 DEF IInv

LEMMA WriteBrokenStep ==
    ASSUME Cautious, IInv, WriteBrokenString
    PROVE  IInv'
  <1> USE DEF WriteBrokenString
  <1>1. Armed /\ ~Fresh /\ Typed /\ helper \in Helper
    BY DEF IInv, Fresh, IsEncrypting, Typed
  <1>2. Broken \in Ciphers
    BY DEF Ciphers
  <1>3. /\ document' \in Document
        /\ document' = [document EXCEPT !.content = document'.content]
        /\ Len(document'.content) = Len(document.content)
        /\ DOMAIN document'.content = DOMAIN document.content
        /\ \A id \in DOMAIN document.content :
               document'.content[id] = IF id = openObject
                                       THEN document.content[id] \cup {Broken}
                                       ELSE document.content[id]
    BY <1>1, <1>2, CipherAdded
  <1>4. UNCHANGED <<document.requested, document.isModified, document.sourceKey, document.next,
                    document.dictionaryID, document.encryptKey>>
    BY <1>1, <1>3 DEF Typed, Document
  <1>5. /\ helper' \in Helper /\ helper'.hadFailure
        /\ UNCHANGED <<helper.xcrypt, helper.encrypted, helper.shared, helper.values,
                       helper.pauseLevel>>
    BY <1>1 DEF Helper
  <1>6. Typed'
    BY <1>1, <1>3, <1>4, <1>5 DEF Typed
  <1>7. Nested' /\ Unfinished' /\ Suspended'
    BY <1>4, <1>5 DEF IInv, Nested, Unfinished, Suspended, Underway
  <1>8. Armed'
    <2>1. \A id \in DOMAIN document'.content :
              document'.content[id] \subseteq {ObjectKey(helper.xcrypt.key, id)} \cup {Broken}
      BY <1>1, <1>3 DEF Armed
    <2>2. StackFor(helper.xcrypt.key)' = StackFor(helper.xcrypt.key) /\ Paused' = Paused
      BY <1>5 DEF StackFor, Paused
    <2> QED
      BY <1>1, <1>4, <1>5, <2>1, <2>2 DEF Armed
  <1>9. DocumentIsReadable' /\ BrokenStringsAreReported'
    BY UnfinishedIsReadable
  <1> QED
    BY <1>6, <1>7, <1>8, <1>9 DEF IInv-----------------------------------------------------------------------------
LEMMA EndObjectStep ==
    ASSUME Cautious, IInv, EndIndirectObject
    PROVE  IInv'
  <1> USE DEF EndIndirectObject
  <1>1. Typed /\ helper \in Helper
    BY DEF IInv, Typed
  <1>2. Nested' /\ Unfinished' /\ Suspended'
    BY DEF IInv, Nested, Unfinished, Suspended, Underway
  <1>3. DocumentIsReadable' /\ BrokenStringsAreReported'
    BY UnfinishedIsReadable
  <1>4. openObject' \in 0 .. Len(document'.content) /\ openObject' <= MaxObjects
    BY <1>1, LifecycleAssumption DEF Typed
  <1>5. CASE Fresh
    <2>1. helper' = helper
      BY <1>1, <1>5, FreshCalls
    <2>2. Typed'
      BY <1>1, <1>4, <2>1 DEF Typed
    <2> QED
      BY <1>2, <1>3, <1>5, <2>1, <2>2 DEF IInv, Fresh, Underway
  <1>6. CASE Armed
    <2>1. helper.encrypted /\ helper.pauseLevel = 0
      BY <1>6 DEF Armed, Paused
    <2>2. helper' = [helper EXCEPT !.xcrypt = NewCryptor(helper.xcrypt.key)]
          /\ helper' \in Helper
      BY <1>1, <1>6, <2>1, ArmedEnd
    <2>3. Typed'
      BY <1>1, <1>4, <2>2 DEF Typed
    <2>4. /\ helper'.xcrypt.key = helper.xcrypt.key /\ helper'.xcrypt.stack = <<>>
          /\ UNCHANGED <<helper.encrypted, helper.shared, helper.values, helper.pauseLevel,
                         helper.hadFailure>>
      BY <1>1, <2>2 DEF Helper, NewCryptor
    <2>5. StackFor(helper.xcrypt.key)' = <<>> /\ Paused' = Paused
      BY DEF StackFor, Paused
    <2>6. Armed'
      BY <1>6, <2>4, <2>5 DEF Armed
    <2> QED
      BY <1>2, <1>3, <2>3, <2>6 DEF IInv
  <1> QED
    BY <1>5, <1>6 DEF IInv

LEMMA EndStreamStep ==
    ASSUME Cautious, IInv, EndPDFStream
    PROVE  IInv'
  <1> USE DEF EndPDFStream
  <1> DEFINE released == StreamRelease(helper)
  <1>1. Typed /\ helper \in Helper /\ openObject # 0
    BY DEF IInv, Typed, Nested
  <1>2. /\ released \in Helper
        /\ released.xcrypt = helper.xcrypt /\ released.encrypted = helper.encrypted
        /\ released.shared = helper.shared /\ released.values = helper.values
        /\ released.hadFailure = helper.hadFailure
        /\ released.pauseLevel = helper.pauseLevel - (IF hasHelper THEN 1 ELSE 0)
    <2>1. hasHelper => helper.pauseLevel - 1 \in Nat
      BY <1>1 DEF IInv, Nested, Helper
    <2> QED
      BY <1>1, <2>1 DEF StreamRelease, Helper
  <1> HIDE DEF released
  <1>3. Nested' /\ Unfinished' /\ Suspended'
    BY DEF IInv, Nested, Unfinished, Suspended, Underway
  <1>4. DocumentIsReadable' /\ BrokenStringsAreReported'
    BY UnfinishedIsReadable
  <1>5. openObject' \in 0 .. Len(document'.content) /\ openObject' <= MaxObjects
    BY <1>1, LifecycleAssumption DEF Typed
  <1>6. CASE Fresh
    <2>1. helper' = released
      BY <1>1, <1>6, FreshCalls DEF released
    <2>2. Typed'
      BY <1>1, <1>2, <1>5, <2>1 DEF Typed
    <2> QED
      BY <1>2, <1>3, <1>4, <1>6, <2>1, <2>2 DEF IInv, Fresh, Underway
  <1>7. CASE Armed
    <2>1. released.encrypted /\ released.pauseLevel = 0
      BY <1>2, <1>7 DEF Armed, Paused
    <2>2. helper' = [released EXCEPT !.xcrypt = NewCryptor(helper.xcrypt.key)]
          /\ helper' \in Helper
      BY <1>1, <1>2, <1>7, <2>1, ArmedEnd DEF released
    <2>3. Typed'
      BY <1>1, <1>5, <2>2 DEF Typed
    <2>4. /\ helper'.xcrypt.key = helper.xcrypt.key /\ helper'.xcrypt.stack = <<>>
          /\ UNCHANGED <<helper.encrypted, helper.shared, helper.values, helper.hadFailure>>
          /\ helper'.pauseLevel = 0
      <3>1. helper'.xcrypt = NewCryptor(helper.xcrypt.key)
        BY <1>2, <2>2 DEF Helper
      <3>2. /\ helper'.encrypted = released.encrypted /\ helper'.shared = released.shared
            /\ helper'.values = released.values /\ helper'.hadFailure = released.hadFailure
            /\ helper'.pauseLevel = released.pauseLevel
        BY <1>2, <2>2 DEF Helper
      <3> QED
        BY <1>2, <2>1, <3>1, <3>2 DEF NewCryptor
    <2>5. StackFor(helper.xcrypt.key)' = <<>> /\ Paused' = 0
      BY DEF StackFor, Paused
    <2>6. Armed'
      BY <1>7, <2>4, <2>5 DEF Armed
    <2> QED
      BY <1>3, <1>4, <2>3, <2>6 DEF IInv
  <1> QED
    BY <1>6, <1>7 DEF IInv
-----------------------------------------------------------------------------
(* A document that ends without being reported as finished.                *)
LEMMA FailedEnd ==
    ASSUME IInv, phase = "writing",
           NEW h \in {helper, Pause(helper), StreamPause(helper)}, Ended(h, document, "failed")
    PROVE  IInv'
  <1> USE DEF Ended
  <1>1. Typed /\ helper \in Helper
    BY DEF IInv, Typed
  <1>2. /\ helper' \in Helper
        /\ UNCHANGED <<helper.xcrypt, helper.encrypted, helper.shared, helper.values>>
    BY <1>1 DEF Pause, StreamPause, Helper
  <1>3. Typed'
    <2>1. openObject' \in 0 .. Len(document'.content) /\ openObject' <= MaxObjects
      BY <1>1, LifecycleAssumption DEF Typed
    <2>2. phase' \in Phases /\ hasHelper' \in BOOLEAN /\ inStream' \in BOOLEAN
      BY DEF Phases
    <2> QED
      BY <1>1, <1>2, <2>1, <2>2 DEF Typed
  <1>4. Nested' /\ Unfinished' /\ Suspended'
    BY DEF Nested, Unfinished, Suspended, Underway
  <1>5. Fresh => Fresh'
    BY <1>2 DEF Fresh, Underway
  <1>6. Armed => Armed'
    BY <1>2 DEF Armed
  <1>7. DocumentIsReadable' /\ BrokenStringsAreReported'
    BY UnfinishedIsReadable
  <1> QED
    BY <1>3, <1>4, <1>5, <1>6, <1>7 DEF IInv

(* What the document gets from WithEncryptionDictionary.                   *)
LEMMA DictionaryAdded ==
    ASSUME IInv, phase = "writing", NEW doc \in WithEncryptionDictionary
    PROVE  /\ doc \in Document /\ doc.next = Len(doc.content) + 1
           /\ doc.requested = document.requested
           /\ Fresh => /\ doc.encryptKey = NoKey
                       /\ doc.content = document.content
           /\ Armed => doc.encryptKey = helper.xcrypt.key
           /\ \A id \in DOMAIN doc.content :
                 \/ id \in DOMAIN document.content /\ id # doc.dictionaryID
                    /\ doc.content[id] = document.content[id]
                 \/ id = doc.dictionaryID /\ doc.content[id] = {Plain}
  <1> DEFINE c == document.content
             n == document.next
             added(key) == [document EXCEPT !.next = n + 1, !.content = Append(c, {Plain}),
                                            !.dictionaryID = n, !.encryptKey = key]
  <1>1. /\ document \in Document /\ helper \in Helper /\ c \in Seq(SUBSET Ciphers)
        /\ n = Len(c) + 1 /\ Len(c) \in Nat
        /\ document.dictionaryID = 0 /\ document.encryptKey = NoKey
    BY DEF IInv, Typed, Document, Unfinished, Underway
  <1>2. /\ Append(c, {Plain}) \in Seq(SUBSET Ciphers) /\ Len(Append(c, {Plain})) = n
        /\ DOMAIN Append(c, {Plain}) = 1 .. n /\ DOMAIN c = 1 .. n - 1
        /\ \A id \in 1 .. n : Append(c, {Plain})[id] = IF id = n THEN {Plain} ELSE c[id]
    BY <1>1 DEF Ciphers
  <1>3. \A key \in KeyOrNone :
            /\ added(key) \in Document /\ added(key).next = Len(added(key).content) + 1
            /\ added(key).requested = document.requested
            /\ added(key).encryptKey = key
            /\ \A id \in DOMAIN added(key).content :
                  \/ id \in DOMAIN c /\ id # added(key).dictionaryID
                     /\ added(key).content[id] = c[id]
                  \/ id = added(key).dictionaryID /\ added(key).content[id] = {Plain}
    <2> TAKE key \in KeyOrNone
    <2>1. /\ added(key).next = n + 1 /\ added(key).content = Append(c, {Plain})
          /\ added(key).dictionaryID = n
          /\ added(key).encryptKey = key /\ added(key).requested = document.requested
      BY <1>1 DEF Document
    <2>2. added(key) \in Document
      <3>1. n \in Nat /\ n + 1 \in Nat
        BY <1>1
      <3> QED
        BY <1>1, <1>2, <3>1 DEF Document
    <2> HIDE DEF added
    <2>3. added(key).next = Len(added(key).content) + 1
      BY <1>2, <2>1
    <2>4. ASSUME NEW id \in DOMAIN added(key).content
          PROVE  \/ id \in DOMAIN c /\ id # added(key).dictionaryID
                    /\ added(key).content[id] = c[id]
                 \/ id = added(key).dictionaryID /\ added(key).content[id] = {Plain}
      <3> HIDE DEF c, n
      <3>1. id \in 1 .. n /\ (id # n => id \in 1 .. n - 1)
        BY <1>1, <1>2, <2>1
      <3> QED
        BY <1>2, <2>1, <3>1
    <2> QED
      BY <2>1, <2>2, <2>3, <2>4
  <1>4. \A key \in KeyOrNone :
            LET new == [document EXCEPT !.encryptKey = key]
            IN  /\ new \in Document /\ new.next = Len(new.content) + 1
                /\ new.requested = document.requested
                /\ new.encryptKey = key /\ new.content = c /\ new.dictionaryID = 0
    BY <1>1 DEF Document
  <1>5. \A key : AddDictionary(key) = added(key)
    BY <1>1 DEF AddDictionary, Document
  <1>6. /\ helper.values \in KeyOrNone /\ document.sourceKey \in KeyOrNone
    BY <1>1 DEF Helper, Document
  <1> HIDE DEF added
  <1>7. CASE Fresh
    <2>1. document.sourceKey = NoKey /\ ~helper.encrypted
      BY <1>7 DEF Fresh, Underway
    <2>2. ~Armed
      BY <2>1 DEF Armed
    <2>3. doc \in {[document EXCEPT !.encryptKey = NoKey], document}
      BY <2>1 DEF WithEncryptionDictionary
    <2>4. /\ doc \in Document /\ doc.next = Len(doc.content) + 1
          /\ doc.requested = document.requested
          /\ doc.encryptKey = NoKey /\ doc.content = c /\ doc.dictionaryID = 0
      <3> DEFINE plain == [document EXCEPT !.encryptKey = NoKey]
      <3>1. NoKey \in KeyOrNone
        BY DEF KeyOrNone
      <3>2. /\ plain \in Document /\ plain.next = Len(plain.content) + 1
            /\ plain.requested = document.requested
            /\ plain.encryptKey = NoKey /\ plain.content = c /\ plain.dictionaryID = 0
        BY <1>4, <3>1
      <3> HIDE DEF plain
      <3>3. doc \in {plain, document}
        BY <2>3 DEF plain
      <3> QED
        BY <1>1, <3>2, <3>3
    <2> QED
      BY <1>1, <1>2, <2>2, <2>4
  <1>8. CASE Armed
    <2> DEFINE key == helper.xcrypt.key
    <2>1. /\ key \in Keys /\ key # NoKey /\ key \in KeyOrNone
          /\ helper.encrypted /\ helper.values = key
          /\ document.isModified => document.sourceKey = key
      BY <1>8, LifecycleAssumption DEF Armed, KeyOrNone
    <2>2. ~Fresh
      BY <2>1 DEF Fresh
    <2>3. doc \in {[document EXCEPT !.encryptKey = key], AddDictionary(key)}
      BY <2>1 DEF WithEncryptionDictionary
    <2>4. CASE doc = [document EXCEPT !.encryptKey = key]
      <3>1. /\ doc \in Document /\ doc.next = Len(doc.content) + 1
            /\ doc.requested = document.requested
            /\ doc.encryptKey = key /\ doc.content = c /\ doc.dictionaryID = 0
        BY <1>4, <2>1, <2>4
      <3> QED
        BY <1>1, <1>2, <2>2, <3>1
    <2>5. CASE doc = AddDictionary(key)
      BY <1>3, <1>5, <2>1, <2>2, <2>5
    <2> QED
      BY <2>3, <2>4, <2>5
  <1> QED
    BY <1>7, <1>8 DEF IInv

(* A finished document is one of which no encryption failed: what is in    *)
(* it is under its dictionary's key, or plain.                             *)
LEMMA EndPDFStep ==
    ASSUME Cautious, IInv, EndPDF
    PROVE  IInv'
  <1>1. CASE helper.hadFailure
    <2>1. PICK doc \in WithEncryptionDictionary : Ended(helper, doc, "failed")
      BY <1>1 DEF EndPDF
    <2>2. /\ doc \in Document /\ doc.next = Len(doc.content) + 1 /\ phase = "writing"
      BY DictionaryAdded DEF EndPDF
    <2> USE <2>1 DEF Ended
    <2>3. Typed'
      <3>1. openObject' \in 0 .. Len(document'.content) /\ openObject' <= MaxObjects
        BY <2>2, LifecycleAssumption DEF Document
      <3>2. phase' \in Phases /\ hasHelper' \in BOOLEAN /\ inStream' \in BOOLEAN
        BY DEF Phases
      <3> QED
        BY <2>2, <3>1, <3>2 DEF IInv, Typed
    <2>4. Nested' /\ Unfinished' /\ Suspended'
      BY DEF Nested, Unfinished, Suspended, Underway
    <2>5. (Fresh => Fresh') /\ (Armed => Armed')
      BY DEF Fresh, Armed, Underway
    <2>6. DocumentIsReadable' /\ BrokenStringsAreReported'
      BY UnfinishedIsReadable
    <2> QED
      BY <2>3, <2>4, <2>5, <2>6 DEF IInv
  <1>2. CASE ~helper.hadFailure
    <2>1. PICK doc \in WithEncryptionDictionary : Ended(helper, doc, "finished")
      BY <1>2 DEF EndPDF
    <2>2. phase = "writing"
      BY DEF EndPDF
    <2>3. /\ doc \in Document /\ doc.next = Len(doc.content) + 1
          /\ doc.requested = document.requested
          /\ Fresh => doc.encryptKey = NoKey /\ doc.content = document.content
          /\ Armed => doc.encryptKey = helper.xcrypt.key
          /\ \A id \in DOMAIN doc.content :
                \/ id \in DOMAIN document.content /\ id # doc.dictionaryID
                   /\ doc.content[id] = document.content[id]
                \/ id = doc.dictionaryID /\ doc.content[id] = {Plain}
      BY <2>2, DictionaryAdded
    <2> USE <2>1 DEF Ended
    <2>4. Typed'
      <3>1. openObject' \in 0 .. Len(document'.content) /\ openObject' <= MaxObjects
        BY <2>3, LifecycleAssumption DEF Document
      <3>2. phase' \in Phases /\ hasHelper' \in BOOLEAN /\ inStream' \in BOOLEAN
        BY DEF Phases
      <3> QED
        BY <2>3, <3>1, <3>2 DEF IInv, Typed
    <2>5. Nested' /\ Unfinished' /\ Suspended'
      BY DEF Nested, Unfinished, Suspended, Underway
    <2>6. (Fresh => Fresh') /\ (Armed => Armed')
      BY DEF Fresh, Armed, Underway
    <2>7. EncryptionAsRequested'
      BY <2>2, <2>3 DEF IInv, Fresh, Armed, Underway, EncryptionAsRequested
    <2>8. ObjectsReadable'
      <3>1. SUFFICES ASSUME NEW id \in DOMAIN doc.content
                     PROVE  doc.content[id] \subseteq
                              {IF doc.encryptKey = NoKey \/ id = doc.dictionaryID
                               THEN Plain ELSE ObjectKey(doc.encryptKey, id)}
        BY DEF ObjectsReadable
      <3>2. CASE id = doc.dictionaryID /\ doc.content[id] = {Plain}
        BY <3>2
      <3>3. CASE id \in DOMAIN document.content /\ id # doc.dictionaryID
                 /\ doc.content[id] = document.content[id]
        <4>1. CASE Fresh
          BY <2>2, <2>3, <3>3, <4>1 DEF Fresh, Underway
        <4>2. CASE Armed
          <5>1. doc.encryptKey = helper.xcrypt.key /\ doc.encryptKey # NoKey
            BY <2>3, <4>2, LifecycleAssumption DEF Armed
          <5>2. document.content[id] \subseteq {ObjectKey(helper.xcrypt.key, id)}
            BY <1>2, <2>2, <3>3, <4>2 DEF Armed
          <5> QED
            BY <3>3, <5>1, <5>2
        <4> QED
          BY <4>1, <4>2 DEF IInv
      <3> QED
        BY <2>3, <3>2, <3>3
    <2>9. BrokenStringsAreReported'
      <3>1. Plain # Broken
        <4>1. Plain[1] # Broken[1]
          BY DEF Plain, Broken
        <4> QED
          BY <4>1
      <3>2. \A id \in DOMAIN doc.content : \E cipher : doc.content[id] \subseteq {cipher}
                                                  /\ cipher # Broken
        <4> TAKE id \in DOMAIN doc.content
        <4> DEFINE cipher == IF doc.encryptKey = NoKey \/ id = doc.dictionaryID
                             THEN Plain ELSE ObjectKey(doc.encryptKey, id)
        <4>1. doc.content[id] \subseteq {cipher}
          BY <2>8 DEF ObjectsReadable
        <4>2. cipher # Broken
          BY <3>1, KeysAreNotWords
        <4> HIDE DEF cipher
        <4> QED
          BY <4>1, <4>2
      <3> QED
        BY <3>2 DEF BrokenStringsAreReported
    <2> QED
      BY <2>4, <2>5, <2>6, <2>7, <2>8, <2>9 DEF IInv, DocumentIsReadable
  <1> QED
    BY <1>1, <1>2

LEMMA FailedEndStep ==
    ASSUME Cautious, IInv, EndPDFFails \/ Reset
    PROVE  IInv'
  <1>1. PICK h \in {helper, Pause(helper), StreamPause(helper)} : Ended(h, document, "failed")
    BY DEF EndPDFFails, Reset
  <1>2. phase = "writing"
    BY DEF EndPDFFails, Reset
  <1> QED
    BY <1>1, <1>2, FailedEnd
-----------------------------------------------------------------------------
LEMMA ShutdownStep ==
    ASSUME Cautious, IInv, Shutdown
    PROVE  IInv'
  <1> USE DEF Shutdown
  <1>1. Fresh /\ ~inStream
    BY DEF IInv, Cautious, Armed, Nested
  <1>2. state'.key = NoKey /\ ~state'.encrypted
    BY <1>1 DEF Fresh, NoCryptor
  <1>3. Typed'
    <2>1. state' \in State
      BY DEF IInv, Typed, Helper, Cryptor, Document, State
    <2>2. phase' \in Phases
      BY DEF Phases
    <2> QED
      BY <2>1, <2>2 DEF IInv, Typed
  <1>4. Nested' /\ Unfinished' /\ Suspended'
    BY <1>1, <1>2 DEF IInv, Nested, Unfinished, Suspended, Underway
  <1>5. Fresh'
    BY <1>1 DEF Fresh, Underway
  <1>6. DocumentIsReadable' /\ BrokenStringsAreReported'
    BY UnfinishedIsReadable
  <1> QED
    BY <1>3, <1>4, <1>5, <1>6 DEF IInv

LEMMA ContinueStep ==
    ASSUME Cautious, IInv, ContinuePDF
    PROVE  IInv'
  <1> USE DEF ContinuePDF
  <1>1. Fresh /\ openObject = 0 /\ ~inStream /\ state.key = NoKey /\ ~state.encrypted
    BY DEF IInv, Armed, Nested, Suspended
  <1>2. /\ helper' = [helper EXCEPT !.encrypted = state.encrypted, !.supports = state.supports,
                                    !.values = state.values]
        /\ helper \in Helper /\ document \in Document /\ state \in State
    BY <1>1 DEF IInv, Typed
  <1>3. helper' \in Helper /\ helper'.xcrypt = helper.xcrypt /\ ~helper'.encrypted
    BY <1>1, <1>2 DEF Helper, State
  <1>4. /\ document' \in Document
        /\ UNCHANGED <<document.requested, document.sourceKey, document.content, document.next,
                       document.dictionaryID, document.encryptKey>>
    BY <1>2 DEF Document, State
  <1>5. Typed'
    <2>1. phase' \in Phases
      BY DEF Phases
    <2> QED
      BY <1>3, <1>4, <2>1 DEF IInv, Typed
  <1>6. Nested' /\ Unfinished' /\ Suspended'
    BY <1>1, <1>4 DEF IInv, Nested, Unfinished, Suspended, Underway
  <1>7. Fresh'
    BY <1>1, <1>3, <1>4 DEF Fresh, Underway
  <1>8. DocumentIsReadable' /\ BrokenStringsAreReported'
    BY UnfinishedIsReadable
  <1> QED
    BY <1>5, <1>6, <1>7, <1>8 DEF IInv

LEMMA NextIInv ==
    ASSUME Cautious, IInv, [Next]_vars
    PROVE  IInv'
  <1>1. CASE NewWriter
    BY <1>1, NewWriterStep
  <1>2. CASE StartPlain \/ ModifyPlain
    BY <1>2, PlainStartStep
  <1>3. CASE StartEncrypted \/ ModifyEncrypted
    BY <1>3, EncryptedStartStep
  <1>4. CASE StartUnsupported
    BY <1>4, StartUnsupportedStep
  <1>5. CASE StartNewIndirectObject
    BY <1>5, StartObjectStep
  <1>6. CASE WriteString
    BY <1>6, WriteStringStep
  <1>7. CASE WriteBrokenString
    BY <1>7, WriteBrokenStep
  <1>8. CASE EndIndirectObject
    BY <1>8, EndObjectStep
  <1>9. CASE StartPDFStream
    BY <1>9, StartStreamStep
  <1>10. CASE EndPDFStream
    BY <1>10, EndStreamStep
  <1>11. CASE EndPDF
    BY <1>11, EndPDFStep
  <1>12. CASE EndPDFFails \/ Reset
    BY <1>12, FailedEndStep
  <1>13. CASE Shutdown
    BY <1>13, ShutdownStep
  <1>14. CASE ContinuePDF
    BY <1>14, ContinueStep
  <1>15. CASE UNCHANGED vars
    <2> USE <1>15 DEF vars
    <2>1. Typed' /\ Nested' /\ Unfinished' /\ Suspended'
      BY DEF IInv, Typed, Nested, Unfinished, Suspended, Underway
    <2>2. (Fresh => Fresh') /\ (Armed => Armed')
      BY DEF Fresh, Armed, Underway, Paused, StackFor
    <2>3. DocumentIsReadable' /\ BrokenStringsAreReported'
      BY DEF IInv, DocumentIsReadable, EncryptionAsRequested, ObjectsReadable,
             BrokenStringsAreReported
    <2> QED
      BY <2>1, <2>2, <2>3 DEF IInv
  <1> QED
    BY <1>1, <1>2, <1>3, <1>4, <1>5, <1>6, <1>7, <1>8, <1>9, <1>10, <1>11, <1>12, <1>13,
       <1>14, <1>15 DEF Next

LEMMA Invariance ==
    ASSUME Cautious
    PROVE  Spec => []IInv
  <1>1. Init => IInv
    BY InitIInv
  <1>2. IInv /\ [Next]_vars => IInv'
    BY NextIInv
  <1> QED
    BY <1>1, <1>2, PTL DEF Spec
-----------------------------------------------------------------------------
(* A finished document is encrypted as it was asked for, with an Encrypt   *)
(* entry by which every object can be read, whatever was started, failed,  *)
(* reset or suspended before (DocumentContext::SetupEncryption,            *)
(* WriteEncryptionDictionary, EncryptionHelper).                           *)
THEOREM FinishedIsReadable ==
    ASSUME Cautious
    PROVE  Spec => []DocumentIsReadable
  <1>1. IInv => DocumentIsReadable
    BY DEF IInv
  <1> QED
    BY <1>1, Invariance, PTL

(* A document with a string whose encryption failed half way is not        *)
(* reported as finished (EncryptionHelper::Encrypt, PDFWriter::EndPDF).    *)
THEOREM BrokenIsReported ==
    ASSUME Cautious
    PROVE  Spec => []BrokenStringsAreReported
  <1>1. IInv => BrokenStringsAreReported
    BY DEF IInv
  <1> QED
    BY <1>1, Invariance, PTL

(* The stack of object keys and the pauses of encryption follow objects    *)
(* and streams (XCryptor::OnObjectStart and OnObjectEnd, EncryptionHelper  *)
(* ::PauseEncryption and ReleaseEncryption).                               *)
THEOREM KeysFollow ==
    ASSUME Cautious
    PROVE  Spec => []KeysFollowObjects
  <1>1. IInv => TypeOK
    BY DEF IInv, Typed, TypeOK, Helper, Cryptor, Document, Phases, KeyOrNone
  <1>2. IInv => KeyStackFollowsObjects
    BY DEF IInv, Fresh, Armed, StackFor, KeyStackFollowsObjects
  <1>3. IInv => PausedOnlyInStreams
    BY DEF IInv, Fresh, Armed, Paused, PausedOnlyInStreams
  <1>4. IInv => KeysFollowObjects
    BY <1>1, <1>2, <1>3 DEF KeysFollowObjects
  <1> QED
    BY <1>4, Invariance, PTL
=============================================================================

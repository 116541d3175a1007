-------------------------- MODULE WriterLifecycle --------------------------
(***************************************************************************)
(* The life of a PDFWriter and of the encryption it shares with its        *)
(* documents: StartPDF, ModifyPDF, the objects, strings and streams        *)
(* written, EndPDF, Reset, Shutdown and ContinuePDF; EncryptionHelper with *)
(* its pause level and its XCryptor's stack of object keys; and the        *)
(* encryption dictionary the finished file is read by.                     *)
(* A cipher is how bytes were encrypted: not at all, or under the key      *)
(* derived from a file key and an object's ID.                             *)
(***************************************************************************)
EXTENDS Integers, Sequences

CONSTANTS
    Keys,                  \* file encryption keys
    NoKey,                 \* no encryption
    IsPDF20,               \* keys of AESV3: object IDs play no part
    MaxObjects,            \* bound: objects of one document
    MaxDocuments,          \* bound: documents started
    ReuseAfterEncryption,  \* may a writer that encrypted start another document?
    ContinueEncryption     \* may an encrypted document be shut down and continued?

ASSUME LifecycleAssumption ==
    /\ NoKey \notin Keys /\ IsPDF20 \subseteq Keys
    /\ MaxObjects \in Nat /\ MaxDocuments \in Nat
    /\ {ReuseAfterEncryption, ContinueEncryption} \subseteq BOOLEAN

VARIABLES
    helper,       \* DocumentContext's EncryptionHelper
    hasHelper,    \* ObjectsContext's mEncryptionHelper is not NULL
    phase,        \* "idle", "writing", "shutdown", "finished" or "failed"
    document,     \* the document being written
    openObject,   \* the ID of the object being written, 0 outside of one
    inStream,     \* a PDFStream is open
    state,        \* the state file
    documents     \* documents started so far

vars == <<helper, hasHelper, phase, document, openObject, inStream, state, documents>>

Plain == <<"plain">>
EmptyKey == <<"empty">>
Broken == <<"broken">>

NoCryptor == [key |-> NoKey, stack |-> <<>>]
NewCryptor(key) == [key |-> key, stack |-> <<>>]

(* xcrypt is the entry "StdCF" of mXcrypts; current is mXcryptStreams and  *)
(* mXcryptStrings, the same object as the entry when shared holds; values  *)
(* is the key that O, U and the rest of the dictionary belong to.          *)
NewHelper == [encrypted |-> FALSE, supports |-> TRUE, pauseLevel |-> 0, hadFailure |-> FALSE,
              xcrypt |-> NoCryptor, current |-> NoCryptor, shared |-> TRUE, values |-> NoKey]

NoDocument == [requested |-> NoKey, isModified |-> FALSE, sourceKey |-> NoKey,
               content |-> <<>>, next |-> 1, dictionaryID |-> 0, encryptKey |-> NoKey]

NoState == [encrypted |-> FALSE, supports |-> TRUE, key |-> NoKey, values |-> NoKey,
            isModified |-> FALSE, exists |-> FALSE]
-----------------------------------------------------------------------------
(***************************************************************************)
(* XCryptor and EncryptionHelper                                           *)
(***************************************************************************)
ObjectKey(key, id) == IF key \in IsPDF20 THEN <<key, 0>> ELSE <<key, id>>

CurrentObjectKey(h) ==
    LET cryptor == IF h.shared THEN h.xcrypt ELSE h.current
    IN IF cryptor.key \in IsPDF20 THEN ObjectKey(cryptor.key, 0)
       ELSE IF cryptor.stack = <<>> THEN EmptyKey
       ELSE cryptor.stack[Len(cryptor.stack)]

IsEncrypting(h) == h.encrypted /\ h.pauseLevel = 0

(* insert leaves an entry of the same name in place.                       *)
WithCryptor(h, key) ==
    IF h.xcrypt = NoCryptor
    THEN [h EXCEPT !.xcrypt = NewCryptor(key), !.current = NoCryptor, !.shared = TRUE]
    ELSE [h EXCEPT !.current = NewCryptor(key), !.shared = FALSE]

Setup(h, key) ==
    [WithCryptor(h, key) EXCEPT !.encrypted = TRUE, !.supports = TRUE, !.pauseLevel = 0,
                                !.hadFailure = FALSE, !.values = key]

SetupFailed(h) ==
    [h EXCEPT !.encrypted = FALSE, !.supports = FALSE, !.pauseLevel = 0, !.hadFailure = FALSE]

(* ObjectsContext::IsEncrypting, then OnObjectStart or OnObjectEnd.        *)
OnObjectStart(h, id) ==
    IF hasHelper /\ IsEncrypting(h) /\ h.xcrypt.key \notin IsPDF20
    THEN [h EXCEPT !.xcrypt.stack = Append(@, ObjectKey(h.xcrypt.key, id))]
    ELSE h

OnObjectEnd(h) ==
    IF hasHelper /\ IsEncrypting(h) /\ h.xcrypt.key \notin IsPDF20
    THEN [h EXCEPT !.xcrypt.stack = SubSeq(@, 1, Len(@) - 1)]
    ELSE h

(* Mutant: the stream does not pause encryption.                           *)
WithoutPause(h) == h

(* A stream pauses encryption in the helper of the objects context; the    *)
(* document context pauses its own.                                        *)
StreamPause(h) == IF hasHelper THEN [h EXCEPT !.pauseLevel = @ + 1] ELSE h
StreamRelease(h) == IF hasHelper THEN [h EXCEPT !.pauseLevel = @ - 1] ELSE h
Pause(h) == [h EXCEPT !.pauseLevel = @ + 1]

CipherNow(h) == IF hasHelper /\ IsEncrypting(h) THEN CurrentObjectKey(h) ELSE Plain
-----------------------------------------------------------------------------
(***************************************************************************)
(* Starting                                                                *)
(***************************************************************************)
Init ==
    /\ helper = NewHelper /\ hasHelper = FALSE
    /\ phase = "idle" /\ document = NoDocument
    /\ openObject = 0 /\ inStream = FALSE
    /\ state = NoState /\ documents = 0

(* The writer is destroyed and another one created, perhaps in another     *)
(* process; a file that was shut down stays as it is.                      *)
NewWriter ==
    /\ phase # "writing"
    /\ helper' = NewHelper /\ hasHelper' = FALSE
    /\ UNCHANGED <<phase, document, openObject, inStream, state, documents>>

MayStart ==
    /\ phase \in {"idle", "finished", "failed"}
    /\ documents < MaxDocuments
    /\ ReuseAfterEncryption \/ helper.xcrypt = NoCryptor

StartPlain ==
    /\ MayStart
    /\ document' = NoDocument
    /\ phase' = "writing" /\ documents' = documents + 1
    /\ UNCHANGED <<helper, hasHelper, openObject, inStream, state>>

(* Mutant: the pause level of the last document is kept.                   *)
StartWithoutReset ==
    /\ MayStart
    /\ \E key \in Keys :
        /\ helper' = [WithCryptor(helper, key) EXCEPT !.encrypted = TRUE, !.values = key]
        /\ document' = [NoDocument EXCEPT !.requested = key]
    /\ hasHelper' = TRUE
    /\ phase' = "writing" /\ documents' = documents + 1
    /\ UNCHANGED <<openObject, inStream, state>>

StartEncrypted ==
    /\ MayStart
    /\ \E key \in Keys :
        /\ helper' = Setup(helper, key)
        /\ document' = [NoDocument EXCEPT !.requested = key]
    /\ hasHelper' = TRUE
    /\ phase' = "writing" /\ documents' = documents + 1
    /\ UNCHANGED <<openObject, inStream, state>>

(* The encryption asked for cannot be set up: StartPDF fails.              *)
StartUnsupported ==
    /\ MayStart
    /\ helper' = SetupFailed(helper) /\ hasHelper' = TRUE
    /\ document' = NoDocument
    /\ phase' = "failed" /\ documents' = documents + 1
    /\ UNCHANGED <<openObject, inStream, state>>

(* Object 1 is the original's encryption dictionary.                       *)
ModifyPlain ==
    /\ MayStart
    /\ document' = [NoDocument EXCEPT !.isModified = TRUE]
    /\ phase' = "writing" /\ documents' = documents + 1
    /\ UNCHANGED <<helper, hasHelper, openObject, inStream, state>>

ModifyEncrypted ==
    /\ MayStart
    /\ \E key \in Keys :
        /\ helper' = Setup(helper, key)
        /\ document' = [NoDocument EXCEPT !.requested = key, !.sourceKey = key,
                                          !.isModified = TRUE]
    /\ hasHelper' = TRUE
    /\ phase' = "writing" /\ documents' = documents + 1
    /\ UNCHANGED <<openObject, inStream, state>>
-----------------------------------------------------------------------------
(***************************************************************************)
(* Writing                                                                 *)
(***************************************************************************)
AddCipher(cipher) ==
    document' = [document EXCEPT !.content[openObject] = @ \cup {cipher}]

StartNewIndirectObject ==
    /\ phase = "writing" /\ openObject = 0 /\ document.next <= MaxObjects
    /\ openObject' = document.next
    /\ helper' = OnObjectStart(helper, document.next)
    /\ document' = [document EXCEPT !.next = @ + 1, !.content = Append(@, {})]
    /\ UNCHANGED <<hasHelper, phase, inStream, state, documents>>

WriteString ==
    /\ phase = "writing" /\ openObject # 0 /\ ~inStream
    /\ AddCipher(CipherNow(helper))
    /\ UNCHANGED <<helper, hasHelper, phase, openObject, inStream, state, documents>>

(* Mutant: the outcome of the encryption is only traced.                   *)
WriteBrokenUnnoticed ==
    /\ phase = "writing" /\ openObject # 0 /\ ~inStream
    /\ hasHelper /\ IsEncrypting(helper)
    /\ AddCipher(Broken)
    /\ UNCHANGED <<helper, hasHelper, phase, openObject, inStream, state, documents>>

(* The encryption of a string fails half way.                              *)
WriteBrokenString ==
    /\ phase = "writing" /\ openObject # 0 /\ ~inStream
    /\ hasHelper /\ IsEncrypting(helper)
    /\ AddCipher(Broken)
    /\ helper' = [helper EXCEPT !.hadFailure = TRUE]
    /\ UNCHANGED <<hasHelper, phase, openObject, inStream, state, documents>>

EndIndirectObject ==
    /\ phase = "writing" /\ openObject # 0 /\ ~inStream
    /\ helper' = OnObjectEnd(helper)
    /\ openObject' = 0
    /\ UNCHANGED <<hasHelper, phase, document, inStream, state, documents>>

StartPDFStream ==
    /\ phase = "writing" /\ openObject # 0 /\ ~inStream
    /\ AddCipher(CipherNow(helper))
    /\ helper' = StreamPause(helper)
    /\ inStream' = TRUE
    /\ UNCHANGED <<hasHelper, phase, openObject, state, documents>>

(* Mutant: the object is ended while encryption is still paused.           *)
EndObjectBeforeRelease ==
    /\ phase = "writing" /\ inStream
    /\ helper' = StreamRelease(OnObjectEnd(helper))
    /\ inStream' = FALSE /\ openObject' = 0
    /\ UNCHANGED <<hasHelper, phase, document, state, documents>>

(* Ends the stream's object too; the object of its length, started and     *)
(* ended at once, holds a number.                                          *)
EndPDFStream ==
    /\ phase = "writing" /\ inStream
    /\ helper' = OnObjectEnd(StreamRelease(helper))
    /\ inStream' = FALSE /\ openObject' = 0
    /\ UNCHANGED <<hasHelper, phase, document, state, documents>>
-----------------------------------------------------------------------------
(***************************************************************************)
(* Ending.  Cleanup forgets the objects context's pointer to the helper;   *)
(* the helper is not touched.                                              *)
(***************************************************************************)
Ended(h, doc, outcome) ==
    /\ helper' = h /\ document' = doc /\ phase' = outcome
    /\ hasHelper' = FALSE
    /\ openObject' = 0 /\ inStream' = FALSE
    /\ UNCHANGED <<state, documents>>

(* Mutant: the dictionary's strings go through the encryption.             *)
AddEncryptedDictionary(key) ==
    [document EXCEPT !.next = @ + 1,
                     !.content = Append(@, {CipherNow(OnObjectStart(helper, document.next))}),
                     !.dictionaryID = document.next, !.encryptKey = key]

(* The encryption dictionary of a new document is an object of its own,    *)
(* written while encryption is paused; that of a modified document is the  *)
(* original's, which CopyEncryptionDictionary refers to, or makes an       *)
(* object of when it was written in the trailer.                           *)
AddDictionary(key) ==
    [document EXCEPT !.next = @ + 1, !.content = Append(@, {Plain}),
                     !.dictionaryID = document.next, !.encryptKey = key]

(* Mutant: a new document gets no encryption dictionary.                   *)
DictionaryOfModifiedOnly ==
    IF document.isModified
    THEN {[document EXCEPT !.encryptKey = document.sourceKey]}
    ELSE {document}

WithEncryptionDictionary ==
    IF document.isModified
    THEN {[document EXCEPT !.encryptKey = document.sourceKey]} \cup
         (IF document.sourceKey = NoKey THEN {} ELSE {AddDictionary(document.sourceKey)})
    ELSE IF helper.encrypted THEN {AddDictionary(helper.values)}
    ELSE {document}

(* Everything is written, and no string was broken.                        *)
EndPDF ==
    /\ phase = "writing" /\ openObject = 0
    /\ \E doc \in WithEncryptionDictionary :
        Ended(helper, doc, IF helper.hadFailure THEN "failed" ELSE "finished")

(* A start of an object fails, or an object was never written: in the      *)
(* dictionary of a new document; in that of a modified document, or in the *)
(* cross-reference stream, where encryption stays paused; in the entries   *)
(* of that stream, whose own pause stays; or in the cross-reference table. *)
EndPDFFails ==
    /\ phase = "writing" /\ openObject = 0
    /\ \E h \in {helper, Pause(helper), StreamPause(helper)} : Ended(h, document, "failed")

(* After an error, at any point of the writing.                            *)
Reset ==
    /\ phase = "writing"
    /\ Ended(helper, document, "failed")
-----------------------------------------------------------------------------
(***************************************************************************)
(* Shutdown writes the state and leaves the writer as it is.               *)
(***************************************************************************)
Shutdown ==
    /\ phase = "writing" /\ openObject = 0
    /\ ContinueEncryption \/ ~helper.encrypted
    /\ state' = [encrypted |-> helper.encrypted, supports |-> helper.supports,
                 key |-> helper.xcrypt.key, values |-> helper.values,
                 isModified |-> document.isModified, exists |-> TRUE]
    /\ phase' = "shutdown"
    /\ UNCHANGED <<helper, hasHelper, document, openObject, inStream, documents>>

ContinuePDF ==
    /\ phase = "shutdown"
    /\ helper' = LET h == IF state.key = NoKey THEN helper ELSE WithCryptor(helper, state.key)
                 IN [h EXCEPT !.encrypted = state.encrypted, !.supports = state.supports,
                              !.values = state.values]
    /\ document' = [document EXCEPT !.isModified = state.isModified]
    /\ phase' = "writing"
    /\ UNCHANGED <<hasHelper, openObject, inStream, state, documents>>

Next ==
    \/ NewWriter
    \/ StartPlain \/ StartEncrypted \/ StartUnsupported \/ ModifyPlain \/ ModifyEncrypted
    \/ StartNewIndirectObject \/ WriteString \/ WriteBrokenString \/ EndIndirectObject
    \/ StartPDFStream \/ EndPDFStream
    \/ EndPDF \/ EndPDFFails \/ Reset \/ Shutdown \/ ContinuePDF

Spec == Init /\ [][Next]_vars
-----------------------------------------------------------------------------
Ciphers == {Plain, EmptyKey, Broken} \cup (Keys \X (0 .. MaxObjects + 1))

TypeOK ==
    /\ helper.encrypted \in BOOLEAN /\ helper.supports \in BOOLEAN
    /\ helper.shared \in BOOLEAN /\ helper.hadFailure \in BOOLEAN
    /\ helper.pauseLevel \in Nat
    /\ {helper.xcrypt.key, helper.current.key, helper.values} \subseteq Keys \cup {NoKey}
    /\ helper.xcrypt.stack \in Seq(Keys \X (1 .. MaxObjects))
    /\ hasHelper \in BOOLEAN /\ inStream \in BOOLEAN
    /\ phase \in {"idle", "writing", "shutdown", "finished", "failed"}
    /\ document.next = Len(document.content) + 1
    /\ document.content \in Seq(SUBSET Ciphers)
    /\ openObject \in 0 .. document.next - 1
    /\ documents \in 0 .. MaxDocuments

(* A finished document is encrypted with what was asked for it, and with   *)
(* nothing when nothing was asked: "will default to no encryption of not   *)
(* called" (DocumentContext.h).                                            *)
EncryptionAsRequested ==
    phase = "finished" => document.encryptKey = document.requested

(* A reader with the right password reads every string and stream of a     *)
(* finished document: each is under the key of its own object, derived     *)
(* from the file key that the encryption dictionary stands for, and the    *)
(* dictionary itself is not encrypted.                                     *)
ObjectsReadable ==
    phase = "finished" =>
        \A id \in DOMAIN document.content :
            document.content[id] \subseteq
                {IF document.encryptKey = NoKey \/ id = document.dictionaryID
                 THEN Plain ELSE ObjectKey(document.encryptKey, id)}

(* While a document is written, the stack of object keys holds the key of  *)
(* the open object and of no other: no start or end of an object falls     *)
(* into a pause without its counterpart.                                   *)
KeyStackFollowsObjects ==
    (phase = "writing" /\ hasHelper /\ helper.encrypted
        /\ helper.shared /\ helper.xcrypt.key \notin IsPDF20) =>
        helper.xcrypt.stack =
            IF openObject = 0 THEN <<>> ELSE <<ObjectKey(helper.xcrypt.key, openObject)>>

(* While an encrypted document is written, encryption is paused within     *)
(* streams and nowhere else, whatever the writer went through before.      *)
PausedOnlyInStreams ==
    (phase = "writing" /\ hasHelper /\ helper.encrypted) =>
        helper.pauseLevel = IF inStream THEN 1 ELSE 0

(* A document with a string whose encryption failed is not reported as     *)
(* finished: "failure in this should result in document failure"           *)
(* (EncryptionHelper.h).                                                   *)
BrokenStringsAreReported ==
    phase = "finished" =>
        \A id \in DOMAIN document.content : Broken \notin document.content[id]

(* When the helper says that it encrypts, strings are encrypted:           *)
(* "IsEncrypting will return true if actually encrypting now"              *)
(* (EncryptionHelper.h).                                                   *)
EncryptsWhenItSaysSo ==
    (phase = "writing" /\ IsEncrypting(helper)) => CipherNow(helper) # Plain

(* Nothing is encrypted with an empty key, which is what an XCryptor       *)
(* answers for when it was told of no object; Reset is there "to allow     *)
(* reuse of the PDFWriter class" (PDFWriter.h).                            *)
NothingUnderEmptyKey ==
    \A id \in DOMAIN document.content : EmptyKey \notin document.content[id]

(* A document is encrypted exactly as it was asked for, and whoever goes   *)
(* by its Encrypt entry can read every object.                             *)
DocumentIsReadable ==
    /\ EncryptionAsRequested
    /\ ObjectsReadable

(* The state of the encryption follows the nesting of objects and streams. *)
KeysFollowObjects ==
    /\ TypeOK
    /\ KeyStackFollowsObjects
    /\ PausedOnlyInStreams
=============================================================================

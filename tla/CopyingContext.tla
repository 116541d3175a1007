--------------------------- MODULE CopyingContext ---------------------------
(***************************************************************************)
(* PDFDocumentHandler's copying of objects from a source document into the *)
(* document being written: the map from source to target IDs, the lists of *)
(* objects still to copy that WriteNewObjects works through, one inside    *)
(* the other, direct copies whose references are copied later, pages, and  *)
(* replacements.  A source object is its references, in order and each of  *)
(* them once: a second one finds its object mapped.                        *)
(***************************************************************************)
EXTENDS Integers, Sequences

CONSTANTS
    Objects,      \* IDs of the source documents' objects
    Sources,      \* source documents: the status and the refs of each object
    RefLists,     \* references of the objects and pages that users copy
    MaxCalls      \* bound: calls of the user

References == {s \in Seq(Objects) : \A i, j \in DOMAIN s : s[i] = s[j] => i = j}

ASSUME CopyingAssumption ==
    /\ 0 \notin Objects
    /\ \A s \in Sources :
        /\ s.status \in [Objects -> {"parsed", "missing", "broken"}]
        /\ \A o \in Objects : s.refs[o] \in References
    /\ RefLists \subseteq References /\ MaxCalls \in Nat

VARIABLES
    source,     \* the source document of the copying context
    context,    \* number of the copying context
    map,        \* mSourceToTarget
    targets,    \* the objects of the target document, by ID
    stack,      \* lists of the running WriteNewObjects calls, innermost first
    copied,     \* ioCopiedObjects
    owed,       \* lists that users got for later copying
    page,       \* references of the page being copied
    ok,         \* did the last call succeed?
    hadFailure, \* did a call fail?
    ended,      \* "open", "finished" or "failed"
    calls,
    before      \* history: what was placed and delivered when the running call
                \* began, and the objects it was asked for

vars == <<source, context, map, targets, stack, copied, owed, page, ok, hadFailure, ended,
          calls, before>>

Elements(s) == {s[i] : i \in DOMAIN s}
Position(s, x) == CHOOSE i \in DOMAIN s : s[i] = x

Running == stack # <<>>

(* of is the source object that an ID was allocated for, 0 for an object   *)
(* of the user's.                                                          *)
Target(o, state, refs) == [context |-> context, of |-> o, state |-> state, refs |-> refs]

Delivered == {o \in DOMAIN map : targets[map[o]].state # "allocated"}
-----------------------------------------------------------------------------
(***************************************************************************)
(* OutWritingPolicy::WriteReference on each of a list of references: those *)
(* without a target get one, and are listed for copying.                   *)
(***************************************************************************)
Unmapped(m, refs) ==
    LET ofFirst[n \in 0 .. Len(refs)] ==
            IF n = 0 THEN <<>>
            ELSE IF refs[n] \in DOMAIN m THEN ofFirst[n - 1]
            ELSE Append(ofFirst[n - 1], refs[n])
    IN ofFirst[Len(refs)]

Mapped(m, ts, refs) ==
    LET new == Unmapped(m, refs)
    IN [r \in DOMAIN m \cup Elements(new) |->
            IF r \in DOMAIN m THEN m[r] ELSE Len(ts) + Position(new, r)]

Allocated(m, ts, refs) ==
    LET new == Unmapped(m, refs)
    IN ts \o [i \in DOMAIN new |-> Target(new[i], "allocated", <<>>)]

(* Mutant: mapped objects are listed too.                                  *)
ListedAll(m, refs) == refs

Listed(m, refs) == Unmapped(m, refs)
-----------------------------------------------------------------------------
Init ==
    /\ source \in Sources /\ context = 1
    /\ map = <<>> /\ targets = <<>>
    /\ stack = <<>> /\ copied = {} /\ owed = <<>> /\ page = <<>>
    /\ ok = TRUE /\ hadFailure = FALSE /\ ended = "open"
    /\ calls = 0 /\ before = [placed |-> {}, delivered |-> {}, asked |-> {}]

(***************************************************************************)
(* Calls.                                                                  *)
(***************************************************************************)
MayCall ==
    /\ ended = "open" /\ ~Running /\ page = <<>>
    /\ calls < MaxCalls
    /\ calls' = calls + 1

(* WriteNewObjects is called with a list.                                  *)
WriteNewObjects(list) ==
    /\ stack' = <<list>> /\ copied' = {}
    /\ before' = [placed |-> DOMAIN map, delivered |-> Delivered, asked |-> Elements(list)]

Succeed == ok' = TRUE /\ UNCHANGED hadFailure
Fail == ok' = FALSE /\ hadFailure' = TRUE

(* Also CopyObjectToIndirectObject of a reference.  The object is copied   *)
(* when it has no target yet.                                              *)
CopyObject ==
    /\ MayCall
    /\ \E o \in Objects \ DOMAIN map : WriteNewObjects(<<o>>)
    /\ UNCHANGED <<source, context, map, targets, owed, page, ok, hadFailure, ended>>

(* Mutant: references are written with the IDs of the source document.     *)
WriteUserObjectAsIs(refs, state) ==
    /\ map' = map
    /\ targets' = Append(targets, Target(0, state, refs))

(* An object of the user's is written, with references.                    *)
WriteUserObject(refs, state) ==
    LET ids == Mapped(map, Append(targets, 0), refs)
        own == Target(0, state, [i \in DOMAIN refs |-> ids[refs[i]]])
    IN /\ map' = ids
       /\ targets' = Allocated(map, Append(targets, own), refs)

CopyDirectObjectToIndirectObject ==
    /\ MayCall
    /\ \E refs \in RefLists :
        /\ WriteUserObject(refs, "written")
        /\ WriteNewObjects(Listed(map, refs))
    /\ UNCHANGED <<source, context, owed, page, ok, hadFailure, ended>>

(* The user gets the list; RegisterFormRelatedObjects keeps it for the end *)
(* of the form.                                                            *)
CopyDirectObjectWithDeepCopy ==
    /\ MayCall
    /\ \E refs \in RefLists :
        /\ WriteUserObject(refs, "written")
        /\ owed' = Append(owed, Listed(map, refs))
    /\ Succeed
    /\ UNCHANGED <<source, context, stack, copied, page, ended, before>>

(* The nesting of an object is too deep, after some of its references.     *)
CopyDirectObjectFails ==
    /\ MayCall
    /\ \E refs \in RefLists : \E k \in 0 .. Len(refs) :
        WriteUserObject(SubSeq(refs, 1, k), "truncated")
    /\ Fail
    /\ UNCHANGED <<source, context, stack, copied, owed, page, ended, before>>

(* With one of the lists, or with all of them in one.                      *)
CopyNewObjectsForDirectObject ==
    /\ MayCall
    /\ \/ \E i \in DOMAIN owed :
            /\ WriteNewObjects(owed[i])
            /\ owed' = SubSeq(owed, 1, i - 1) \o SubSeq(owed, i + 1, Len(owed))
       \/ /\ Len(owed) = 2
          /\ WriteNewObjects(owed[1] \o owed[2])
          /\ owed' = <<>>
    /\ UNCHANGED <<source, context, map, targets, page, ok, hadFailure, ended>>

(* CreatePDFPageForPage copies what the page's resources refer to first:   *)
(* RegisterInDirectObjects lists it as often as it occurs.                 *)
CopyResourcesIndirectObjects ==
    /\ MayCall
    /\ \E refs \in RefLists \ {<<>>} :
        /\ page' = refs
        /\ WriteNewObjects(Unmapped(map, refs \o <<refs[1]>>))
    /\ UNCHANGED <<source, context, map, targets, owed, ok, hadFailure, ended>>

(* Then the page is written, with the resources as they are; references    *)
(* listed here are copied by nobody.                                       *)
OnResourcesWrite ==
    /\ ended = "open" /\ ~Running /\ page # <<>>
    /\ WriteUserObject(page, "written")
    /\ page' = <<>>
    /\ UNCHANGED <<source, context, stack, copied, owed, ok, hadFailure, ended, calls, before>>

ReplaceSourceObjects ==
    /\ MayCall
    /\ \E o \in Objects \ DOMAIN map :
        /\ map' = [r \in DOMAIN map \cup {o} |-> IF r = o THEN Len(targets) + 1 ELSE map[r]]
        /\ targets' = Append(targets, Target(o, "replacement", <<>>))
    /\ UNCHANGED <<source, context, stack, copied, owed, page, ok, hadFailure, ended, before>>

(* Mutant: the map is not cleared.                                         *)
StopAndKeepMap ==
    /\ MayCall
    /\ owed = <<>> \/ hadFailure
    /\ source' \in Sources /\ context' = context + 1
    /\ owed' = <<>>
    /\ UNCHANGED <<map, targets, stack, copied, page, ok, hadFailure, ended, before>>

(* StopCopyingContext, then the start of a context for another document.   *)
(* Users copy what they owe before they end a context.                     *)
StopCopyingContext ==
    /\ MayCall
    /\ owed = <<>> \/ hadFailure
    /\ source' \in Sources /\ context' = context + 1
    /\ map' = <<>> /\ owed' = <<>>
    /\ UNCHANGED <<targets, stack, copied, page, ok, hadFailure, ended, before>>

(* The cross-reference table is not written while an ID is unwritten.      *)
EndPDF ==
    /\ ended = "open" /\ ~Running /\ page = <<>>
    /\ ended' = IF \A i \in DOMAIN targets : targets[i].state # "allocated"
                THEN "finished" ELSE "failed"
    /\ UNCHANGED <<source, context, map, targets, stack, copied, owed, page, ok, hadFailure,
                   calls, before>>
-----------------------------------------------------------------------------
(***************************************************************************)
(* Steps of WriteNewObjects: at the object that is next on the innermost   *)
(* list, with the map and the targets that have an ID for it.              *)
(***************************************************************************)
todo == Head(stack)
next == Head(todo)
nextMap == Mapped(map, targets, <<next>>)
nextTargets == Allocated(map, targets, <<next>>)

IsNext == Running /\ todo # <<>>

(* Mutant: the iterator is not advanced.                                   *)
SkipNothing == IsNext /\ next \in copied /\ UNCHANGED vars

(* Mutant: the rest of the list is skipped too.                            *)
SkipRest ==
    /\ IsNext /\ next \in copied
    /\ stack' = <<<<>>>> \o Tail(stack)
    /\ UNCHANGED <<source, context, map, targets, copied, owed, page, ok, hadFailure, ended,
                   calls, before>>

(* It was copied since it was listed.                                      *)
SkipCopied ==
    /\ IsNext /\ next \in copied
    /\ stack' = <<Tail(todo)>> \o Tail(stack)
    /\ UNCHANGED <<source, context, map, targets, copied, owed, page, ok, hadFailure, ended,
                   calls, before>>

(* Mutant: whatever does not parse is a null.                              *)
CopyUnparsed ==
    /\ IsNext /\ next \notin copied /\ source.status[next] # "parsed"
    /\ map' = nextMap /\ targets' = [nextTargets EXCEPT ![nextMap[next]].state = "free"]
    /\ copied' = copied \cup {next}
    /\ stack' = <<Tail(todo)>> \o Tail(stack)
    /\ UNCHANGED <<source, context, owed, page, ok, hadFailure, ended, calls, before>>

(* A reference to an object that the source document does not have is a    *)
(* null: the target ID is deleted.                                         *)
CopyMissing ==
    /\ IsNext /\ next \notin copied /\ source.status[next] = "missing"
    /\ map' = nextMap /\ targets' = [nextTargets EXCEPT ![nextMap[next]].state = "free"]
    /\ copied' = copied \cup {next}
    /\ stack' = <<Tail(todo)>> \o Tail(stack)
    /\ UNCHANGED <<source, context, owed, page, ok, hadFailure, ended, calls, before>>

(* Mutant: the new IDs do not get into the map.                            *)
WriteObjectUnmapped(k, state) ==
    LET refs == SubSeq(source.refs[next], 1, k)
        ids == Mapped(nextMap, nextTargets, refs)
    IN /\ map' = nextMap
       /\ targets' = [Allocated(nextMap, nextTargets, refs) EXCEPT
                        ![nextMap[next]].state = state,
                        ![nextMap[next]].refs = [i \in DOMAIN refs |-> ids[refs[i]]]]

(* The object is written with its first k references.                      *)
WriteObject(k, state) ==
    LET refs == SubSeq(source.refs[next], 1, k)
        ids == Mapped(nextMap, nextTargets, refs)
    IN /\ map' = ids
       /\ targets' = [Allocated(nextMap, nextTargets, refs) EXCEPT
                        ![nextMap[next]].state = state,
                        ![nextMap[next]].refs = [i \in DOMAIN refs |-> ids[refs[i]]]]

CanStart == source.status[next] = "parsed" /\ nextTargets[nextMap[next]].state = "allocated"

(* Mutant: the objects it refers to are not copied after it.               *)
CopyObjectAlone ==
    /\ IsNext /\ next \notin copied /\ CanStart
    /\ WriteObject(Len(source.refs[next]), "written")
    /\ copied' = copied \cup {next}
    /\ stack' = <<Tail(todo)>> \o Tail(stack)
    /\ UNCHANGED <<source, context, owed, page, ok, hadFailure, ended, calls, before>>

(* Once the object is written, the objects newly referred to are copied.   *)
CopyInDirectObject ==
    /\ IsNext /\ next \notin copied /\ CanStart
    /\ WriteObject(Len(source.refs[next]), "written")
    /\ copied' = copied \cup {next}
    /\ stack' = <<Listed(nextMap, source.refs[next]), Tail(todo)>> \o Tail(stack)
    /\ UNCHANGED <<source, context, owed, page, ok, hadFailure, ended, calls, before>>

GiveUp == stack' = <<>> /\ copied' = {} /\ page' = <<>> /\ Fail

(* The object does not parse, its target is written already, or the        *)
(* position in the file is too large.                                      *)
CopyStartFails ==
    /\ IsNext /\ next \notin copied /\ source.status[next] # "missing"
    /\ map' = nextMap /\ targets' = nextTargets
    /\ GiveUp
    /\ UNCHANGED <<source, context, owed, ended, calls, before>>

(* Its nesting is too deep, or its stream cannot be read.                  *)
CopyContentFails ==
    /\ IsNext /\ next \notin copied /\ CanStart
    /\ \E k \in 0 .. Len(source.refs[next]) : WriteObject(k, "truncated")
    /\ GiveUp
    /\ UNCHANGED <<source, context, owed, ended, calls, before>>

(* Mutant: the end of any list ends the call.                              *)
ReturnToUser ==
    /\ Running /\ todo = <<>>
    /\ stack' = <<>> /\ copied' = {} /\ Succeed
    /\ UNCHANGED <<source, context, map, targets, owed, page, ended, calls, before>>

(* The end of a list returns to the one around it, at last to the user.    *)
ReturnToCaller ==
    /\ Running /\ todo = <<>>
    /\ stack' = Tail(stack)
    /\ IF Tail(stack) = <<>> THEN Succeed /\ copied' = {}
       ELSE UNCHANGED <<ok, hadFailure, copied>>
    /\ UNCHANGED <<source, context, map, targets, owed, page, ended, calls, before>>

Step == \/ SkipCopied \/ CopyMissing \/ CopyInDirectObject
        \/ CopyStartFails \/ CopyContentFails \/ ReturnToCaller

Next ==
    \/ CopyObject \/ CopyDirectObjectToIndirectObject \/ CopyDirectObjectWithDeepCopy
    \/ CopyDirectObjectFails \/ CopyNewObjectsForDirectObject
    \/ CopyResourcesIndirectObjects \/ OnResourcesWrite
    \/ ReplaceSourceObjects \/ StopCopyingContext \/ EndPDF
    \/ Step

(* A call runs on one thread to its end; users call when they like.        *)
Spec == Init /\ [][Next]_vars /\ WF_vars(Step)
-----------------------------------------------------------------------------
Copies == {t \in Elements(targets) : t.of # 0 /\ t.context = context}

TypeOK ==
    /\ DOMAIN map \subseteq Objects
    /\ Elements(map) \subseteq DOMAIN targets
    /\ \A t \in Elements(targets) :
        /\ t.context \in 1 .. context /\ t.of \in Objects \cup {0}
        /\ t.state \in {"allocated", "written", "truncated", "free", "replacement"}
        /\ t.refs \in Seq(DOMAIN targets)
    /\ stack \in Seq(Seq(Objects)) /\ owed \in Seq(Seq(Objects))
    /\ copied \subseteq Objects /\ page \in Seq(Objects)
    /\ ok \in BOOLEAN /\ hadFailure \in BOOLEAN
    /\ ended \in {"open", "finished", "failed"} /\ calls \in 0 .. MaxCalls

(* An object of the source document has at most one target in a context,   *)
(* however often and on whatever paths it is referred to: copies share     *)
(* what their originals share.                                             *)
CopiedOnce ==
    \A i, j \in DOMAIN targets :
        (i # j /\ targets[i].of # 0) =>
            <<targets[i].context, targets[i].of>> # <<targets[j].context, targets[j].of>>

(* Whatever stands on a list, of a running call or in the hands of a user, *)
(* is still to be written unless this very call wrote it: "objects in      *)
(* inSourceObjectIDs are trusted for not having been copied yet"           *)
(* (PDFDocumentHandler.cpp), and a second start of a target would fail.    *)
ListsAreOwed ==
    /\ \A i \in DOMAIN stack : \A x \in Elements(stack[i]) :
        x \in copied \/ x \notin DOMAIN map \/ targets[map[x]].state = "allocated"
    /\ \A i \in DOMAIN owed : \A x \in Elements(owed[i]) :
        x \in DOMAIN map /\ targets[map[x]].state = "allocated"

(* The references of a copy lead, one by one, to the copies of what its    *)
(* original refers to, or to their replacements: never to what an object   *)
(* of an earlier source document with the same ID was copied to.           *)
ReferencesReachCopies ==
    \A t \in Copies :
        t.state = "written" =>
            /\ Len(t.refs) = Len(source.refs[t.of])
            /\ \A i \in DOMAIN t.refs :
                LET to == targets[t.refs[i]]
                IN to.context = context /\ to.of = source.refs[t.of][i]

(* While no call has failed, an ID without an object is one that the       *)
(* running call or a user still has on a list: nothing is forgotten.       *)
NothingForgotten ==
    ~hadFailure =>
        \A t \in Elements(targets) :
            t.state = "allocated" =>
                \/ \E i \in DOMAIN stack : t.of \in Elements(stack[i])
                \/ \E i \in DOMAIN owed : t.of \in Elements(owed[i])

(* When a page is written, everything its resources refer to has a target: *)
(* the list of new objects that OnResourcesWrite throws away is empty      *)
(* ("this one should remain empty", PDFDocumentHandler.cpp).               *)
PageFindsItsResources ==
    (page # <<>> /\ ~Running) => Unmapped(map, page) = <<>>

(* In a finished document whose copying calls all succeeded, every copy is *)
(* complete, and only an object that its source document does not have is  *)
(* null.                                                                   *)
FinishedDocumentIsComplete ==
    (ended = "finished" /\ ~hadFailure) =>
        \A t \in Copies :
            \/ t.state \in {"written", "replacement"}
            \/ t.state = "free" /\ source.status[t.of] = "missing"

(* Every call returns, cycles of references or not.                        *)
CallsReturn == Running ~> ~Running

(* The objects of a call appear at its end, in the abstract specification. *)
Abstract ==
    INSTANCE DeepCopy WITH
        placed <- IF Running THEN before.placed ELSE DOMAIN map,
        delivered <- IF Running THEN before.delivered ELSE Delivered,
        asked <- IF Running THEN before.asked ELSE {}

(* A call that succeeds has delivered the objects it was asked for, all    *)
(* they lead to, and no others; the states of a running call, and the      *)
(* order of its steps, do not matter.                                      *)
ImplementsDeepCopy == Abstract!Spec

(* Copies are complete or owed, there is one of each object, and their     *)
(* references lead to the copies of what the source refers to.             *)
CopiesAreRight ==
    /\ TypeOK
    /\ CopiedOnce
    /\ ListsAreOwed
    /\ ReferencesReachCopies

(* Calls that succeeded leave nothing for later that nobody knows of:      *)
(* neither now, nor when a page is written with its resources, nor in the  *)
(* finished document.                                                      *)
NothingIsMissing ==
    /\ NothingForgotten
    /\ PageFindsItsResources
    /\ FinishedDocumentIsComplete
=============================================================================

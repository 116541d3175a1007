----------------------------- MODULE PageWriting -----------------------------
(***************************************************************************)
(* Pages and form XObjects of DocumentContext: containers of drawing whose *)
(* images and opacity states get their object IDs when they are first used *)
(* and are written later, by tasks that wait, under the address of the     *)
(* container, for the end of it; and annotations, which wait for the next  *)
(* page whoever writes it.  Tiled patterns end as forms do.                *)
(***************************************************************************)
EXTENDS Integers, Sequences, FiniteSets

CONSTANTS
    Images,          \* image files that users draw
    Opacities,       \* opacity values that users set
    Addresses,       \* where a page or a form may be allocated
    MaxObjects,      \* bound: IDs of a document
    MaxContainers,   \* bound: pages and forms of a document
    MaxDocuments,    \* bound: documents of one PDFWriter
    ImagesRedrawn,   \* may a document draw an image of an earlier one?
    ExtendersFail    \* may an extender declare failure?

ASSUME PageWritingAssumption ==
    /\ Images \cap Opacities = {}
    /\ (Images \cup Opacities) \cap
          {"page", "form", "content", "resources", "length", "annotation"} = {}
    /\ MaxObjects \in Nat /\ MaxContainers \in Nat /\ MaxDocuments \in Nat \ {0}
    /\ {ImagesRedrawn, ExtendersFail} \subseteq BOOLEAN

Resources == Images \cup Opacities
Kinds == {"page", "form"}

VARIABLES
    objects,     \* the document's objects, by ID
    unfinished,  \* objects begun and not ended, innermost first
    containers,  \* pages and forms that are not released, by address
    tasks,       \* end-writing tasks by container: the first list, the second
    shared,      \* IDs of images and opacity states: mImagesInformation, mAlphaExtGstates
    annotations, \* mAnnotations
    registered,  \* history: resources first used in this document
    serial,      \* history: containers so far
    errands,     \* history: whose tasks ran when which container ended
    forsaken,    \* history: whose tasks still waited when a container was released
    result,      \* what the last call returned
    failed,      \* history: has a call of this document failed?
    phase,       \* "writing", or how EndPDF ended: "finished" or "broken"
    documents    \* documents so far

vars == <<objects, unfinished, containers, tasks, shared, annotations, registered, serial,
          errands, forsaken, result, failed, phase, documents>>

(* An object that is "owed" has an ID and nothing else.                    *)
Owed(what) == [holds |-> what, state |-> "owed", refs |-> {}]
Object(what, refs) == [holds |-> what, state |-> "written", refs |-> refs]
Ref(id, what) == [id |-> id, holds |-> what]

Free == [kind |-> "none"]
Container(kind, own, resourcesID) ==
    [kind |-> kind, serial |-> serial + 1, own |-> own, resourcesID |-> resourcesID,
     uses |-> {}, contents |-> <<>>, streaming |-> kind = "form", due |-> TRUE]

Live == {a \in Addresses : containers[a].kind \in Kinds}
Streaming == \E a \in Live : containers[a].streaming
Room(n) == Len(objects) + n <= MaxObjects

NoTasks == [first |-> <<>>, more |-> <<>>]
Task(what, id, a) == [what |-> what, id |-> id, owner |-> containers[a].serial]
Key(a) == <<containers[a].kind, a>>
-----------------------------------------------------------------------------
Init ==
    /\ objects = <<>> /\ unfinished = <<>>
    /\ containers = [a \in Addresses |-> Free]
    /\ tasks = [k \in Kinds \X Addresses |-> NoTasks]
    /\ shared = [r \in Resources |-> 0]
    /\ annotations = {} /\ registered = {} /\ serial = 0
    /\ errands = {} /\ forsaken = {}
    /\ result = [ok |-> TRUE, extended |-> TRUE] /\ failed = FALSE
    /\ phase = "writing" /\ documents = 1

Return(ok) ==
    /\ result' = [ok |-> ok, extended |-> TRUE]
    /\ failed' = (failed \/ ~ok)

(* Users have one stream open at a time: they pause a page before they     *)
(* start a form, end a form before they go on with a page.                 *)
MayAllocate(a) ==
    /\ phase = "writing" /\ ~Streaming
    /\ containers[a] = Free /\ serial < MaxContainers

NewPage(a) ==
    /\ MayAllocate(a)
    /\ serial' = serial + 1
    /\ containers' = [containers EXCEPT ![a] = Container("page", 0, 0)]
    /\ Return(TRUE)
    /\ UNCHANGED <<objects, unfinished, tasks, shared, annotations, registered, errands,
                   forsaken, phase, documents>>

(* The form's ID, that of its resources and that of its length are         *)
(* allocated; its object stays open until the stream ends.                 *)
StartFormXObject(a) ==
    /\ MayAllocate(a) /\ Room(3)
    /\ LET form == Len(objects) + 1 IN
        /\ objects' = objects \o <<Object("form", {Ref(form + 1, "resources"), Ref(form + 2, "length")}),
                                   Owed("resources"), Owed("length")>>
        /\ unfinished' = <<form>> \o unfinished
        /\ containers' = [containers EXCEPT ![a] = Container("form", form, form + 1)]
    /\ serial' = serial + 1
    /\ Return(TRUE)
    /\ UNCHANGED <<tasks, shared, annotations, registered, errands, forsaken, phase,
                   documents>>

(* An extender declares failure: NULL is returned and the object is never  *)
(* ended.                                                                  *)
StartFormXObjectFails(a) ==
    /\ ExtendersFail /\ MayAllocate(a) /\ Room(2)
    /\ objects' = objects \o <<Object("form", {Ref(Len(objects) + 2, "resources")}), Owed("resources")>>
    /\ unfinished' = <<Len(objects) + 1>> \o unfinished
    /\ Return(FALSE)
    /\ UNCHANGED <<containers, tasks, shared, annotations, registered, serial, errands, forsaken,
                   phase, documents>>
-----------------------------------------------------------------------------
(***************************************************************************)
(* Drawing.                                                                *)
(***************************************************************************)
(* PageContentContext starts a content stream when there is none.          *)
StreamStarted(os, a) ==
    IF containers[a].streaming THEN os
    ELSE os \o <<Object("content", {Ref(Len(os) + 2, "length")}), Owed("length")>>

Drawn(a, use, stream) ==
    [containers EXCEPT ![a].uses = @ \cup {use},
                       ![a].contents = IF containers[a].streaming THEN @ ELSE Append(@, stream),
                       ![a].streaming = TRUE, ![a].due = TRUE]

(* Mutant: a form's tasks are registered as a page's.                      *)
ScheduledForPages(a, r, id) ==
    IF r \in Images THEN [tasks EXCEPT ![<<"page", a>>].first = Append(@, Task(r, id, a))]
    ELSE [tasks EXCEPT ![<<"page", a>>].more = Append(@, Task(r, id, a))]

(* Mutant: tasks are registered for any page or form.                      *)
ScheduledForAny(a, r, id) ==
    LET b == CHOOSE b \in Live : TRUE
    IN IF r \in Images THEN [tasks EXCEPT ![Key(b)].first = Append(@, Task(r, id, a))]
       ELSE [tasks EXCEPT ![Key(b)].more = Append(@, Task(r, id, a))]

(* ScheduleImageWrite and ScheduleObjectEndWriteTask of the two contexts:  *)
(* images are for the first list, graphic states for the second.           *)
Scheduled(a, r, id) ==
    IF r \in Images THEN [tasks EXCEPT ![Key(a)].first = Append(@, Task(r, id, a))]
    ELSE [tasks EXCEPT ![Key(a)].more = Append(@, Task(r, id, a))]

(* RegisterImageForDrawing, RegisterExtGStateForOpacity.                   *)
FirstUse(r) == shared[r] = 0

MayDraw(a, r) ==
    /\ phase = "writing" /\ a \in Live
    /\ containers[a].streaming \/ ~Streaming
    /\ Room(3)
    /\ ImagesRedrawn \/ r \notin Images \/ FirstUse(r) \/ r \in registered

(* DrawImage and SetOpacity: the ID is allocated before the stream starts. *)
Draw(a, r) ==
    /\ MayDraw(a, r)
    /\ LET first == FirstUse(r)
           id == IF first THEN Len(objects) + 1 ELSE shared[r]
           before == IF first THEN Append(objects, Owed(r)) ELSE objects
       IN /\ shared' = [shared EXCEPT ![r] = id]
          /\ registered' = IF first THEN registered \cup {r} ELSE registered
          /\ tasks' = IF first THEN Scheduled(a, r, id) ELSE tasks
          /\ objects' = StreamStarted(before, a)
          /\ unfinished' = (IF containers[a].streaming THEN <<>> ELSE <<Len(before) + 1>>) \o unfinished
          /\ containers' = Drawn(a, Ref(id, r), Len(before) + 1)
    /\ Return(TRUE)
    /\ UNCHANGED <<annotations, serial, errands, forsaken, phase, documents>>

(* Mutant: EndIndirectObject is left out.                                  *)
NoneEnded == unfinished

(* EndIndirectObject, of the object begun last.                            *)
InnermostEnded == Tail(unfinished)

(* EndPDFStream: the stream's object ends, then its length is written.     *)
StreamEnded(os, id) == [os EXCEPT ![id + (IF os[id].holds = "form" THEN 2 ELSE 1)].state = "written"]

(* PausePageContentContext, or EndPageContentContext: the next drawing     *)
(* starts another stream.                                                  *)
PausePageContentContext(a) ==
    /\ phase = "writing" /\ a \in Live
    /\ containers[a].kind = "page" /\ containers[a].streaming
    /\ objects' = StreamEnded(objects, Head(unfinished)) /\ unfinished' = InnermostEnded
    /\ containers' = [containers EXCEPT ![a].streaming = FALSE]
    /\ Return(TRUE)
    /\ UNCHANGED <<tasks, shared, annotations, registered, serial, errands, forsaken, phase,
                   documents>>

(* AttachURLLinktoCurrentPage: the annotation is written at once, and kept *)
(* for the page written next.                                              *)
AttachURLLinktoCurrentPage ==
    /\ phase = "writing" /\ ~Streaming /\ Room(1)
    /\ \A id \in DOMAIN objects : objects[id].holds # "annotation"
    /\ objects' = Append(objects, Object("annotation", {}))
    /\ annotations' = annotations \cup {Len(objects) + 1}
    /\ Return(TRUE)
    /\ UNCHANGED <<unfinished, containers, tasks, shared, registered, serial, errands, forsaken,
                   phase, documents>>
-----------------------------------------------------------------------------
(***************************************************************************)
(* Ends of containers.  Up to n of the waiting tasks are run with success, *)
(* the next fails: in the first list, then the second is not looked at.    *)
(***************************************************************************)
(* Mutant: the second list is not run.                                     *)
FirstOnly(k) == tasks[k].first

Waiting(k) == tasks[k].first \o tasks[k].more

(* How the task after the n-th leaves its object: nothing of it, or a part *)
(* that is never ended.                                                    *)
Outcomes(k) == {[n |-> n, how |-> how] : n \in 0 .. Len(Waiting(k)) - 1, how \in {"owed", "part"}}
               \cup {[n |-> Len(Waiting(k)), how |-> "done"]}

Ran(k, o) == SubSeq(Waiting(k), 1, o.n)
Begun(k, o) == SubSeq(Waiting(k), 1, IF o.how = "part" THEN o.n + 1 ELSE o.n)
IDs(ts) == {ts[i].id : i \in DOMAIN ts}
Owners(ts) == {ts[i].owner : i \in DOMAIN ts}

(* A task starts its object with the ID it was given.                      *)
AfterTasks(os, k, o) ==
    [id \in DOMAIN os |->
        IF id \in IDs(Begun(k, o)) THEN [os[id] EXCEPT !.state = "written"] ELSE os[id]]

PartOf(k, o) == IF o.how = "part" THEN <<Waiting(k)[o.n + 1].id>> ELSE <<>>

(* The list that a task fails in is deleted; the second one then stays.    *)
TasksLeft(k, o) ==
    IF o.n < Len(tasks[k].first) THEN [tasks EXCEPT ![k].first = <<>>]
    ELSE [tasks EXCEPT ![k] = NoTasks]

(* WritePage, or WritePageAndRelease: pages may be written again.          *)
AfterEnd(a, release) ==
    IF release THEN [containers EXCEPT ![a] = Free] ELSE [containers EXCEPT ![a].due = FALSE]

(* The tasks that are left when a container is released wait on, under its *)
(* address, which may be that of another one before long.                  *)
LeftBehind(a, release, left) ==
    IF release THEN forsaken \cup Owners(left[Key(a)].first \o left[Key(a)].more) ELSE forsaken

RunTasks(os, a, release, o) ==
    /\ objects' = AfterTasks(os, Key(a), o)
    /\ tasks' = TasksLeft(Key(a), o)
    /\ errands' = errands \cup (Owners(Begun(Key(a), o)) \X {containers[a].serial})
    /\ forsaken' = LeftBehind(a, release, TasksLeft(Key(a), o))

(* Mutant: annotations are kept for all the pages.                         *)
KeptForAll(noted) == annotations

AnnotationsLeft(noted) == IF noted THEN {} ELSE annotations

PageObject(a, noted) ==
    Object("page", containers[a].uses
                   \cup {Ref(containers[a].contents[i], "content") : i \in DOMAIN containers[a].contents}
                   \cup {Ref(id, "annotation") : id \in IF noted THEN annotations ELSE {}})

MayWritePage(a) ==
    /\ phase = "writing" /\ a \in Live /\ ~Streaming
    /\ containers[a].kind = "page" /\ Room(1)

(* What extenders return is overwritten with what EndDictionary returns.   *)
WritePageReturns(extended, done) ==
    /\ result' = [ok |-> done, extended |-> extended]
    /\ failed' = (failed \/ ~done)

WritePage(a, release) ==
    /\ MayWritePage(a)
    /\ containers' = AfterEnd(a, release)
    /\ \E extended \in {TRUE, ~ExtendersFail} : \E o \in Outcomes(Key(a)) :
        /\ RunTasks(Append(objects, PageObject(a, TRUE)), a, release, o)
        /\ unfinished' = PartOf(Key(a), o) \o unfinished
        /\ WritePageReturns(extended, o.how = "done")
    /\ annotations' = AnnotationsLeft(TRUE)
    /\ UNCHANGED <<shared, registered, serial, phase, documents>>

(* The resources cannot be written: a task or an extender of theirs fails. *)
(* The page is in the tree, the annotations wait on, and so do the tasks.  *)
WritePageFails(a, release) ==
    /\ ExtendersFail /\ MayWritePage(a)
    /\ containers' = AfterEnd(a, release)
    /\ objects' = Append(objects, PageObject(a, FALSE))
    /\ unfinished' = <<Len(objects) + 1>> \o unfinished
    /\ annotations' = AnnotationsLeft(FALSE)
    /\ forsaken' = LeftBehind(a, release, tasks)
    /\ Return(FALSE)
    /\ UNCHANGED <<tasks, shared, registered, serial, errands, phase, documents>>

FormEnded(os, a) == StreamEnded(os, containers[a].own)

ResourcesWritten(os, a) == [os EXCEPT ![containers[a].resourcesID] = Object("resources", containers[a].uses)]

EndFormXObjectAndRelease(a) ==
    /\ phase = "writing" /\ a \in Live /\ containers[a].kind = "form"
    /\ containers' = AfterEnd(a, TRUE)
    /\ \E o \in Outcomes(Key(a)) :
        /\ RunTasks(ResourcesWritten(FormEnded(objects, a), a), a, TRUE, o)
        /\ unfinished' = PartOf(Key(a), o) \o InnermostEnded
        /\ Return(o.how = "done")
    /\ UNCHANGED <<shared, annotations, registered, serial, phase, documents>>

(* The resources cannot be written, in an object begun for them.           *)
EndFormXObjectFails(a) ==
    /\ ExtendersFail
    /\ phase = "writing" /\ a \in Live /\ containers[a].kind = "form"
    /\ objects' = ResourcesWritten(FormEnded(objects, a), a)
    /\ unfinished' = <<containers[a].resourcesID>> \o InnermostEnded
    /\ containers' = AfterEnd(a, TRUE)
    /\ forsaken' = LeftBehind(a, TRUE, tasks)
    /\ Return(FALSE)
    /\ UNCHANGED <<tasks, shared, annotations, registered, serial, errands, phase, documents>>
-----------------------------------------------------------------------------
(* Mutant: the opacity states' IDs are not forgotten either.               *)
KeptByCleanup == shared

(* What Cleanup leaves: ExtGStateRegistry is reset, mImagesInformation is  *)
(* not.                                                                    *)
AfterCleanup == [r \in Resources |-> IF r \in Images THEN shared[r] ELSE 0]

(* Users have written what they drew; the xref is refused while an ID is   *)
(* owed.  Cleanup deletes the tasks that still wait.                       *)
EndPDF ==
    /\ phase = "writing" /\ \A a \in Live : ~containers[a].due
    /\ phase' = IF \E id \in DOMAIN objects : objects[id].state = "owed" THEN "broken" ELSE "finished"
    /\ shared' = AfterCleanup
    /\ tasks' = [k \in Kinds \X Addresses |-> NoTasks]
    /\ annotations' = AnnotationsLeft(TRUE)
    /\ UNCHANGED <<objects, unfinished, containers, registered, serial, errands, forsaken, result,
                   failed, documents>>

StartPDF ==
    /\ phase # "writing" /\ documents < MaxDocuments
    /\ documents' = documents + 1 /\ phase' = "writing"
    /\ objects' = <<>> /\ unfinished' = <<>>
    /\ containers' = [a \in Addresses |-> Free]
    /\ registered' = {} /\ serial' = 0 /\ errands' = {} /\ forsaken' = {}
    /\ result' = [ok |-> TRUE, extended |-> TRUE] /\ failed' = FALSE
    /\ UNCHANGED <<tasks, shared, annotations>>

Next ==
    \/ \E a \in Addresses :
        \/ NewPage(a) \/ StartFormXObject(a) \/ StartFormXObjectFails(a)
        \/ \E r \in Resources : Draw(a, r)
        \/ PausePageContentContext(a)
        \/ \E release \in BOOLEAN : WritePage(a, release) \/ WritePageFails(a, release)
        \/ EndFormXObjectAndRelease(a) \/ EndFormXObjectFails(a)
    \/ AttachURLLinktoCurrentPage
    \/ EndPDF \/ StartPDF

Spec == Init /\ [][Next]_vars
-----------------------------------------------------------------------------
(***************************************************************************)
(* Properties.                                                             *)
(***************************************************************************)
(* The types of the variables.                                             *)
TypeOK ==
    /\ \A id \in DOMAIN objects :
        /\ objects[id].holds \in Resources \cup
              {"page", "form", "content", "resources", "length", "annotation"}
        /\ objects[id].state \in {"owed", "written"}
        /\ objects[id].refs \subseteq [id : 1 .. MaxObjects, holds : Resources \cup
                                        {"resources", "length", "content", "annotation"}]
    /\ unfinished \in Seq(DOMAIN objects)
    /\ \A a \in Live : containers[a].kind \in Kinds /\ containers[a].streaming \in BOOLEAN
    /\ \A k \in DOMAIN tasks : \A i \in DOMAIN Waiting(k) : Waiting(k)[i].what \in Resources
    /\ shared \in [Resources -> 0 .. MaxObjects]
    /\ annotations \subseteq DOMAIN objects
    /\ registered \subseteq Resources /\ serial \in Nat
    /\ forsaken \subseteq Nat
    /\ result \in [ok : BOOLEAN, extended : BOOLEAN] /\ failed \in BOOLEAN
    /\ phase \in {"writing", "finished", "broken"} /\ documents \in 1 .. MaxDocuments

(* In a document whose end succeeded, what a page, a form or a stream      *)
(* refers to is there and is what they took it for: an image is the image  *)
(* drawn, an opacity state the one set, in this document as in one before. *)
ReferencesResolve ==
    phase = "finished" =>
        \A id \in DOMAIN objects : \A ref \in objects[id].refs :
            /\ ref.id \in DOMAIN objects
            /\ objects[ref.id].state = "written" /\ objects[ref.id].holds = ref.holds

(* As long as no call failed, each image or opacity state that has an ID   *)
(* and is not written has one task waiting to write it, under a container  *)
(* that is still to end.                                                   *)
Scheduling(id) ==
    {at \in (DOMAIN tasks) \X (1 .. MaxObjects) :
        LET k == at[1]
            i == at[2]
        IN  i \in DOMAIN Waiting(k) /\ Waiting(k)[i].id = id /\ k[2] \in Live /\ Key(k[2]) = k}

OwedOnce ==
    phase = "writing" /\ ~failed =>
        \A id \in DOMAIN objects :
            objects[id].holds \in Resources =>
                Cardinality(Scheduling(id)) = IF objects[id].state = "owed" THEN 1 ELSE 0

(* A document none of whose calls failed is one whose end succeeds, with   *)
(* every object ended.                                                     *)
WholeDocument ==
    phase # "writing" /\ ~failed => phase = "finished" /\ unfinished = <<>>

(* An object is begun inside another one only where a call left one behind *)
(* when it failed.                                                         *)
ObjectsDontNest == ~failed => Len(unfinished) = IF Streaming THEN 1 ELSE 0

(* An annotation is on one page at most, waits as long as it is on none,   *)
(* and a page that could not be written leaves it for the next one.        *)
PagesWith(annotation) ==
    {id \in DOMAIN objects : Ref(annotation, "annotation") \in objects[id].refs}

AnnotationsOnOnePage ==
    phase = "writing" =>
        \A id \in DOMAIN objects :
            objects[id].holds = "annotation" =>
                Cardinality(PagesWith(id)) = IF id \in annotations THEN 0 ELSE 1

(* The tasks of a container are run at the end of it and of no other.      *)
TasksRunForTheirOwner == \A errand \in errands : errand[1] = errand[2]

(* A page that an extender declared failure for is not reported written.   *)
ExtenderFailuresReturned == result.ok => result.extended

(* While no call fails, what is owed is scheduled once, objects are ended  *)
(* before others begin, and the document ends well.                        *)
DocumentIsWhole ==
    /\ TypeOK
    /\ OwedOnce
    /\ WholeDocument
    /\ ObjectsDontNest

(***************************************************************************)
(* A page or form gets its own tasks and annotations, and nobody else's,   *)
(* though tasks wait under addresses, which are soon another's.  Only the  *)
(* tasks that were left when their container was released may be run at    *)
(* the end of another, and a call of the document failed before.           *)
(***************************************************************************)
EveryoneGetsTheirOwn ==
    /\ AnnotationsOnOnePage
    /\ \A errand \in errands : errand[1] = errand[2] \/ errand[1] \in forsaken
    /\ forsaken # {} => failed
=============================================================================

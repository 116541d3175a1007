-------------------------- MODULE PageWritingProofs --------------------------
(***************************************************************************)
(* Proofs about PageWriting: for any images, pages and forms, annotations  *)
(* are on one page or wait; tasks run at the end of their own page or      *)
(* form, but for those that were left when it was released, also where     *)
(* addresses are allocated again; what is referred to is there, as long as *)
(* no image of an earlier document is drawn; and what is owed is scheduled *)
(* once and written, as long as no call fails.                             *)
(***************************************************************************)
EXTENDS PageWriting, FiniteSetTheorems, TLAPS

Holdings == Resources \cup {"page", "form", "content", "resources", "length", "annotation"}
Refs == [id : Nat, holds : Holdings]
Uses == [id : Nat, holds : Resources]
Objects == [holds : Holdings, state : {"owed", "written"}, refs : SUBSET Refs]
Tasks == [what : Resources, id : Nat, owner : Nat]
Containers == [kind : Kinds, serial : Nat, own : Nat, resourcesID : Nat, uses : SUBSET Uses,
               contents : Seq(Nat), streaming : BOOLEAN, due : BOOLEAN]

Typed ==
    /\ objects \in Seq(Objects)
    /\ containers \in [Addresses -> Containers \cup {Free}]
    /\ tasks \in [Kinds \X Addresses -> [first : Seq(Tasks), more : Seq(Tasks)]]
    /\ shared \in [Resources -> Nat]
    /\ annotations \subseteq DOMAIN objects
    /\ serial \in Nat
    /\ phase \in {"writing", "finished", "broken"}

Silent(refs) == \A ref \in refs : ref.holds # "annotation"

(* Only pages refer to annotations, and to none that is not there.         *)
OnlyPagesShow ==
    \A id \in DOMAIN objects : \A ref \in objects[id].refs :
        ref.holds = "annotation" => objects[id].holds = "page" /\ ref.id \in DOMAIN objects

(* The ID kept for a form's resources is that of resources.                *)
FormsHaveResources ==
    \A a \in Live :
        containers[a].kind = "form" =>
            /\ containers[a].resourcesID \in DOMAIN objects
            /\ objects[containers[a].resourcesID].holds = "resources"

Shown(id) == IF id \in annotations THEN PagesWith(id) = {} ELSE \E page : PagesWith(id) = {page}

AnnotationsShown ==
    phase = "writing" => \A id \in DOMAIN objects : objects[id].holds = "annotation" => Shown(id)

NothingKept ==
    phase # "writing" => annotations = {} /\ \A k \in Kinds \X Addresses : tasks[k] = NoTasks

(* The invariant of annotations.                                           *)
Noted == Typed /\ OnlyPagesShow /\ FormsHaveResources /\ AnnotationsShown /\ NothingKept

TasksOf(lists) == {lists.first[i] : i \in DOMAIN lists.first} \cup {lists.more[i] : i \in DOMAIN lists.more}

OfContainer(task, kind, a) ==
    a \in Live /\ containers[a].kind = kind /\ containers[a].serial = task.owner

(* A task that waits is of the container that it waits under, unless its   *)
(* own was released.                                                       *)
TasksAreOwned ==
    \A kind \in Kinds, a \in Addresses :
        \A task \in TasksOf(tasks[<<kind, a>>]) :
            task.owner \in forsaken \/ OfContainer(task, kind, a)

ErrandsAreOwn == \A errand \in errands : errand[1] = errand[2] \/ errand[1] \in forsaken

(* The invariant of tasks.                                                 *)
Owned == TasksAreOwned /\ ErrandsAreOwn /\ forsaken \subseteq Nat
-----------------------------------------------------------------------------
(* What is in a live container.                                            *)
LEMMA LiveTyped ==
    ASSUME Typed, NEW a \in Live
    PROVE  a \in Addresses /\ containers[a] \in Containers /\ Key(a) \in Kinds \X Addresses
  <1>1. a \in Addresses /\ containers[a].kind \in Kinds
    BY DEF Live
  <1>2. containers[a] # Free
    BY <1>1 DEF Free, Kinds
  <1> QED
    BY <1>1, <1>2 DEF Typed, Key

LEMMA WordsDiffer ==
    \A r \in Resources :
        r \notin {"page", "form", "content", "resources", "length", "annotation"}
  BY PageWritingAssumption DEF Resources

LEMMA NoTasksTyped == NoTasks \in [first : Seq(Tasks), more : Seq(Tasks)]
  BY DEF NoTasks

(* The end of a stream, and the tasks of a container, change states only.  *)
LEMMA StreamEndedKeeps ==
    ASSUME NEW os \in Seq(Objects), NEW x
    PROVE  /\ StreamEnded(os, x) \in Seq(Objects) /\ Len(StreamEnded(os, x)) = Len(os)
           /\ \A id \in DOMAIN os : /\ StreamEnded(os, x)[id].holds = os[id].holds
                                    /\ StreamEnded(os, x)[id].refs = os[id].refs
  <1> DEFINE e == x + (IF os[x].holds = "form" THEN 2 ELSE 1)
             new == [os EXCEPT ![e].state = "written"]
  <1>1. new = StreamEnded(os, x)
    BY DEF StreamEnded
  <1>2. \A id \in DOMAIN os : new[id] = IF id = e THEN [os[id] EXCEPT !.state = "written"] ELSE os[id]
    OBVIOUS
  <1> HIDE DEF e
  <1>3. DOMAIN new = DOMAIN os /\ DOMAIN os = 1 .. Len(os) /\ Len(os) \in Nat
    OBVIOUS
  <1>4. \A id \in DOMAIN os : os[id] \in Objects
    OBVIOUS
  <1>5. \A id \in DOMAIN os : new[id] \in Objects /\ new[id].holds = os[id].holds
                             /\ new[id].refs = os[id].refs
    BY <1>2, <1>4 DEF Objects
  <1> HIDE DEF new
  <1>6. new = [id \in 1 .. Len(os) |-> new[id]]
    BY <1>1, <1>3 DEF new
  <1>7. new \in Seq(Objects) /\ Len(new) = Len(os)
    BY <1>3, <1>5, <1>6
  <1> QED
    BY <1>1, <1>5, <1>7

LEMMA AfterTasksKeeps ==
    ASSUME NEW os \in Seq(Objects), NEW k, NEW o
    PROVE  /\ AfterTasks(os, k, o) \in Seq(Objects) /\ Len(AfterTasks(os, k, o)) = Len(os)
           /\ \A id \in DOMAIN os : /\ AfterTasks(os, k, o)[id].holds = os[id].holds
                                    /\ AfterTasks(os, k, o)[id].refs = os[id].refs
  <1> DEFINE ids == IDs(Begun(k, o))
             new == [id \in DOMAIN os |->
                        IF id \in ids THEN [os[id] EXCEPT !.state = "written"] ELSE os[id]]
  <1>1. new = AfterTasks(os, k, o)
    BY DEF AfterTasks
  <1> HIDE DEF ids
  <1>2. DOMAIN os = 1 .. Len(os) /\ Len(os) \in Nat /\ \A id \in DOMAIN os : os[id] \in Objects
    OBVIOUS
  <1>3. \A id \in DOMAIN os : new[id] \in Objects /\ new[id].holds = os[id].holds
                             /\ new[id].refs = os[id].refs
    BY <1>2 DEF Objects
  <1>4. new \in Seq(Objects) /\ Len(new) = Len(os)
    BY <1>2, <1>3
  <1> HIDE DEF new
  <1> QED
    BY <1>1, <1>3, <1>4

(* Objects that are added, and objects that change but for what they say   *)
(* of annotations, leave annotations where they are.                       *)
LEMMA QuietObjects ==
    ASSUME Noted, NEW os \in Seq(Objects), Len(os) >= Len(objects),
           \A id \in DOMAIN objects :
               /\ os[id].holds = objects[id].holds
               /\ \/ os[id].refs = objects[id].refs
                  \/ objects[id].holds # "page" /\ Silent(os[id].refs),
           \A id \in DOMAIN os \ DOMAIN objects :
               os[id].holds # "annotation" /\ Silent(os[id].refs),
           objects' = os, annotations' = annotations, phase = "writing"
    PROVE  annotations' \subseteq DOMAIN objects' /\ OnlyPagesShow' /\ AnnotationsShown'
  <1>1. /\ DOMAIN objects = 1 .. Len(objects) /\ DOMAIN os = 1 .. Len(os)
        /\ Len(objects) \in Nat /\ Len(os) \in Nat
        /\ annotations \subseteq DOMAIN objects
    BY DEF Noted, Typed
  <1>2. DOMAIN objects \subseteq DOMAIN os
    BY <1>1
  <1>3. OnlyPagesShow'
    BY <1>2 DEF Noted, OnlyPagesShow, Silent
  <1>4. ASSUME NEW id \in DOMAIN objects
        PROVE  PagesWith(id)' = PagesWith(id)
    <2>1. Ref(id, "annotation").holds = "annotation"
      BY DEF Ref
    <2>2. \A page \in DOMAIN objects :
              Ref(id, "annotation") \in objects[page].refs <=> Ref(id, "annotation") \in os[page].refs
      BY <2>1 DEF Noted, OnlyPagesShow, Silent
    <2>3. \A page \in DOMAIN os \ DOMAIN objects : Ref(id, "annotation") \notin os[page].refs
      BY <2>1 DEF Silent
    <2> QED
      BY <1>2, <2>2, <2>3 DEF PagesWith
  <1>5. AnnotationsShown'
    <2>1. SUFFICES ASSUME NEW id \in DOMAIN os, os[id].holds = "annotation"
                   PROVE  Shown(id)'
      BY DEF AnnotationsShown
    <2>2. id \in DOMAIN objects /\ objects[id].holds = "annotation"
      BY <2>1
    <2>3. Shown(id)
      BY <2>2 DEF Noted, AnnotationsShown
    <2> QED
      BY <1>4, <2>2, <2>3 DEF Shown
  <1> QED
    BY <1>1, <1>2, <1>3, <1>5

LEMMA InitNoted == Init => Noted
  <1> SUFFICES ASSUME Init PROVE Noted
    OBVIOUS
  <1> USE DEF Init
  <1>1. Typed
    BY NoTasksTyped DEF Typed
  <1>2. Live = {}
    BY DEF Live, Free, Kinds
  <1> QED
    BY <1>1, <1>2 DEF Noted, OnlyPagesShow, FormsHaveResources, AnnotationsShown, NothingKept
-----------------------------------------------------------------------------
(* Objects after others.                                                   *)
LEMMA Grown ==
    ASSUME NEW os \in Seq(Objects), NEW more \in Seq(Objects)
    PROVE  /\ os \o more \in Seq(Objects) /\ Len(os \o more) = Len(os) + Len(more)
           /\ \A id \in DOMAIN os : id \in DOMAIN (os \o more) /\ (os \o more)[id] = os[id]
           /\ \A id \in DOMAIN (os \o more) \ DOMAIN os :
                 id - Len(os) \in DOMAIN more /\ (os \o more)[id] = more[id - Len(os)]
  OBVIOUS

LEMMA ObjectsTyped ==
    /\ \A what \in Holdings, refs \in SUBSET Refs : Object(what, refs) \in Objects
    /\ \A what \in Holdings : Owed(what) \in Objects
    /\ \A id \in Nat, what \in Holdings : Ref(id, what) \in Refs
    /\ \A id \in Nat, what \in Resources : Ref(id, what) \in Uses
    /\ Uses \subseteq Refs
    /\ Resources \subseteq Holdings
    /\ {"page", "form", "content", "resources", "length", "annotation"} \subseteq Holdings
  BY DEF Object, Owed, Ref, Objects, Refs, Uses, Holdings

LEMMA UsesAreSilent ==
    ASSUME NEW uses \in SUBSET Uses
    PROVE  Silent(uses)
  BY WordsDiffer DEF Silent, Uses

LEMMA NewContainer ==
    ASSUME Typed, NEW kind \in Kinds, NEW own \in Nat, NEW resourcesID \in Nat
    PROVE  Container(kind, own, resourcesID) \in Containers
  <1>1. {} \in SUBSET Uses /\ <<>> \in Seq(Nat) /\ serial + 1 \in Nat
    BY DEF Typed
  <1> QED
    BY <1>1 DEF Container, Containers

LEMMA NewPageNoted ==
    ASSUME Noted, NEW a \in Addresses, NewPage(a)
    PROVE  Noted'
  <1> USE DEF NewPage
  <1> DEFINE new == Container("page", 0, 0)
  <1>1. Typed /\ new \in Containers /\ phase = "writing"
    BY NewContainer DEF Noted, Kinds, MayAllocate
  <1>2. containers' = [containers EXCEPT ![a] = new] /\ new.kind = "page"
    BY DEF Container
  <1> HIDE DEF new
  <1>3. Typed'
    BY <1>1, <1>2 DEF Typed
  <1>4. OnlyPagesShow' /\ AnnotationsShown' /\ NothingKept'
    BY DEF Noted, OnlyPagesShow, AnnotationsShown, Shown, PagesWith, NothingKept
  <1>5. FormsHaveResources'
    BY <1>1, <1>2 DEF Noted, FormsHaveResources, Live, Typed
  <1> QED
    BY <1>3, <1>4, <1>5 DEF Noted

LEMMA StartFormNoted ==
    ASSUME Noted, NEW a \in Addresses, StartFormXObject(a)
    PROVE  Noted'
  <1> USE DEF StartFormXObject
  <1> DEFINE n == Len(objects)
             new == Container("form", n + 1, n + 2)
             more == <<Object("form", {Ref(n + 2, "resources"), Ref(n + 3, "length")}),
                       Owed("resources"), Owed("length")>>
  <1>1. Typed /\ n \in Nat /\ phase = "writing"
    BY DEF Noted, Typed, MayAllocate
  <1>2. new \in Containers /\ new.kind = "form" /\ new.resourcesID = n + 2
    <2>1. n + 1 \in Nat /\ n + 2 \in Nat
      BY <1>1
    <2> QED
      BY <1>1, <2>1, NewContainer DEF Kinds, Container
  <1>3. containers' = [containers EXCEPT ![a] = new] /\ objects' = objects \o more
    <2>1. (n + 1) + 1 = n + 2 /\ (n + 1) + 2 = n + 3
      BY <1>1
    <2> QED
      BY <2>1
  <1>4. more \in Seq(Objects) /\ DOMAIN more = 1 .. 3 /\ Len(more) = 3
        /\ \A i \in 1 .. 3 : more[i].holds # "annotation" /\ Silent(more[i].refs)
        /\ more[2].holds = "resources"
    <2>1. {Ref(n + 2, "resources"), Ref(n + 3, "length")} \in SUBSET Refs
      BY <1>1, ObjectsTyped
    <2>2. \A i \in 1 .. 3 : more[i] \in Objects
      <3>1. /\ Object("form", {Ref(n + 2, "resources"), Ref(n + 3, "length")}) \in Objects
            /\ Owed("resources") \in Objects /\ Owed("length") \in Objects
        BY <2>1, ObjectsTyped
      <3> QED
        BY <3>1
    <2>3. \A i \in 1 .. 3 : more[i].holds # "annotation" /\ Silent(more[i].refs)
      <3>1. more[1].holds # "annotation" /\ Silent(more[1].refs)
        BY DEF Object, Silent, Ref
      <3>2. /\ more[2].holds # "annotation" /\ Silent(more[2].refs)
            /\ more[3].holds # "annotation" /\ Silent(more[3].refs)
        BY DEF Owed, Silent
      <3> HIDE DEF more
      <3>3. \A i \in 1 .. 3 : i = 1 \/ i = 2 \/ i = 3
        OBVIOUS
      <3> QED
        BY <3>1, <3>2, <3>3
    <2>4. more[2].holds = "resources"
      BY DEF Owed
    <2> QED
      BY <2>2, <2>3, <2>4
  <1> HIDE DEF more, new
  <1>5. /\ objects' \in Seq(Objects) /\ Len(objects') = n + 3
        /\ \A id \in DOMAIN objects : id \in DOMAIN objects' /\ objects'[id] = objects[id]
        /\ \A id \in DOMAIN objects' \ DOMAIN objects :
              id - n \in 1 .. 3 /\ objects'[id] = more[id - n]
    <2>1. objects \in Seq(Objects)
      BY <1>1 DEF Typed
    <2>2. /\ objects \o more \in Seq(Objects) /\ Len(objects \o more) = n + 3
          /\ \A id \in DOMAIN objects :
                id \in DOMAIN (objects \o more) /\ (objects \o more)[id] = objects[id]
          /\ \A id \in DOMAIN (objects \o more) \ DOMAIN objects :
                id - n \in 1 .. 3 /\ (objects \o more)[id] = more[id - n]
      BY <2>1, <1>3, <1>4, Grown
    <2> QED
      BY <2>2, <1>3
  <1> HIDE DEF n
  <1>6. annotations' \subseteq DOMAIN objects' /\ OnlyPagesShow' /\ AnnotationsShown'
    <2>1. Len(objects') >= Len(objects)
      BY <1>1, <1>5 DEF n
    <2>2. \A id \in DOMAIN objects' \ DOMAIN objects :
              objects'[id].holds # "annotation" /\ Silent(objects'[id].refs)
      BY <1>4, <1>5
    <2> QED
      BY <1>1, <1>5, <2>1, <2>2, QuietObjects
  <1>7. Typed'
    BY <1>1, <1>2, <1>3, <1>5, <1>6 DEF Typed
  <1>8. NothingKept'
    BY <1>1 DEF NothingKept
  <1>9. FormsHaveResources'
    <2>1. n + 2 \in DOMAIN objects' /\ objects'[n + 2].holds = "resources"
      <3>1. n + 2 \in DOMAIN objects' /\ n + 2 \notin DOMAIN objects /\ (n + 2) - n = 2
        BY <1>1, <1>5 DEF n, Typed
      <3> QED
        BY <1>4, <1>5, <3>1
    <2>2. containers'[a] = new /\ \A b \in Addresses \ {a} : containers'[b] = containers[b]
      BY <1>1, <1>3 DEF Typed
    <2> QED
      BY <1>2, <1>5, <2>1, <2>2 DEF Noted, FormsHaveResources, Live
  <1> QED
    BY <1>6, <1>7, <1>8, <1>9 DEF Noted

LEMMA StartFormFailsNoted ==
    ASSUME Noted, NEW a \in Addresses, StartFormXObjectFails(a)
    PROVE  Noted'
  <1> USE DEF StartFormXObjectFails
  <1> DEFINE n == Len(objects)
             more == <<Object("form", {Ref(n + 2, "resources")}), Owed("resources")>>
  <1>1. Typed /\ n \in Nat /\ phase = "writing"
    BY DEF Noted, Typed, MayAllocate
  <1>2. more \in Seq(Objects) /\ DOMAIN more = 1 .. 2 /\ Len(more) = 2
        /\ \A i \in 1 .. 2 : more[i].holds # "annotation" /\ Silent(more[i].refs)
    <2>1. {Ref(n + 2, "resources")} \in SUBSET Refs
      BY <1>1, ObjectsTyped
    <2>2. \A i \in 1 .. 2 : more[i] \in Objects
      BY <2>1, ObjectsTyped
    <2>3. \A i \in 1 .. 2 : more[i].holds # "annotation" /\ Silent(more[i].refs)
      BY DEF Object, Owed, Silent, Ref
    <2> QED
      BY <2>2, <2>3
  <1>3. objects' = objects \o more
    OBVIOUS
  <1> HIDE DEF more
  <1>4. /\ objects' \in Seq(Objects) /\ Len(objects') = n + 2
        /\ \A id \in DOMAIN objects : id \in DOMAIN objects' /\ objects'[id] = objects[id]
        /\ \A id \in DOMAIN objects' \ DOMAIN objects :
              id - n \in 1 .. 2 /\ objects'[id] = more[id - n]
    <2>1. objects \in Seq(Objects)
      BY <1>1 DEF Typed
    <2>2. /\ objects \o more \in Seq(Objects) /\ Len(objects \o more) = n + 2
          /\ \A id \in DOMAIN objects :
                id \in DOMAIN (objects \o more) /\ (objects \o more)[id] = objects[id]
          /\ \A id \in DOMAIN (objects \o more) \ DOMAIN objects :
                id - n \in 1 .. 2 /\ (objects \o more)[id] = more[id - n]
      BY <2>1, <1>2, <1>3, Grown
    <2> QED
      BY <2>2, <1>3
  <1>5. annotations' \subseteq DOMAIN objects' /\ OnlyPagesShow' /\ AnnotationsShown'
    <2>1. Len(objects') >= Len(objects)
      <3>1. Len(objects') = n + 2 /\ n \in Nat /\ n = Len(objects)
        BY <1>1, <1>4, Zenon
      <3> QED
        BY <3>1
    <2>2. \A id \in DOMAIN objects' \ DOMAIN objects :
              objects'[id].holds # "annotation" /\ Silent(objects'[id].refs)
      BY <1>2, <1>4
    <2> QED
      BY <1>1, <1>4, <2>1, <2>2, QuietObjects
  <1>6. Typed' /\ NothingKept' /\ FormsHaveResources'
    BY <1>1, <1>4, <1>5 DEF Noted, Typed, NothingKept, FormsHaveResources, Live
  <1> QED
    BY <1>5, <1>6 DEF Noted

(* Objects to which others were added that say nothing of annotations.     *)
Quietly(os) ==
    /\ os \in Seq(Objects) /\ Len(os) >= Len(objects)
    /\ \A id \in DOMAIN objects : id \in DOMAIN os /\ os[id] = objects[id]
    /\ \A id \in DOMAIN os \ DOMAIN objects : os[id].holds # "annotation" /\ Silent(os[id].refs)

LEMMA QuietlyMore ==
    ASSUME Typed, NEW os, Quietly(os), NEW more \in Seq(Objects),
           \A i \in DOMAIN more : more[i].holds # "annotation" /\ Silent(more[i].refs)
    PROVE  Quietly(os \o more)
  <1> USE DEF Quietly
  <1>1. os \in Seq(Objects) /\ objects \in Seq(Objects)
    BY DEF Typed
  <1>2. /\ os \o more \in Seq(Objects) /\ Len(os \o more) = Len(os) + Len(more)
        /\ \A id \in DOMAIN os : id \in DOMAIN (os \o more) /\ (os \o more)[id] = os[id]
        /\ \A id \in DOMAIN (os \o more) \ DOMAIN os :
              id - Len(os) \in DOMAIN more /\ (os \o more)[id] = more[id - Len(os)]
    BY <1>1, Grown
  <1>3. Len(os \o more) >= Len(objects)
    BY <1>1, <1>2
  <1>4. ASSUME NEW id \in DOMAIN (os \o more) \ DOMAIN objects
        PROVE  (os \o more)[id].holds # "annotation" /\ Silent((os \o more)[id].refs)
    <2>1. CASE id \in DOMAIN os
      BY <1>2, <2>1
    <2>2. CASE id \notin DOMAIN os
      BY <1>2, <2>2
    <2> QED
      BY <2>1, <2>2
  <1> QED
    BY <1>2, <1>3, <1>4

LEMMA DrawNoted ==
    ASSUME Noted, NEW a \in Addresses, NEW r \in Resources, Draw(a, r)
    PROVE  Noted'
  <1> DEFINE first == FirstUse(r)
             id == IF first THEN Len(objects) + 1 ELSE shared[r]
             before == IF first THEN Append(objects, Owed(r)) ELSE objects
             own == Len(before) + 1
             drawn == [containers[a] EXCEPT !.uses = @ \cup {Ref(id, r)},
                          !.contents = IF containers[a].streaming THEN @ ELSE Append(@, own),
                          !.streaming = TRUE, !.due = TRUE]
  <1>1. /\ Typed /\ phase = "writing" /\ a \in Live /\ containers[a] \in Containers
        /\ Key(a) \in Kinds \X Addresses
    BY LiveTyped DEF Noted, Draw, MayDraw
  <1>2. id \in Nat
    BY <1>1 DEF Typed
  <1>3. Quietly(before)
    <2>1. Quietly(objects)
      BY <1>1 DEF Quietly, Typed
    <2>2. <<Owed(r)>> \in Seq(Objects)
      BY ObjectsTyped
    <2>3. \A i \in DOMAIN <<Owed(r)>> :
              <<Owed(r)>>[i].holds # "annotation" /\ Silent(<<Owed(r)>>[i].refs)
      BY WordsDiffer DEF Owed, Silent
    <2>4. Quietly(objects \o <<Owed(r)>>)
      BY <1>1, <2>1, <2>2, <2>3, QuietlyMore
    <2>5. Append(objects, Owed(r)) = objects \o <<Owed(r)>>
      BY <1>1, ObjectsTyped DEF Typed
    <2> QED
      BY <2>1, <2>4, <2>5
  <1>4. own \in Nat
    BY <1>3 DEF Quietly
  <1>5. Quietly(objects')
    <2> DEFINE more == <<Object("content", {Ref(Len(before) + 2, "length")}), Owed("length")>>
    <2> HIDE DEF before
    <2>1. objects' = IF containers[a].streaming THEN before ELSE before \o more
      BY DEF Draw, StreamStarted, before
    <2>2. Len(before) + 2 \in Nat
      BY <1>3 DEF Quietly
    <2>3. Ref(Len(before) + 2, "length") \in Refs
      BY <2>2, ObjectsTyped
    <2>4. Object("content", {Ref(Len(before) + 2, "length")}) \in Objects /\ Owed("length") \in Objects
      BY <2>3, ObjectsTyped
    <2>5. more \in Seq(Objects)
      BY <2>4
    <2>6. \A i \in DOMAIN more : more[i].holds # "annotation" /\ Silent(more[i].refs)
      <3>1. more[1].holds # "annotation" /\ Silent(more[1].refs)
        BY DEF Object, Silent, Ref
      <3>2. more[2].holds # "annotation" /\ Silent(more[2].refs)
        BY DEF Owed, Silent
      <3>3. \A i \in DOMAIN more : i = 1 \/ i = 2
        OBVIOUS
      <3> HIDE DEF more
      <3> QED
        BY <3>1, <3>2, <3>3
    <2> HIDE DEF more
    <2> QED
      BY <1>1, <1>3, <2>1, <2>5, <2>6, QuietlyMore
  <1>6. annotations' \subseteq DOMAIN objects' /\ OnlyPagesShow' /\ AnnotationsShown'
    <2>1. annotations' = annotations
      BY DEF Draw
    <2> QED
      BY <1>1, <1>5, <2>1, QuietObjects DEF Quietly
  <1>7. containers' = [containers EXCEPT ![a] = drawn]
    BY <1>1 DEF Draw, Drawn, Typed, Containers
  <1>8. /\ drawn \in Containers /\ drawn.kind = containers[a].kind
        /\ drawn.resourcesID = containers[a].resourcesID
    <2>1. Ref(id, r) \in Uses
      BY <1>2, ObjectsTyped
    <2> HIDE DEF id, own
    <2>2. containers[a].uses \cup {Ref(id, r)} \in SUBSET Uses
      BY <1>1, <2>1 DEF Containers
    <2>3. Append(containers[a].contents, own) \in Seq(Nat)
      BY <1>1, <1>4 DEF Containers
    <2> QED
      BY <1>1, <2>2, <2>3 DEF Containers
  <1>9. tasks' \in [Kinds \X Addresses -> [first : Seq(Tasks), more : Seq(Tasks)]]
    <2> DEFINE task == Task(r, id, a)
               lists == tasks[Key(a)]
    <2>1. task \in Tasks
      BY <1>1, <1>2 DEF Task, Tasks, Containers
    <2>2. lists \in [first : Seq(Tasks), more : Seq(Tasks)]
      BY <1>1 DEF Typed
    <2>3. tasks' \in {tasks, [tasks EXCEPT ![Key(a)].first = Append(@, task)],
                     [tasks EXCEPT ![Key(a)].more = Append(@, task)]}
      BY DEF Draw, Scheduled
    <2> HIDE DEF task
    <2>4. /\ [lists EXCEPT !.first = Append(@, task)] \in [first : Seq(Tasks), more : Seq(Tasks)]
          /\ [lists EXCEPT !.more = Append(@, task)] \in [first : Seq(Tasks), more : Seq(Tasks)]
      <3> HIDE DEF lists
      <3>1. /\ lists.first \in Seq(Tasks) /\ lists.more \in Seq(Tasks)
            /\ Append(lists.first, task) \in Seq(Tasks) /\ Append(lists.more, task) \in Seq(Tasks)
        BY <2>1, <2>2
      <3> QED
        BY <2>2, <3>1
    <2> QED
      BY <1>1, <2>3, <2>4 DEF Typed
  <1>10. shared' \in [Resources -> Nat] /\ serial' = serial /\ phase' = phase
    <2>1. shared' = [shared EXCEPT ![r] = id] /\ serial' = serial /\ phase' = phase
      BY DEF Draw
    <2> HIDE DEF id
    <2> QED
      BY <1>1, <1>2, <2>1 DEF Typed
  <1> HIDE DEF drawn
  <1>11. Typed'
    BY <1>1, <1>5, <1>6, <1>7, <1>8, <1>9, <1>10 DEF Typed, Quietly
  <1>12. NothingKept'
    BY <1>1, <1>10 DEF NothingKept
  <1>13. FormsHaveResources'
    <2>1. containers'[a] = drawn /\ \A b \in Addresses \ {a} : containers'[b] = containers[b]
      BY <1>1, <1>7 DEF Typed
    <2> QED
      BY <1>1, <1>5, <1>8, <2>1 DEF Noted, FormsHaveResources, Live, Quietly
  <1> QED
    BY <1>6, <1>11, <1>12, <1>13 DEF Noted

LEMMA PauseNoted ==
    ASSUME Noted, NEW a \in Addresses, PausePageContentContext(a)
    PROVE  Noted'
  <1> USE DEF PausePageContentContext
  <1>1. Typed /\ phase = "writing" /\ a \in Live /\ containers[a] \in Containers
    BY LiveTyped DEF Noted
  <1>2. /\ objects' \in Seq(Objects) /\ Len(objects') = Len(objects)
        /\ \A id \in DOMAIN objects : /\ objects'[id].holds = objects[id].holds
                                     /\ objects'[id].refs = objects[id].refs
    BY <1>1, StreamEndedKeeps DEF Typed
  <1>3. DOMAIN objects' = DOMAIN objects
    BY <1>1, <1>2 DEF Typed
  <1>4. annotations' \subseteq DOMAIN objects' /\ OnlyPagesShow' /\ AnnotationsShown'
    <2>1. Len(objects') >= Len(objects)
      BY <1>1, <1>2 DEF Typed
    <2> QED
      BY <1>1, <1>2, <1>3, <2>1, QuietObjects
  <1>5. /\ containers' \in [Addresses -> Containers \cup {Free}]
        /\ \A b \in Addresses : /\ containers'[b].kind = containers[b].kind
                               /\ b \in Live => containers'[b].resourcesID = containers[b].resourcesID
    <2>1. [containers[a] EXCEPT !.streaming = FALSE] \in Containers
      BY <1>1 DEF Containers
    <2> QED
      BY <1>1, <2>1 DEF Typed, Containers
  <1>6. Typed'
    BY <1>1, <1>2, <1>4, <1>5 DEF Typed
  <1>7. NothingKept'
    BY <1>1 DEF NothingKept
  <1>8. FormsHaveResources'
    BY <1>2, <1>3, <1>5 DEF Noted, FormsHaveResources, Live
  <1> QED
    BY <1>4, <1>6, <1>7, <1>8 DEF Noted

(* An annotation is new, and no page refers to it yet.                     *)
LEMMA AttachNoted ==
    ASSUME Noted, AttachURLLinktoCurrentPage
    PROVE  Noted'
  <1> USE DEF AttachURLLinktoCurrentPage
  <1> DEFINE n == Len(objects) + 1
             new == Object("annotation", {})
  <1>1. Typed /\ phase = "writing" /\ new \in Objects /\ new.refs = {}
    BY ObjectsTyped DEF Noted, Object
  <1> HIDE DEF new
  <1>2. /\ objects' \in Seq(Objects) /\ DOMAIN objects' = DOMAIN objects \cup {n}
        /\ n \notin DOMAIN objects /\ objects'[n] = new
        /\ \A id \in DOMAIN objects : objects'[id] = objects[id]
    BY <1>1 DEF Typed, new
  <1>3. annotations' = annotations \cup {n}
    OBVIOUS
  <1> HIDE DEF n
  <1>4. Typed'
    BY <1>1, <1>2, <1>3 DEF Typed
  <1>5. OnlyPagesShow'
    BY <1>1, <1>2 DEF Noted, OnlyPagesShow
  <1>6. FormsHaveResources' /\ NothingKept'
    BY <1>1, <1>2 DEF Noted, FormsHaveResources, Live, NothingKept
  <1>7. \A id : PagesWith(id)' = PagesWith(id)
    BY <1>1, <1>2 DEF PagesWith
  <1>8. PagesWith(n) = {}
    <2>1. Ref(n, "annotation").holds = "annotation" /\ Ref(n, "annotation").id = n
      BY DEF Ref
    <2> QED
      BY <1>2, <2>1 DEF Noted, OnlyPagesShow, PagesWith
  <1>9. AnnotationsShown'
    BY <1>1, <1>2, <1>3, <1>7, <1>8 DEF Noted, AnnotationsShown, Shown
  <1> QED
    BY <1>4, <1>5, <1>6, <1>9 DEF Noted
-----------------------------------------------------------------------------
(* A container that ends is not another one.                               *)
LEMMA AfterEndKeeps ==
    ASSUME Typed, NEW a \in Live, NEW release \in BOOLEAN, containers' = AfterEnd(a, release)
    PROVE  /\ containers' \in [Addresses -> Containers \cup {Free}]
           /\ \A b \in Addresses : containers'[b].kind \in Kinds =>
                 /\ b \in Live /\ containers'[b].kind = containers[b].kind
                 /\ containers'[b].resourcesID = containers[b].resourcesID
                 /\ containers'[b].serial = containers[b].serial
  <1>1. containers[a] \in Containers /\ a \in Addresses
    BY LiveTyped
  <1>2. CASE release
    <2>1. containers' = [containers EXCEPT ![a] = Free]
      BY <1>2 DEF AfterEnd
    <2>2. Free.kind \notin Kinds
      BY DEF Free, Kinds
    <2> QED
      BY <1>1, <2>1, <2>2 DEF Typed, Live
  <1>3. CASE ~release
    <2> DEFINE old == containers[a]
               new == [old EXCEPT !.due = FALSE]
    <2>1. containers' = [containers EXCEPT ![a] = new]
      BY <1>3 DEF AfterEnd
    <2>2. /\ new \in Containers /\ new.kind = old.kind /\ new.resourcesID = old.resourcesID
          /\ new.serial = old.serial
      BY <1>1 DEF Containers
    <2> HIDE DEF new
    <2> QED
      BY <1>1, <2>1, <2>2 DEF Typed, Live
  <1> QED
    BY <1>2, <1>3

LEMMA TasksLeftTyped ==
    ASSUME Typed, NEW k \in Kinds \X Addresses, NEW o
    PROVE  TasksLeft(k, o) \in [Kinds \X Addresses -> [first : Seq(Tasks), more : Seq(Tasks)]]
  <1> DEFINE lists == tasks[k]
  <1>1. lists \in [first : Seq(Tasks), more : Seq(Tasks)] /\ <<>> \in Seq(Tasks)
    BY DEF Typed
  <1>2. [lists EXCEPT !.first = <<>>] \in [first : Seq(Tasks), more : Seq(Tasks)]
    <2> HIDE DEF lists
    <2> QED
      BY <1>1
  <1>3. TasksLeft(k, o) \in {[tasks EXCEPT ![k].first = <<>>], [tasks EXCEPT ![k] = NoTasks]}
    BY DEF TasksLeft
  <1> QED
    BY <1>2, <1>3, NoTasksTyped DEF Typed

(* A page refers to the annotations that wait, when it takes them.         *)
LEMMA PageObjectTyped ==
    ASSUME Typed, NEW a \in Live, NEW noted \in BOOLEAN
    PROVE  /\ PageObject(a, noted) \in Objects /\ PageObject(a, noted).holds = "page"
           /\ \A ref \in PageObject(a, noted).refs :
                 ref.holds = "annotation" => noted /\ ref.id \in annotations
           /\ noted => \A id \in annotations :
                 Ref(id, "annotation") \in PageObject(a, noted).refs
  <1> DEFINE uses == containers[a].uses
             streams == {Ref(containers[a].contents[i], "content") :
                            i \in DOMAIN containers[a].contents}
             notes == {Ref(id, "annotation") : id \in IF noted THEN annotations ELSE {}}
  <1>1. containers[a] \in Containers
    BY LiveTyped
  <1>2. uses \in SUBSET Refs /\ Silent(uses)
    BY <1>1, ObjectsTyped, UsesAreSilent DEF Containers
  <1>3. streams \in SUBSET Refs /\ Silent(streams)
    <2>1. \A i \in DOMAIN containers[a].contents : containers[a].contents[i] \in Nat
      BY <1>1 DEF Containers
    <2>2. streams \in SUBSET Refs
      BY <2>1, ObjectsTyped
    <2>3. Silent(streams)
      BY DEF Silent, Ref
    <2> QED
      BY <2>2, <2>3
  <1>4. /\ notes \in SUBSET Refs
        /\ \A ref \in notes : noted /\ ref.id \in annotations
        /\ noted => \A id \in annotations : Ref(id, "annotation") \in notes
    <2>1. annotations \subseteq Nat
      BY DEF Typed
    <2>2. notes \in SUBSET Refs
      BY <2>1, ObjectsTyped
    <2> QED
      BY <2>2 DEF Ref
  <1>5. PageObject(a, noted) = Object("page", uses \cup streams \cup notes)
    BY DEF PageObject
  <1> HIDE DEF uses, streams, notes
  <1>6. uses \cup streams \cup notes \in SUBSET Refs
    BY <1>2, <1>3, <1>4
  <1>7. PageObject(a, noted) \in Objects
    BY <1>5, <1>6, ObjectsTyped
  <1>8. PageObject(a, noted).refs = uses \cup streams \cup notes /\ PageObject(a, noted).holds = "page"
    BY <1>5 DEF Object
  <1> QED
    BY <1>2, <1>3, <1>4, <1>7, <1>8 DEF Silent

LEMMA WritePageNoted ==
    ASSUME Noted, NEW a \in Addresses, NEW release \in BOOLEAN, WritePage(a, release)
    PROVE  Noted'
  <1> DEFINE n == Len(objects) + 1
             page == PageObject(a, TRUE)
  <1>1. /\ Typed /\ phase = "writing" /\ a \in Live /\ Key(a) \in Kinds \X Addresses
        /\ phase' = phase /\ shared' = shared /\ serial' = serial
        /\ containers' = AfterEnd(a, release) /\ annotations' = {}
    BY LiveTyped DEF Noted, WritePage, MayWritePage, AnnotationsLeft
  <1>2. PICK o : /\ objects' = AfterTasks(Append(objects, page), Key(a), o)
                 /\ tasks' = TasksLeft(Key(a), o)
    BY DEF WritePage, RunTasks
  <1>3. /\ page \in Objects /\ page.holds = "page"
        /\ \A ref \in page.refs : ref.holds = "annotation" => ref.id \in annotations
        /\ \A id \in annotations : Ref(id, "annotation") \in page.refs
    BY <1>1, PageObjectTyped
  <1> HIDE DEF page
  <1>4. /\ objects' \in Seq(Objects) /\ DOMAIN objects' = DOMAIN objects \cup {n}
        /\ n \notin DOMAIN objects
        /\ objects'[n].holds = "page" /\ objects'[n].refs = page.refs
        /\ \A id \in DOMAIN objects : /\ objects'[id].holds = objects[id].holds
                                     /\ objects'[id].refs = objects[id].refs
    <2> DEFINE os == Append(objects, page)
    <2>1. /\ os \in Seq(Objects) /\ Len(os) = n /\ DOMAIN os = DOMAIN objects \cup {n}
          /\ n \notin DOMAIN objects /\ os[n] = page
          /\ \A id \in DOMAIN objects : os[id] = objects[id]
      BY <1>1, <1>3 DEF Typed
    <2> HIDE DEF os, n
    <2>2. /\ objects' \in Seq(Objects) /\ Len(objects') = Len(os)
          /\ \A id \in DOMAIN os : objects'[id].holds = os[id].holds /\ objects'[id].refs = os[id].refs
      <3>1. objects' = AfterTasks(os, Key(a), o)
        BY <1>2 DEF os
      <3> QED
        BY <2>1, <3>1, AfterTasksKeeps
    <2>3. DOMAIN objects' = DOMAIN os
      BY <2>1, <2>2
    <2> QED
      BY <1>3, <2>1, <2>2, <2>3
  <1> HIDE DEF n
  <1>5. /\ containers' \in [Addresses -> Containers \cup {Free}]
        /\ \A b \in Addresses : containers'[b].kind \in Kinds =>
              /\ b \in Live /\ containers'[b].kind = containers[b].kind
              /\ containers'[b].resourcesID = containers[b].resourcesID
    BY <1>1, AfterEndKeeps
  <1>6. Typed'
    BY <1>1, <1>2, <1>4, <1>5, TasksLeftTyped DEF Typed
  <1>7. OnlyPagesShow'
    BY <1>1, <1>3, <1>4 DEF Noted, OnlyPagesShow, Typed
  <1>8. FormsHaveResources'
    BY <1>4, <1>5 DEF Noted, FormsHaveResources, Live
  <1>9. NothingKept'
    BY <1>1 DEF NothingKept
  <1>10. ASSUME NEW id \in DOMAIN objects
         PROVE  PagesWith(id)' = PagesWith(id) \cup (IF id \in annotations THEN {n} ELSE {})
    <2>1. Ref(id, "annotation").holds = "annotation" /\ Ref(id, "annotation").id = id
      BY DEF Ref
    <2>2. Ref(id, "annotation") \in page.refs <=> id \in annotations
      BY <1>3, <2>1
    <2> QED
      BY <1>4, <2>2 DEF PagesWith
  <1>11. AnnotationsShown'
    <2>1. SUFFICES ASSUME NEW id \in DOMAIN objects', objects'[id].holds = "annotation"
                   PROVE  \E p : PagesWith(id)' = {p}
      BY <1>1 DEF AnnotationsShown, Shown
    <2>2. id \in DOMAIN objects /\ objects[id].holds = "annotation"
      BY <1>4, <2>1
    <2>3. Shown(id)
      BY <1>1, <2>2 DEF Noted, AnnotationsShown
    <2> QED
      BY <1>10, <2>2, <2>3 DEF Shown
  <1> QED
    BY <1>6, <1>7, <1>8, <1>9, <1>11 DEF Noted

LEMMA WritePageFailsNoted ==
    ASSUME Noted, NEW a \in Addresses, NEW release \in BOOLEAN, WritePageFails(a, release)
    PROVE  Noted'
  <1> DEFINE page == PageObject(a, FALSE)
  <1>1. /\ Typed /\ phase = "writing" /\ a \in Live
        /\ phase' = phase /\ shared' = shared /\ serial' = serial /\ tasks' = tasks
        /\ containers' = AfterEnd(a, release) /\ annotations' = annotations
        /\ objects' = Append(objects, page)
    BY LiveTyped DEF Noted, WritePageFails, MayWritePage, AnnotationsLeft
  <1>2. page \in Objects /\ page.holds = "page" /\ Silent(page.refs)
    BY <1>1, PageObjectTyped DEF Silent
  <1> HIDE DEF page
  <1>3. /\ objects' \in Seq(Objects) /\ Len(objects') >= Len(objects)
        /\ \A id \in DOMAIN objects : id \in DOMAIN objects' /\ objects'[id] = objects[id]
        /\ \A id \in DOMAIN objects' \ DOMAIN objects : objects'[id] = page
    BY <1>1, <1>2 DEF Typed
  <1>4. annotations' \subseteq DOMAIN objects' /\ OnlyPagesShow' /\ AnnotationsShown'
    BY <1>1, <1>2, <1>3, QuietObjects
  <1>5. /\ containers' \in [Addresses -> Containers \cup {Free}]
        /\ \A b \in Addresses : containers'[b].kind \in Kinds =>
              /\ b \in Live /\ containers'[b].kind = containers[b].kind
              /\ containers'[b].resourcesID = containers[b].resourcesID
    BY <1>1, AfterEndKeeps
  <1>6. Typed' /\ NothingKept'
    BY <1>1, <1>3, <1>4, <1>5 DEF Typed, NothingKept
  <1>7. FormsHaveResources'
    BY <1>3, <1>5 DEF Noted, FormsHaveResources, Live
  <1> QED
    BY <1>4, <1>6, <1>7 DEF Noted

(* The resources of a form are written over the ID kept for them.          *)
LEMMA ResourcesKeep ==
    ASSUME Noted, NEW a \in Live, containers[a].kind = "form"
    PROVE  LET os == ResourcesWritten(FormEnded(objects, a), a) IN
           /\ os \in Seq(Objects) /\ Len(os) = Len(objects)
           /\ \A id \in DOMAIN objects :
                 /\ os[id].holds = objects[id].holds
                 /\ \/ os[id].refs = objects[id].refs
                    \/ objects[id].holds # "page" /\ Silent(os[id].refs)
  <1> DEFINE ended == FormEnded(objects, a)
             r == containers[a].resourcesID
             new == Object("resources", containers[a].uses)
             os == [ended EXCEPT ![r] = new]
  <1>1. Typed /\ containers[a] \in Containers
    BY LiveTyped DEF Noted
  <1>2. /\ ended \in Seq(Objects) /\ Len(ended) = Len(objects)
        /\ \A id \in DOMAIN objects : /\ ended[id].holds = objects[id].holds
                                     /\ ended[id].refs = objects[id].refs
    BY <1>1, StreamEndedKeeps DEF FormEnded, Typed
  <1>3. r \in DOMAIN objects /\ objects[r].holds = "resources"
    BY DEF Noted, FormsHaveResources
  <1>4. new \in Objects /\ new.holds = "resources" /\ Silent(new.refs)
    <2>1. containers[a].uses \in SUBSET Uses
      BY <1>1 DEF Containers
    <2>2. containers[a].uses \in SUBSET Refs /\ Silent(containers[a].uses)
      BY <2>1, ObjectsTyped, UsesAreSilent
    <2>3. new \in Objects
      BY <2>2, ObjectsTyped
    <2> QED
      BY <2>2, <2>3 DEF Object
  <1>5. ResourcesWritten(FormEnded(objects, a), a) = os
    BY DEF ResourcesWritten
  <1> HIDE DEF ended, r, new
  <1>6. /\ os \in Seq(Objects) /\ Len(os) = Len(ended)
        /\ os[r] = new /\ \A id \in DOMAIN objects \ {r} : os[id] = ended[id]
    BY <1>1, <1>2, <1>3, <1>4 DEF Typed
  <1> HIDE DEF os
  <1>7. \A id \in DOMAIN objects :
            /\ os[id].holds = objects[id].holds
            /\ \/ os[id].refs = objects[id].refs
               \/ objects[id].holds # "page" /\ Silent(os[id].refs)
    BY <1>2, <1>3, <1>4, <1>6
  <1> QED
    BY <1>2, <1>5, <1>6, <1>7

(* What the two ends of a form have in common.                             *)
LEMMA FormEndNoted ==
    ASSUME Noted, NEW a \in Live, containers[a].kind = "form", phase = "writing",
           NEW os \in Seq(Objects), Len(os) = Len(objects),
           \A id \in DOMAIN objects :
               /\ os[id].holds = objects[id].holds
               /\ \/ os[id].refs = objects[id].refs
                  \/ objects[id].holds # "page" /\ Silent(os[id].refs),
           objects' = os, containers' = AfterEnd(a, TRUE),
           tasks' \in [Kinds \X Addresses -> [first : Seq(Tasks), more : Seq(Tasks)]],
           shared' = shared, annotations' = annotations, serial' = serial, phase' = phase
    PROVE  Noted'
  <1>1. Typed /\ DOMAIN os = DOMAIN objects /\ Len(os) >= Len(objects)
    BY DEF Noted, Typed
  <1>2. annotations' \subseteq DOMAIN objects' /\ OnlyPagesShow' /\ AnnotationsShown'
    BY <1>1, QuietObjects
  <1>3. /\ containers' \in [Addresses -> Containers \cup {Free}]
        /\ \A b \in Addresses : containers'[b].kind \in Kinds =>
              /\ b \in Live /\ containers'[b].kind = containers[b].kind
              /\ containers'[b].resourcesID = containers[b].resourcesID
    BY <1>1, AfterEndKeeps
  <1>4. Typed' /\ NothingKept'
    BY <1>1, <1>2, <1>3 DEF Typed, NothingKept
  <1>5. FormsHaveResources'
    BY <1>1, <1>3, ZenonT(60) DEF Noted, FormsHaveResources, Live
  <1> QED
    BY <1>2, <1>4, <1>5 DEF Noted

LEMMA EndFormNoted ==
    ASSUME Noted, NEW a \in Addresses, EndFormXObjectAndRelease(a)
    PROVE  Noted'
  <1> DEFINE os == ResourcesWritten(FormEnded(objects, a), a)
  <1>1. /\ Typed /\ phase = "writing" /\ a \in Live /\ Key(a) \in Kinds \X Addresses
        /\ containers[a].kind = "form" /\ containers' = AfterEnd(a, TRUE)
        /\ shared' = shared /\ annotations' = annotations /\ serial' = serial /\ phase' = phase
    BY LiveTyped DEF Noted, EndFormXObjectAndRelease
  <1>2. PICK o : objects' = AfterTasks(os, Key(a), o) /\ tasks' = TasksLeft(Key(a), o)
    BY DEF EndFormXObjectAndRelease, RunTasks
  <1>3. /\ os \in Seq(Objects) /\ Len(os) = Len(objects)
        /\ \A id \in DOMAIN objects :
              /\ os[id].holds = objects[id].holds
              /\ \/ os[id].refs = objects[id].refs
                 \/ objects[id].holds # "page" /\ Silent(os[id].refs)
    BY <1>1, ResourcesKeep
  <1> HIDE DEF os
  <1>4. /\ objects' \in Seq(Objects) /\ Len(objects') = Len(objects)
        /\ \A id \in DOMAIN os : objects'[id].holds = os[id].holds /\ objects'[id].refs = os[id].refs
    BY <1>2, <1>3, AfterTasksKeeps
  <1>5. DOMAIN os = DOMAIN objects
    BY <1>1, <1>3 DEF Typed
  <1>6. \A id \in DOMAIN objects :
            /\ objects'[id].holds = objects[id].holds
            /\ \/ objects'[id].refs = objects[id].refs
               \/ objects[id].holds # "page" /\ Silent(objects'[id].refs)
    BY <1>3, <1>4, <1>5
  <1>7. tasks' \in [Kinds \X Addresses -> [first : Seq(Tasks), more : Seq(Tasks)]]
    BY <1>1, <1>2, TasksLeftTyped
  <1> QED
    BY <1>1, <1>4, <1>6, <1>7, FormEndNoted

LEMMA EndFormFailsNoted ==
    ASSUME Noted, NEW a \in Addresses, EndFormXObjectFails(a)
    PROVE  Noted'
  <1> DEFINE os == ResourcesWritten(FormEnded(objects, a), a)
  <1>1. /\ Typed /\ phase = "writing" /\ a \in Live
        /\ containers[a].kind = "form" /\ containers' = AfterEnd(a, TRUE)
        /\ shared' = shared /\ annotations' = annotations /\ serial' = serial /\ phase' = phase
        /\ tasks' = tasks /\ objects' = os
    BY DEF Noted, EndFormXObjectFails
  <1>2. /\ os \in Seq(Objects) /\ Len(os) = Len(objects)
        /\ \A id \in DOMAIN objects :
              /\ os[id].holds = objects[id].holds
              /\ \/ os[id].refs = objects[id].refs
                 \/ objects[id].holds # "page" /\ Silent(os[id].refs)
    BY <1>1, ResourcesKeep
  <1> HIDE DEF os
  <1>3. tasks' \in [Kinds \X Addresses -> [first : Seq(Tasks), more : Seq(Tasks)]]
    BY <1>1 DEF Typed
  <1> QED
    BY <1>1, <1>2, <1>3, FormEndNoted

LEMMA EndPDFNoted ==
    ASSUME Noted, EndPDF
    PROVE  Noted'
  <1> USE DEF EndPDF
  <1>1. Typed /\ phase' \in {"finished", "broken"} /\ annotations' = {}
    BY DEF Noted, AnnotationsLeft
  <1>2. shared' \in [Resources -> Nat]
    BY <1>1 DEF Typed, AfterCleanup
  <1>3. tasks' \in [Kinds \X Addresses -> [first : Seq(Tasks), more : Seq(Tasks)]]
    BY NoTasksTyped
  <1>4. Typed'
    BY <1>1, <1>2, <1>3 DEF Typed
  <1>5. OnlyPagesShow' /\ FormsHaveResources'
    BY DEF Noted, OnlyPagesShow, FormsHaveResources, Live
  <1>6. AnnotationsShown' /\ NothingKept'
    BY <1>1 DEF AnnotationsShown, NothingKept
  <1> QED
    BY <1>4, <1>5, <1>6 DEF Noted

LEMMA StartPDFNoted ==
    ASSUME Noted, StartPDF
    PROVE  Noted'
  <1> USE DEF StartPDF
  <1>1. Typed /\ phase # "writing" /\ annotations = {}
    BY DEF Noted, NothingKept
  <1>2. Typed'
    BY <1>1 DEF Typed
  <1>3. OnlyPagesShow' /\ AnnotationsShown' /\ NothingKept'
    BY DEF OnlyPagesShow, AnnotationsShown, NothingKept
  <1>4. FormsHaveResources'
    BY DEF FormsHaveResources, Live, Free, Kinds
  <1> QED
    BY <1>2, <1>3, <1>4 DEF Noted

(* Every step keeps annotations where they should be.                      *)
LEMMA NextNoted == Noted /\ [Next]_vars => Noted'
  <1> SUFFICES ASSUME Noted, [Next]_vars PROVE Noted'
    OBVIOUS
  <1>1. ASSUME NEW a \in Addresses, NewPage(a) PROVE Noted'
    BY <1>1, NewPageNoted
  <1>2. ASSUME NEW a \in Addresses, StartFormXObject(a) PROVE Noted'
    BY <1>2, StartFormNoted
  <1>3. ASSUME NEW a \in Addresses, StartFormXObjectFails(a) PROVE Noted'
    BY <1>3, StartFormFailsNoted
  <1>4. ASSUME NEW a \in Addresses, NEW r \in Resources, Draw(a, r) PROVE Noted'
    BY <1>4, DrawNoted
  <1>5. ASSUME NEW a \in Addresses, PausePageContentContext(a) PROVE Noted'
    BY <1>5, PauseNoted
  <1>6. ASSUME NEW a \in Addresses, NEW release \in BOOLEAN, WritePage(a, release) PROVE Noted'
    BY <1>6, WritePageNoted
  <1>7. ASSUME NEW a \in Addresses, NEW release \in BOOLEAN, WritePageFails(a, release) PROVE Noted'
    BY <1>7, WritePageFailsNoted
  <1>8. ASSUME NEW a \in Addresses, EndFormXObjectAndRelease(a) PROVE Noted'
    BY <1>8, EndFormNoted
  <1>9. ASSUME NEW a \in Addresses, EndFormXObjectFails(a) PROVE Noted'
    BY <1>9, EndFormFailsNoted
  <1>10. CASE UNCHANGED vars
    <2>1. /\ objects' = objects /\ containers' = containers /\ tasks' = tasks
          /\ shared' = shared /\ annotations' = annotations /\ serial' = serial
          /\ phase' = phase
      BY <1>10 DEF vars
    <2>2. Typed'
      BY <2>1 DEF Noted, Typed
    <2>3. OnlyPagesShow' /\ FormsHaveResources' /\ NothingKept'
      BY <2>1 DEF Noted, OnlyPagesShow, FormsHaveResources, Live, NothingKept
    <2>4. AnnotationsShown'
      BY <2>1 DEF Noted, AnnotationsShown, Shown, PagesWith
    <2> QED
      BY <2>2, <2>3, <2>4 DEF Noted
  <1> QED
    BY <1>1, <1>2, <1>3, <1>4, <1>5, <1>6, <1>7, <1>8, <1>9, <1>10,
       AttachNoted, EndPDFNoted, StartPDFNoted, ZenonT(60) DEF Next
-----------------------------------------------------------------------------
(* The tasks of the two lists of a container.                              *)
LEMMA NoTasksAreNone == TasksOf(NoTasks) = {}
  BY DEF TasksOf, NoTasks

LEMMA JoinedTasks ==
    ASSUME NEW lists \in [first : Seq(Tasks), more : Seq(Tasks)]
    PROVE  /\ \A i \in DOMAIN (lists.first \o lists.more) :
                  (lists.first \o lists.more)[i] \in TasksOf(lists)
           /\ \A task \in TasksOf(lists) :
                  task \in Tasks /\ task.owner \in Owners(lists.first \o lists.more)
  <1> DEFINE f == lists.first
             m == lists.more
             w == f \o m
  <1>1. f \in Seq(Tasks) /\ m \in Seq(Tasks)
    OBVIOUS
  <1>2. TasksOf(lists) = {f[i] : i \in DOMAIN f} \cup {m[i] : i \in DOMAIN m}
    BY DEF TasksOf
  <1> HIDE DEF f, m
  <1>3. ASSUME NEW i \in DOMAIN w PROVE w[i] \in TasksOf(lists)
    <2>1. \/ i \in DOMAIN f /\ w[i] = f[i]
          \/ i - Len(f) \in DOMAIN m /\ w[i] = m[i - Len(f)]
      BY <1>1, <1>3
    <2> QED
      BY <1>2, <2>1
  <1>4. ASSUME NEW task \in TasksOf(lists)
        PROVE  task \in Tasks /\ task.owner \in Owners(w)
    <2>1. CASE \E i \in DOMAIN f : task = f[i]
      <3>1. PICK i \in DOMAIN f : task = f[i]
        BY <2>1
      <3>2. i \in DOMAIN w /\ w[i] = f[i] /\ f[i] \in Tasks
        BY <1>1, <3>1
      <3> HIDE DEF w
      <3> QED
        BY <3>1, <3>2 DEF Owners
    <2>2. CASE \E i \in DOMAIN m : task = m[i]
      <3>1. PICK i \in DOMAIN m : task = m[i]
        BY <2>2
      <3>2. Len(f) + i \in DOMAIN w /\ w[Len(f) + i] = m[i] /\ m[i] \in Tasks
        BY <1>1, <3>1
      <3> DEFINE j == Len(f) + i
      <3>3. j \in DOMAIN w /\ w[j] = task /\ task \in Tasks
        BY <3>1, <3>2
      <3> HIDE DEF w, j
      <3> QED
        BY <3>3 DEF Owners
    <2> QED
      BY <1>2, <2>1, <2>2
  <1> QED
    BY <1>3, <1>4 DEF f, m

(* Tasks that are left as they are, or deleted, under containers that stay *)
(* what they are or are released, with what is left of their tasks noted.  *)
LEMMA TasksStayOwned ==
    ASSUME TasksAreOwned, forsaken \subseteq forsaken',
           \A k \in Kinds \X Addresses : TasksOf(tasks'[k]) \subseteq TasksOf(tasks[k]),
           \A b \in Live :
               \/ /\ containers'[b].kind = containers[b].kind
                  /\ containers'[b].serial = containers[b].serial
               \/ \A task \in TasksOf(tasks'[Key(b)]) : task.owner \in forsaken'
    PROVE  TasksAreOwned'
  <1> SUFFICES ASSUME NEW kind \in Kinds, NEW b \in Addresses,
                      NEW task \in TasksOf(tasks'[<<kind, b>>]), task.owner \notin forsaken'
               PROVE  /\ containers'[b].kind \in Kinds /\ containers'[b].kind = kind
                      /\ containers'[b].serial = task.owner
    <2>1. TasksAreOwned' = \A kind \in Kinds, b \in Addresses :
              \A task \in TasksOf(tasks'[<<kind, b>>]) :
                  \/ task.owner \in forsaken'
                  \/ /\ b \in Addresses /\ containers'[b].kind \in Kinds
                     /\ containers'[b].kind = kind /\ containers'[b].serial = task.owner
      BY DEF TasksAreOwned, OfContainer, Live, TasksOf
    <2> QED
      BY <2>1
  <1>1. <<kind, b>> \in Kinds \X Addresses /\ task \in TasksOf(tasks[<<kind, b>>])
    OBVIOUS
  <1>2. OfContainer(task, kind, b)
    BY <1>1 DEF TasksAreOwned
  <1>3. b \in Live /\ containers[b].kind = kind /\ Key(b) = <<kind, b>>
    BY <1>2 DEF OfContainer, Key
  <1> QED
    BY <1>2, <1>3 DEF OfContainer

(* What a container's end does to its tasks.                               *)
LEMMA TasksLeftAre ==
    ASSUME Typed, NEW k \in Kinds \X Addresses, NEW o, tasks' = TasksLeft(k, o)
    PROVE  \A l \in Kinds \X Addresses :
               tasks'[l] \in {tasks[l], [tasks[l] EXCEPT !.first = <<>>], NoTasks}
  <1>1. \/ tasks' = [tasks EXCEPT ![k].first = <<>>]
        \/ tasks' = [tasks EXCEPT ![k] = NoTasks]
    BY DEF TasksLeft
  <1> QED
    BY <1>1 DEF Typed

LEMMA FewerTasks ==
    ASSUME Typed, NEW l \in Kinds \X Addresses,
           tasks'[l] \in {tasks[l], [tasks[l] EXCEPT !.first = <<>>], NoTasks}
    PROVE  /\ TasksOf(tasks'[l]) \subseteq TasksOf(tasks[l])
           /\ tasks'[l] \in [first : Seq(Tasks), more : Seq(Tasks)]
  <1> DEFINE old == tasks[l]
             new == tasks'[l]
  <1>1. /\ old \in [first : Seq(Tasks), more : Seq(Tasks)]
        /\ new \in {old, [old EXCEPT !.first = <<>>], NoTasks}
    BY DEF Typed
  <1> HIDE DEF old, new
  <1>2. /\ new \in [first : Seq(Tasks), more : Seq(Tasks)]
        /\ new.first \in {old.first, <<>>} /\ new.more \in {old.more, <<>>}
    <2>1. CASE new = old
      BY <1>1, <2>1
    <2>2. CASE new = [old EXCEPT !.first = <<>>]
      <3>1. <<>> \in Seq(Tasks)
        OBVIOUS
      <3>2. new.first = <<>> /\ new.more = old.more
        BY <1>1, <2>2
      <3>3. new \in [first : Seq(Tasks), more : Seq(Tasks)]
        BY <1>1, <2>2, <3>1
      <3> QED
        BY <3>2, <3>3
    <2>3. CASE new = NoTasks
      BY <2>3, NoTasksTyped DEF NoTasks
    <2> QED
      BY <1>1, <2>1, <2>2, <2>3
  <1>3. TasksOf(new) \subseteq TasksOf(old)
    BY <1>2 DEF TasksOf
  <1> QED
    BY <1>2, <1>3 DEF old, new

(* The tasks that are run are of the container, or were left behind.       *)
LEMMA WaitingIsOwned ==
    ASSUME Typed, TasksAreOwned, NEW a \in Live, NEW o \in Outcomes(Key(a))
    PROVE  Owners(Begun(Key(a), o)) \subseteq {containers[a].serial} \cup forsaken
  <1> DEFINE k == Key(a)
             w == tasks[k].first \o tasks[k].more
             end == IF o.how = "part" THEN o.n + 1 ELSE o.n
  <1>1. k \in Kinds \X Addresses /\ tasks[k] \in [first : Seq(Tasks), more : Seq(Tasks)]
    BY LiveTyped DEF Typed
  <1>2. Begun(k, o) = SubSeq(w, 1, end)
    BY DEF Begun, Waiting
  <1>3. w \in Seq(Tasks)
    BY <1>1
  <1>4. end \in 0 .. Len(w)
    <2>1. o \in {[n |-> n, how |-> how] : n \in 0 .. Len(w) - 1, how \in {"owed", "part"}}
               \cup {[n |-> Len(w), how |-> "done"]}
      <3>1. Waiting(k) = w /\ o \in Outcomes(k)
        BY DEF Waiting
      <3> HIDE DEF w, k
      <3> QED
        BY <3>1 DEF Outcomes
    <2> HIDE DEF w
    <2> QED
      BY <1>3, <2>1
  <1>5. \A i \in DOMAIN w : w[i] \in TasksOf(tasks[k])
    BY <1>1, JoinedTasks
  <1>6. \A task \in TasksOf(tasks[k]) : task.owner \in forsaken \/ task.owner = containers[a].serial
    <2>1. k = <<containers[a].kind, a>> /\ containers[a].kind \in Kinds /\ a \in Addresses
      BY DEF Key, Live
    <2> QED
      BY <2>1 DEF TasksAreOwned, OfContainer
  <1> HIDE DEF k, w, end
  <1>7. \A i \in DOMAIN SubSeq(w, 1, end) : i \in DOMAIN w /\ SubSeq(w, 1, end)[i] = w[i]
    BY <1>3, <1>4
  <1>8. \A i \in DOMAIN SubSeq(w, 1, end) :
            SubSeq(w, 1, end)[i].owner \in {containers[a].serial} \cup forsaken
    BY <1>5, <1>6, <1>7
  <1> QED
    BY <1>2, <1>8 DEF Owners, k

(* The end of a container, with its tasks or without: what is left of them *)
(* when it is released is noted.                                           *)
LEMMA EndOwned ==
    ASSUME Noted, Owned, NEW a \in Live, NEW release \in BOOLEAN,
           containers' = AfterEnd(a, release), forsaken' = LeftBehind(a, release, tasks'),
           \/ tasks' = tasks /\ errands' = errands
           \/ \E o \in Outcomes(Key(a)) :
                 /\ tasks' = TasksLeft(Key(a), o)
                 /\ errands' = errands \cup (Owners(Begun(Key(a), o)) \X {containers[a].serial})
    PROVE  Owned'
  <1> DEFINE k == Key(a)
  <1>1. /\ Typed /\ a \in Addresses /\ containers[a] \in Containers /\ k \in Kinds \X Addresses
        /\ TasksAreOwned /\ ErrandsAreOwn /\ forsaken \subseteq Nat
    BY LiveTyped DEF Noted, Owned
  <1>2. \A l \in Kinds \X Addresses :
            tasks'[l] \in {tasks[l], [tasks[l] EXCEPT !.first = <<>>], NoTasks}
    BY <1>1, TasksLeftAre
  <1>3. \A l \in Kinds \X Addresses :
            /\ TasksOf(tasks'[l]) \subseteq TasksOf(tasks[l])
            /\ tasks'[l] \in [first : Seq(Tasks), more : Seq(Tasks)]
    BY <1>1, <1>2, FewerTasks
  <1>4. \A task \in TasksOf(tasks'[k]) :
            task \in Tasks /\ task.owner \in Owners(tasks'[k].first \o tasks'[k].more)
    BY <1>1, <1>3, JoinedTasks
  <1>5. forsaken' = IF release THEN forsaken \cup Owners(tasks'[k].first \o tasks'[k].more) ELSE forsaken
    BY DEF LeftBehind
  <1>6. Owners(tasks'[k].first \o tasks'[k].more) \subseteq Nat
    <2> DEFINE lists == tasks'[k]
               w == lists.first \o lists.more
    <2>1. lists \in [first : Seq(Tasks), more : Seq(Tasks)]
      BY <1>1, <1>3
    <2> HIDE DEF lists
    <2>2. w \in Seq(Tasks)
      BY <2>1
    <2> HIDE DEF w
    <2>3. \A i \in DOMAIN w : w[i].owner \in Nat
      <3>1. \A i \in DOMAIN w : w[i] \in Tasks
        BY <2>2
      <3>2. \A task \in Tasks : task.owner \in Nat
        BY DEF Tasks
      <3> QED
        BY <3>1, <3>2
    <2> QED
      BY <2>3 DEF Owners, w, lists
  <1>7. \A b \in Live :
            \/ /\ containers'[b].kind = containers[b].kind
               /\ containers'[b].serial = containers[b].serial
            \/ \A task \in TasksOf(tasks'[Key(b)]) : task.owner \in forsaken'
    <2> SUFFICES ASSUME NEW b \in Live
                 PROVE  \/ /\ containers'[b].kind = containers[b].kind
                           /\ containers'[b].serial = containers[b].serial
                        \/ \A task \in TasksOf(tasks'[Key(b)]) : task.owner \in forsaken'
      OBVIOUS
    <2>1. CASE b # a
      <3>1. containers'[b] = containers[b]
        BY <1>1, <2>1 DEF AfterEnd, Typed, Live
      <3> QED
        BY <3>1
    <2>2. CASE b = a /\ release
      BY <1>4, <1>5, <2>2
    <2>3. CASE b = a /\ ~release
      <3>1. containers'[a] = [containers[a] EXCEPT !.due = FALSE]
        BY <1>1, <2>3 DEF AfterEnd, Typed
      <3> QED
        BY <1>1, <2>3, <3>1 DEF Containers
    <2> QED
      BY <2>1, <2>2, <2>3
  <1>8. TasksAreOwned'
    <2>1. forsaken \subseteq forsaken'
      BY <1>5
    <2> QED
      BY <1>1, <1>3, <1>7, <2>1, TasksStayOwned
  <1>9. ErrandsAreOwn'
    <2>1. ASSUME NEW o \in Outcomes(Key(a)),
                 NEW errand \in Owners(Begun(Key(a), o)) \X {containers[a].serial}
          PROVE  errand[1] = errand[2] \/ errand[1] \in forsaken
      <3>1. Owners(Begun(Key(a), o)) \subseteq {containers[a].serial} \cup forsaken
        BY <1>1, WaitingIsOwned
      <3> QED
        BY <3>1
    <2>2. \A errand \in errands' : errand \in errands \/ errand[1] = errand[2] \/ errand[1] \in forsaken
      BY <2>1
    <2> QED
      BY <1>1, <1>5, <2>2 DEF ErrandsAreOwn
  <1> QED
    BY <1>1, <1>5, <1>6, <1>8, <1>9 DEF Owned

(* A container at an address that is free.                                 *)
LEMMA NewOwned ==
    ASSUME Noted, Owned, NEW a \in Addresses, containers[a] = Free, NEW new,
           containers' = [containers EXCEPT ![a] = new], tasks' = tasks, errands' = errands,
           forsaken' = forsaken
    PROVE  Owned'
  <1>1. a \notin Live
    BY DEF Live, Free, Kinds
  <1>2. \A b \in Live : containers'[b] = containers[b]
    BY <1>1 DEF Noted, Typed, Live
  <1>3. TasksAreOwned'
    BY <1>2, TasksStayOwned DEF Owned
  <1> QED
    BY <1>3 DEF Owned, ErrandsAreOwn

(* Steps that leave what containers are, and their tasks.                  *)
LEMMA SameOwned ==
    ASSUME Owned, \A b \in Live : /\ containers'[b].kind = containers[b].kind
                                  /\ containers'[b].serial = containers[b].serial,
           tasks' = tasks, errands' = errands, forsaken' = forsaken
    PROVE  Owned'
  <1>1. TasksAreOwned'
    BY TasksStayOwned DEF Owned
  <1> QED
    BY <1>1 DEF Owned, ErrandsAreOwn

LEMMA DrawOwned ==
    ASSUME Noted, Owned, NEW a \in Addresses, NEW r \in Resources, Draw(a, r)
    PROVE  Owned'
  <1> DEFINE c == containers[a]
             lists == tasks[Key(a)]
  <1>1. /\ Typed /\ a \in Live /\ c \in Containers /\ Key(a) \in Kinds \X Addresses
        /\ errands' = errands /\ forsaken' = forsaken
    BY LiveTyped DEF Noted, Draw, MayDraw
  <1>2. PICK use, stream : containers' = Drawn(a, use, stream)
    BY DEF Draw
  <1>3. /\ containers'[a].kind = c.kind /\ containers'[a].serial = c.serial
        /\ \A b \in Addresses \ {a} : containers'[b] = containers[b]
    <2> DEFINE new == [c EXCEPT !.uses = @ \cup {use},
                        !.contents = IF c.streaming THEN @ ELSE Append(@, stream),
                        !.streaming = TRUE, !.due = TRUE]
    <2>1. containers' = [containers EXCEPT ![a] = new]
      BY <1>1, <1>2 DEF Drawn, Typed, Containers
    <2>2. new.kind = c.kind /\ new.serial = c.serial
      BY <1>1 DEF Containers
    <2> HIDE DEF new
    <2> QED
      BY <1>1, <2>1, <2>2 DEF Typed
  <1>4. PICK task : /\ task.owner = c.serial
                    /\ tasks' \in {tasks, [tasks EXCEPT ![Key(a)].first = Append(@, task)],
                                   [tasks EXCEPT ![Key(a)].more = Append(@, task)]}
    <2>1. \A id : Task(r, id, a).owner = c.serial
      BY DEF Task
    <2>2. \E id : tasks' \in {tasks, [tasks EXCEPT ![Key(a)].first = Append(@, Task(r, id, a))],
                              [tasks EXCEPT ![Key(a)].more = Append(@, Task(r, id, a))]}
      BY DEF Draw, Scheduled
    <2> QED
      BY <2>1, <2>2
  <1>5. /\ TasksOf(tasks'[Key(a)]) \subseteq TasksOf(lists) \cup {task}
        /\ \A k \in Kinds \X Addresses : k # Key(a) => tasks'[k] = tasks[k]
    <2>1. /\ lists \in [first : Seq(Tasks), more : Seq(Tasks)]
          /\ \A k \in Kinds \X Addresses : k # Key(a) => tasks'[k] = tasks[k]
          /\ tasks'[Key(a)] \in {lists, [lists EXCEPT !.first = Append(@, task)],
                                 [lists EXCEPT !.more = Append(@, task)]}
      BY <1>1, <1>4 DEF Typed
    <2> DEFINE new == tasks'[Key(a)]
    <2> HIDE DEF lists, new
    <2>2. /\ lists.first \in Seq(Tasks) /\ lists.more \in Seq(Tasks)
          /\ new.first \in {lists.first, Append(lists.first, task)}
          /\ new.more \in {lists.more, Append(lists.more, task)}
      BY <2>1 DEF new
    <2>3. \A list \in Seq(Tasks) : \A i \in DOMAIN Append(list, task) :
              \/ i \in DOMAIN list /\ Append(list, task)[i] = list[i]
              \/ Append(list, task)[i] = task
      OBVIOUS
    <2>4. TasksOf(new) \subseteq TasksOf(lists) \cup {task}
      <3>1. /\ \A i \in DOMAIN new.first :
                   new.first[i] \in {lists.first[j] : j \in DOMAIN lists.first} \cup {task}
            /\ \A i \in DOMAIN new.more :
                   new.more[i] \in {lists.more[j] : j \in DOMAIN lists.more} \cup {task}
        BY <2>2, <2>3
      <3> QED
        BY <3>1 DEF TasksOf
    <2> QED
      BY <2>1, <2>4 DEF new
  <1>6. TasksAreOwned'
    <2> SUFFICES ASSUME NEW kind \in Kinds, NEW b \in Addresses,
                        NEW t \in TasksOf(tasks'[<<kind, b>>]), t.owner \notin forsaken
                 PROVE  /\ containers'[b].kind \in Kinds /\ containers'[b].kind = kind
                        /\ containers'[b].serial = t.owner
      <3>1. TasksAreOwned' = \A kind \in Kinds, b \in Addresses :
                \A t \in TasksOf(tasks'[<<kind, b>>]) :
                    \/ t.owner \in forsaken'
                    \/ /\ b \in Addresses /\ containers'[b].kind \in Kinds
                       /\ containers'[b].kind = kind /\ containers'[b].serial = t.owner
        BY DEF TasksAreOwned, OfContainer, Live, TasksOf
      <3> QED
        BY <1>1, <3>1
    <2>1. <<kind, b>> \in Kinds \X Addresses /\ Key(a) = <<c.kind, a>> /\ c.kind \in Kinds
      BY <1>1 DEF Key, Containers
    <2>2. CASE t \in TasksOf(tasks[<<kind, b>>])
      <3>1. OfContainer(t, kind, b)
        BY <2>2 DEF Owned, TasksAreOwned
      <3> QED
        BY <1>3, <3>1 DEF OfContainer, Live
    <2>3. CASE t \notin TasksOf(tasks[<<kind, b>>])
      <3>1. <<kind, b>> = Key(a) /\ t = task
        BY <1>5, <2>1, <2>3
      <3>2. kind = c.kind /\ b = a
        BY <2>1, <3>1
      <3> QED
        BY <1>3, <1>4, <2>1, <3>1, <3>2
    <2> QED
      BY <2>2, <2>3
  <1> QED
    BY <1>1, <1>6 DEF Owned, ErrandsAreOwn

LEMMA InitOwned == Init => Owned
  <1> SUFFICES ASSUME Init PROVE Owned
    OBVIOUS
  <1>1. \A k \in Kinds \X Addresses : TasksOf(tasks[k]) = {}
    BY NoTasksAreNone DEF Init
  <1> QED
    BY <1>1 DEF Init, Owned, TasksAreOwned, ErrandsAreOwn

(* Every step keeps tasks where they should be.                            *)
LEMMA NextOwned ==
    ASSUME Noted, Owned, [Next]_vars
    PROVE  Owned'
  <1>1. ASSUME NEW a \in Addresses, NewPage(a) PROVE Owned'
    BY <1>1, NewOwned DEF NewPage, MayAllocate
  <1>2. ASSUME NEW a \in Addresses, StartFormXObject(a) PROVE Owned'
    <2>1. PICK new : containers' = [containers EXCEPT ![a] = new]
      BY <1>2 DEF StartFormXObject
    <2> QED
      BY <1>2, <2>1, NewOwned DEF StartFormXObject, MayAllocate
  <1>3. ASSUME NEW a \in Addresses, StartFormXObjectFails(a) PROVE Owned'
    BY <1>3, SameOwned DEF StartFormXObjectFails
  <1>4. ASSUME NEW a \in Addresses, NEW r \in Resources, Draw(a, r) PROVE Owned'
    BY <1>4, DrawOwned
  <1>5. ASSUME NEW a \in Addresses, PausePageContentContext(a) PROVE Owned'
    <2> DEFINE new == [containers[a] EXCEPT !.streaming = FALSE]
    <2>1. /\ a \in Live /\ containers[a] \in Containers /\ tasks' = tasks /\ errands' = errands
          /\ forsaken' = forsaken /\ containers' = [containers EXCEPT ![a] = new]
      BY <1>5, LiveTyped DEF PausePageContentContext, Noted
    <2>2. new.kind = containers[a].kind /\ new.serial = containers[a].serial
      BY <2>1 DEF Containers
    <2> HIDE DEF new
    <2>3. \A b \in Addresses : containers'[b] = IF b = a THEN new ELSE containers[b]
      BY <2>1 DEF Noted, Typed
    <2> QED
      BY <2>1, <2>2, <2>3, SameOwned DEF Live
  <1>6. ASSUME NEW a \in Addresses, NEW release \in BOOLEAN, WritePage(a, release) PROVE Owned'
    BY <1>6, EndOwned DEF WritePage, MayWritePage, RunTasks
  <1>7. ASSUME NEW a \in Addresses, NEW release \in BOOLEAN, WritePageFails(a, release) PROVE Owned'
    BY <1>7, EndOwned DEF WritePageFails, MayWritePage
  <1>8. ASSUME NEW a \in Addresses, EndFormXObjectAndRelease(a) PROVE Owned'
    BY <1>8, EndOwned DEF EndFormXObjectAndRelease, RunTasks
  <1>9. ASSUME NEW a \in Addresses, EndFormXObjectFails(a) PROVE Owned'
    BY <1>9, EndOwned DEF EndFormXObjectFails
  <1>10. CASE AttachURLLinktoCurrentPage
    BY <1>10, SameOwned DEF AttachURLLinktoCurrentPage
  <1>11. CASE EndPDF
    <2>1. errands' = errands /\ forsaken' = forsaken /\ containers' = containers
      BY <1>11 DEF EndPDF
    <2>2. \A k \in Kinds \X Addresses : tasks'[k] = NoTasks
      BY <1>11 DEF EndPDF
    <2>3. TasksAreOwned'
      BY <2>1, <2>2, NoTasksAreNone, TasksStayOwned DEF Owned
    <2> QED
      BY <2>1, <2>3 DEF Owned, ErrandsAreOwn
  <1>12. CASE StartPDF
    <2>1. /\ tasks' = tasks /\ errands' = {} /\ forsaken' = {}
          /\ \A k \in Kinds \X Addresses : tasks[k] = NoTasks
      BY <1>12 DEF StartPDF, Noted, NothingKept
    <2>2. \A k \in Kinds \X Addresses : TasksOf(tasks'[k]) = {}
      BY <2>1, NoTasksAreNone
    <2>3. TasksAreOwned' = \A kind \in Kinds, b \in Addresses :
              \A task \in TasksOf(tasks'[<<kind, b>>]) :
                  task.owner \in forsaken' \/ OfContainer(task, kind, b)'
      BY DEF TasksAreOwned, TasksOf
    <2>4. TasksAreOwned'
      BY <2>2, <2>3
    <2> QED
      BY <2>1, <2>4 DEF Owned, ErrandsAreOwn
  <1>13. CASE UNCHANGED vars
    BY <1>13, SameOwned DEF vars
  <1> QED
    BY <1>1, <1>2, <1>3, <1>4, <1>5, <1>6, <1>7, <1>8, <1>9, <1>10, <1>11, <1>12, <1>13 DEF Next
-----------------------------------------------------------------------------
(* The invariant of annotations holds in every state.                      *)
LEMMA NotedHolds == Spec => []Noted
  BY InitNoted, NextNoted, PTL DEF Spec

LEMMA NotedOnOnePage == Noted => AnnotationsOnOnePage
  <1> SUFFICES ASSUME Noted, phase = "writing", NEW id \in DOMAIN objects,
                      objects[id].holds = "annotation"
               PROVE  Cardinality(PagesWith(id)) = IF id \in annotations THEN 0 ELSE 1
    BY DEF AnnotationsOnOnePage
  <1>1. Shown(id)
    BY DEF Noted, AnnotationsShown
  <1> QED
    BY <1>1, FS_EmptySet, FS_Singleton DEF Shown

(* An annotation of AttachURLLinktoCurrentPage is on one page, or waits in *)
(* mAnnotations and is on none: whatever calls failed, for any images,     *)
(* pages and forms.                                                        *)
THEOREM AnnotationsAreOnOnePage == Spec => []AnnotationsOnOnePage
  BY NotedHolds, NotedOnOnePage, PTL

(* The invariants of annotations and of tasks hold in every state.         *)
LEMMA OwnedHolds == Spec => [](Noted /\ Owned)
  <1>1. (Noted /\ Owned) /\ [Next]_vars => (Noted /\ Owned)'
    BY NextNoted, NextOwned
  <1> QED
    BY <1>1, InitNoted, InitOwned, PTL DEF Spec

(* A container whose tasks were all run leaves none behind.                *)
LEMMA DoneLeavesNone ==
    ASSUME Typed, NEW a \in Live, NEW release \in BOOLEAN, NEW o \in Outcomes(Key(a)), o.how = "done"
    PROVE  LeftBehind(a, release, TasksLeft(Key(a), o)) = forsaken
  <1> DEFINE k == Key(a)
             f == tasks[k].first
             m == tasks[k].more
  <1>1. k \in Kinds \X Addresses /\ f \in Seq(Tasks) /\ m \in Seq(Tasks)
    BY LiveTyped DEF Typed
  <1>2. o.n = Len(Waiting(k))
    BY DEF Outcomes
  <1>3. ~(o.n < Len(f))
    <2>1. Waiting(k) = f \o m
      BY DEF Waiting
    <2> HIDE DEF k, f, m
    <2> QED
      BY <1>1, <1>2, <2>1
  <1>4. TasksLeft(k, o) = [tasks EXCEPT ![k] = NoTasks]
    BY <1>3 DEF TasksLeft
  <1>5. TasksLeft(k, o)[k].first = <<>> /\ TasksLeft(k, o)[k].more = <<>>
    <2>1. k \in DOMAIN tasks
      BY <1>1 DEF Typed
    <2> HIDE DEF k
    <2> QED
      BY <1>4, <2>1 DEF NoTasks
  <1>6. Owners(TasksLeft(k, o)[k].first \o TasksLeft(k, o)[k].more) = {}
    <2>1. <<>> \o <<>> = <<>> /\ DOMAIN <<>> = {}
      OBVIOUS
    <2> QED
      BY <1>5, <2>1 DEF Owners
  <1> QED
    BY <1>6 DEF LeftBehind

(* Tasks are left behind by failures only.                                 *)
LeftByFailures == forsaken # {} => failed

LEMMA NextLeft ==
    ASSUME Noted, LeftByFailures, [Next]_vars
    PROVE  LeftByFailures'
  <1>0. Typed
    BY DEF Noted
  <1>1. ASSUME NEW a \in Addresses, NewPage(a) \/ PausePageContentContext(a)
        PROVE  LeftByFailures'
    BY <1>1 DEF NewPage, PausePageContentContext, Return, LeftByFailures
  <1>2. ASSUME NEW a \in Addresses, StartFormXObject(a) \/ StartFormXObjectFails(a)
        PROVE  LeftByFailures'
    BY <1>2 DEF StartFormXObject, StartFormXObjectFails, Return, LeftByFailures
  <1>3. ASSUME NEW a \in Addresses, NEW r \in Resources, Draw(a, r)
        PROVE  LeftByFailures'
    BY <1>3 DEF Draw, Return, LeftByFailures
  <1>4. ASSUME NEW a \in Addresses, NEW release \in BOOLEAN, WritePage(a, release)
        PROVE  LeftByFailures'
    <2>1. PICK extended \in {TRUE, ~ExtendersFail}, o \in Outcomes(Key(a)) :
              /\ forsaken' = LeftBehind(a, release, TasksLeft(Key(a), o))
              /\ failed' = (failed \/ ~(o.how = "done"))
      BY <1>4 DEF WritePage, RunTasks, WritePageReturns
    <2>2. o.how = "done" => forsaken' = forsaken
      BY <1>0, <1>4, <2>1, DoneLeavesNone DEF WritePage, MayWritePage
    <2> QED
      BY <2>1, <2>2 DEF LeftByFailures
  <1>5. ASSUME NEW a \in Addresses, NEW release \in BOOLEAN, WritePageFails(a, release)
        PROVE  LeftByFailures'
    BY <1>5 DEF WritePageFails, Return, LeftByFailures
  <1>6. ASSUME NEW a \in Addresses, EndFormXObjectAndRelease(a)
        PROVE  LeftByFailures'
    <2>1. PICK o \in Outcomes(Key(a)) :
              /\ forsaken' = LeftBehind(a, TRUE, TasksLeft(Key(a), o))
              /\ failed' = (failed \/ ~(o.how = "done"))
      BY <1>6 DEF EndFormXObjectAndRelease, RunTasks, Return
    <2>2. o.how = "done" => forsaken' = forsaken
      BY <1>0, <1>6, <2>1, DoneLeavesNone DEF EndFormXObjectAndRelease
    <2> QED
      BY <2>1, <2>2 DEF LeftByFailures
  <1>7. ASSUME NEW a \in Addresses, EndFormXObjectFails(a)
        PROVE  LeftByFailures'
    BY <1>7 DEF EndFormXObjectFails, Return, LeftByFailures
  <1>8. CASE AttachURLLinktoCurrentPage \/ EndPDF \/ StartPDF \/ UNCHANGED vars
    BY <1>8 DEF AttachURLLinktoCurrentPage, EndPDF, StartPDF, vars, Return, LeftByFailures
  <1> QED
    BY <1>1, <1>2, <1>3, <1>4, <1>5, <1>6, <1>7, <1>8 DEF Next

(* Every page and form gets its own annotations, and runs its own          *)
(* end-writing tasks, whichever addresses are allocated again and whatever *)
(* calls fail: the tasks that another one runs are of containers that were *)
(* released with tasks still waiting, after a call that failed.            *)
THEOREM EveryoneGets == Spec => []EveryoneGetsTheirOwn
  <1>1. Noted /\ Owned /\ LeftByFailures => EveryoneGetsTheirOwn
    BY NotedOnOnePage DEF Owned, ErrandsAreOwn, LeftByFailures, EveryoneGetsTheirOwn
  <1>2. Init => LeftByFailures
    BY DEF Init, LeftByFailures
  <1>3. Noted /\ LeftByFailures /\ [Next]_vars => LeftByFailures'
    BY NextLeft
  <1>4. Spec => []LeftByFailures
    BY <1>2, <1>3, NotedHolds, PTL DEF Spec
  <1> QED
    BY <1>1, <1>4, OwnedHolds, PTL
-----------------------------------------------------------------------------
(* What a reference is taken for is what is there.                         *)
Meets(ref, os) == ref.id \in DOMAIN os /\ os[ref.id].holds = ref.holds

(* What a container refers to when it is written.                          *)
Wanted(c) == c.uses \cup {Ref(c.contents[i], "content") : i \in DOMAIN c.contents}

ObjectsMeet == \A id \in DOMAIN objects : \A ref \in objects[id].refs : Meets(ref, objects)

ContainersMeet == \A a \in Live : \A ref \in Wanted(containers[a]) : Meets(ref, objects)

AnnotationsMeet == \A id \in annotations : Meets(Ref(id, "annotation"), objects)

(* IDs of this document's images and opacity states are of this document,  *)
(* and an opacity state has no ID of an earlier one.                       *)
SharedMeet ==
    /\ registered \subseteq Resources
    /\ phase = "writing" => \A r \in registered : Meets(Ref(shared[r], r), objects)
    /\ \A r \in Opacities : shared[r] # 0 => phase = "writing" /\ r \in registered

NothingOwed == phase = "finished" => \A id \in DOMAIN objects : objects[id].state = "written"

(* The invariant of references.                                            *)
Resolving == ObjectsMeet /\ ContainersMeet /\ AnnotationsMeet /\ SharedMeet /\ NothingOwed

(* Objects are never taken back, nor made something else.                  *)
Later(os) == \A id \in DOMAIN objects : id \in DOMAIN os /\ os[id].holds = objects[id].holds

LEMMA MeetsLater ==
    ASSUME NEW os, Later(os), NEW ref, Meets(ref, objects)
    PROVE  Meets(ref, os)
  BY DEF Later, Meets

(* A step that gives no image or opacity state an ID.                      *)
LEMMA StillResolving ==
    ASSUME Resolving, phase = "writing", phase' = phase, shared' = shared, registered' = registered,
           Later(objects'),
           \A id \in DOMAIN objects' : \A ref \in objects'[id].refs :
               Meets(ref, objects) \/ Meets(ref, objects'),
           \A b \in Addresses : containers'[b].kind \in Kinds =>
               \/ Wanted(containers'[b]) = {}
               \/ b \in Live /\ Wanted(containers'[b]) = Wanted(containers[b]),
           \A id \in annotations' : id \in annotations \/ Meets(Ref(id, "annotation"), objects')
    PROVE  Resolving'
  <1>1. \A ref : Meets(ref, objects) => Meets(ref, objects')
    BY MeetsLater
  <1>2. ObjectsMeet'
    <2>1. \A id \in DOMAIN objects' : \A ref \in objects'[id].refs : Meets(ref, objects')
      BY <1>1
    <2> QED
      BY <2>1 DEF ObjectsMeet, Meets
  <1>3. ContainersMeet'
    <2>1. \A b \in Live' : \A ref \in Wanted(containers'[b]) : Meets(ref, objects')
      BY <1>1 DEF Resolving, ContainersMeet, Live
    <2> QED
      BY <2>1 DEF ContainersMeet, Meets, Wanted, Ref
  <1>4. AnnotationsMeet'
    <2>1. \A id \in annotations' : Meets(Ref(id, "annotation"), objects')
      BY <1>1 DEF Resolving, AnnotationsMeet
    <2> QED
      BY <2>1 DEF AnnotationsMeet, Meets, Ref
  <1>5. SharedMeet'
    <2>1. \A r \in registered : Meets(Ref(shared[r], r), objects')
      BY <1>1 DEF Resolving, SharedMeet
    <2> QED
      BY <2>1 DEF Resolving, SharedMeet, Meets, Ref
  <1>6. NothingOwed'
    BY DEF NothingOwed
  <1> QED
    BY <1>2, <1>3, <1>4, <1>5, <1>6 DEF Resolving

LEMMA NewWantsNothing ==
    ASSUME NEW kind, NEW own, NEW resourcesID
    PROVE  Wanted(Container(kind, own, resourcesID)) = {}
  BY DEF Wanted, Container

LEMMA NewPageResolving ==
    ASSUME Noted, Resolving, NEW a \in Addresses, NewPage(a)
    PROVE  Resolving'
  <1> DEFINE new == Container("page", 0, 0)
  <1>1. /\ phase = "writing" /\ phase' = phase /\ shared' = shared /\ registered' = registered
        /\ objects' = objects /\ annotations' = annotations
        /\ containers' = [containers EXCEPT ![a] = new]
    BY DEF NewPage, MayAllocate
  <1>2. Wanted(new) = {}
    BY NewWantsNothing
  <1> HIDE DEF new
  <1>3. \A b \in Addresses : containers'[b].kind \in Kinds =>
            \/ Wanted(containers'[b]) = {}
            \/ b \in Live /\ Wanted(containers'[b]) = Wanted(containers[b])
    BY <1>1, <1>2 DEF Noted, Typed, Live
  <1>4. Later(objects') /\ \A id \in DOMAIN objects' : \A ref \in objects'[id].refs : Meets(ref, objects)
    BY <1>1 DEF Resolving, ObjectsMeet, Later
  <1> QED
    BY <1>1, <1>3, <1>4, StillResolving

(* Objects that are added refer to one another.                            *)
LEMMA MoreMeet ==
    ASSUME Typed, Resolving, NEW more \in Seq(Objects),
           \A i \in DOMAIN more : \A ref \in more[i].refs :
               \E j \in DOMAIN more : ref.id = Len(objects) + j /\ more[j].holds = ref.holds
    PROVE  /\ Later(objects \o more)
           /\ \A id \in DOMAIN (objects \o more) : \A ref \in (objects \o more)[id].refs :
                 Meets(ref, objects \o more)
  <1> DEFINE os == objects \o more
             n == Len(objects)
  <1>1. objects \in Seq(Objects) /\ n \in Nat
    BY DEF Typed
  <1>2. /\ \A id \in DOMAIN objects : id \in DOMAIN os /\ os[id] = objects[id]
        /\ \A id \in DOMAIN os \ DOMAIN objects : id - n \in DOMAIN more /\ os[id] = more[id - n]
        /\ \A j \in DOMAIN more : n + j \in DOMAIN os /\ os[n + j] = more[j]
    BY <1>1
  <1> HIDE DEF os, n
  <1>3. Later(os)
    BY <1>2 DEF Later
  <1>4. ASSUME NEW id \in DOMAIN os, NEW ref \in os[id].refs
        PROVE  Meets(ref, os)
    <2>1. CASE id \in DOMAIN objects
      <3>1. Meets(ref, objects)
        BY <1>2, <1>4, <2>1 DEF Resolving, ObjectsMeet
      <3> QED
        BY <1>3, <3>1, MeetsLater
    <2>2. CASE id \notin DOMAIN objects
      <3>1. id - n \in DOMAIN more /\ ref \in more[id - n].refs
        BY <1>2, <1>4, <2>2
      <3>2. PICK j \in DOMAIN more : ref.id = n + j /\ more[j].holds = ref.holds
        BY <3>1 DEF n
      <3> QED
        BY <1>2, <3>2 DEF Meets
    <2> QED
      BY <2>1, <2>2
  <1> QED
    BY <1>3, <1>4 DEF os

LEMMA StartFormResolving ==
    ASSUME Noted, Resolving, NEW a \in Addresses, StartFormXObject(a)
    PROVE  Resolving'
  <1> DEFINE n == Len(objects)
             new == Container("form", n + 1, n + 2)
             more == <<Object("form", {Ref(n + 2, "resources"), Ref(n + 3, "length")}),
                       Owed("resources"), Owed("length")>>
  <1>1. /\ Typed /\ n \in Nat /\ n + 2 = n + 1 + 1 /\ n + 3 = n + 1 + 2
    BY DEF Noted, Typed
  <1>2. /\ phase = "writing" /\ phase' = phase /\ shared' = shared /\ registered' = registered
        /\ annotations' = annotations
        /\ containers' = [containers EXCEPT ![a] = new]
        /\ objects' = objects \o more
    BY <1>1 DEF StartFormXObject, MayAllocate
  <1>3. Wanted(new) = {}
    BY NewWantsNothing
  <1>4. more \in Seq(Objects)
    <2>1. {Ref(n + 2, "resources"), Ref(n + 3, "length")} \in SUBSET Refs
      BY <1>1, ObjectsTyped
    <2> QED
      BY <2>1, ObjectsTyped
  <1>5. \A i \in DOMAIN more : \A ref \in more[i].refs :
            \E j \in DOMAIN more : ref.id = n + j /\ more[j].holds = ref.holds
    <2>1. /\ more[1].refs = {Ref(n + 2, "resources"), Ref(n + 3, "length")}
          /\ more[2].refs = {} /\ more[3].refs = {}
          /\ more[2].holds = "resources" /\ more[3].holds = "length"
      BY DEF Object, Owed
    <2>2. /\ Ref(n + 2, "resources").id = n + 2 /\ Ref(n + 2, "resources").holds = "resources"
          /\ Ref(n + 3, "length").id = n + 3 /\ Ref(n + 3, "length").holds = "length"
      BY DEF Ref
    <2>3. DOMAIN more = {1, 2, 3}
      OBVIOUS
    <2> HIDE DEF more
    <2> QED
      BY <2>1, <2>2, <2>3
  <1> HIDE DEF new, more
  <1>6. /\ Later(objects')
        /\ \A id \in DOMAIN objects' : \A ref \in objects'[id].refs : Meets(ref, objects')
    BY <1>1, <1>2, <1>4, <1>5, MoreMeet
  <1>7. \A b \in Addresses : containers'[b].kind \in Kinds =>
            \/ Wanted(containers'[b]) = {}
            \/ b \in Live /\ Wanted(containers'[b]) = Wanted(containers[b])
    BY <1>1, <1>2, <1>3 DEF Typed, Live
  <1> QED
    BY <1>2, <1>6, <1>7, StillResolving

LEMMA StartFormFailsResolving ==
    ASSUME Noted, Resolving, NEW a \in Addresses, StartFormXObjectFails(a)
    PROVE  Resolving'
  <1> DEFINE n == Len(objects)
             more == <<Object("form", {Ref(n + 2, "resources")}), Owed("resources")>>
  <1>1. Typed /\ n \in Nat
    BY DEF Noted, Typed
  <1>2. /\ phase = "writing" /\ phase' = phase /\ shared' = shared /\ registered' = registered
        /\ annotations' = annotations /\ containers' = containers
        /\ objects' = objects \o more
    BY DEF StartFormXObjectFails, MayAllocate
  <1>3. more \in Seq(Objects)
    <2>1. {Ref(n + 2, "resources")} \in SUBSET Refs
      BY <1>1, ObjectsTyped
    <2> QED
      BY <2>1, ObjectsTyped
  <1>4. \A i \in DOMAIN more : \A ref \in more[i].refs :
            \E j \in DOMAIN more : ref.id = n + j /\ more[j].holds = ref.holds
    <2>1. /\ more[1].refs = {Ref(n + 2, "resources")} /\ more[2].refs = {}
          /\ more[2].holds = "resources"
      BY DEF Object, Owed
    <2>2. Ref(n + 2, "resources").id = n + 2 /\ Ref(n + 2, "resources").holds = "resources"
      BY DEF Ref
    <2>3. DOMAIN more = {1, 2}
      OBVIOUS
    <2> HIDE DEF more
    <2> QED
      BY <2>1, <2>2, <2>3
  <1> HIDE DEF more
  <1>5. /\ Later(objects')
        /\ \A id \in DOMAIN objects' : \A ref \in objects'[id].refs : Meets(ref, objects')
    BY <1>1, <1>2, <1>3, <1>4, MoreMeet
  <1>6. \A b \in Addresses : containers'[b].kind \in Kinds =>
            b \in Live /\ Wanted(containers'[b]) = Wanted(containers[b])
    BY <1>2 DEF Live
  <1> QED
    BY <1>2, <1>5, <1>6, StillResolving

(* A step that changes states of objects, and says nothing more of them.   *)
LEMMA SameObjectsMeet ==
    ASSUME Typed, Resolving, Len(objects') = Len(objects), objects' \in Seq(Objects),
           \A id \in DOMAIN objects :
               objects'[id].holds = objects[id].holds /\ objects'[id].refs = objects[id].refs
    PROVE  /\ Later(objects')
           /\ \A id \in DOMAIN objects' : \A ref \in objects'[id].refs : Meets(ref, objects)
  <1>1. DOMAIN objects' = DOMAIN objects
    BY DEF Typed
  <1> QED
    BY <1>1 DEF Resolving, ObjectsMeet, Later

LEMMA PauseResolving ==
    ASSUME Noted, Resolving, NEW a \in Addresses, PausePageContentContext(a)
    PROVE  Resolving'
  <1>1. /\ Typed /\ a \in Live /\ containers[a] \in Containers
        /\ phase = "writing" /\ phase' = phase /\ shared' = shared /\ registered' = registered
        /\ annotations' = annotations
        /\ containers' = [containers EXCEPT ![a].streaming = FALSE]
        /\ objects' = StreamEnded(objects, Head(unfinished))
    BY LiveTyped DEF Noted, PausePageContentContext
  <1>2. /\ Later(objects')
        /\ \A id \in DOMAIN objects' : \A ref \in objects'[id].refs : Meets(ref, objects)
    BY <1>1, StreamEndedKeeps, SameObjectsMeet DEF Typed
  <1>3. \A b \in Addresses : containers'[b].kind \in Kinds =>
            b \in Live /\ Wanted(containers'[b]) = Wanted(containers[b])
    <2> DEFINE old == containers[a]
               new == [old EXCEPT !.streaming = FALSE]
    <2>1. containers' = [containers EXCEPT ![a] = new]
      BY <1>1
    <2>2. new.kind = old.kind /\ new.uses = old.uses /\ new.contents = old.contents
      BY <1>1 DEF Containers
    <2>3. Wanted(new) = Wanted(old)
      BY <2>2 DEF Wanted
    <2> HIDE DEF new
    <2>4. \A b \in Addresses : containers'[b] = IF b = a THEN new ELSE containers[b]
      BY <1>1, <2>1 DEF Typed
    <2> QED
      BY <1>1, <2>3, <2>4 DEF Live
  <1> QED
    BY <1>1, <1>2, <1>3, StillResolving

LEMMA AttachResolving ==
    ASSUME Noted, Resolving, AttachURLLinktoCurrentPage
    PROVE  Resolving'
  <1> DEFINE n == Len(objects) + 1
             new == Object("annotation", {})
  <1>1. /\ Typed /\ phase = "writing" /\ phase' = phase /\ shared' = shared /\ registered' = registered
        /\ annotations' = annotations \cup {n} /\ containers' = containers
        /\ objects' = Append(objects, new)
    BY DEF Noted, AttachURLLinktoCurrentPage
  <1>2. new.holds = "annotation" /\ new.refs = {}
    BY DEF Object
  <1> HIDE DEF new
  <1>3. /\ n \in DOMAIN objects' /\ objects'[n] = new /\ DOMAIN objects' = DOMAIN objects \cup {n}
        /\ \A id \in DOMAIN objects : id \in DOMAIN objects' /\ objects'[id] = objects[id]
    BY <1>1 DEF Typed
  <1> HIDE DEF n
  <1>4. Later(objects') /\ Meets(Ref(n, "annotation"), objects')
    BY <1>2, <1>3 DEF Later, Meets, Ref
  <1>5. \A id \in DOMAIN objects' : \A ref \in objects'[id].refs : Meets(ref, objects)
    BY <1>2, <1>3 DEF Resolving, ObjectsMeet
  <1>6. \A b \in Addresses : containers'[b].kind \in Kinds =>
            b \in Live /\ Wanted(containers'[b]) = Wanted(containers[b])
    BY <1>1 DEF Live
  <1> QED
    BY <1>1, <1>4, <1>5, <1>6, StillResolving

(* A container that ends wants what it wanted, and others are as they were.*)
LEMMA AfterEndIs ==
    ASSUME Typed, NEW a \in Live, NEW release \in BOOLEAN, containers' = AfterEnd(a, release)
    PROVE  \A b \in Addresses : containers'[b].kind \in Kinds =>
               /\ b \in Live
               /\ b # a => containers'[b] = containers[b]
               /\ b = a => /\ ~release
                           /\ containers'[b] = [containers[a] EXCEPT !.due = FALSE]
  <1>1. containers[a] \in Containers /\ a \in Addresses
    BY LiveTyped
  <1>2. CASE release
    <2>1. containers' = [containers EXCEPT ![a] = Free]
      BY <1>2 DEF AfterEnd
    <2>2. Free.kind \notin Kinds
      BY DEF Free, Kinds
    <2> QED
      BY <1>1, <2>1, <2>2 DEF Typed, Live
  <1>3. CASE ~release
    <2> DEFINE old == containers[a]
               new == [old EXCEPT !.due = FALSE]
    <2>1. containers' = [containers EXCEPT ![a] = new]
      BY <1>3 DEF AfterEnd
    <2> HIDE DEF new
    <2>2. \A b \in Addresses : containers'[b] = IF b = a THEN new ELSE containers[b]
      BY <1>1, <2>1 DEF Typed
    <2>3. containers'[a] = [containers[a] EXCEPT !.due = FALSE]
      BY <1>1, <2>2 DEF new
    <2>4. \A b \in Addresses : containers'[b].kind \in Kinds /\ b # a =>
              b \in Live /\ containers'[b] = containers[b]
      BY <2>2 DEF Live
    <2> QED
      BY <1>3, <2>3, <2>4
  <1> QED
    BY <1>2, <1>3

LEMMA AfterEndWants ==
    ASSUME Typed, NEW a \in Live, NEW release \in BOOLEAN, containers' = AfterEnd(a, release)
    PROVE  \A b \in Addresses : containers'[b].kind \in Kinds =>
               b \in Live /\ Wanted(containers'[b]) = Wanted(containers[b])
  <1> DEFINE new == [containers[a] EXCEPT !.due = FALSE]
  <1>1. new.uses = containers[a].uses /\ new.contents = containers[a].contents
    BY LiveTyped DEF Containers
  <1>2. Wanted(new) = Wanted(containers[a])
    BY <1>1 DEF Wanted
  <1> HIDE DEF new
  <1> QED
    BY <1>2, AfterEndIs DEF new

(* A page that is written refers to what it wants, and to annotations.     *)
LEMMA PageMeets ==
    ASSUME Resolving, NEW a \in Live, NEW noted \in BOOLEAN
    PROVE  \A ref \in PageObject(a, noted).refs : Meets(ref, objects)
  <1>1. PageObject(a, noted).refs =
            Wanted(containers[a]) \cup {Ref(id, "annotation") : id \in IF noted THEN annotations ELSE {}}
    BY DEF PageObject, Object, Wanted
  <1>2. \A ref \in Wanted(containers[a]) : Meets(ref, objects)
    BY DEF Resolving, ContainersMeet
  <1>3. \A ref \in {Ref(id, "annotation") : id \in IF noted THEN annotations ELSE {}} :
            Meets(ref, objects)
    BY DEF Resolving, AnnotationsMeet
  <1> QED
    BY <1>1, <1>2, <1>3

LEMMA WritePageResolving ==
    ASSUME Noted, Resolving, NEW a \in Addresses, NEW release \in BOOLEAN, WritePage(a, release)
    PROVE  Resolving'
  <1> DEFINE page == PageObject(a, TRUE)
             os == Append(objects, page)
  <1>1. /\ Typed /\ a \in Live
        /\ phase = "writing" /\ phase' = phase /\ shared' = shared /\ registered' = registered
        /\ containers' = AfterEnd(a, release) /\ annotations' = {}
    BY DEF Noted, WritePage, MayWritePage, AnnotationsLeft
  <1>2. PICK o : objects' = AfterTasks(os, Key(a), o)
    BY DEF WritePage, RunTasks
  <1>3. page \in Objects /\ \A ref \in page.refs : Meets(ref, objects)
    BY <1>1, PageObjectTyped, PageMeets
  <1> HIDE DEF page
  <1>4. /\ os \in Seq(Objects) /\ DOMAIN os = DOMAIN objects \cup {Len(objects) + 1}
        /\ os[Len(objects) + 1] = page
        /\ \A id \in DOMAIN objects : id \in DOMAIN os /\ os[id] = objects[id]
    BY <1>1, <1>3 DEF Typed
  <1> HIDE DEF os
  <1>5. /\ DOMAIN objects' = DOMAIN os
        /\ \A id \in DOMAIN os : objects'[id].holds = os[id].holds /\ objects'[id].refs = os[id].refs
    <2>1. /\ objects' \in Seq(Objects) /\ Len(objects') = Len(os)
          /\ \A id \in DOMAIN os : objects'[id].holds = os[id].holds /\ objects'[id].refs = os[id].refs
      BY <1>2, <1>4, AfterTasksKeeps
    <2> QED
      BY <1>4, <2>1
  <1>6. Later(objects')
    BY <1>4, <1>5 DEF Later
  <1>7. \A id \in DOMAIN objects' : \A ref \in objects'[id].refs : Meets(ref, objects)
    BY <1>3, <1>4, <1>5 DEF Resolving, ObjectsMeet
  <1> QED
    BY <1>1, <1>6, <1>7, AfterEndWants, StillResolving

LEMMA WritePageFailsResolving ==
    ASSUME Noted, Resolving, NEW a \in Addresses, NEW release \in BOOLEAN, WritePageFails(a, release)
    PROVE  Resolving'
  <1> DEFINE page == PageObject(a, FALSE)
  <1>1. /\ Typed /\ a \in Live
        /\ phase = "writing" /\ phase' = phase /\ shared' = shared /\ registered' = registered
        /\ containers' = AfterEnd(a, release) /\ annotations' = annotations
        /\ objects' = Append(objects, page)
    BY DEF Noted, WritePageFails, MayWritePage, AnnotationsLeft
  <1>2. \A ref \in page.refs : Meets(ref, objects)
    BY <1>1, PageMeets
  <1> HIDE DEF page
  <1>3. /\ DOMAIN objects' = DOMAIN objects \cup {Len(objects) + 1}
        /\ objects'[Len(objects) + 1] = page
        /\ \A id \in DOMAIN objects : id \in DOMAIN objects' /\ objects'[id] = objects[id]
    BY <1>1 DEF Typed
  <1>4. Later(objects')
    BY <1>3 DEF Later
  <1>5. \A id \in DOMAIN objects' : \A ref \in objects'[id].refs : Meets(ref, objects)
    BY <1>2, <1>3 DEF Resolving, ObjectsMeet
  <1> QED
    BY <1>1, <1>4, <1>5, AfterEndWants, StillResolving

LEMMA EndFormObjects ==
    ASSUME Noted, Resolving, NEW a \in Live, containers[a].kind = "form"
    PROVE  LET os == ResourcesWritten(FormEnded(objects, a), a) IN
           /\ os \in Seq(Objects) /\ Len(os) = Len(objects)
           /\ \A id \in DOMAIN objects : os[id].holds = objects[id].holds
           /\ \A id \in DOMAIN objects : \A ref \in os[id].refs : Meets(ref, objects)
  <1> DEFINE ended == FormEnded(objects, a)
             r == containers[a].resourcesID
             os == ResourcesWritten(FormEnded(objects, a), a)
             new == [ended EXCEPT ![r] = Object("resources", containers[a].uses)]
  <1>1. Typed /\ objects \in Seq(Objects)
    BY DEF Noted, Typed
  <1>2. /\ ended \in Seq(Objects) /\ Len(ended) = Len(objects)
        /\ \A id \in DOMAIN objects : /\ ended[id].holds = objects[id].holds
                                     /\ ended[id].refs = objects[id].refs
    BY <1>1, StreamEndedKeeps DEF FormEnded
  <1>3. os = new
    BY DEF ResourcesWritten
  <1> HIDE DEF os
  <1>4. /\ os \in Seq(Objects) /\ Len(os) = Len(objects)
        /\ \A id \in DOMAIN objects : os[id].holds = objects[id].holds
    BY ResourcesKeep DEF os
  <1>5. ASSUME NEW id \in DOMAIN objects, NEW ref \in os[id].refs
        PROVE  Meets(ref, objects)
    <2>1. id \in DOMAIN ended
      BY <1>1, <1>2
    <2>2. CASE id = r
      <3>1. new[id].refs = containers[a].uses
        BY <2>1, <2>2 DEF Object
      <3>2. ref \in Wanted(containers[a])
        BY <1>3, <1>5, <3>1 DEF Wanted
      <3> QED
        BY <3>2 DEF Resolving, ContainersMeet
    <2>3. CASE id # r
      <3>1. os[id] = ended[id]
        BY <1>3, <2>1, <2>3
      <3> QED
        BY <1>2, <1>5, <3>1 DEF Resolving, ObjectsMeet
    <2> QED
      BY <2>2, <2>3
  <1>6. \A id \in DOMAIN objects : \A ref \in os[id].refs : Meets(ref, objects)
    BY <1>5
  <1> QED
    BY <1>4, <1>6 DEF os

LEMMA EndFormResolving ==
    ASSUME Noted, Resolving, NEW a \in Addresses, EndFormXObjectAndRelease(a)
    PROVE  Resolving'
  <1> DEFINE os == ResourcesWritten(FormEnded(objects, a), a)
  <1>1. /\ Typed /\ a \in Live /\ containers[a].kind = "form"
        /\ phase = "writing" /\ phase' = phase /\ shared' = shared /\ registered' = registered
        /\ containers' = AfterEnd(a, TRUE) /\ annotations' = annotations
    BY DEF Noted, EndFormXObjectAndRelease
  <1>2. PICK o : objects' = AfterTasks(os, Key(a), o)
    BY DEF EndFormXObjectAndRelease, RunTasks
  <1>3. /\ os \in Seq(Objects) /\ Len(os) = Len(objects)
        /\ \A id \in DOMAIN objects : os[id].holds = objects[id].holds
        /\ \A id \in DOMAIN objects : \A ref \in os[id].refs : Meets(ref, objects)
    BY <1>1, EndFormObjects
  <1> HIDE DEF os
  <1>4. /\ objects' \in Seq(Objects) /\ Len(objects') = Len(os)
        /\ \A id \in DOMAIN os : objects'[id].holds = os[id].holds /\ objects'[id].refs = os[id].refs
    BY <1>2, <1>3, AfterTasksKeeps
  <1>5. DOMAIN objects' = DOMAIN objects /\ DOMAIN os = DOMAIN objects
    BY <1>1, <1>3, <1>4 DEF Typed
  <1>6. Later(objects')
    BY <1>3, <1>4, <1>5 DEF Later
  <1>7. \A id \in DOMAIN objects' : \A ref \in objects'[id].refs : Meets(ref, objects)
    BY <1>3, <1>4, <1>5
  <1> QED
    BY <1>1, <1>6, <1>7, AfterEndWants, StillResolving

LEMMA EndFormFailsResolving ==
    ASSUME Noted, Resolving, NEW a \in Addresses, EndFormXObjectFails(a)
    PROVE  Resolving'
  <1>1. /\ Typed /\ a \in Live /\ containers[a].kind = "form"
        /\ phase = "writing" /\ phase' = phase /\ shared' = shared /\ registered' = registered
        /\ containers' = AfterEnd(a, TRUE) /\ annotations' = annotations
        /\ objects' = ResourcesWritten(FormEnded(objects, a), a)
    BY DEF Noted, EndFormXObjectFails
  <1>2. /\ objects' \in Seq(Objects) /\ Len(objects') = Len(objects)
        /\ \A id \in DOMAIN objects : objects'[id].holds = objects[id].holds
        /\ \A id \in DOMAIN objects : \A ref \in objects'[id].refs : Meets(ref, objects)
    BY <1>1, EndFormObjects
  <1>3. DOMAIN objects' = DOMAIN objects
    BY <1>1, <1>2 DEF Typed
  <1>4. Later(objects') /\ \A id \in DOMAIN objects' : \A ref \in objects'[id].refs : Meets(ref, objects)
    BY <1>2, <1>3 DEF Later
  <1> QED
    BY <1>1, <1>4, AfterEndWants, StillResolving

(* The image or opacity state that is drawn is one of this document.       *)
LEMMA DrawResolving ==
    ASSUME ~ImagesRedrawn, Noted, Resolving, NEW a \in Addresses, NEW r \in Resources, Draw(a, r)
    PROVE  Resolving'
  <1> DEFINE n == Len(objects)
             first == FirstUse(r)
             id == IF first THEN n + 1 ELSE shared[r]
             before == IF first THEN Append(objects, Owed(r)) ELSE objects
             own == Len(before) + 1
             c == containers[a]
             drawn == [c EXCEPT !.uses = @ \cup {Ref(id, r)},
                          !.contents = IF c.streaming THEN @ ELSE Append(@, own),
                          !.streaming = TRUE, !.due = TRUE]
             more == <<Object("content", {Ref(own + 1, "length")}), Owed("length")>>
  <1>1. /\ Typed /\ phase = "writing" /\ a \in Live /\ c \in Containers
        /\ objects \in Seq(Objects) /\ n \in Nat /\ r \in Holdings
    BY LiveTyped, ObjectsTyped DEF Noted, Draw, MayDraw, Typed
  <1>2. /\ shared' = [shared EXCEPT ![r] = id]
        /\ registered' = IF first THEN registered \cup {r} ELSE registered
        /\ objects' = StreamStarted(before, a)
        /\ containers' = [containers EXCEPT ![a] = drawn]
        /\ annotations' = annotations /\ phase' = phase
    BY <1>1 DEF Draw, Drawn, Typed, Containers
  <1>3. ~first => r \in registered
    <2>1. shared[r] # 0 /\ r \in Opacities => r \in registered
      BY DEF Resolving, SharedMeet
    <2>2. ~ImagesRedrawn /\ (ImagesRedrawn \/ r \notin Images \/ FirstUse(r) \/ r \in registered)
      BY DEF Draw, MayDraw
    <2> QED
      BY <2>1, <2>2 DEF Resources, FirstUse
  <1>4. ~first => Meets(Ref(id, r), objects)
    BY <1>1, <1>3 DEF Resolving, SharedMeet
  <1>5. /\ before \in Seq(Objects) /\ Later(before) /\ Meets(Ref(id, r), before)
        /\ \A i \in DOMAIN before : \A ref \in before[i].refs : Meets(ref, objects)
    <2>1. CASE first
      <3>1. Owed(r) \in Objects /\ Owed(r).holds = r /\ Owed(r).refs = {}
        BY <1>1, ObjectsTyped DEF Owed
      <3>2. /\ before \in Seq(Objects) /\ DOMAIN before = DOMAIN objects \cup {n + 1}
            /\ n + 1 \notin DOMAIN objects /\ before[n + 1] = Owed(r)
            /\ \A i \in DOMAIN objects : before[i] = objects[i]
        BY <1>1, <2>1, <3>1
      <3>3. id = n + 1
        BY <2>1
      <3> HIDE DEF before, id
      <3>4. Later(before) /\ Meets(Ref(id, r), before)
        BY <3>1, <3>2, <3>3 DEF Later, Meets, Ref
      <3> QED
        BY <3>1, <3>2, <3>4 DEF Resolving, ObjectsMeet
    <2>2. CASE ~first
      <3>1. before = objects
        BY <2>2
      <3>2. Later(objects)
        BY DEF Later
      <3> QED
        BY <1>1, <1>4, <2>2, <3>1, <3>2 DEF Resolving, ObjectsMeet
    <2> QED
      BY <2>1, <2>2
  <1>6. c.streaming \in BOOLEAN /\ own \in Nat
    BY <1>1, <1>5 DEF Containers
  <1>7. objects' = IF c.streaming THEN before ELSE before \o more
    <2>1. own + 1 = Len(before) + 2
      BY <1>6
    <2> QED
      BY <1>2, <2>1 DEF StreamStarted
  <1>8. c.uses \subseteq Wanted(c) /\ Wanted(drawn) \subseteq
            Wanted(c) \cup {Ref(id, r)} \cup (IF c.streaming THEN {} ELSE {Ref(own, "content")})
    <2> HIDE DEF own, id
    <2>1. c.contents \in Seq(Nat)
      BY <1>1 DEF Containers
    <2>2. /\ drawn.uses = c.uses \cup {Ref(id, r)}
          /\ drawn.contents = IF c.streaming THEN c.contents ELSE Append(c.contents, own)
      BY <1>1 DEF Containers
    <2> HIDE DEF drawn
    <2>3. \A i \in DOMAIN drawn.contents :
              \/ i \in DOMAIN c.contents /\ drawn.contents[i] = c.contents[i]
              \/ ~c.streaming /\ drawn.contents[i] = own
      BY <1>6, <2>1, <2>2
    <2> QED
      BY <2>2, <2>3 DEF Wanted
  <1>9. drawn.kind = c.kind
    BY <1>1 DEF Containers
  <1> HIDE DEF drawn, before, id, first, own, more
  <1>10. /\ \A i \in DOMAIN before : i \in DOMAIN objects' /\ objects'[i] = before[i]
         /\ ~c.streaming => Meets(Ref(own, "content"), objects')
         /\ \A i \in DOMAIN objects' : \A ref \in objects'[i].refs :
               Meets(ref, objects) \/ Meets(ref, objects')
    <2>1. CASE c.streaming
      BY <1>5, <1>7, <2>1
    <2>2. CASE ~c.streaming
      <3> DEFINE m == Len(before)
      <3>1. /\ objects' = before \o more /\ own = m + 1 /\ m \in Nat
            /\ more = <<Object("content", {Ref(own + 1, "length")}), Owed("length")>>
        BY <1>5, <1>7, <2>2 DEF own, more
      <3>2. /\ more[1].refs = {Ref(own + 1, "length")} /\ more[1].holds = "content"
            /\ more[2].refs = {} /\ more[2].holds = "length" /\ Len(more) = 2
        BY <3>1 DEF Object, Owed
      <3>3. /\ \A i \in DOMAIN before : i \in DOMAIN objects' /\ objects'[i] = before[i]
            /\ DOMAIN objects' = DOMAIN before \cup {own, own + 1}
            /\ objects'[own] = more[1] /\ objects'[own + 1] = more[2]
        <4>1. more \in Seq({more[1], more[2]})
          BY <3>1, <3>2
        <4> QED
          BY <1>5, <3>1, <3>2, <4>1
      <3>4. Meets(Ref(own, "content"), objects') /\ Meets(Ref(own + 1, "length"), objects')
        BY <3>2, <3>3 DEF Meets, Ref
      <3> QED
        BY <1>5, <3>2, <3>3, <3>4
    <2> QED
      BY <1>6, <2>1, <2>2
  <1>11. Later(objects') /\ Meets(Ref(id, r), objects')
    BY <1>5, <1>10 DEF Later, Meets
  <1>12. \A ref : Meets(ref, objects) => Meets(ref, objects')
    BY <1>11, MeetsLater
  <1>13. ObjectsMeet'
    <2>1. \A i \in DOMAIN objects' : \A ref \in objects'[i].refs : Meets(ref, objects')
      BY <1>10, <1>12
    <2> QED
      BY <2>1 DEF ObjectsMeet, Meets
  <1>14. ContainersMeet'
    <2>1. \A b \in Addresses : containers'[b] = IF b = a THEN drawn ELSE containers[b]
      BY <1>1, <1>2 DEF Typed
    <2>2. ASSUME NEW b \in Live', NEW ref \in Wanted(containers'[b])
          PROVE  Meets(ref, objects')
      <3>1. b \in Addresses /\ containers'[b].kind \in Kinds
        BY <2>2 DEF Live
      <3>2. CASE b = a
        <4>1. \/ ref \in Wanted(c) \/ ref = Ref(id, r)
              \/ ~c.streaming /\ ref = Ref(own, "content")
          BY <1>8, <2>1, <2>2, <3>1, <3>2
        <4> QED
          BY <1>1, <1>10, <1>11, <1>12, <4>1 DEF Resolving, ContainersMeet
      <3>3. CASE b # a
        BY <1>12, <2>1, <2>2, <3>1, <3>3 DEF Resolving, ContainersMeet, Live
      <3> QED
        BY <3>2, <3>3
    <2>3. \A b \in Live' : \A ref \in Wanted(containers'[b]) : Meets(ref, objects')
      BY <2>2
    <2> QED
      BY <2>3 DEF ContainersMeet, Meets, Wanted, Ref
  <1>15. AnnotationsMeet'
    <2>1. \A i \in annotations' : Meets(Ref(i, "annotation"), objects')
      BY <1>2, <1>12 DEF Resolving, AnnotationsMeet
    <2> QED
      BY <2>1 DEF AnnotationsMeet, Meets, Ref
  <1>16. SharedMeet' /\ NothingOwed'
    <2>1. shared'[r] = id /\ \A s \in Resources \ {r} : shared'[s] = shared[s]
      BY <1>1, <1>2 DEF Typed
    <2>2. registered' = registered \cup {r}
      BY <1>2, <1>3
    <2>3. registered' \subseteq Resources
      BY <2>2 DEF Resolving, SharedMeet
    <2>4. \A s \in registered' : Meets(Ref(shared'[s], s), objects')
      BY <1>1, <1>11, <1>12, <2>1, <2>2, <2>3 DEF Resolving, SharedMeet
    <2>5. \A s \in Opacities : shared'[s] # 0 => s \in registered'
      BY <2>1, <2>2 DEF Resolving, SharedMeet, Resources
    <2> QED
      BY <1>1, <1>2, <2>3, <2>4, <2>5 DEF SharedMeet, NothingOwed, Meets, Ref
  <1> QED
    BY <1>13, <1>14, <1>15, <1>16 DEF Resolving

(* Opacity states' IDs are forgotten, and the end fails while one is owed. *)
LEMMA EndPDFResolving ==
    ASSUME Noted, Resolving, EndPDF
    PROVE  Resolving'
  <1>1. /\ Typed /\ objects' = objects /\ containers' = containers /\ registered' = registered
        /\ annotations' = {} /\ shared' = AfterCleanup
        /\ phase' = IF \E id \in DOMAIN objects : objects[id].state = "owed" THEN "broken" ELSE "finished"
    BY DEF Noted, EndPDF, AnnotationsLeft
  <1>2. ObjectsMeet' /\ ContainersMeet' /\ AnnotationsMeet'
    BY <1>1 DEF Resolving, ObjectsMeet, ContainersMeet, AnnotationsMeet, Meets, Live
  <1>3. SharedMeet'
    <2>1. \A r \in Opacities : shared'[r] = 0
      BY <1>1, PageWritingAssumption DEF AfterCleanup, Resources
    <2>2. registered' \subseteq Resources /\ phase' # "writing"
      BY <1>1 DEF Resolving, SharedMeet
    <2> QED
      BY <2>1, <2>2 DEF SharedMeet
  <1>4. NothingOwed'
    <2>1. \A id \in DOMAIN objects : objects[id] \in Objects
      BY <1>1 DEF Typed
    <2>2. \A id \in DOMAIN objects : objects[id].state \in {"owed", "written"}
      BY <2>1 DEF Objects
    <2> QED
      BY <1>1, <2>2 DEF NothingOwed
  <1> QED
    BY <1>2, <1>3, <1>4 DEF Resolving

(* The next document begins with nothing, and no opacity state has an ID.  *)
LEMMA StartPDFResolving ==
    ASSUME Noted, Resolving, StartPDF
    PROVE  Resolving'
  <1>1. /\ phase # "writing" /\ phase' = "writing" /\ objects' = <<>> /\ registered' = {}
        /\ containers' = [b \in Addresses |-> Free] /\ shared' = shared /\ annotations' = annotations
    BY DEF StartPDF
  <1>2. Live' = {}
    BY <1>1 DEF Live, Free, Kinds
  <1>3. annotations = {}
    BY <1>1 DEF Noted, NothingKept
  <1>4. ObjectsMeet' /\ ContainersMeet' /\ AnnotationsMeet' /\ NothingOwed'
    BY <1>1, <1>2, <1>3 DEF ObjectsMeet, ContainersMeet, AnnotationsMeet, NothingOwed
  <1>5. SharedMeet'
    BY <1>1 DEF Resolving, SharedMeet
  <1> QED
    BY <1>4, <1>5 DEF Resolving

LEMMA InitResolving == Init => Resolving
  <1> SUFFICES ASSUME Init PROVE Resolving
    OBVIOUS
  <1>1. /\ objects = <<>> /\ annotations = {} /\ registered = {} /\ phase = "writing"
        /\ \A r \in Opacities : shared[r] = 0
    BY DEF Init, Resources
  <1>2. Live = {}
    BY DEF Init, Live, Free, Kinds
  <1> QED
    BY <1>1, <1>2
       DEF Resolving, ObjectsMeet, ContainersMeet, AnnotationsMeet, SharedMeet, NothingOwed

LEMMA NextResolving ==
    ASSUME ~ImagesRedrawn, Noted, Resolving, [Next]_vars
    PROVE  Resolving'
  <1>1. ASSUME NEW a \in Addresses, NewPage(a) PROVE Resolving'
    BY <1>1, NewPageResolving
  <1>2. ASSUME NEW a \in Addresses, StartFormXObject(a) PROVE Resolving'
    BY <1>2, StartFormResolving
  <1>3. ASSUME NEW a \in Addresses, StartFormXObjectFails(a) PROVE Resolving'
    BY <1>3, StartFormFailsResolving
  <1>4. ASSUME NEW a \in Addresses, NEW r \in Resources, Draw(a, r) PROVE Resolving'
    BY <1>4, DrawResolving
  <1>5. ASSUME NEW a \in Addresses, PausePageContentContext(a) PROVE Resolving'
    BY <1>5, PauseResolving
  <1>6. ASSUME NEW a \in Addresses, NEW release \in BOOLEAN, WritePage(a, release)
        PROVE  Resolving'
    BY <1>6, WritePageResolving
  <1>7. ASSUME NEW a \in Addresses, NEW release \in BOOLEAN, WritePageFails(a, release)
        PROVE  Resolving'
    BY <1>7, WritePageFailsResolving
  <1>8. ASSUME NEW a \in Addresses, EndFormXObjectAndRelease(a) PROVE Resolving'
    BY <1>8, EndFormResolving
  <1>9. ASSUME NEW a \in Addresses, EndFormXObjectFails(a) PROVE Resolving'
    BY <1>9, EndFormFailsResolving
  <1>10. CASE UNCHANGED vars
    BY <1>10 DEF vars, Resolving, ObjectsMeet, ContainersMeet, AnnotationsMeet, SharedMeet,
                 NothingOwed, Meets, Live
  <1> QED
    BY <1>1, <1>2, <1>3, <1>4, <1>5, <1>6, <1>7, <1>8, <1>9, <1>10, AttachResolving,
       EndPDFResolving, StartPDFResolving DEF Next

LEMMA ResolvingMeans == Noted /\ Resolving => ReferencesResolve
  <1> SUFFICES ASSUME Resolving, phase = "finished",
                      NEW id \in DOMAIN objects, NEW ref \in objects[id].refs
               PROVE  /\ ref.id \in DOMAIN objects
                      /\ objects[ref.id].state = "written" /\ objects[ref.id].holds = ref.holds
    BY DEF ReferencesResolve
  <1> QED
    BY DEF Resolving, ObjectsMeet, NothingOwed, Meets

(* As long as no document draws an image of an earlier one, everything     *)
(* that is referred to in a document whose end succeeded is there, and is  *)
(* what it was taken for, whatever failed on the way.                      *)
THEOREM EveryReferenceResolves ==
    ASSUME ~ImagesRedrawn
    PROVE  Spec => []ReferencesResolve
  <1>1. Init => Noted /\ Resolving
    BY InitNoted, InitResolving
  <1>2. Noted /\ Resolving /\ [Next]_vars => (Noted /\ Resolving)'
    BY NextNoted, NextResolving
  <1>3. Noted /\ Resolving => ReferencesResolve
    BY ResolvingMeans
  <1> QED
    BY <1>1, <1>2, <1>3, PTL DEF Spec
-----------------------------------------------------------------------------
Keys == Kinds \X Addresses
Lists == {"first", "more"}

(* References keep to the IDs a document may have.                         *)
Fits(ref) ==
    /\ ref.id \in 1 .. MaxObjects
    /\ ref.holds \in Resources \cup {"resources", "length", "content", "annotation"}

ObjectsFit ==
    /\ Len(objects) <= MaxObjects
    /\ \A id \in DOMAIN objects : \A ref \in objects[id].refs : Fits(ref)

ContainersFit == \A a \in Live : \A ref \in Wanted(containers[a]) : Fits(ref)

Waits(lists) == Len(lists.first) + Len(lists.more)

(* No more tasks wait than there are objects.                              *)
ListsFit == \A k \in Keys : Waits(tasks[k]) <= Len(objects)

OthersFit ==
    /\ shared \in [Resources -> 0 .. MaxObjects]
    /\ registered \subseteq Resources
    /\ result \in [ok : BOOLEAN, extended : BOOLEAN] /\ failed \in BOOLEAN
    /\ documents \in 1 .. MaxDocuments

(* The bounds of what a document has.                                      *)
Sized == ObjectsFit /\ ContainersFit /\ ListsFit /\ OthersFit

LEMMA NoTasksWait == Waits(NoTasks) = 0
  <1>1. NoTasks.first = <<>> /\ NoTasks.more = <<>>
    BY DEF NoTasks
  <1>2. Waits(NoTasks) = Len(<<>>) + Len(<<>>)
    BY <1>1, Zenon DEF Waits
  <1> QED
    BY <1>2

LEMMA WaitsTyped ==
    ASSUME NEW lists \in [first : Seq(Tasks), more : Seq(Tasks)]
    PROVE  /\ Waits(lists) \in Nat
           /\ Waits([lists EXCEPT !.first = <<>>]) <= Waits(lists)
           /\ Waits(NoTasks) <= Waits(lists)
  <1> DEFINE f == lists.first
             m == lists.more
             fewer == [lists EXCEPT !.first = <<>>]
  <1>1. f \in Seq(Tasks) /\ m \in Seq(Tasks) /\ fewer.first = <<>> /\ fewer.more = m
    OBVIOUS
  <1>2. Waits(lists) = Len(f) + Len(m)
    BY DEF Waits
  <1> HIDE DEF f, m, fewer
  <1>3. Waits(fewer) = Len(m)
    <2>1. Waits(fewer) = Len(fewer.first) + Len(fewer.more)
      BY Zenon DEF Waits
    <2>2. Waits(fewer) = Len(<<>>) + Len(m)
      BY <1>1, <2>1, Zenon
    <2> QED
      BY <1>1, <2>2
  <1>4. Waits(lists) \in Nat /\ Waits(fewer) <= Waits(lists) /\ Waits(NoTasks) <= Waits(lists)
    BY <1>1, <1>2, <1>3, NoTasksWait
  <1> QED
    BY <1>4 DEF fewer

(* The list of a failing task is deleted, or both lists are.               *)
LEMMA TasksLeftFewer ==
    ASSUME Typed, NEW k \in Keys, NEW o, tasks' = TasksLeft(k, o)
    PROVE  \A l \in Keys : Waits(tasks'[l]) <= Waits(tasks[l])
  <1>1. \A l \in Keys : tasks'[l] \in {tasks[l], [tasks[l] EXCEPT !.first = <<>>], NoTasks}
    BY TasksLeftAre DEF Keys
  <1>2. ASSUME NEW l \in Keys
        PROVE  Waits(tasks'[l]) <= Waits(tasks[l])
    <2>1. tasks[l] \in [first : Seq(Tasks), more : Seq(Tasks)]
      BY DEF Typed, Keys
    <2>2. /\ Waits(tasks[l]) <= Waits(tasks[l])
          /\ Waits([tasks[l] EXCEPT !.first = <<>>]) <= Waits(tasks[l])
          /\ Waits(NoTasks) <= Waits(tasks[l])
      <3>1. \A n \in Nat : n <= n
        OBVIOUS
      <3> QED
        BY <2>1, <3>1, WaitsTyped
    <2> QED
      BY <1>1, <2>2, Zenon
  <1> QED
    BY <1>2

(* A step that gives no image or opacity state an ID.                      *)
LEMMA StillSized ==
    ASSUME Noted, Sized,
           Len(objects') \in Nat, Len(objects) <= Len(objects'), Len(objects') <= MaxObjects,
           \A id \in DOMAIN objects' : \A ref \in objects'[id].refs : Fits(ref),
           \A b \in Addresses : containers'[b].kind \in Kinds =>
               \/ Wanted(containers'[b]) = {}
               \/ b \in Live /\ Wanted(containers'[b]) = Wanted(containers[b]),
           tasks' = tasks \/ \E k \in Keys : \E o : tasks' = TasksLeft(k, o),
           shared' = shared, registered' = registered, documents' = documents,
           result' \in [ok : BOOLEAN, extended : BOOLEAN], failed' \in BOOLEAN
    PROVE  Sized'
  <1>1. ObjectsFit'
    BY DEF ObjectsFit, Fits
  <1>2. ContainersFit'
    <2>1. \A b \in Live' : \A ref \in Wanted(containers'[b]) : Fits(ref)
      BY DEF Sized, ContainersFit, Live
    <2> QED
      BY <2>1 DEF ContainersFit, Fits, Wanted, Ref
  <1>3. ListsFit'
    <2>1. Typed /\ Len(objects) \in Nat
      BY DEF Noted, Typed
    <2>2. \A l \in Keys : Waits(tasks[l]) \in Nat
      <3>1. \A l \in Keys : tasks[l] \in [first : Seq(Tasks), more : Seq(Tasks)]
        BY <2>1 DEF Typed, Keys
      <3> QED
        BY <3>1, WaitsTyped
    <2>3. \A l \in Keys : Waits(tasks'[l]) <= Waits(tasks[l]) \/ tasks'[l] = tasks[l]
      BY <2>1, TasksLeftFewer
    <2>4. \A l \in Keys : Waits(tasks'[l]) \in Nat
      <3>1. \A l \in Keys : tasks'[l] \in [first : Seq(Tasks), more : Seq(Tasks)]
        BY <2>1, TasksLeftTyped DEF Typed, Keys
      <3> QED
        BY <3>1, WaitsTyped
    <2>5. \A l \in Keys : Waits(tasks[l]) <= Len(objects)
      BY DEF Sized, ListsFit
    <2>6. \A l \in Keys : Waits(tasks'[l]) <= Len(objects')
      BY <2>1, <2>2, <2>3, <2>4, <2>5
    <2> QED
      BY <2>6 DEF ListsFit, Waits
  <1>4. OthersFit'
    BY DEF Sized, OthersFit
  <1> QED
    BY <1>1, <1>2, <1>3, <1>4 DEF Sized

LEMMA Returned ==
    ASSUME Sized, NEW ok \in BOOLEAN, Return(ok)
    PROVE  result' \in [ok : BOOLEAN, extended : BOOLEAN] /\ failed' \in BOOLEAN
  <1>1. result' = [ok |-> ok, extended |-> TRUE] /\ failed' = (failed \/ ~ ok)
    BY DEF Return
  <1>2. failed' \in BOOLEAN
    BY <1>1
  <1> QED
    BY <1>1, <1>2

(* Objects are added that refer to no more than there is room for.         *)
LEMMA MoreFit ==
    ASSUME Typed, Sized, NEW more \in Seq(Objects), Len(objects) + Len(more) <= MaxObjects,
           objects' = objects \o more,
           \A i \in DOMAIN more : \A ref \in more[i].refs : Fits(ref)
    PROVE  /\ Len(objects') \in Nat /\ Len(objects) <= Len(objects') /\ Len(objects') <= MaxObjects
           /\ \A id \in DOMAIN objects' : \A ref \in objects'[id].refs : Fits(ref)
  <1>1. objects \in Seq(Objects)
    BY DEF Typed
  <1>2. /\ objects' \in Seq(Objects) /\ Len(objects') = Len(objects) + Len(more)
        /\ \A id \in DOMAIN objects : id \in DOMAIN objects' /\ objects'[id] = objects[id]
        /\ \A id \in DOMAIN objects' \ DOMAIN objects :
              id - Len(objects) \in DOMAIN more /\ objects'[id] = more[id - Len(objects)]
    BY <1>1, Grown
  <1>3. Len(objects) \in Nat /\ Len(more) \in Nat
    BY <1>1
  <1>4. \A id \in DOMAIN objects' : \A ref \in objects'[id].refs : Fits(ref)
    <2>1. \A id \in DOMAIN objects : \A ref \in objects'[id].refs : Fits(ref)
      BY <1>2 DEF Sized, ObjectsFit
    <2>2. \A id \in DOMAIN objects' \ DOMAIN objects : \A ref \in objects'[id].refs : Fits(ref)
      BY <1>2
    <2> QED
      BY <2>1, <2>2
  <1> QED
    BY <1>2, <1>3, <1>4

LEMMA NewPageSized ==
    ASSUME Noted, Sized, NEW a \in Addresses, NewPage(a)
    PROVE  Sized'
  <1> DEFINE new == Container("page", 0, 0)
  <1>1. /\ shared' = shared /\ registered' = registered /\ documents' = documents
        /\ objects' = objects /\ tasks' = tasks /\ Return(TRUE)
        /\ containers' = [containers EXCEPT ![a] = new]
    BY DEF NewPage
  <1>2. Wanted(new) = {}
    BY NewWantsNothing
  <1> HIDE DEF new
  <1>3. \A b \in Addresses : containers'[b].kind \in Kinds =>
            \/ Wanted(containers'[b]) = {}
            \/ b \in Live /\ Wanted(containers'[b]) = Wanted(containers[b])
    BY <1>1, <1>2 DEF Noted, Typed, Live
  <1>4. /\ Len(objects') \in Nat /\ Len(objects) <= Len(objects') /\ Len(objects') <= MaxObjects
        /\ \A id \in DOMAIN objects' : \A ref \in objects'[id].refs : Fits(ref)
    BY <1>1 DEF Noted, Typed, Sized, ObjectsFit
  <1> QED
    BY <1>1, <1>3, <1>4, Returned, StillSized

LEMMA StartFormSized ==
    ASSUME Noted, Sized, NEW a \in Addresses, StartFormXObject(a)
    PROVE  Sized'
  <1> DEFINE n == Len(objects)
             new == Container("form", n + 1, n + 2)
             more == <<Object("form", {Ref(n + 2, "resources"), Ref(n + 3, "length")}),
                       Owed("resources"), Owed("length")>>
  <1>1. /\ Typed /\ n \in Nat /\ n + 2 = n + 1 + 1 /\ n + 3 = n + 1 + 2
    BY DEF Noted, Typed
  <1>2. /\ shared' = shared /\ registered' = registered /\ documents' = documents
        /\ tasks' = tasks /\ Return(TRUE) /\ n + 3 <= MaxObjects
        /\ containers' = [containers EXCEPT ![a] = new]
        /\ objects' = objects \o more
    BY <1>1 DEF StartFormXObject, MayAllocate, Room
  <1>3. Wanted(new) = {}
    BY NewWantsNothing
  <1>4. more \in Seq(Objects) /\ Len(more) = 3
    <2>1. {Ref(n + 2, "resources"), Ref(n + 3, "length")} \in SUBSET Refs
      BY <1>1, ObjectsTyped
    <2> QED
      BY <2>1, ObjectsTyped
  <1>5. \A i \in DOMAIN more : \A ref \in more[i].refs : Fits(ref)
    <2>1. /\ more[1].refs = {Ref(n + 2, "resources"), Ref(n + 3, "length")}
          /\ more[2].refs = {} /\ more[3].refs = {}
      BY DEF Object, Owed
    <2>2. n + 2 \in 1 .. MaxObjects /\ n + 3 \in 1 .. MaxObjects
      BY <1>1, <1>2, PageWritingAssumption
    <2>3. Fits(Ref(n + 2, "resources")) /\ Fits(Ref(n + 3, "length"))
      BY <2>2 DEF Fits, Ref
    <2>4. DOMAIN more = {1, 2, 3}
      OBVIOUS
    <2> HIDE DEF more
    <2> QED
      BY <2>1, <2>3, <2>4
  <1> HIDE DEF new, more
  <1>6. /\ Len(objects') \in Nat /\ Len(objects) <= Len(objects') /\ Len(objects') <= MaxObjects
        /\ \A id \in DOMAIN objects' : \A ref \in objects'[id].refs : Fits(ref)
    BY <1>1, <1>2, <1>4, <1>5, MoreFit
  <1>7. \A b \in Addresses : containers'[b].kind \in Kinds =>
            \/ Wanted(containers'[b]) = {}
            \/ b \in Live /\ Wanted(containers'[b]) = Wanted(containers[b])
    BY <1>1, <1>2, <1>3 DEF Typed, Live
  <1> QED
    BY <1>2, <1>6, <1>7, Returned, StillSized

LEMMA StartFormFailsSized ==
    ASSUME Noted, Sized, NEW a \in Addresses, StartFormXObjectFails(a)
    PROVE  Sized'
  <1> DEFINE n == Len(objects)
             more == <<Object("form", {Ref(n + 2, "resources")}), Owed("resources")>>
  <1>1. Typed /\ n \in Nat
    BY DEF Noted, Typed
  <1>2. /\ shared' = shared /\ registered' = registered /\ documents' = documents
        /\ tasks' = tasks /\ Return(FALSE) /\ n + 2 <= MaxObjects
        /\ containers' = containers /\ objects' = objects \o more
    BY DEF StartFormXObjectFails, MayAllocate, Room
  <1>3. more \in Seq(Objects) /\ Len(more) = 2
    <2>1. {Ref(n + 2, "resources")} \in SUBSET Refs
      BY <1>1, ObjectsTyped
    <2> QED
      BY <2>1, ObjectsTyped
  <1>4. \A i \in DOMAIN more : \A ref \in more[i].refs : Fits(ref)
    <2>1. more[1].refs = {Ref(n + 2, "resources")} /\ more[2].refs = {}
      BY DEF Object, Owed
    <2>2. n + 2 \in 1 .. MaxObjects
      BY <1>1, <1>2, PageWritingAssumption
    <2>3. Fits(Ref(n + 2, "resources"))
      BY <2>2 DEF Fits, Ref
    <2>4. DOMAIN more = {1, 2}
      OBVIOUS
    <2> HIDE DEF more
    <2> QED
      BY <2>1, <2>3, <2>4
  <1> HIDE DEF more
  <1>5. /\ Len(objects') \in Nat /\ Len(objects) <= Len(objects') /\ Len(objects') <= MaxObjects
        /\ \A id \in DOMAIN objects' : \A ref \in objects'[id].refs : Fits(ref)
    BY <1>1, <1>2, <1>3, <1>4, MoreFit
  <1>6. \A b \in Addresses : containers'[b].kind \in Kinds =>
            b \in Live /\ Wanted(containers'[b]) = Wanted(containers[b])
    BY <1>2 DEF Live
  <1> QED
    BY <1>2, <1>5, <1>6, Returned, StillSized

LEMMA SameFit ==
    ASSUME Typed, Sized, objects' \in Seq(Objects), Len(objects') = Len(objects),
           \A id \in DOMAIN objects : \A ref \in objects'[id].refs : Fits(ref)
    PROVE  /\ Len(objects') \in Nat /\ Len(objects) <= Len(objects') /\ Len(objects') <= MaxObjects
           /\ \A id \in DOMAIN objects' : \A ref \in objects'[id].refs : Fits(ref)
  <1>1. objects \in Seq(Objects)
    BY DEF Typed
  <1>2. DOMAIN objects' = DOMAIN objects /\ Len(objects) \in Nat
    BY <1>1
  <1> QED
    BY <1>2 DEF Sized, ObjectsFit

(* A container of which only streaming is changed.                         *)
LEMMA PauseContainers ==
    ASSUME Typed, NEW a \in Live, containers' = [containers EXCEPT ![a].streaming = FALSE]
    PROVE  \A b \in Addresses : containers'[b].kind \in Kinds =>
               /\ b \in Live /\ Wanted(containers'[b]) = Wanted(containers[b])
               /\ b # a => containers'[b] = containers[b]
               /\ b = a => /\ containers'[b].kind = containers[b].kind
                           /\ containers'[b].due = containers[b].due
                           /\ ~containers'[b].streaming
  <1> DEFINE old == containers[a]
             new == [old EXCEPT !.streaming = FALSE]
  <1>1. a \in Addresses /\ old \in Containers
    BY LiveTyped
  <1>2. containers' = [containers EXCEPT ![a] = new]
    OBVIOUS
  <1>3. /\ new.kind = old.kind /\ new.uses = old.uses /\ new.contents = old.contents
        /\ new.due = old.due /\ new.streaming = FALSE
    BY <1>1 DEF Containers
  <1>4. Wanted(new) = Wanted(old)
    BY <1>3 DEF Wanted
  <1> HIDE DEF new
  <1>5. \A b \in Addresses : containers'[b] = IF b = a THEN new ELSE containers[b]
    BY <1>1, <1>2 DEF Typed
  <1> QED
    BY <1>1, <1>3, <1>4, <1>5 DEF Live

LEMMA PauseSized ==
    ASSUME Noted, Sized, NEW a \in Addresses, PausePageContentContext(a)
    PROVE  Sized'
  <1>1. /\ Typed /\ a \in Live /\ Return(TRUE) /\ tasks' = tasks
        /\ shared' = shared /\ registered' = registered /\ documents' = documents
        /\ containers' = [containers EXCEPT ![a].streaming = FALSE]
        /\ objects' = StreamEnded(objects, Head(unfinished))
    BY DEF Noted, PausePageContentContext
  <1>2. /\ objects' \in Seq(Objects) /\ Len(objects') = Len(objects)
        /\ \A id \in DOMAIN objects : objects'[id].refs = objects[id].refs
    BY <1>1, StreamEndedKeeps DEF Typed
  <1>3. \A id \in DOMAIN objects : \A ref \in objects'[id].refs : Fits(ref)
    BY <1>2 DEF Sized, ObjectsFit
  <1>4. \A b \in Addresses : containers'[b].kind \in Kinds =>
            b \in Live /\ Wanted(containers'[b]) = Wanted(containers[b])
    BY <1>1, PauseContainers
  <1>5. /\ Len(objects') \in Nat /\ Len(objects) <= Len(objects') /\ Len(objects') <= MaxObjects
        /\ \A id \in DOMAIN objects' : \A ref \in objects'[id].refs : Fits(ref)
    BY <1>1, <1>2, <1>3, SameFit
  <1> QED
    BY <1>1, <1>4, <1>5, Returned, StillSized

LEMMA OneMoreFits ==
    ASSUME Typed, Sized, NEW new \in Objects, Room(1), objects' = Append(objects, new),
           \A ref \in new.refs : Fits(ref)
    PROVE  /\ Len(objects') \in Nat /\ Len(objects) <= Len(objects') /\ Len(objects') <= MaxObjects
           /\ \A id \in DOMAIN objects' : \A ref \in objects'[id].refs : Fits(ref)
  <1>1. objects \in Seq(Objects) /\ Len(objects) \in Nat
    BY DEF Typed
  <1>2. /\ <<new>> \in Seq(Objects) /\ Len(<<new>>) = 1 /\ objects' = objects \o <<new>>
        /\ \A i \in DOMAIN <<new>> : <<new>>[i] = new
    BY <1>1
  <1>3. Len(objects) + 1 <= MaxObjects
    BY DEF Room
  <1> QED
    BY <1>2, <1>3, MoreFit

LEMMA AttachSized ==
    ASSUME Noted, Sized, AttachURLLinktoCurrentPage
    PROVE  Sized'
  <1> DEFINE new == Object("annotation", {})
  <1>1. /\ Typed /\ Room(1) /\ Return(TRUE) /\ tasks' = tasks /\ containers' = containers
        /\ shared' = shared /\ registered' = registered /\ documents' = documents
        /\ objects' = Append(objects, new)
    BY DEF Noted, AttachURLLinktoCurrentPage
  <1>2. new \in Objects /\ new.refs = {}
    BY ObjectsTyped DEF Object
  <1> HIDE DEF new
  <1>3. /\ Len(objects') \in Nat /\ Len(objects) <= Len(objects') /\ Len(objects') <= MaxObjects
        /\ \A id \in DOMAIN objects' : \A ref \in objects'[id].refs : Fits(ref)
    BY <1>1, <1>2, OneMoreFits
  <1>4. \A b \in Addresses : containers'[b].kind \in Kinds =>
            b \in Live /\ Wanted(containers'[b]) = Wanted(containers[b])
    BY <1>1 DEF Live
  <1> QED
    BY <1>1, <1>3, <1>4, Returned, StillSized

LEMMA PageFits ==
    ASSUME Noted, Sized, NEW a \in Live, NEW noted \in BOOLEAN
    PROVE  \A ref \in PageObject(a, noted).refs : Fits(ref)
  <1>1. PageObject(a, noted).refs =
            Wanted(containers[a]) \cup {Ref(id, "annotation") : id \in IF noted THEN annotations ELSE {}}
    BY DEF PageObject, Object, Wanted
  <1>2. \A ref \in Wanted(containers[a]) : Fits(ref)
    BY DEF Sized, ContainersFit
  <1>3. annotations \subseteq 1 .. MaxObjects
    BY PageWritingAssumption DEF Noted, Typed, Sized, ObjectsFit
  <1>4. \A id \in annotations : Fits(Ref(id, "annotation"))
    BY <1>3 DEF Fits, Ref
  <1> QED
    BY <1>1, <1>2, <1>4

LEMMA WritePageSized ==
    ASSUME Noted, Sized, NEW a \in Addresses, NEW release \in BOOLEAN, WritePage(a, release)
    PROVE  Sized'
  <1> DEFINE page == PageObject(a, TRUE)
             os == Append(objects, page)
  <1>1. /\ Typed /\ a \in Live /\ Room(1) /\ Key(a) \in Keys
        /\ shared' = shared /\ registered' = registered /\ documents' = documents
        /\ containers' = AfterEnd(a, release)
    BY LiveTyped DEF Noted, WritePage, MayWritePage, Keys
  <1>2. PICK extended \in BOOLEAN :
            \E o : /\ objects' = AfterTasks(os, Key(a), o)
                   /\ tasks' = TasksLeft(Key(a), o)
                   /\ WritePageReturns(extended, o.how = "done")
    BY PageWritingAssumption DEF WritePage, RunTasks
  <1>3. PICK o : /\ objects' = AfterTasks(os, Key(a), o)
                 /\ tasks' = TasksLeft(Key(a), o)
                 /\ WritePageReturns(extended, o.how = "done")
    BY <1>2
  <1>4. result' \in [ok : BOOLEAN, extended : BOOLEAN] /\ failed' \in BOOLEAN
    <2> DEFINE done == o.how = "done"
    <2>1. done \in BOOLEAN
      OBVIOUS
    <2>2. result' = [ok |-> done, extended |-> extended] /\ failed' = (failed \/ ~done)
      BY <1>3 DEF WritePageReturns
    <2> HIDE DEF done
    <2>3. failed' \in BOOLEAN
      BY <2>2
    <2> QED
      BY <2>1, <2>2, <2>3
  <1>5. page \in Objects /\ \A ref \in page.refs : Fits(ref)
    BY <1>1, PageObjectTyped, PageFits
  <1> HIDE DEF page
  <1>6. /\ os \in Seq(Objects) /\ Len(os) = Len(objects) + 1
        /\ os[Len(objects) + 1] = page
        /\ \A id \in DOMAIN objects : os[id] = objects[id]
        /\ DOMAIN os = DOMAIN objects \cup {Len(objects) + 1}
    BY <1>1, <1>5 DEF Typed
  <1> HIDE DEF os
  <1>7. /\ objects' \in Seq(Objects) /\ Len(objects') = Len(os)
        /\ \A id \in DOMAIN os : objects'[id].refs = os[id].refs
    BY <1>3, <1>6, AfterTasksKeeps
  <1>8. DOMAIN objects' = DOMAIN os
    <2>1. os \in Seq(Objects) /\ objects' \in Seq(Objects) /\ Len(objects') = Len(os)
      BY <1>6, <1>7
    <2> QED
      BY <2>1
  <1>9. \A id \in DOMAIN objects' : \A ref \in objects'[id].refs : Fits(ref)
    BY <1>5, <1>6, <1>7, <1>8 DEF Sized, ObjectsFit
  <1>10. Len(objects') \in Nat /\ Len(objects) <= Len(objects') /\ Len(objects') <= MaxObjects
    <2>1. Len(objects) + 1 <= MaxObjects /\ Len(objects) \in Nat
      BY <1>1 DEF Room, Typed
    <2> QED
      BY <1>6, <1>7, <2>1
  <1>11. tasks' = tasks \/ \E k \in Keys : \E p : tasks' = TasksLeft(k, p)
    BY <1>1, <1>3
  <1> QED
    BY <1>1, <1>4, <1>9, <1>10, <1>11, AfterEndWants, StillSized

LEMMA WritePageFailsSized ==
    ASSUME Noted, Sized, NEW a \in Addresses, NEW release \in BOOLEAN, WritePageFails(a, release)
    PROVE  Sized'
  <1> DEFINE page == PageObject(a, FALSE)
  <1>1. /\ Typed /\ a \in Live /\ Room(1) /\ Return(FALSE) /\ tasks' = tasks
        /\ shared' = shared /\ registered' = registered /\ documents' = documents
        /\ containers' = AfterEnd(a, release) /\ objects' = Append(objects, page)
    BY DEF Noted, WritePageFails, MayWritePage
  <1>2. page \in Objects /\ \A ref \in page.refs : Fits(ref)
    BY <1>1, PageObjectTyped, PageFits
  <1> HIDE DEF page
  <1>3. /\ Len(objects') \in Nat /\ Len(objects) <= Len(objects') /\ Len(objects') <= MaxObjects
        /\ \A id \in DOMAIN objects' : \A ref \in objects'[id].refs : Fits(ref)
    BY <1>1, <1>2, OneMoreFits
  <1> QED
    BY <1>1, <1>3, AfterEndWants, Returned, StillSized

LEMMA FormEndFits ==
    ASSUME Noted, Sized, NEW a \in Live, containers[a].kind = "form"
    PROVE  LET os == ResourcesWritten(FormEnded(objects, a), a) IN
           /\ os \in Seq(Objects) /\ Len(os) = Len(objects)
           /\ \A id \in DOMAIN objects : \A ref \in os[id].refs : Fits(ref)
  <1> DEFINE ended == FormEnded(objects, a)
             r == containers[a].resourcesID
             os == ResourcesWritten(FormEnded(objects, a), a)
             new == [ended EXCEPT ![r] = Object("resources", containers[a].uses)]
  <1>1. Typed /\ objects \in Seq(Objects)
    BY DEF Noted, Typed
  <1>2. /\ ended \in Seq(Objects) /\ Len(ended) = Len(objects)
        /\ \A id \in DOMAIN objects : ended[id].refs = objects[id].refs
    BY <1>1, StreamEndedKeeps DEF FormEnded
  <1>3. os = new
    BY DEF ResourcesWritten
  <1> HIDE DEF os
  <1>4. os \in Seq(Objects) /\ Len(os) = Len(objects)
    BY ResourcesKeep DEF os
  <1>5. ASSUME NEW id \in DOMAIN objects, NEW ref \in os[id].refs
        PROVE  Fits(ref)
    <2>1. id \in DOMAIN ended
      BY <1>1, <1>2
    <2>2. CASE id = r
      <3>1. new[id].refs = containers[a].uses
        BY <2>1, <2>2 DEF Object
      <3>2. ref \in Wanted(containers[a])
        BY <1>3, <1>5, <3>1 DEF Wanted
      <3> QED
        BY <3>2 DEF Sized, ContainersFit
    <2>3. CASE id # r
      <3>1. os[id] = ended[id]
        BY <1>3, <2>1, <2>3
      <3> QED
        BY <1>2, <1>5, <3>1 DEF Sized, ObjectsFit
    <2> QED
      BY <2>2, <2>3
  <1>6. \A id \in DOMAIN objects : \A ref \in os[id].refs : Fits(ref)
    BY <1>5
  <1> QED
    BY <1>4, <1>6 DEF os

LEMMA EndFormSized ==
    ASSUME Noted, Sized, NEW a \in Addresses, EndFormXObjectAndRelease(a)
    PROVE  Sized'
  <1> DEFINE os == ResourcesWritten(FormEnded(objects, a), a)
  <1>1. /\ Typed /\ a \in Live /\ containers[a].kind = "form" /\ Key(a) \in Keys
        /\ shared' = shared /\ registered' = registered /\ documents' = documents
        /\ containers' = AfterEnd(a, TRUE)
    BY LiveTyped DEF Noted, EndFormXObjectAndRelease, Keys
  <1>2. PICK o : /\ objects' = AfterTasks(os, Key(a), o)
                 /\ tasks' = TasksLeft(Key(a), o)
                 /\ Return(o.how = "done")
    BY DEF EndFormXObjectAndRelease, RunTasks
  <1>3. /\ os \in Seq(Objects) /\ Len(os) = Len(objects)
        /\ \A id \in DOMAIN objects : \A ref \in os[id].refs : Fits(ref)
    BY <1>1, FormEndFits
  <1> HIDE DEF os
  <1>4. /\ objects' \in Seq(Objects) /\ Len(objects') = Len(os)
        /\ \A id \in DOMAIN os : objects'[id].refs = os[id].refs
    BY <1>2, <1>3, AfterTasksKeeps
  <1>5. DOMAIN os = DOMAIN objects
    BY <1>1, <1>3 DEF Typed
  <1>6. \A id \in DOMAIN objects : \A ref \in objects'[id].refs : Fits(ref)
    BY <1>3, <1>4, <1>5
  <1>7. /\ Len(objects') \in Nat /\ Len(objects) <= Len(objects') /\ Len(objects') <= MaxObjects
        /\ \A id \in DOMAIN objects' : \A ref \in objects'[id].refs : Fits(ref)
    BY <1>1, <1>3, <1>4, <1>6, SameFit
  <1>8. result' \in [ok : BOOLEAN, extended : BOOLEAN] /\ failed' \in BOOLEAN
    <2>1. (o.how = "done") \in BOOLEAN
      OBVIOUS
    <2> QED
      BY <1>2, <2>1, Returned
  <1>9. tasks' = tasks \/ \E k \in Keys : \E p : tasks' = TasksLeft(k, p)
    BY <1>1, <1>2
  <1> QED
    BY <1>1, <1>7, <1>8, <1>9, AfterEndWants, StillSized

LEMMA EndFormFailsSized ==
    ASSUME Noted, Sized, NEW a \in Addresses, EndFormXObjectFails(a)
    PROVE  Sized'
  <1>1. /\ Typed /\ a \in Live /\ containers[a].kind = "form" /\ Return(FALSE) /\ tasks' = tasks
        /\ shared' = shared /\ registered' = registered /\ documents' = documents
        /\ containers' = AfterEnd(a, TRUE)
        /\ objects' = ResourcesWritten(FormEnded(objects, a), a)
    BY DEF Noted, EndFormXObjectFails
  <1>2. /\ objects' \in Seq(Objects) /\ Len(objects') = Len(objects)
        /\ \A id \in DOMAIN objects : \A ref \in objects'[id].refs : Fits(ref)
    BY <1>1, FormEndFits
  <1>3. /\ Len(objects') \in Nat /\ Len(objects) <= Len(objects') /\ Len(objects') <= MaxObjects
        /\ \A id \in DOMAIN objects' : \A ref \in objects'[id].refs : Fits(ref)
    BY <1>1, <1>2, SameFit
  <1> QED
    BY <1>1, <1>3, AfterEndWants, Returned, StillSized

(***************************************************************************)
(* What drawing does.                                                      *)
(***************************************************************************)
(* The ID of what is drawn, and that of the stream begun for it.           *)
DrawnID(r) == IF FirstUse(r) THEN Len(objects) + 1 ELSE shared[r]
StreamID(r) == IF FirstUse(r) THEN Len(objects) + 2 ELSE Len(objects) + 1

LEMMA GrownBy ==
    ASSUME NEW os \in Seq(Objects), NEW more \in Seq(Objects)
    PROVE  \A j \in DOMAIN more :
               Len(os) + j \in DOMAIN (os \o more) /\ (os \o more)[Len(os) + j] = more[j]
  OBVIOUS

LEMMA TwoMore ==
    ASSUME NEW os \in Seq(Objects), NEW y \in Objects, NEW z \in Objects,
           NEW new, new = os \o <<y, z>>
    PROVE  /\ new \in Seq(Objects) /\ Len(new) = Len(os) + 2
           /\ DOMAIN new = DOMAIN os \cup {Len(os) + 1, Len(os) + 2}
           /\ \A i \in DOMAIN os : new[i] = os[i]
           /\ new[Len(os) + 1] = y /\ new[Len(os) + 2] = z
           /\ {Len(os) + 1, Len(os) + 2} \cap DOMAIN os = {}
  <1> DEFINE more == <<y, z>>
             n == Len(os)
  <1>1. more \in Seq(Objects) /\ Len(more) = 2 /\ more[1] = y /\ more[2] = z
        /\ 1 \in DOMAIN more /\ 2 \in DOMAIN more
    OBVIOUS
  <1>2. new = os \o more
    OBVIOUS
  <1> HIDE DEF more
  <1>3. /\ new \in Seq(Objects) /\ Len(new) = n + 2
        /\ \A i \in DOMAIN os : new[i] = os[i]
    BY <1>1, <1>2, Grown
  <1>4. new[n + 1] = more[1] /\ new[n + 2] = more[2]
    BY <1>1, <1>2, GrownBy
  <1>5. DOMAIN new = 1 .. n + 2 /\ DOMAIN os = 1 .. n /\ n \in Nat
    BY <1>3
  <1>6. DOMAIN new = DOMAIN os \cup {n + 1, n + 2} /\ {n + 1, n + 2} \cap DOMAIN os = {}
    BY <1>5
  <1> QED
    BY <1>1, <1>3, <1>4, <1>6

LEMMA DrawObjects ==
    ASSUME Noted, NEW a \in Addresses, NEW r \in Resources, Draw(a, r)
    PROVE  /\ objects' \in Seq(Objects) /\ Len(objects) <= Len(objects')
           /\ Len(objects') <= Len(objects) + 3
           /\ \A i \in DOMAIN objects : i \in DOMAIN objects' /\ objects'[i] = objects[i]
           /\ FirstUse(r) => /\ DrawnID(r) \in DOMAIN objects' \ DOMAIN objects
                             /\ objects'[DrawnID(r)] = Owed(r)
                             /\ Len(objects) < Len(objects')
           /\ ~containers[a].streaming =>
                 /\ {StreamID(r), StreamID(r) + 1} \subseteq DOMAIN objects' \ DOMAIN objects
                 /\ objects'[StreamID(r)] = Object("content", {Ref(StreamID(r) + 1, "length")})
                 /\ objects'[StreamID(r) + 1] = Owed("length")
           /\ \A i \in DOMAIN objects' \ DOMAIN objects :
                 \/ FirstUse(r) /\ i = DrawnID(r)
                 \/ ~containers[a].streaming /\ i \in {StreamID(r), StreamID(r) + 1}
  <1> DEFINE n == Len(objects)
             first == FirstUse(r)
             before == IF first THEN Append(objects, Owed(r)) ELSE objects
             own == StreamID(r)
             x == Owed(r)
             y == Object("content", {Ref(own + 1, "length")})
             z == Owed("length")
  <1>1. /\ objects \in Seq(Objects) /\ n \in Nat /\ a \in Live /\ containers[a] \in Containers
        /\ objects' = StreamStarted(before, a)
    BY LiveTyped DEF Noted, Typed, Draw, MayDraw
  <1>2. containers[a].streaming \in BOOLEAN /\ first \in BOOLEAN
    BY <1>1 DEF Containers, FirstUse
  <1>3. /\ own \in Nat /\ own = (IF first THEN n + 2 ELSE n + 1)
        /\ first => DrawnID(r) = n + 1
    BY <1>1, <1>2 DEF StreamID, DrawnID
  <1>4. own = Len(before) + 1
    BY <1>1, <1>2, <1>3
  <1>5. x \in Objects /\ y \in Objects /\ z \in Objects
    <2>1. {Ref(own + 1, "length")} \in SUBSET Refs
      BY <1>3, ObjectsTyped
    <2> QED
      BY <2>1, ObjectsTyped
  <1>6. objects' = IF containers[a].streaming THEN before ELSE before \o <<y, z>>
    <2>1. own + 1 = Len(before) + 2
      BY <1>1, <1>3, <1>4
    <2> QED
      BY <1>1, <2>1 DEF StreamStarted
  <1> HIDE DEF x, y, z, first, own
  <1>7. CASE first /\ containers[a].streaming
    <2>1. objects' = Append(objects, x)
      BY <1>6, <1>7 DEF x
    <2> QED
      BY <1>1, <1>3, <1>5, <1>7, <2>1 DEF x, first
  <1>8. CASE first /\ ~containers[a].streaming
    <2>1. objects' = Append(objects, x) \o <<y, z>>
      BY <1>6, <1>8 DEF x
    <2>2. /\ objects' \in Seq(Objects) /\ Len(objects') = n + 3
          /\ DOMAIN objects' = DOMAIN objects \cup {n + 1, n + 2, n + 3}
          /\ \A i \in DOMAIN objects : objects'[i] = objects[i]
          /\ objects'[n + 1] = x /\ objects'[n + 2] = y /\ objects'[n + 3] = z
          /\ {n + 1, n + 2, n + 3} \cap DOMAIN objects = {}
      <3> DEFINE one == Append(objects, x)
      <3>1. /\ one \in Seq(Objects) /\ Len(one) = n + 1 /\ DOMAIN one = DOMAIN objects \cup {n + 1}
            /\ one[n + 1] = x /\ n + 1 \notin DOMAIN objects
            /\ \A i \in DOMAIN objects : one[i] = objects[i]
        BY <1>1, <1>5
      <3>2. objects' = one \o <<y, z>>
        BY <2>1
      <3> HIDE DEF one
      <3>3. n + 1 + 1 = n + 2 /\ n + 1 + 2 = n + 3
        BY <1>1
      <3>4. /\ objects' \in Seq(Objects) /\ Len(objects') = Len(one) + 2
            /\ DOMAIN objects' = DOMAIN one \cup {Len(one) + 1, Len(one) + 2}
            /\ \A i \in DOMAIN one : objects'[i] = one[i]
            /\ objects'[Len(one) + 1] = y /\ objects'[Len(one) + 2] = z
            /\ {Len(one) + 1, Len(one) + 2} \cap DOMAIN one = {}
        <4>1. one \in Seq(Objects)
          BY <3>1
        <4> QED
          BY <1>5, <3>2, <4>1, TwoMore
      <3>5. Len(objects') = n + 3 /\ Len(one) + 1 = n + 2 /\ Len(one) + 2 = n + 3
        BY <1>1, <3>1, <3>4
      <3>6. /\ DOMAIN objects' = DOMAIN objects \cup {n + 1, n + 2, n + 3}
            /\ {n + 1, n + 2, n + 3} \cap DOMAIN objects = {}
        BY <3>1, <3>4, <3>5
      <3> QED
        BY <3>1, <3>4, <3>5, <3>6
    <2>3. own = n + 2 /\ own + 1 = n + 3 /\ DrawnID(r) = n + 1
      BY <1>1, <1>3, <1>8
    <2> QED
      BY <1>1, <1>8, <2>2, <2>3 DEF x, y, z, own, first
  <1>9. CASE ~first /\ containers[a].streaming
    <2>1. objects' = objects
      BY <1>6, <1>9
    <2> QED
      BY <1>1, <1>9, <2>1 DEF first
  <1>10. CASE ~first /\ ~containers[a].streaming
    <2>1. objects' = objects \o <<y, z>>
      BY <1>6, <1>10
    <2>2. /\ objects' \in Seq(Objects) /\ Len(objects') = n + 2
          /\ DOMAIN objects' = DOMAIN objects \cup {n + 1, n + 2}
          /\ \A i \in DOMAIN objects : objects'[i] = objects[i]
          /\ objects'[n + 1] = y /\ objects'[n + 2] = z
          /\ {n + 1, n + 2} \cap DOMAIN objects = {}
      BY <1>1, <1>5, <2>1, TwoMore
    <2>3. own = n + 1 /\ own + 1 = n + 2
      BY <1>1, <1>3, <1>10
    <2> QED
      BY <1>1, <1>10, <2>2, <2>3 DEF x, y, z, own, first
  <1> QED
    BY <1>2, <1>7, <1>8, <1>9, <1>10

LEMMA DrawContainers ==
    ASSUME Noted, NEW a \in Addresses, NEW r \in Resources, Draw(a, r)
    PROVE  /\ a \in Live /\ containers[a] \in Containers
           /\ \A b \in Addresses : b # a => containers'[b] = containers[b]
           /\ containers'[a] \in Containers
           /\ containers'[a].kind = containers[a].kind /\ containers'[a].own = containers[a].own
           /\ containers'[a].resourcesID = containers[a].resourcesID
           /\ containers'[a].streaming /\ containers'[a].due
           /\ Wanted(containers'[a]) \subseteq
                 Wanted(containers[a]) \cup {Ref(DrawnID(r), r), Ref(StreamID(r), "content")}
           /\ containers[a].streaming =>
                 Wanted(containers'[a]) \subseteq Wanted(containers[a]) \cup {Ref(DrawnID(r), r)}
  <1> DEFINE n == Len(objects)
             id == DrawnID(r)
             own == StreamID(r)
             c == containers[a]
             drawn == [c EXCEPT !.uses = @ \cup {Ref(id, r)},
                          !.contents = IF c.streaming THEN @ ELSE Append(@, own),
                          !.streaming = TRUE, !.due = TRUE]
  <1>1. /\ Typed /\ objects \in Seq(Objects) /\ n \in Nat /\ a \in Live /\ c \in Containers
    BY LiveTyped DEF Noted, Typed, Draw, MayDraw
  <1>2. id \in Nat /\ own \in Nat
    BY <1>1 DEF DrawnID, StreamID, Typed
  <1>3. containers' = [containers EXCEPT ![a] = drawn]
    <2> DEFINE before == IF FirstUse(r) THEN Append(objects, Owed(r)) ELSE objects
    <2>1. Len(before) + 1 = own
      BY <1>1 DEF StreamID
    <2>2. containers' = Drawn(a, Ref(id, r), Len(before) + 1)
      BY DEF Draw, DrawnID
    <2>3. containers' = Drawn(a, Ref(id, r), own)
      BY <2>1, <2>2
    <2> HIDE DEF id, own
    <2> QED
      BY <1>1, <2>3 DEF Drawn, Typed, Containers
  <1> HIDE DEF id, own
  <1>4. /\ drawn.kind = c.kind /\ drawn.own = c.own /\ drawn.resourcesID = c.resourcesID
        /\ drawn.streaming = TRUE /\ drawn.due = TRUE
        /\ drawn.uses = c.uses \cup {Ref(id, r)}
        /\ drawn.contents = IF c.streaming THEN c.contents ELSE Append(c.contents, own)
    BY <1>1 DEF Containers
  <1>5. drawn \in Containers
    <2>1. Ref(id, r) \in Uses
      BY <1>2, ObjectsTyped
    <2>2. c.uses \cup {Ref(id, r)} \in SUBSET Uses
      BY <1>1, <2>1 DEF Containers
    <2>3. Append(c.contents, own) \in Seq(Nat)
      BY <1>1, <1>2 DEF Containers
    <2> QED
      BY <1>1, <2>2, <2>3 DEF Containers
  <1> HIDE DEF drawn
  <1>6. containers'[a] = drawn /\ \A b \in Addresses : b # a => containers'[b] = containers[b]
    BY <1>1, <1>3 DEF Typed
  <1>7. \A i \in DOMAIN drawn.contents :
            \/ i \in DOMAIN c.contents /\ drawn.contents[i] = c.contents[i]
            \/ ~c.streaming /\ drawn.contents[i] = own
    <2>1. c.contents \in Seq(Nat) /\ c.streaming \in BOOLEAN
      BY <1>1 DEF Containers
    <2> QED
      BY <1>2, <1>4, <2>1
  <1>8. /\ Wanted(drawn) \subseteq Wanted(c) \cup {Ref(id, r), Ref(own, "content")}
        /\ c.streaming => Wanted(drawn) \subseteq Wanted(c) \cup {Ref(id, r)}
    BY <1>4, <1>7 DEF Wanted
  <1> QED
    BY <1>1, <1>4, <1>5, <1>6, <1>8 DEF id, own

(* Images are for the first list, opacity states for the second.           *)
ListOf(r) == IF r \in Images THEN "first" ELSE "more"

LEMMA DrawTasks ==
    ASSUME Noted, NEW a \in Addresses, NEW r \in Resources, Draw(a, r)
    PROVE  /\ Key(a) \in Keys /\ tasks' \in [Keys -> [first : Seq(Tasks), more : Seq(Tasks)]]
           /\ ~FirstUse(r) => tasks' = tasks
           /\ FirstUse(r) =>
                 /\ Task(r, DrawnID(r), a) \in Tasks
                 /\ \A k \in Keys : k # Key(a) => tasks'[k] = tasks[k]
                 /\ \A l \in Lists : l # ListOf(r) => tasks'[Key(a)][l] = tasks[Key(a)][l]
                 /\ tasks'[Key(a)][ListOf(r)] =
                       Append(tasks[Key(a)][ListOf(r)], Task(r, DrawnID(r), a))
  <1> DEFINE task == Task(r, DrawnID(r), a)
             lists == tasks[Key(a)]
  <1>1. /\ Typed /\ a \in Live /\ containers[a] \in Containers /\ Key(a) \in Keys
    BY LiveTyped DEF Noted, Draw, MayDraw, Keys
  <1>2. tasks' = IF FirstUse(r) THEN Scheduled(a, r, DrawnID(r)) ELSE tasks
    BY DEF Draw, DrawnID
  <1>3. tasks' \in [Keys -> [first : Seq(Tasks), more : Seq(Tasks)]]
    BY DrawNoted DEF Noted, Typed, Keys
  <1>4. lists \in [first : Seq(Tasks), more : Seq(Tasks)]
    BY <1>1 DEF Typed, Keys
  <1>5. CASE FirstUse(r)
    <2>1. DrawnID(r) \in Nat
      BY <1>1 DEF Typed, DrawnID
    <2>2. task \in Tasks
      BY <1>1, <2>1 DEF Task, Tasks, Containers
    <2>3. tasks' = IF r \in Images THEN [tasks EXCEPT ![Key(a)].first = Append(@, task)]
                   ELSE [tasks EXCEPT ![Key(a)].more = Append(@, task)]
      BY <1>2, <1>5 DEF Scheduled
    <2> HIDE DEF task
    <2>4. CASE r \in Images
      <3> DEFINE new == [lists EXCEPT !.first = Append(@, task)]
      <3>1. tasks' = [tasks EXCEPT ![Key(a)] = new]
        BY <2>3, <2>4
      <3>2. new.first = Append(lists.first, task) /\ new.more = lists.more
        BY <1>4
      <3> HIDE DEF new, lists
      <3>3. tasks'[Key(a)] = new /\ \A k \in Keys : k # Key(a) => tasks'[k] = tasks[k]
        BY <1>1, <3>1 DEF Typed, Keys
      <3>4. ListOf(r) = "first" /\ \A l \in Lists : l # ListOf(r) => l = "more"
        BY <2>4 DEF ListOf, Lists
      <3> QED
        BY <1>1, <1>3, <1>5, <2>2, <3>2, <3>3, <3>4 DEF task, lists
    <2>5. CASE r \notin Images
      <3> DEFINE new == [lists EXCEPT !.more = Append(@, task)]
      <3>1. tasks' = [tasks EXCEPT ![Key(a)] = new]
        BY <2>3, <2>5
      <3>2. new.more = Append(lists.more, task) /\ new.first = lists.first
        BY <1>4
      <3> HIDE DEF new, lists
      <3>3. tasks'[Key(a)] = new /\ \A k \in Keys : k # Key(a) => tasks'[k] = tasks[k]
        BY <1>1, <3>1 DEF Typed, Keys
      <3>4. ListOf(r) = "more" /\ \A l \in Lists : l # ListOf(r) => l = "first"
        BY <2>5 DEF ListOf, Lists
      <3> QED
        BY <1>1, <1>3, <1>5, <2>2, <3>2, <3>3, <3>4 DEF task, lists
    <2> QED
      BY <2>4, <2>5
  <1>6. CASE ~FirstUse(r)
    BY <1>1, <1>2, <1>3, <1>6
  <1> QED
    BY <1>5, <1>6

LEMMA WaitsMore ==
    ASSUME NEW old \in [first : Seq(Tasks), more : Seq(Tasks)],
           NEW new \in [first : Seq(Tasks), more : Seq(Tasks)], NEW task \in Tasks,
           \/ new.first = Append(old.first, task) /\ new.more = old.more
           \/ new.more = Append(old.more, task) /\ new.first = old.first
    PROVE  Waits(new) = Waits(old) + 1
  <1> DEFINE f == old.first
             m == old.more
  <1>1. f \in Seq(Tasks) /\ m \in Seq(Tasks)
    OBVIOUS
  <1>2. Waits(old) = Len(f) + Len(m)
    BY Zenon DEF Waits
  <1> HIDE DEF f, m
  <1>3. Waits(new) = Len(new.first) + Len(new.more)
    BY Zenon DEF Waits
  <1>4. CASE new.first = Append(f, task) /\ new.more = m
    <2>1. Waits(new) = Len(Append(f, task)) + Len(m)
      BY <1>3, <1>4, Zenon
    <2> QED
      BY <1>1, <1>2, <2>1
  <1>5. CASE new.more = Append(m, task) /\ new.first = f
    <2>1. Waits(new) = Len(f) + Len(Append(m, task))
      BY <1>3, <1>5, Zenon
    <2> QED
      BY <1>1, <1>2, <2>1
  <1> QED
    BY <1>4, <1>5 DEF f, m

LEMMA DrawSized ==
    ASSUME Noted, Sized, NEW a \in Addresses, NEW r \in Resources, Draw(a, r)
    PROVE  Sized'
  <1> DEFINE n == Len(objects)
             c == containers[a]
  <1>1. /\ Typed /\ n \in Nat /\ MaxObjects \in Nat /\ n + 3 <= MaxObjects
        /\ Return(TRUE) /\ documents' = documents
        /\ shared' = [shared EXCEPT ![r] = DrawnID(r)]
        /\ registered' = IF FirstUse(r) THEN registered \cup {r} ELSE registered
    <2>1. Typed /\ n \in Nat
      BY DEF Noted, Typed
    <2>2. MaxObjects \in Nat /\ n + 3 <= MaxObjects
      BY PageWritingAssumption DEF Draw, MayDraw, Room
    <2> QED
      BY <2>1, <2>2 DEF Draw, DrawnID
  <1>2. DrawnID(r) \in 1 .. MaxObjects
    <2>1. shared[r] \in 0 .. MaxObjects
      BY DEF Sized, OthersFit
    <2> QED
      BY <1>1, <2>1 DEF DrawnID, FirstUse
  <1>3. StreamID(r) \in 1 .. MaxObjects /\ StreamID(r) + 1 \in 1 .. MaxObjects
    BY <1>1 DEF StreamID
  <1>4. /\ Fits(Ref(DrawnID(r), r)) /\ Fits(Ref(StreamID(r), "content"))
        /\ Fits(Ref(StreamID(r) + 1, "length"))
    BY <1>2, <1>3 DEF Fits, Ref
  <1>5. objects' \in Seq(Objects) /\ n <= Len(objects') /\ Len(objects') <= n + 3
    BY DrawObjects
  <1>6. ObjectsFit'
    <2>1. Len(objects') <= MaxObjects
      <3>1. Len(objects') \in Nat
        BY <1>5
      <3> QED
        BY <1>1, <1>5, <3>1
    <2>2. \A i \in DOMAIN objects' : \A ref \in objects'[i].refs : Fits(ref)
      <3>1. /\ \A i \in DOMAIN objects : i \in DOMAIN objects' /\ objects'[i] = objects[i]
            /\ FirstUse(r) => objects'[DrawnID(r)] = Owed(r)
            /\ ~c.streaming =>
                  /\ objects'[StreamID(r)] = Object("content", {Ref(StreamID(r) + 1, "length")})
                  /\ objects'[StreamID(r) + 1] = Owed("length")
            /\ \A i \in DOMAIN objects' \ DOMAIN objects :
                  \/ FirstUse(r) /\ i = DrawnID(r)
                  \/ ~c.streaming /\ i \in {StreamID(r), StreamID(r) + 1}
        BY DrawObjects
      <3>2. Owed(r).refs = {} /\ Owed("length").refs = {}
            /\ Object("content", {Ref(StreamID(r) + 1, "length")}).refs = {Ref(StreamID(r) + 1, "length")}
        BY DEF Owed, Object
      <3>3. \A i \in DOMAIN objects : \A ref \in objects'[i].refs : Fits(ref)
        BY <3>1 DEF Sized, ObjectsFit
      <3>4. \A i \in DOMAIN objects' \ DOMAIN objects : \A ref \in objects'[i].refs : Fits(ref)
        BY <1>4, <3>1, <3>2
      <3> QED
        BY <3>3, <3>4
    <2> QED
      BY <2>1, <2>2 DEF ObjectsFit, Fits
  <1>7. ContainersFit'
    <2>1. /\ a \in Live /\ \A b \in Addresses : b # a => containers'[b] = containers[b]
          /\ Wanted(containers'[a]) \subseteq
                Wanted(c) \cup {Ref(DrawnID(r), r), Ref(StreamID(r), "content")}
      BY DrawContainers
    <2>2. \A b \in Live' : \A ref \in Wanted(containers'[b]) : Fits(ref)
      BY <1>4, <2>1 DEF Sized, ContainersFit, Live
    <2> QED
      BY <2>2 DEF ContainersFit, Fits, Wanted, Ref
  <1>8. ListsFit'
    <2>1. /\ Key(a) \in Keys /\ tasks' \in [Keys -> [first : Seq(Tasks), more : Seq(Tasks)]]
          /\ ~FirstUse(r) => tasks' = tasks
          /\ FirstUse(r) =>
                /\ Task(r, DrawnID(r), a) \in Tasks
                /\ \A k \in Keys : k # Key(a) => tasks'[k] = tasks[k]
                /\ \A l \in Lists : l # ListOf(r) => tasks'[Key(a)][l] = tasks[Key(a)][l]
                /\ tasks'[Key(a)][ListOf(r)] =
                      Append(tasks[Key(a)][ListOf(r)], Task(r, DrawnID(r), a))
      BY DrawTasks
    <2>2. \A k \in Keys : Waits(tasks[k]) \in Nat /\ Waits(tasks[k]) <= n
      <3>1. \A k \in Keys : tasks[k] \in [first : Seq(Tasks), more : Seq(Tasks)]
        BY <1>1 DEF Typed, Keys
      <3> QED
        BY <3>1, WaitsTyped DEF Sized, ListsFit
    <2>3. Len(objects') \in Nat /\ n <= Len(objects')
      BY <1>5
    <2>4. ASSUME NEW k \in Keys
          PROVE  Waits(tasks'[k]) <= Len(objects')
      <3>1. CASE tasks'[k] = tasks[k]
        <4> HIDE DEF n
        <4>1. Waits(tasks'[k]) = Waits(tasks[k])
          BY <3>1
        <4> QED
          BY <1>1, <2>2, <2>3, <4>1
      <3>2. CASE FirstUse(r) /\ k = Key(a)
        <4> DEFINE old == tasks[Key(a)]
                   new == tasks'[Key(a)]
                   task == Task(r, DrawnID(r), a)
        <4>1. /\ old \in [first : Seq(Tasks), more : Seq(Tasks)]
              /\ new \in [first : Seq(Tasks), more : Seq(Tasks)] /\ task \in Tasks
          BY <1>1, <2>1, <3>2 DEF Typed, Keys
        <4>2. \/ new["first"] = Append(old["first"], task) /\ new["more"] = old["more"]
              \/ new["more"] = Append(old["more"], task) /\ new["first"] = old["first"]
          BY <2>1, <3>2 DEF ListOf, Lists
        <4> HIDE DEF old, new, task
        <4>3. Waits(new) = Waits(old) + 1
          BY <4>1, <4>2, WaitsMore
        <4>4. n < Len(objects')
          BY <3>2, DrawObjects
        <4>5. Waits(old) \in Nat /\ Waits(old) <= n
          BY <2>1, <2>2 DEF old
        <4>6. Waits(new) <= Len(objects')
          BY <1>1, <2>3, <4>3, <4>4, <4>5
        <4> QED
          BY <3>2, <4>6 DEF new
      <3> QED
        BY <2>1, <3>1, <3>2
    <2>5. \A k \in Keys : Waits(tasks'[k]) <= Len(objects')
      BY <2>4
    <2> QED
      BY <2>5 DEF ListsFit, Waits
  <1>9. OthersFit'
    <2>1. shared' \in [Resources -> 0 .. MaxObjects]
      BY <1>1, <1>2 DEF Sized, OthersFit
    <2>2. registered' \subseteq Resources
      BY <1>1 DEF Sized, OthersFit
    <2>3. result' \in [ok : BOOLEAN, extended : BOOLEAN] /\ failed' \in BOOLEAN
      BY <1>1, Returned
    <2> QED
      BY <1>1, <2>1, <2>2, <2>3 DEF Sized, OthersFit
  <1> QED
    BY <1>6, <1>7, <1>8, <1>9 DEF Sized

LEMMA EndPDFSized ==
    ASSUME Noted, Sized, EndPDF
    PROVE  Sized'
  <1>1. /\ Typed /\ objects' = objects /\ containers' = containers /\ registered' = registered
        /\ shared' = AfterCleanup /\ tasks' = [k \in Kinds \X Addresses |-> NoTasks]
        /\ result' = result /\ failed' = failed /\ documents' = documents
    BY DEF Noted, EndPDF
  <1>2. ObjectsFit' /\ ContainersFit'
    BY <1>1 DEF Sized, ObjectsFit, ContainersFit, Live
  <1>3. ListsFit'
    <2>1. \A k \in Keys : Waits(tasks'[k]) = 0
      BY <1>1, NoTasksWait DEF Keys
    <2>2. \A k \in Keys : Waits(tasks'[k]) <= Len(objects')
      BY <1>1, <2>1 DEF Typed
    <2> QED
      BY <2>2 DEF ListsFit, Waits
  <1>4. OthersFit'
    <2>1. 0 \in 0 .. MaxObjects
      BY PageWritingAssumption
    <2>2. shared' \in [Resources -> 0 .. MaxObjects]
      BY <1>1, <2>1 DEF AfterCleanup, Sized, OthersFit
    <2> QED
      BY <1>1, <2>2 DEF Sized, OthersFit
  <1> QED
    BY <1>2, <1>3, <1>4 DEF Sized

LEMMA StartPDFSized ==
    ASSUME Noted, Sized, StartPDF
    PROVE  Sized'
  <1>1. /\ phase # "writing" /\ objects' = <<>> /\ registered' = {} /\ tasks' = tasks
        /\ containers' = [b \in Addresses |-> Free] /\ shared' = shared
        /\ documents' = documents + 1 /\ documents < MaxDocuments
        /\ result' = [ok |-> TRUE, extended |-> TRUE] /\ failed' = FALSE
    BY DEF StartPDF
  <1>2. Live' = {}
    BY <1>1 DEF Live, Free, Kinds
  <1>3. ObjectsFit' /\ ContainersFit'
    BY <1>1, <1>2, PageWritingAssumption DEF ObjectsFit, ContainersFit
  <1>4. ListsFit'
    <2>1. \A k \in Keys : tasks'[k] = NoTasks
      BY <1>1 DEF Noted, NothingKept, Keys
    <2>2. \A k \in Keys : Waits(tasks'[k]) <= Len(objects')
      BY <1>1, <2>1, NoTasksWait
    <2> QED
      BY <2>2 DEF ListsFit, Waits
  <1>5. OthersFit'
    <2>1. documents' \in 1 .. MaxDocuments
      BY <1>1, PageWritingAssumption DEF Sized, OthersFit
    <2>2. result' \in [ok : BOOLEAN, extended : BOOLEAN] /\ failed' \in BOOLEAN
      BY <1>1
    <2>3. shared' \in [Resources -> 0 .. MaxObjects] /\ registered' \subseteq Resources
      BY <1>1 DEF Sized, OthersFit
    <2> QED
      BY <2>1, <2>2, <2>3 DEF OthersFit
  <1> QED
    BY <1>3, <1>4, <1>5 DEF Sized

LEMMA InitSized == Init => Sized
  <1> SUFFICES ASSUME Init PROVE Sized
    OBVIOUS
  <1>1. /\ objects = <<>> /\ registered = {} /\ documents = 1
        /\ tasks = [k \in Kinds \X Addresses |-> NoTasks]
        /\ shared = [r \in Resources |-> 0]
        /\ result = [ok |-> TRUE, extended |-> TRUE] /\ failed = FALSE
    BY DEF Init
  <1>2. Live = {}
    BY DEF Init, Live, Free, Kinds
  <1>3. ObjectsFit /\ ContainersFit
    BY <1>1, <1>2, PageWritingAssumption DEF ObjectsFit, ContainersFit
  <1>4. ListsFit
    <2>1. \A k \in Keys : tasks[k] = NoTasks
      BY <1>1 DEF Keys
    <2> QED
      BY <1>1, <2>1, NoTasksWait DEF ListsFit
  <1>5. OthersFit
    <2>1. 0 \in 0 .. MaxObjects /\ documents \in 1 .. MaxDocuments
      BY <1>1, PageWritingAssumption
    <2>2. result \in [ok : BOOLEAN, extended : BOOLEAN] /\ failed \in BOOLEAN
      BY <1>1
    <2>3. shared \in [Resources -> 0 .. MaxObjects] /\ registered \subseteq Resources
      BY <1>1, <2>1
    <2> QED
      BY <2>1, <2>2, <2>3 DEF OthersFit
  <1> QED
    BY <1>3, <1>4, <1>5 DEF Sized

LEMMA NextSized == Noted /\ Sized /\ [Next]_vars => Sized'
  <1> SUFFICES ASSUME Noted, Sized, [Next]_vars PROVE Sized'
    OBVIOUS
  <1>1. ASSUME NEW a \in Addresses, NewPage(a) PROVE Sized'
    BY <1>1, NewPageSized
  <1>2. ASSUME NEW a \in Addresses, StartFormXObject(a) PROVE Sized'
    BY <1>2, StartFormSized
  <1>3. ASSUME NEW a \in Addresses, StartFormXObjectFails(a) PROVE Sized'
    BY <1>3, StartFormFailsSized
  <1>4. ASSUME NEW a \in Addresses, NEW r \in Resources, Draw(a, r) PROVE Sized'
    BY <1>4, DrawSized
  <1>5. ASSUME NEW a \in Addresses, PausePageContentContext(a) PROVE Sized'
    BY <1>5, PauseSized
  <1>6. ASSUME NEW a \in Addresses, NEW release \in BOOLEAN, WritePage(a, release)
        PROVE  Sized'
    BY <1>6, WritePageSized
  <1>7. ASSUME NEW a \in Addresses, NEW release \in BOOLEAN, WritePageFails(a, release)
        PROVE  Sized'
    BY <1>7, WritePageFailsSized
  <1>8. ASSUME NEW a \in Addresses, EndFormXObjectAndRelease(a) PROVE Sized'
    BY <1>8, EndFormSized
  <1>9. ASSUME NEW a \in Addresses, EndFormXObjectFails(a) PROVE Sized'
    BY <1>9, EndFormFailsSized
  <1>10. CASE UNCHANGED vars
    BY <1>10 DEF vars, Sized, ObjectsFit, ContainersFit, ListsFit, OthersFit, Live, Waits
  <1> QED
    BY <1>1, <1>2, <1>3, <1>4, <1>5, <1>6, <1>7, <1>8, <1>9, <1>10, AttachSized,
       EndPDFSized, StartPDFSized DEF Next
-----------------------------------------------------------------------------
(* The length of the stream that is open.                                  *)
LengthID(a) == Head(unfinished) + (IF containers[a].kind = "form" THEN 2 ELSE 1)

(* The object begun last is the stream of the container that streams, and  *)
(* the ID for its length is kept.                                          *)
StreamAt(a) ==
    /\ unfinished # <<>> /\ containers[a].due
    /\ Head(unfinished) \in DOMAIN objects
    /\ objects[Head(unfinished)].holds = (IF containers[a].kind = "form" THEN "form" ELSE "content")
    /\ containers[a].kind = "form" => containers[a].own = Head(unfinished)
    /\ LengthID(a) \in DOMAIN objects /\ objects[LengthID(a)].holds = "length"

(* One stream is open at most; a form's is, as long as the form lives.     *)
OneStreams ==
    /\ \A a \in Live : containers[a].kind = "form" => containers[a].streaming
    /\ \A a, b \in Live : containers[a].streaming /\ containers[b].streaming => a = b

(* The invariant of streams.                                               *)
Streams ==
    /\ unfinished \in Seq(DOMAIN objects)
    /\ OneStreams
    /\ \A a \in Live : containers[a].streaming => StreamAt(a)

LEMMA SeqGrows ==
    ASSUME NEW S, NEW T, S \subseteq T, NEW s \in Seq(S)
    PROVE  s \in Seq(T)
  OBVIOUS

Paused(b) == containers'[b].kind = "page" /\ ~containers'[b].streaming

AsBefore(b) ==
    /\ b \in Live
    /\ containers'[b].kind = containers[b].kind /\ containers'[b].own = containers[b].own
    /\ containers'[b].streaming = containers[b].streaming
    /\ containers[b].due => containers'[b].due

(* Objects are added while the open stream, if any, stays open.            *)
LEMMA QuietStreams ==
    ASSUME Streams, Later(objects'), unfinished' = unfinished,
           \A b \in Addresses : containers'[b].kind \in Kinds => Paused(b) \/ AsBefore(b)
    PROVE  Streams'
  <1>1. unfinished' \in Seq(DOMAIN objects')
    BY SeqGrows DEF Streams, Later
  <1>2. OneStreams'
    BY DEF Streams, OneStreams, Paused, AsBefore, Live
  <1>3. ASSUME NEW b \in Live', containers'[b].streaming
        PROVE  StreamAt(b)'
    <2>1. AsBefore(b) /\ StreamAt(b)
      BY <1>3 DEF Live, Paused, AsBefore, Streams
    <2>2. LengthID(b)' = LengthID(b)
      BY <2>1 DEF LengthID, AsBefore
    <2> QED
      BY <2>1, <2>2 DEF StreamAt, AsBefore, Later
  <1> QED
    BY <1>1, <1>2, <1>3 DEF Streams

(* No stream is open.                                                      *)
LEMMA NoStreams ==
    ASSUME unfinished' \in Seq(DOMAIN objects'),
           \A b \in Addresses : containers'[b].kind \in Kinds => Paused(b)
    PROVE  Streams' /\ ~Streaming'
  BY DEF Streams, OneStreams, Paused, Live, Streaming

(* A container's stream is begun.                                          *)
LEMMA OneStream ==
    ASSUME NEW a \in Addresses, unfinished' \in Seq(DOMAIN objects'),
           \A b \in Addresses : b # a /\ containers'[b].kind \in Kinds => Paused(b),
           StreamAt(a)', containers'[a].kind \in Kinds, containers'[a].streaming
    PROVE  Streams' /\ Streaming'
  <1>1. \A b \in Live' : containers'[b].streaming => b = a
    BY DEF Live, Paused
  <1>2. \A b \in Live' : containers'[b].kind = "form" => b = a
    BY DEF Live, Paused
  <1> QED
    BY <1>1, <1>2 DEF Streams, OneStreams, Live, Streaming
-----------------------------------------------------------------------------
InList(id) == \E k \in Keys, l \in Lists : \E i \in DOMAIN tasks[k][l] : tasks[k][l][i].id = id
OfForm(id) == \E a \in Live : containers[a].kind = "form" /\ containers[a].resourcesID = id
OfStream(id) == \E a \in Live : containers[a].streaming /\ LengthID(a) = id

(* Who is going to write an object that is owed.                           *)
Pledged(id) ==
    \/ objects[id].holds \in Resources /\ InList(id)
    \/ objects[id].holds = "resources" /\ OfForm(id)
    \/ objects[id].holds = "length" /\ OfStream(id)

OwedIsPledged == \A id \in DOMAIN objects : objects[id].state = "owed" => Pledged(id)

(* A task waits under a container that is to end, for an image or an       *)
(* opacity state that is owed.                                             *)
DueTask(k, id) ==
    /\ k[2] \in Live /\ Key(k[2]) = k /\ containers[k[2]].due
    /\ id \in DOMAIN objects /\ objects[id].state = "owed" /\ objects[id].holds \in Resources

TasksAreDue == \A k \in Keys, l \in Lists : \A i \in DOMAIN tasks[k][l] : DueTask(k, tasks[k][l][i].id)

TasksDiffer ==
    \A k1, k2 \in Keys, l1, l2 \in Lists :
        \A i \in DOMAIN tasks[k1][l1], j \in DOMAIN tasks[k2][l2] :
            tasks[k1][l1][i].id = tasks[k2][l2][j].id => k1 = k2 /\ l1 = l2 /\ i = j

(* What is owed, and who owes it.                                          *)
Ledger == OwedIsPledged /\ TasksAreDue /\ TasksDiffer

Counted == Len(unfinished) = IF Streaming THEN 1 ELSE 0

(* The invariant of documents none of whose calls failed.                  *)
Whole ==
    ~failed =>
        /\ Counted
        /\ phase = "writing" => Ledger
        /\ phase # "writing" => phase = "finished" /\ ~Streaming

(* Lists that no step touches.                                             *)
LEMMA SameLists ==
    ASSUME Ledger, tasks' = tasks,
           \A b \in Live : /\ b \in Live' /\ containers'[b].kind = containers[b].kind
                           /\ containers[b].due => containers'[b].due,
           \A id \in DOMAIN objects :
               /\ id \in DOMAIN objects' /\ objects'[id].holds = objects[id].holds
               /\ objects[id].holds \in Resources => objects'[id].state = objects[id].state
    PROVE  /\ TasksAreDue' /\ TasksDiffer'
           /\ \A id : InList(id)' = InList(id)
  <1>1. ASSUME NEW k \in Keys, NEW id, DueTask(k, id)
        PROVE  DueTask(k, id)'
    <2>1. k[2] \in Live /\ Key(k[2]) = k /\ containers[k[2]].due
      BY <1>1 DEF DueTask
    <2>2. k[2] \in Live' /\ Key(k[2])' = k /\ containers'[k[2]].due
      BY <2>1 DEF Key
    <2>3. id \in DOMAIN objects' /\ objects'[id].state = "owed" /\ objects'[id].holds \in Resources
      BY <1>1 DEF DueTask
    <2> QED
      BY <2>2, <2>3 DEF DueTask
  <1>2. TasksAreDue'
    BY <1>1 DEF Ledger, TasksAreDue
  <1>3. TasksDiffer' /\ \A id : InList(id)' = InList(id)
    BY DEF Ledger, TasksDiffer, InList
  <1> QED
    BY <1>2, <1>3

(* Where no stream is open, images and opacity states are all that is owed.*)
LEMMA OwedInLists ==
    ASSUME Streams, ~Streaming, Ledger, NEW id \in DOMAIN objects, objects[id].state = "owed"
    PROVE  objects[id].holds \in Resources /\ InList(id)
  BY DEF Streams, OneStreams, Streaming, Ledger, OwedIsPledged, Pledged, OfForm, OfStream

(* Where no stream is open, none was.                                      *)
LEMMA NoneStreams ==
    ASSUME Streams, ~Streaming, NEW a \in Live
    PROVE  containers[a].kind = "page" /\ ~containers[a].streaming
  BY DEF Streams, OneStreams, Streaming, Live, Kinds

LEMMA NewPageWhole ==
    ASSUME Noted, Streams, Whole, NEW a \in Addresses, NewPage(a)
    PROVE  Streams' /\ Whole'
  <1> DEFINE new == Container("page", 0, 0)
  <1>1. /\ Typed /\ phase = "writing" /\ phase' = phase /\ ~Streaming /\ containers[a] = Free
        /\ objects' = objects /\ tasks' = tasks /\ unfinished' = unfinished /\ Return(TRUE)
        /\ containers' = [containers EXCEPT ![a] = new]
    BY DEF Noted, NewPage, MayAllocate
  <1>2. new.kind = "page" /\ ~new.streaming
    BY DEF Container
  <1> HIDE DEF new
  <1>3. containers'[a] = new /\ \A b \in Addresses : b # a => containers'[b] = containers[b]
    BY <1>1 DEF Typed
  <1>4. \A b \in Addresses : containers'[b].kind \in Kinds => Paused(b)
    BY <1>1, <1>2, <1>3, NoneStreams DEF Paused, Live
  <1>5. Streams' /\ ~Streaming'
    BY <1>1, <1>4, NoStreams DEF Streams
  <1>6. ASSUME ~failed
        PROVE  Counted' /\ Ledger'
    <2>1. Counted /\ Ledger
      BY <1>1, <1>6 DEF Whole
    <2>2. \A b \in Live : b # a
      BY <1>1 DEF Live, Free, Kinds
    <2>3. \A b \in Live : b \in Live' /\ containers'[b] = containers[b]
      BY <1>3, <2>2 DEF Live
    <2>4. TasksAreDue' /\ TasksDiffer' /\ \A id : InList(id)' = InList(id)
      BY <1>1, <2>1, <2>3, SameLists
    <2>5. OwedIsPledged'
      BY <1>1, <2>1, <2>4, OwedInLists DEF OwedIsPledged, Pledged
    <2> QED
      BY <1>1, <1>5, <2>1, <2>4, <2>5 DEF Counted, Ledger
  <1>7. failed' <=> failed
    BY <1>1, Zenon DEF Return
  <1> QED
    BY <1>1, <1>5, <1>6, <1>7 DEF Whole

(* What three objects more are.                                            *)
LEMMA StartFormObjects ==
    ASSUME Typed, NEW a \in Addresses, StartFormXObject(a)
    PROVE  /\ \A i \in DOMAIN objects : i \in DOMAIN objects' /\ objects'[i] = objects[i]
           /\ DOMAIN objects' =
                 DOMAIN objects \cup {Len(objects) + 1, Len(objects) + 2, Len(objects) + 3}
           /\ {Len(objects) + 1, Len(objects) + 2, Len(objects) + 3} \cap DOMAIN objects = {}
           /\ objects'[Len(objects) + 1].holds = "form"
           /\ objects'[Len(objects) + 1].state = "written"
           /\ objects'[Len(objects) + 2] = Owed("resources")
           /\ objects'[Len(objects) + 3] = Owed("length")
  <1> DEFINE n == Len(objects)
             x == Object("form", {Ref(n + 2, "resources"), Ref(n + 3, "length")})
             y == Owed("resources")
             z == Owed("length")
             more == <<x, y, z>>
  <1>1. objects \in Seq(Objects) /\ n \in Nat
    BY DEF Typed
  <1>2. x \in Objects /\ y \in Objects /\ z \in Objects
    <2>1. {Ref(n + 2, "resources"), Ref(n + 3, "length")} \in SUBSET Refs
      BY <1>1, ObjectsTyped
    <2> QED
      BY <2>1, ObjectsTyped
  <1>3. objects' = objects \o more
    <2>1. n + 1 + 1 = n + 2 /\ n + 1 + 2 = n + 3
      BY <1>1
    <2> QED
      BY <2>1 DEF StartFormXObject
  <1>4. x.holds = "form" /\ x.state = "written"
    BY DEF Object
  <1> HIDE DEF x, y, z
  <1>5. /\ more \in Seq(Objects) /\ Len(more) = 3 /\ {1, 2, 3} \subseteq DOMAIN more
        /\ more[1] = x /\ more[2] = y /\ more[3] = z
    BY <1>2
  <1> HIDE DEF more
  <1>6. /\ objects' \in Seq(Objects) /\ Len(objects') = n + 3
        /\ \A i \in DOMAIN objects : objects'[i] = objects[i]
    <2>1. more \in Seq(Objects)
      BY <1>5
    <2>2. /\ objects \o more \in Seq(Objects) /\ Len(objects \o more) = Len(objects) + Len(more)
          /\ \A i \in DOMAIN objects : (objects \o more)[i] = objects[i]
      BY <1>1, <2>1, Grown
    <2> QED
      BY <1>3, <1>5, <2>2
  <1>7. objects'[n + 1] = x /\ objects'[n + 2] = y /\ objects'[n + 3] = z
    BY <1>1, <1>3, <1>5, GrownBy
  <1>8. DOMAIN objects' = 1 .. n + 3 /\ DOMAIN objects = 1 .. n
    BY <1>1, <1>6
  <1>9. /\ DOMAIN objects' = DOMAIN objects \cup {n + 1, n + 2, n + 3}
        /\ {n + 1, n + 2, n + 3} \cap DOMAIN objects = {}
    BY <1>1, <1>8
  <1> QED
    BY <1>4, <1>6, <1>7, <1>9 DEF y, z

LEMMA Pushed ==
    ASSUME NEW S, NEW T, S \subseteq T, NEW s \in Seq(S), NEW x \in T
    PROVE  /\ <<x>> \o s \in Seq(T) /\ Len(<<x>> \o s) = Len(s) + 1
           /\ Head(<<x>> \o s) = x /\ <<x>> \o s # <<>>
  <1>1. s \in Seq(T) /\ <<x>> \in Seq(T)
    OBVIOUS
  <1> QED
    BY <1>1

LEMMA StartFormWhole ==
    ASSUME Noted, Streams, Whole, NEW a \in Addresses, StartFormXObject(a)
    PROVE  Streams' /\ Whole'
  <1> DEFINE n == Len(objects)
             new == Container("form", n + 1, n + 2)
  <1>1. /\ Typed /\ n \in Nat /\ phase = "writing" /\ phase' = phase /\ ~Streaming
        /\ containers[a] = Free /\ tasks' = tasks /\ Return(TRUE)
        /\ unfinished' = <<n + 1>> \o unfinished
    <2>1. Typed /\ n \in Nat
      BY DEF Noted, Typed
    <2> QED
      BY <2>1 DEF StartFormXObject, MayAllocate
  <1>2. containers' = [containers EXCEPT ![a] = new]
    <2>1. n + 1 + 1 = n + 2
      BY <1>1
    <2> QED
      BY <2>1 DEF StartFormXObject
  <1>3. /\ new.kind = "form" /\ new.streaming /\ new.due /\ new.own = n + 1
        /\ new.resourcesID = n + 2
    BY DEF Container
  <1> HIDE DEF new
  <1>4. containers'[a] = new /\ \A b \in Addresses : b # a => containers'[b] = containers[b]
    BY <1>1, <1>2 DEF Typed
  <1>5. /\ \A i \in DOMAIN objects : i \in DOMAIN objects' /\ objects'[i] = objects[i]
        /\ DOMAIN objects' = DOMAIN objects \cup {n + 1, n + 2, n + 3}
        /\ objects'[n + 1].holds = "form" /\ objects'[n + 1].state = "written"
        /\ objects'[n + 2] = Owed("resources") /\ objects'[n + 3] = Owed("length")
    BY <1>1, StartFormObjects
  <1>6. /\ unfinished' \in Seq(DOMAIN objects') /\ Len(unfinished') = Len(unfinished) + 1
        /\ Head(unfinished') = n + 1 /\ unfinished' # <<>>
    <2>1. DOMAIN objects \subseteq DOMAIN objects' /\ n + 1 \in DOMAIN objects'
      BY <1>5
    <2>2. unfinished \in Seq(DOMAIN objects)
      BY DEF Streams
    <2> QED
      BY <1>1, <2>1, <2>2, Pushed
  <1>7. LengthID(a)' = n + 3
    BY <1>1, <1>3, <1>4, <1>6 DEF LengthID
  <1>8. StreamAt(a)'
    BY <1>3, <1>4, <1>5, <1>6, <1>7 DEF StreamAt, Owed
  <1>9. \A b \in Addresses : b # a /\ containers'[b].kind \in Kinds => Paused(b)
    BY <1>1, <1>4, NoneStreams DEF Paused, Live
  <1>10. Streams' /\ Streaming'
    BY <1>3, <1>4, <1>6, <1>8, <1>9, OneStream DEF Kinds
  <1>11. ASSUME ~failed
         PROVE  Counted' /\ Ledger'
    <2>1. Counted /\ Ledger
      BY <1>1, <1>11 DEF Whole
    <2>2. \A b \in Live : b \in Live' /\ containers'[b] = containers[b]
      BY <1>1, <1>4 DEF Live, Free, Kinds
    <2>3. TasksAreDue' /\ TasksDiffer' /\ \A id : InList(id)' = InList(id)
      BY <1>1, <1>5, <2>1, <2>2, SameLists
    <2>4. a \in Live'
      BY <1>3, <1>4 DEF Live, Kinds
    <2>5. ASSUME NEW id \in DOMAIN objects', objects'[id].state = "owed"
          PROVE  Pledged(id)'
      <3>1. CASE id \in DOMAIN objects
        <4>1. objects[id].state = "owed" /\ objects'[id] = objects[id]
          BY <1>5, <2>5, <3>1
        <4>2. objects[id].holds \in Resources /\ InList(id)
          BY <1>1, <2>1, <3>1, <4>1, OwedInLists
        <4> QED
          BY <2>3, <4>1, <4>2 DEF Pledged
      <3>2. CASE id = n + 2
        <4>1. objects'[id].holds = "resources"
          BY <1>5, <3>2 DEF Owed
        <4>2. OfForm(id)'
          BY <1>3, <1>4, <2>4, <3>2 DEF OfForm
        <4> QED
          BY <4>1, <4>2 DEF Pledged
      <3>3. CASE id = n + 3
        <4>1. objects'[id].holds = "length"
          BY <1>5, <3>3 DEF Owed
        <4>2. OfStream(id)'
          BY <1>3, <1>4, <1>7, <2>4, <3>3 DEF OfStream
        <4> QED
          BY <4>1, <4>2 DEF Pledged
      <3> QED
        BY <1>5, <2>5, <3>1, <3>2, <3>3
    <2>6. OwedIsPledged'
      BY <2>5 DEF OwedIsPledged
    <2>7. Counted'
      BY <1>1, <1>6, <1>10, <2>1 DEF Counted
    <2> QED
      BY <2>3, <2>6, <2>7 DEF Ledger
  <1>12. failed' <=> failed
    BY <1>1, Zenon DEF Return
  <1> QED
    BY <1>1, <1>10, <1>11, <1>12 DEF Whole

(* The document is not one in which no call failed.                        *)
LEMMA FailedWhole ==
    ASSUME Return(FALSE)
    PROVE  Whole'
  <1>1. failed'
    BY Zenon DEF Return
  <1> QED
    BY <1>1 DEF Whole

LEMMA StartFormFailsWhole ==
    ASSUME Noted, Streams, NEW a \in Addresses, StartFormXObjectFails(a)
    PROVE  Streams' /\ Whole'
  <1> DEFINE n == Len(objects)
             y == Object("form", {Ref(n + 2, "resources")})
             z == Owed("resources")
  <1>1. /\ Typed /\ objects \in Seq(Objects) /\ n \in Nat /\ ~Streaming /\ Return(FALSE)
        /\ containers' = containers
        /\ objects' = objects \o <<y, z>> /\ unfinished' = <<n + 1>> \o unfinished
    <2>1. Typed /\ objects \in Seq(Objects) /\ n \in Nat
      BY DEF Noted, Typed
    <2> QED
      BY <2>1 DEF StartFormXObjectFails, MayAllocate
  <1>2. y \in Objects /\ z \in Objects
    <2>1. {Ref(n + 2, "resources")} \in SUBSET Refs
      BY <1>1, ObjectsTyped
    <2> QED
      BY <2>1, ObjectsTyped
  <1> HIDE DEF y, z
  <1>3. DOMAIN objects' = DOMAIN objects \cup {n + 1, n + 2}
    BY <1>1, <1>2, TwoMore
  <1>4. unfinished' \in Seq(DOMAIN objects')
    <2>1. DOMAIN objects \subseteq DOMAIN objects' /\ n + 1 \in DOMAIN objects'
      BY <1>3
    <2>2. unfinished \in Seq(DOMAIN objects)
      BY DEF Streams
    <2> QED
      BY <1>1, <2>1, <2>2, Pushed
  <1>5. \A b \in Addresses : containers'[b].kind \in Kinds => Paused(b)
    BY <1>1, NoneStreams DEF Paused, Live
  <1> QED
    BY <1>1, <1>4, <1>5, NoStreams, FailedWhole

LEMMA AttachWhole ==
    ASSUME Noted, Streams, Whole, AttachURLLinktoCurrentPage
    PROVE  Streams' /\ Whole'
  <1> DEFINE n == Len(objects) + 1
             new == Object("annotation", {})
  <1>1. /\ Typed /\ phase = "writing" /\ phase' = phase /\ ~Streaming /\ Return(TRUE)
        /\ tasks' = tasks /\ containers' = containers /\ unfinished' = unfinished
        /\ objects' = Append(objects, new)
    BY DEF Noted, AttachURLLinktoCurrentPage
  <1>2. new.state = "written"
    BY DEF Object
  <1> HIDE DEF new
  <1>3. /\ DOMAIN objects' = DOMAIN objects \cup {n} /\ objects'[n] = new
        /\ \A id \in DOMAIN objects : id \in DOMAIN objects' /\ objects'[id] = objects[id]
    BY <1>1 DEF Typed
  <1> HIDE DEF n
  <1>4. unfinished' \in Seq(DOMAIN objects')
    BY <1>1, <1>3, SeqGrows DEF Streams
  <1>5. \A b \in Addresses : containers'[b].kind \in Kinds => Paused(b)
    BY <1>1, NoneStreams DEF Paused, Live
  <1>6. Streams' /\ ~Streaming'
    BY <1>4, <1>5, NoStreams
  <1>7. ASSUME ~failed
        PROVE  Counted' /\ Ledger'
    <2>1. Counted /\ Ledger
      BY <1>1, <1>7 DEF Whole
    <2>2. \A b \in Live : b \in Live' /\ containers'[b] = containers[b]
      BY <1>1 DEF Live
    <2>3. TasksAreDue' /\ TasksDiffer' /\ \A id : InList(id)' = InList(id)
      BY <1>1, <1>3, <2>1, <2>2, SameLists
    <2>4. OwedIsPledged'
      <3>1. ASSUME NEW id \in DOMAIN objects', objects'[id].state = "owed"
            PROVE  Pledged(id)'
        <4>1. id \in DOMAIN objects /\ objects[id].state = "owed" /\ objects'[id] = objects[id]
          BY <1>2, <1>3, <3>1
        <4>2. objects[id].holds \in Resources /\ InList(id)
          BY <1>1, <2>1, <4>1, OwedInLists
        <4> QED
          BY <2>3, <4>1, <4>2 DEF Pledged
      <3> QED
        BY <3>1 DEF OwedIsPledged
    <2> QED
      BY <1>1, <1>6, <2>1, <2>3, <2>4 DEF Counted, Ledger
  <1>8. failed' <=> failed
    BY <1>1, Zenon DEF Return
  <1> QED
    BY <1>1, <1>6, <1>7, <1>8 DEF Whole

(* Only the length of a stream is written when it ends.                    *)
LEMMA StreamEndedStates ==
    ASSUME NEW os \in Seq(Objects), NEW x
    PROVE  \A id \in DOMAIN os :
               StreamEnded(os, x)[id].state =
                   IF id = x + (IF os[x].holds = "form" THEN 2 ELSE 1) THEN "written" ELSE os[id].state
  <1> DEFINE e == x + (IF os[x].holds = "form" THEN 2 ELSE 1)
             new == [os EXCEPT ![e].state = "written"]
  <1>1. new = StreamEnded(os, x)
    BY DEF StreamEnded
  <1>2. \A id \in DOMAIN os : new[id] = IF id = e THEN [os[id] EXCEPT !.state = "written"] ELSE os[id]
    OBVIOUS
  <1> HIDE DEF e
  <1>3. \A id \in DOMAIN os : os[id] \in Objects
    OBVIOUS
  <1>4. \A id \in DOMAIN os : new[id].state = IF id = e THEN "written" ELSE os[id].state
    BY <1>2, <1>3 DEF Objects
  <1> HIDE DEF new
  <1> QED
    BY <1>1, <1>4 DEF e

LEMMA Popped ==
    ASSUME NEW S, NEW s \in Seq(S), s # <<>>
    PROVE  Tail(s) \in Seq(S) /\ Len(Tail(s)) = Len(s) - 1 /\ Len(s) \in Nat /\ Head(s) \in S
  OBVIOUS

(* The container that streams is the only one.                             *)
LEMMA OnlyOneStreams ==
    ASSUME Typed, Streams, NEW a \in Live, containers[a].streaming
    PROVE  /\ Streaming /\ StreamAt(a)
           /\ \A b \in Live : b # a => containers[b].kind = "page" /\ ~containers[b].streaming
           /\ \A id : OfStream(id) => id = LengthID(a)
           /\ \A id : OfForm(id) =>
                 containers[a].kind = "form" /\ containers[a].resourcesID = id
  <1>1. \A b \in Live : b # a => containers[b].kind = "page" /\ ~containers[b].streaming
    BY DEF Streams, OneStreams, Live, Kinds
  <1>2. \A id : OfStream(id) => id = LengthID(a)
    BY <1>1 DEF OfStream
  <1>3. \A id : OfForm(id) => containers[a].kind = "form" /\ containers[a].resourcesID = id
    BY <1>1 DEF OfForm
  <1> QED
    BY <1>1, <1>2, <1>3 DEF Streams, Streaming

LEMMA PauseWhole ==
    ASSUME Noted, Streams, Whole, NEW a \in Addresses, PausePageContentContext(a)
    PROVE  Streams' /\ Whole'
  <1> DEFINE h == Head(unfinished)
  <1>1. /\ Typed /\ objects \in Seq(Objects) /\ phase = "writing" /\ phase' = phase
        /\ a \in Live /\ containers[a].kind = "page" /\ containers[a].streaming
        /\ tasks' = tasks /\ Return(TRUE)
        /\ containers' = [containers EXCEPT ![a].streaming = FALSE]
        /\ objects' = StreamEnded(objects, h) /\ unfinished' = Tail(unfinished)
    BY DEF Noted, Typed, PausePageContentContext, InnermostEnded
  <1>2. /\ Streaming /\ StreamAt(a)
        /\ \A b \in Live : b # a => containers[b].kind = "page" /\ ~containers[b].streaming
        /\ \A id : OfStream(id) => id = LengthID(a)
        /\ \A id : ~OfForm(id)
    BY <1>1, OnlyOneStreams
  <1>3. /\ h \in DOMAIN objects /\ objects[h].holds = "content" /\ LengthID(a) = h + 1
        /\ objects[h + 1].holds = "length" /\ unfinished # <<>>
    BY <1>1, <1>2 DEF StreamAt, LengthID
  <1> HIDE DEF h
  <1>4. /\ objects' \in Seq(Objects) /\ Len(objects') = Len(objects)
        /\ \A id \in DOMAIN objects :
              /\ objects'[id].holds = objects[id].holds
              /\ objects'[id].state = IF id = h + 1 THEN "written" ELSE objects[id].state
    BY <1>1, <1>3, StreamEndedKeeps, StreamEndedStates
  <1>5. DOMAIN objects' = DOMAIN objects
    BY <1>1, <1>4
  <1>6. unfinished' \in Seq(DOMAIN objects') /\ Len(unfinished') = Len(unfinished) - 1
        /\ Len(unfinished) \in Nat
    BY <1>1, <1>3, <1>5, Popped DEF Streams
  <1>7. \A b \in Addresses : containers'[b].kind \in Kinds =>
            /\ b \in Live
            /\ b # a => containers'[b] = containers[b]
            /\ b = a => containers'[b].kind = containers[b].kind /\ ~containers'[b].streaming
    BY <1>1, PauseContainers
  <1>8. \A b \in Addresses : containers'[b].kind \in Kinds => Paused(b)
    BY <1>1, <1>2, <1>7 DEF Paused
  <1>9. Streams' /\ ~Streaming'
    BY <1>6, <1>8, NoStreams
  <1>10. ASSUME ~failed
         PROVE  Counted' /\ Ledger'
    <2>1. Counted /\ Ledger
      BY <1>1, <1>10 DEF Whole
    <2>2. \A b \in Live : /\ b \in Live' /\ containers'[b].kind = containers[b].kind
                          /\ containers[b].due => containers'[b].due
      <3> DEFINE old == containers[a]
                 new == [old EXCEPT !.streaming = FALSE]
      <3>1. containers' = [containers EXCEPT ![a] = new] /\ old \in Containers
        BY <1>1, LiveTyped
      <3>2. new.kind = old.kind /\ new.due = old.due
        BY <3>1 DEF Containers
      <3> HIDE DEF new
      <3>3. \A b \in Addresses : containers'[b] = IF b = a THEN new ELSE containers[b]
        BY <1>1, <3>1 DEF Typed
      <3> QED
        BY <3>2, <3>3 DEF Live
    <2>3. h + 1 \in DOMAIN objects => objects[h + 1].holds \notin Resources
      BY <1>3, WordsDiffer
    <2>4. TasksAreDue' /\ TasksDiffer' /\ \A id : InList(id)' = InList(id)
      BY <1>1, <1>4, <1>5, <2>1, <2>2, <2>3, SameLists
    <2>5. OwedIsPledged'
      <3>1. ASSUME NEW id \in DOMAIN objects', objects'[id].state = "owed"
            PROVE  Pledged(id)'
        <4>1. id \in DOMAIN objects /\ objects[id].state = "owed" /\ id # h + 1
              /\ objects'[id].holds = objects[id].holds
          BY <1>4, <1>5, <3>1
        <4>2. Pledged(id)
          BY <2>1, <4>1 DEF Ledger, OwedIsPledged
        <4>3. objects[id].holds \in Resources /\ InList(id)
          BY <1>2, <1>3, <4>1, <4>2 DEF Pledged
        <4> QED
          BY <2>4, <4>1, <4>3 DEF Pledged
      <3> QED
        BY <3>1 DEF OwedIsPledged
    <2>6. Counted'
      BY <1>2, <1>6, <1>9, <2>1 DEF Counted
    <2> QED
      BY <2>4, <2>5, <2>6 DEF Ledger
  <1>11. failed' <=> failed
    BY <1>1, Zenon DEF Return
  <1> QED
    BY <1>1, <1>9, <1>10, <1>11 DEF Whole

(* Drawing keeps the tasks there are, and adds one for what is new.        *)
LEMMA DrawLists ==
    ASSUME Noted, NEW a \in Addresses, NEW r \in Resources, Draw(a, r)
    PROVE  /\ Key(a) \in Keys /\ ListOf(r) \in Lists
           /\ \A k \in Keys, l \in Lists : \A i \in DOMAIN tasks[k][l] :
                 i \in DOMAIN tasks'[k][l] /\ tasks'[k][l][i] = tasks[k][l][i]
           /\ \A k \in Keys, l \in Lists : \A i \in DOMAIN tasks'[k][l] :
                 \/ i \in DOMAIN tasks[k][l]
                 \/ /\ FirstUse(r) /\ k = Key(a) /\ l = ListOf(r)
                    /\ i = Len(tasks[Key(a)][ListOf(r)]) + 1 /\ tasks'[k][l][i].id = DrawnID(r)
           /\ FirstUse(r) =>
                 \E i \in DOMAIN tasks'[Key(a)][ListOf(r)] :
                     tasks'[Key(a)][ListOf(r)][i].id = DrawnID(r)
  <1> DEFINE task == Task(r, DrawnID(r), a)
             key == Key(a)
             list == ListOf(r)
             old == tasks[key][list]
             new == tasks'[key][list]
  <1>1. /\ Typed /\ key \in Keys /\ list \in Lists
        /\ ~FirstUse(r) => tasks' = tasks
        /\ FirstUse(r) =>
              /\ task \in Tasks
              /\ \A k \in Keys : k # key => tasks'[k] = tasks[k]
              /\ \A l \in Lists : l # list => tasks'[key][l] = tasks[key][l]
              /\ new = Append(old, task)
    BY DrawTasks DEF Noted, ListOf, Lists
  <1>2. old \in Seq(Tasks)
    <2>1. tasks[key] \in [first : Seq(Tasks), more : Seq(Tasks)]
      BY <1>1 DEF Typed, Keys
    <2> QED
      BY <1>1, <2>1 DEF Lists
  <1>3. task.id = DrawnID(r)
    BY DEF Task
  <1>4. CASE ~FirstUse(r)
    BY <1>1, <1>4
  <1>5. CASE FirstUse(r)
    <2> HIDE DEF task, key, list, old, new
    <2>1. /\ \A i \in DOMAIN old : i \in DOMAIN new /\ new[i] = old[i]
          /\ Len(old) + 1 \in DOMAIN new /\ new[Len(old) + 1] = task
          /\ \A i \in DOMAIN new : i \in DOMAIN old \/ i = Len(old) + 1
      BY <1>1, <1>2, <1>5
    <2>2. \A k \in Keys, l \in Lists : k # key \/ l # list => tasks'[k][l] = tasks[k][l]
      BY <1>1, <1>5
    <2>3. \A k \in Keys, l \in Lists : \A i \in DOMAIN tasks[k][l] :
              i \in DOMAIN tasks'[k][l] /\ tasks'[k][l][i] = tasks[k][l][i]
      BY <2>1, <2>2 DEF old, new
    <2>4. \A k \in Keys, l \in Lists : \A i \in DOMAIN tasks'[k][l] :
              \/ i \in DOMAIN tasks[k][l]
              \/ k = key /\ l = list /\ i = Len(old) + 1 /\ tasks'[k][l][i].id = DrawnID(r)
      <3>1. ASSUME NEW k \in Keys, NEW l \in Lists, NEW i \in DOMAIN tasks'[k][l]
            PROVE  \/ i \in DOMAIN tasks[k][l]
                   \/ k = key /\ l = list /\ i = Len(old) + 1 /\ tasks'[k][l][i].id = DrawnID(r)
        <4>1. CASE k = key /\ l = list
          <5>1. i \in DOMAIN new
            BY <3>1, <4>1 DEF new
          <5>2. i \in DOMAIN old \/ (i = Len(old) + 1 /\ new[i] = task)
            <6>1. CASE i \in DOMAIN old
              BY <6>1
            <6>2. CASE i = Len(old) + 1
              BY <2>1, <6>2, Zenon
            <6> QED
              BY <2>1, <5>1, <6>1, <6>2, Zenon
          <5> QED
            BY <1>3, <4>1, <5>2 DEF old, new
        <4>2. CASE ~(k = key /\ l = list)
          BY <2>2, <3>1, <4>2
        <4> QED
          BY <4>1, <4>2
      <3> QED
        BY <3>1
    <2>5. \E i \in DOMAIN new : new[i].id = DrawnID(r)
      BY <1>3, <2>1
    <2> QED
      BY <1>1, <1>5, <2>3, <2>4, <2>5 DEF key, list, old, new
  <1> QED
    BY <1>4, <1>5

LEMMA DrawStreams ==
    ASSUME Noted, Streams, NEW a \in Addresses, NEW r \in Resources, Draw(a, r)
    PROVE  /\ Streams' /\ Streaming'
           /\ unfinished' = IF containers[a].streaming THEN unfinished ELSE <<StreamID(r)>> \o unfinished
           /\ ~containers[a].streaming => ~Streaming /\ LengthID(a)' = StreamID(r) + 1
           /\ containers[a].streaming => LengthID(a)' = LengthID(a)
  <1> DEFINE c == containers[a]
             new == containers'[a]
             own == StreamID(r)
  <1>1. /\ Typed /\ a \in Live /\ c \in Containers /\ c.streaming \in BOOLEAN
        /\ c.streaming \/ ~Streaming
        /\ unfinished \in Seq(DOMAIN objects)
    BY LiveTyped DEF Noted, Draw, MayDraw, Streams, Containers
  <1>2. unfinished' = IF c.streaming THEN unfinished ELSE <<own>> \o unfinished
    <2> DEFINE before == IF FirstUse(r) THEN Append(objects, Owed(r)) ELSE objects
    <2>1. Len(before) + 1 = own
      <3>1. Len(objects) \in Nat /\ objects \in Seq(Objects)
        BY <1>1 DEF Typed
      <3> QED
        BY <3>1 DEF StreamID
    <2>2. unfinished' = (IF c.streaming THEN <<>> ELSE <<Len(before) + 1>>) \o unfinished
      BY DEF Draw
    <2> HIDE DEF before, own
    <2>3. unfinished' = (IF c.streaming THEN <<>> ELSE <<own>>) \o unfinished
      BY <2>1, <2>2
    <2>4. <<>> \o unfinished = unfinished
      BY <1>1
    <2> QED
      BY <1>1, <2>3, <2>4
  <1>3. /\ \A b \in Addresses : b # a => containers'[b] = containers[b]
        /\ new.kind = c.kind /\ new.own = c.own /\ new.streaming /\ new.due /\ new \in Containers
    BY DrawContainers
  <1>4. a \in Live' /\ new.streaming = TRUE
    BY <1>1, <1>3 DEF Live, Containers
  <1>5. Later(objects')
    BY DrawObjects DEF Later
  <1>6. CASE c.streaming
    <2>1. AsBefore(a)
      BY <1>1, <1>3, <1>4, <1>6 DEF AsBefore
    <2>2. \A b \in Addresses : b # a /\ containers'[b].kind \in Kinds => AsBefore(b)
      BY <1>3 DEF AsBefore, Live
    <2>3. Streams'
      BY <1>2, <1>5, <1>6, <2>1, <2>2, QuietStreams
    <2>4. LengthID(a)' = LengthID(a)
      BY <1>2, <1>3, <1>6 DEF LengthID
    <2>5. Streaming'
      BY <1>4 DEF Streaming
    <2> QED
      BY <1>2, <1>6, <2>3, <2>4, <2>5
  <1>7. CASE ~c.streaming
    <2>1. ~Streaming /\ c.kind = "page"
      BY <1>1, <1>7, NoneStreams
    <2>2. /\ {own, own + 1} \subseteq DOMAIN objects' \ DOMAIN objects
          /\ objects'[own] = Object("content", {Ref(own + 1, "length")})
          /\ objects'[own + 1] = Owed("length")
      BY <1>7, DrawObjects
    <2> HIDE DEF own
    <2>3. /\ unfinished' \in Seq(DOMAIN objects') /\ Head(unfinished') = own /\ unfinished' # <<>>
      <3>1. DOMAIN objects \subseteq DOMAIN objects' /\ own \in DOMAIN objects'
        BY <1>5, <2>2 DEF Later
      <3> QED
        BY <1>1, <1>2, <1>7, <3>1, Pushed
    <2>4. LengthID(a)' = own + 1
      BY <1>3, <2>1, <2>3 DEF LengthID
    <2>5. StreamAt(a)'
      BY <1>3, <2>1, <2>2, <2>3, <2>4 DEF StreamAt, Owed, Object
    <2>6. \A b \in Addresses : b # a /\ containers'[b].kind \in Kinds => Paused(b)
      BY <1>3, <2>1, NoneStreams DEF Paused, Live
    <2>7. Streams' /\ Streaming'
      BY <1>3, <1>4, <2>1, <2>3, <2>5, <2>6, OneStream DEF Kinds
    <2> QED
      BY <1>2, <1>7, <2>1, <2>4, <2>7 DEF own
  <1> QED
    BY <1>6, <1>7

LEMMA DrawWhole ==
    ASSUME Noted, Streams, Whole, NEW a \in Addresses, NEW r \in Resources, Draw(a, r)
    PROVE  Streams' /\ Whole'
  <1>0. PICK new, own, key : new = DrawnID(r) /\ own = StreamID(r) /\ key = Key(a)
    OBVIOUS
  <1>1. /\ Typed /\ phase = "writing" /\ phase' = phase /\ a \in Live /\ Return(TRUE)
        /\ a \in Addresses /\ containers[a].streaming \in BOOLEAN
    BY LiveTyped DEF Noted, Draw, MayDraw, Containers
  <1>2. /\ Streams' /\ Streaming'
        /\ unfinished' = IF containers[a].streaming THEN unfinished ELSE <<own>> \o unfinished
        /\ ~containers[a].streaming => ~Streaming /\ LengthID(a)' = own + 1
        /\ containers[a].streaming => LengthID(a)' = LengthID(a)
    BY <1>0, DrawStreams
  <1>3. a \in Live' /\ containers'[a].streaming
    BY <1>1, DrawContainers DEF Live
  <1>4. \A b \in Live : /\ b \in Live' /\ containers'[b].kind = containers[b].kind
                        /\ containers'[b].resourcesID = containers[b].resourcesID
                        /\ containers[b].due => containers'[b].due
    BY DrawContainers DEF Live
  <1>5. /\ \A id \in DOMAIN objects : id \in DOMAIN objects' /\ objects'[id] = objects[id]
        /\ FirstUse(r) => new \in DOMAIN objects' \ DOMAIN objects /\ objects'[new] = Owed(r)
        /\ ~containers[a].streaming =>
              /\ objects'[own].state = "written"
              /\ objects'[own + 1] = Owed("length")
        /\ \A id \in DOMAIN objects' \ DOMAIN objects :
              \/ FirstUse(r) /\ id = new
              \/ ~containers[a].streaming /\ id \in {own, own + 1}
    <2>1. Object("content", {Ref(own + 1, "length")}).state = "written"
      BY DEF Object
    <2> QED
      BY <1>0, <2>1, DrawObjects
  <1>6. /\ key \in Keys /\ ListOf(r) \in Lists
        /\ \A k \in Keys, l \in Lists : \A i \in DOMAIN tasks[k][l] :
              i \in DOMAIN tasks'[k][l] /\ tasks'[k][l][i] = tasks[k][l][i]
        /\ \A k \in Keys, l \in Lists : \A i \in DOMAIN tasks'[k][l] :
              \/ i \in DOMAIN tasks[k][l]
              \/ /\ FirstUse(r) /\ k = key /\ l = ListOf(r)
                 /\ i = Len(tasks[key][ListOf(r)]) + 1 /\ tasks'[k][l][i].id = new
        /\ FirstUse(r) =>
              \E i \in DOMAIN tasks'[key][ListOf(r)] : tasks'[key][ListOf(r)][i].id = new
    BY <1>0, DrawLists
  <1>7. ASSUME ~failed
        PROVE  Counted' /\ Ledger'
    <2>1. Counted /\ Ledger
      BY <1>1, <1>7 DEF Whole
    <2>2. ASSUME NEW k, NEW id, DueTask(k, id)
          PROVE  DueTask(k, id)'
      BY <1>4, <1>5, <2>2 DEF DueTask, Key
    <2>3. FirstUse(r) => DueTask(key, new)'
      <3>1. key[2] = a /\ Key(a)' = key /\ containers'[a].due
        BY <1>0, <1>1, <1>4, DrawContainers DEF Key
      <3> QED
        BY <1>3, <1>5, <3>1 DEF DueTask, Owed
    <2>4. \A k \in Keys, l \in Lists : \A i \in DOMAIN tasks'[k][l] :
              \/ /\ i \in DOMAIN tasks[k][l] /\ tasks'[k][l][i].id = tasks[k][l][i].id
                 /\ tasks[k][l][i].id \in DOMAIN objects /\ DueTask(k, tasks[k][l][i].id)
              \/ /\ FirstUse(r) /\ k = key /\ l = ListOf(r)
                 /\ i = Len(tasks[key][ListOf(r)]) + 1 /\ tasks'[k][l][i].id = new
      BY <1>6, <2>1 DEF Ledger, TasksAreDue, DueTask
    <2>5. TasksAreDue'
      <3>1. ASSUME NEW k \in Keys, NEW l \in Lists, NEW i \in DOMAIN tasks'[k][l], NEW id,
                   id = tasks'[k][l][i].id
            PROVE  DueTask(k, id)'
        BY <2>2, <2>3, <2>4, <3>1
      <3> QED
        BY <3>1 DEF TasksAreDue, DueTask
    <2>6. TasksDiffer'
      <3>1. ASSUME NEW k1 \in Keys, NEW k2 \in Keys, NEW l1 \in Lists, NEW l2 \in Lists,
                   NEW i \in DOMAIN tasks'[k1][l1], NEW j \in DOMAIN tasks'[k2][l2],
                   tasks'[k1][l1][i].id = tasks'[k2][l2][j].id
            PROVE  k1 = k2 /\ l1 = l2 /\ i = j
        <4>1. CASE i \in DOMAIN tasks[k1][l1] /\ j \in DOMAIN tasks[k2][l2]
          <5>1. tasks[k1][l1][i].id = tasks[k2][l2][j].id
            BY <1>6, <3>1, <4>1
          <5> QED
            BY <2>1, <4>1, <5>1 DEF Ledger, TasksDiffer
        <4>2. CASE ~(i \in DOMAIN tasks[k1][l1]) \/ ~(j \in DOMAIN tasks[k2][l2])
          <5>1. FirstUse(r) /\ new \notin DOMAIN objects
            BY <1>5, <2>4, <4>2
          <5> QED
            BY <2>4, <3>1, <4>2, <5>1
        <4> QED
          BY <4>1, <4>2
      <3> QED
        BY <3>1 DEF TasksDiffer
    <2>7. \A id : InList(id) => InList(id)'
      BY <1>6 DEF InList
    <2>8. FirstUse(r) => InList(new)'
      BY <1>6 DEF InList
    <2>9. ASSUME NEW id \in DOMAIN objects', objects'[id].state = "owed"
          PROVE  Pledged(id)'
      <3>1. CASE id \in DOMAIN objects
        <4>1. objects'[id] = objects[id] /\ objects[id].state = "owed"
          BY <1>5, <2>9, <3>1
        <4>2. Pledged(id)
          BY <2>1, <3>1, <4>1 DEF Ledger, OwedIsPledged
        <4>3. OfForm(id) => OfForm(id)'
          BY <1>4 DEF OfForm
        <4>4. OfStream(id) => OfStream(id)'
          <5>1. ASSUME OfStream(id)
                PROVE  OfStream(id)'
            <6>1. Streaming
              BY <5>1 DEF OfStream, Streaming
            <6>2. containers[a].streaming
              BY <1>2, <6>1
            <6>3. id = LengthID(a)
              BY <1>1, <5>1, <6>2, OnlyOneStreams
            <6> QED
              BY <1>2, <1>3, <6>2, <6>3 DEF OfStream
          <5> QED
            BY <5>1
        <4> QED
          BY <2>7, <4>1, <4>2, <4>3, <4>4 DEF Pledged
      <3>2. CASE FirstUse(r) /\ id = new
        <4>1. objects'[id].holds \in Resources
          BY <1>5, <3>2 DEF Owed
        <4> QED
          BY <2>8, <3>2, <4>1 DEF Pledged
      <3>3. CASE ~containers[a].streaming /\ id \in {own, own + 1}
        <4>1. id = own + 1 /\ objects'[id].holds = "length"
          BY <1>5, <2>9, <3>3 DEF Owed
        <4>2. OfStream(id)'
          BY <1>2, <1>3, <3>3, <4>1 DEF OfStream
        <4> QED
          BY <4>1, <4>2 DEF Pledged
      <3> QED
        BY <1>5, <2>9, <3>1, <3>2, <3>3
    <2>10. Counted'
      <3>1. CASE containers[a].streaming
        <4>1. Streaming
          BY <1>1, <3>1 DEF Streaming
        <4> QED
          BY <1>2, <2>1, <3>1, <4>1 DEF Counted
      <3>2. CASE ~containers[a].streaming
        <4>1. ~Streaming /\ unfinished' = <<own>> \o unfinished
          BY <1>2, <3>2
        <4>2. unfinished \in Seq(DOMAIN objects) /\ Len(unfinished) = 0
          BY <2>1, <4>1 DEF Counted, Streams
        <4>3. Len(unfinished') = 1
          BY <4>1, <4>2
        <4> QED
          BY <1>2, <4>3 DEF Counted
      <3> QED
        BY <3>1, <3>2
    <2> QED
      BY <2>5, <2>6, <2>9, <2>10 DEF Ledger, OwedIsPledged
  <1>8. failed' <=> failed
    BY <1>1, Zenon DEF Return
  <1> QED
    BY <1>1, <1>2, <1>7, <1>8 DEF Whole

-----------------------------------------------------------------------------
(* The tasks that wait have IDs of the document, whatever calls failed.    *)
TasksInside ==
    \A k \in Keys, l \in Lists : \A i \in DOMAIN tasks[k][l] : tasks[k][l][i].id \in DOMAIN objects

LEMMA FewerInside ==
    ASSUME TasksInside, DOMAIN objects \subseteq DOMAIN objects',
           \A k \in Keys : tasks'[k] \in {tasks[k], [tasks[k] EXCEPT !.first = <<>>], NoTasks},
           Typed
    PROVE  TasksInside'
  <1>1. ASSUME NEW k \in Keys, NEW l \in Lists, NEW i \in DOMAIN tasks'[k][l]
        PROVE  tasks'[k][l][i].id \in DOMAIN objects'
    <2> DEFINE old == tasks[k]
               fewer == [old EXCEPT !.first = <<>>]
    <2>1. old \in [first : Seq(Tasks), more : Seq(Tasks)]
      BY DEF Typed, Keys
    <2>2. fewer["first"] = <<>> /\ fewer["more"] = old["more"]
      BY <2>1
    <2>3. NoTasks["first"] = <<>> /\ NoTasks["more"] = <<>>
      BY DEF NoTasks
    <2>4. tasks'[k] = old \/ tasks'[k] = fewer \/ tasks'[k] = NoTasks
      OBVIOUS
    <2> HIDE DEF old, fewer
    <2>5. tasks'[k][l] = <<>> \/ tasks'[k][l] = old[l]
      BY <2>2, <2>3, <2>4 DEF Lists
    <2>6. tasks'[k][l] = tasks[k][l]
      BY <1>1, <2>5 DEF old
    <2> QED
      BY <1>1, <2>6 DEF TasksInside
  <1> QED
    BY <1>1 DEF TasksInside

LEMMA DrawInside ==
    ASSUME Noted, TasksInside, NEW a \in Addresses, NEW r \in Resources, Draw(a, r)
    PROVE  TasksInside'
  <1>1. ASSUME NEW k \in Keys, NEW l \in Lists, NEW i \in DOMAIN tasks'[k][l]
        PROVE  tasks'[k][l][i].id \in DOMAIN objects'
    <2>1. \/ i \in DOMAIN tasks[k][l] /\ tasks'[k][l][i] = tasks[k][l][i]
          \/ FirstUse(r) /\ tasks'[k][l][i].id = DrawnID(r)
      BY <1>1, DrawLists
    <2>2. /\ \A id \in DOMAIN objects : id \in DOMAIN objects'
          /\ FirstUse(r) => DrawnID(r) \in DOMAIN objects'
      BY DrawObjects
    <2> QED
      BY <1>1, <2>1, <2>2 DEF TasksInside
  <1> QED
    BY <1>1 DEF TasksInside

LEMMA NextInside == Noted /\ TasksInside /\ [Next]_vars => TasksInside'
  <1> SUFFICES ASSUME Noted, TasksInside, [Next]_vars PROVE TasksInside'
    OBVIOUS
  <1>1. Typed /\ objects \in Seq(Objects)
    BY DEF Noted, Typed
  <1>2. ASSUME NEW more \in Seq(Objects), objects' = objects \o more, tasks' = tasks
        PROVE  TasksInside'
    <2>1. DOMAIN objects \subseteq DOMAIN objects'
      BY <1>1, <1>2, Grown
    <2> QED
      BY <1>1, <1>2, <2>1, FewerInside
  <1>3. ASSUME NEW os \in Seq(Objects), Len(os) >= Len(objects), NEW a \in Live, NEW o,
               NEW release, RunTasks(os, a, release, o)
        PROVE  TasksInside'
    <2>1. \A k \in Keys : tasks'[k] \in {tasks[k], [tasks[k] EXCEPT !.first = <<>>], NoTasks}
      BY <1>1, <1>3, TasksLeftAre, LiveTyped DEF Keys, RunTasks
    <2>2. objects' \in Seq(Objects) /\ Len(objects') = Len(os)
      BY <1>3, AfterTasksKeeps DEF RunTasks
    <2>3. DOMAIN objects \subseteq DOMAIN objects'
      BY <1>1, <1>3, <2>2
    <2> QED
      BY <1>1, <2>1, <2>3, FewerInside
  <1>4. ASSUME NEW a \in Addresses, NewPage(a) PROVE TasksInside'
    BY <1>4 DEF NewPage, TasksInside
  <1>5. ASSUME NEW a \in Addresses, StartFormXObject(a) PROVE TasksInside'
    <2>1. DOMAIN objects \subseteq DOMAIN objects' /\ tasks' = tasks
      BY <1>1, <1>5, StartFormObjects DEF StartFormXObject
    <2> QED
      BY <2>1 DEF TasksInside
  <1>6. ASSUME NEW a \in Addresses, StartFormXObjectFails(a) PROVE TasksInside'
    <2> DEFINE y == Object("form", {Ref(Len(objects) + 2, "resources")})
               z == Owed("resources")
    <2>1. y \in Objects /\ z \in Objects
      <3>1. {Ref(Len(objects) + 2, "resources")} \in SUBSET Refs
        BY <1>1, ObjectsTyped
      <3> QED
        BY <3>1, ObjectsTyped
    <2>2. objects' = objects \o <<y, z>> /\ tasks' = tasks
      BY <1>6 DEF StartFormXObjectFails
    <2> HIDE DEF y, z
    <2>3. <<y, z>> \in Seq(Objects)
      BY <2>1
    <2> QED
      BY <1>2, <2>2, <2>3
  <1>7. ASSUME NEW a \in Addresses, NEW r \in Resources, Draw(a, r) PROVE TasksInside'
    BY <1>7, DrawInside
  <1>8. ASSUME NEW a \in Addresses, PausePageContentContext(a) PROVE TasksInside'
    <2>1. objects' = StreamEnded(objects, Head(unfinished)) /\ tasks' = tasks
      BY <1>8 DEF PausePageContentContext
    <2>2. objects' \in Seq(Objects) /\ Len(objects') = Len(objects)
      BY <1>1, <2>1, StreamEndedKeeps
    <2>3. DOMAIN objects' = DOMAIN objects
      BY <1>1, <2>2
    <2> QED
      BY <2>1, <2>3 DEF TasksInside
  <1>9. ASSUME NEW a \in Addresses, NEW release \in BOOLEAN, WritePage(a, release)
        PROVE  TasksInside'
    <2>1. a \in Live
      BY <1>9 DEF WritePage, MayWritePage
    <2>2. PICK o : RunTasks(Append(objects, PageObject(a, TRUE)), a, release, o)
      BY <1>9 DEF WritePage
    <2> DEFINE page == PageObject(a, TRUE)
               os == Append(objects, page)
    <2>3. page \in Objects
      BY <1>1, <2>1, PageObjectTyped
    <2> HIDE DEF page
    <2>4. os \in Seq(Objects) /\ Len(os) >= Len(objects)
      BY <1>1, <2>3
    <2> QED
      BY <1>3, <2>1, <2>2, <2>4 DEF page
  <1>10. ASSUME NEW a \in Addresses, NEW release \in BOOLEAN, WritePageFails(a, release)
         PROVE  TasksInside'
    <2>1. /\ a \in Live /\ tasks' = tasks /\ objects' = Append(objects, PageObject(a, FALSE))
      BY <1>10 DEF WritePageFails, MayWritePage
    <2>2. PageObject(a, FALSE) \in Objects
      BY <1>1, <2>1, PageObjectTyped
    <2>3. DOMAIN objects \subseteq DOMAIN objects'
      BY <1>1, <2>1, <2>2
    <2> QED
      BY <2>1, <2>3 DEF TasksInside
  <1>11. ASSUME NEW a \in Addresses, EndFormXObjectAndRelease(a) PROVE TasksInside'
    <2>1. a \in Live /\ containers[a].kind = "form"
      BY <1>11 DEF EndFormXObjectAndRelease
    <2>2. PICK o : RunTasks(ResourcesWritten(FormEnded(objects, a), a), a, TRUE, o)
      BY <1>11 DEF EndFormXObjectAndRelease
    <2> DEFINE os == ResourcesWritten(FormEnded(objects, a), a)
    <2>3. os \in Seq(Objects) /\ Len(os) = Len(objects)
      BY <2>1, ResourcesKeep
    <2> HIDE DEF os
    <2>4. Len(os) >= Len(objects)
      BY <1>1, <2>3
    <2> QED
      BY <1>3, <2>1, <2>2, <2>3, <2>4 DEF os
  <1>12. ASSUME NEW a \in Addresses, EndFormXObjectFails(a) PROVE TasksInside'
    <2>1. /\ a \in Live /\ containers[a].kind = "form" /\ tasks' = tasks
          /\ objects' = ResourcesWritten(FormEnded(objects, a), a)
      BY <1>12 DEF EndFormXObjectFails
    <2>2. objects' \in Seq(Objects) /\ Len(objects') = Len(objects)
      BY <2>1, ResourcesKeep
    <2>3. DOMAIN objects' = DOMAIN objects
      BY <1>1, <2>2
    <2> QED
      BY <2>1, <2>3 DEF TasksInside
  <1>13. ASSUME AttachURLLinktoCurrentPage PROVE TasksInside'
    <2> DEFINE new == Object("annotation", {})
    <2>1. objects' = Append(objects, new) /\ tasks' = tasks
      BY <1>13 DEF AttachURLLinktoCurrentPage
    <2> HIDE DEF new
    <2>2. DOMAIN objects \subseteq DOMAIN objects'
      BY <1>1, <2>1
    <2> QED
      BY <2>1, <2>2 DEF TasksInside
  <1>14. ASSUME \A k \in Keys : tasks'[k] = NoTasks
         PROVE  TasksInside'
    BY <1>14 DEF TasksInside, Lists, NoTasks
  <1>15. ASSUME EndPDF \/ StartPDF PROVE TasksInside'
    <2>1. \A k \in Keys : tasks'[k] = NoTasks
      BY <1>15 DEF EndPDF, StartPDF, Noted, NothingKept, Keys
    <2> QED
      BY <1>14, <2>1
  <1>16. CASE UNCHANGED vars
    BY <1>16 DEF vars, TasksInside
  <1> QED
    BY <1>4, <1>5, <1>6, <1>7, <1>8, <1>9, <1>10, <1>11, <1>12, <1>13, <1>15, <1>16 DEF Next

-----------------------------------------------------------------------------
(* Where a task of a list is among the tasks that wait.                    *)
Place(k, l, j) == IF l = "first" THEN j ELSE Len(tasks[k].first) + j

LEMMA WaitingAre ==
    ASSUME Typed, NEW k \in Keys
    PROVE  /\ Waiting(k) \in Seq(Tasks) /\ Len(Waiting(k)) = Waits(tasks[k])
           /\ tasks[k].first \in Seq(Tasks) /\ Len(tasks[k].first) <= Len(Waiting(k))
           /\ \A i \in DOMAIN Waiting(k) :
                 \E l \in Lists : \E j \in DOMAIN tasks[k][l] :
                     i = Place(k, l, j) /\ Waiting(k)[i] = tasks[k][l][j]
           /\ \A l \in Lists : \A j \in DOMAIN tasks[k][l] :
                 Place(k, l, j) \in DOMAIN Waiting(k) /\ Waiting(k)[Place(k, l, j)] = tasks[k][l][j]
           /\ \A l1, l2 \in Lists : \A i \in DOMAIN tasks[k][l1], j \in DOMAIN tasks[k][l2] :
                 Place(k, l1, i) = Place(k, l2, j) => l1 = l2 /\ i = j
  <1> DEFINE f == tasks[k].first
             m == tasks[k].more
             w == f \o m
  <1>1. f \in Seq(Tasks) /\ m \in Seq(Tasks)
    <2>1. tasks[k] \in [first : Seq(Tasks), more : Seq(Tasks)]
      BY DEF Typed, Keys
    <2> QED
      BY <2>1
  <1>2. Waiting(k) = w /\ tasks[k]["first"] = f /\ tasks[k]["more"] = m
    BY DEF Waiting
  <1>3. Waits(tasks[k]) = Len(f) + Len(m)
    BY DEF Waits
  <1>4. \A j : Place(k, "first", j) = j /\ Place(k, "more", j) = Len(f) + j
    BY DEF Place
  <1> HIDE DEF f, m
  <1>5. w \in Seq(Tasks) /\ Len(w) = Len(f) + Len(m) /\ Len(f) <= Len(w)
    BY <1>1
  <1>6. ASSUME NEW i \in DOMAIN w
        PROVE  \/ i \in DOMAIN f /\ w[i] = f[i]
               \/ \E j \in DOMAIN m : i = Len(f) + j /\ w[i] = m[j]
    <2>1. CASE i \in DOMAIN f
      BY <1>1, <2>1
    <2>2. CASE i \notin DOMAIN f
      <3>1. i - Len(f) \in DOMAIN m /\ w[i] = m[i - Len(f)] /\ i = Len(f) + (i - Len(f))
        BY <1>1, <1>6, <2>2
      <3> QED
        BY <3>1
    <2> QED
      BY <2>1, <2>2
  <1>7. /\ \A j \in DOMAIN f : j \in DOMAIN w /\ w[j] = f[j]
        /\ \A j \in DOMAIN m : Len(f) + j \in DOMAIN w /\ w[Len(f) + j] = m[j]
    BY <1>1
  <1>8. \A i \in DOMAIN f, j \in DOMAIN m : i # Len(f) + j
    BY <1>1
  <1>9. \A i, j \in DOMAIN m : Len(f) + i = Len(f) + j => i = j
    BY <1>1
  <1> HIDE DEF w
  <1>10. ASSUME NEW i \in DOMAIN w
         PROVE  \E l \in Lists : \E j \in DOMAIN tasks[k][l] : i = Place(k, l, j) /\ w[i] = tasks[k][l][j]
    BY <1>2, <1>4, <1>6, <1>10 DEF Lists
  <1>11. \A l \in Lists : \A j \in DOMAIN tasks[k][l] :
             Place(k, l, j) \in DOMAIN w /\ w[Place(k, l, j)] = tasks[k][l][j]
    BY <1>2, <1>4, <1>7 DEF Lists
  <1>12. \A l1, l2 \in Lists : \A i \in DOMAIN tasks[k][l1], j \in DOMAIN tasks[k][l2] :
             Place(k, l1, i) = Place(k, l2, j) => l1 = l2 /\ i = j
    <2>1. ASSUME NEW l1 \in Lists, NEW l2 \in Lists,
                 NEW i \in DOMAIN tasks[k][l1], NEW j \in DOMAIN tasks[k][l2],
                 Place(k, l1, i) = Place(k, l2, j)
          PROVE  l1 = l2 /\ i = j
      <3>1. CASE l1 = "first" /\ l2 = "first"
        BY <1>4, <2>1, <3>1
      <3>2. CASE l1 = "first" /\ l2 = "more"
        BY <1>2, <1>4, <1>8, <2>1, <3>2
      <3>3. CASE l1 = "more" /\ l2 = "first"
        BY <1>2, <1>4, <1>8, <2>1, <3>3
      <3>4. CASE l1 = "more" /\ l2 = "more"
        BY <1>2, <1>4, <1>9, <2>1, <3>4
      <3> QED
        BY <3>1, <3>2, <3>3, <3>4 DEF Lists
    <2> QED
      BY <2>1
  <1> QED
    BY <1>1, <1>2, <1>3, <1>5, <1>10, <1>11, <1>12 DEF f

(* The tasks that run write what they wait for.                            *)
LEMMA AfterTasksStates ==
    ASSUME NEW os \in Seq(Objects), NEW k, NEW o
    PROVE  \A id \in DOMAIN os :
               AfterTasks(os, k, o)[id].state =
                   IF id \in IDs(Begun(k, o)) THEN "written" ELSE os[id].state
  <1> DEFINE ids == IDs(Begun(k, o))
             new == [id \in DOMAIN os |->
                        IF id \in ids THEN [os[id] EXCEPT !.state = "written"] ELSE os[id]]
  <1>1. new = AfterTasks(os, k, o)
    BY DEF AfterTasks
  <1> HIDE DEF ids
  <1>2. \A id \in DOMAIN os : os[id] \in Objects
    OBVIOUS
  <1>3. \A id \in DOMAIN os : new[id].state = IF id \in ids THEN "written" ELSE os[id].state
    BY <1>2 DEF Objects
  <1> HIDE DEF new
  <1> QED
    BY <1>1, <1>3 DEF ids

(* All tasks of a container run.                                           *)
LEMMA AllRun ==
    ASSUME Typed, NEW k \in Keys, NEW o \in Outcomes(k), o.how = "done", tasks' = TasksLeft(k, o)
    PROVE  /\ IDs(Begun(k, o)) = UNION {{tasks[k][l][i].id : i \in DOMAIN tasks[k][l]} : l \in Lists}
           /\ tasks'[k] = NoTasks /\ \A m \in Keys : m # k => tasks'[m] = tasks[m]
           /\ PartOf(k, o) = <<>>
  <1> DEFINE w == Waiting(k)
  <1>1. /\ w \in Seq(Tasks) /\ tasks[k].first \in Seq(Tasks) /\ Len(tasks[k].first) <= Len(w)
        /\ \A i \in DOMAIN w : \E l \in Lists : \E j \in DOMAIN tasks[k][l] : w[i] = tasks[k][l][j]
        /\ \A l \in Lists : \A j \in DOMAIN tasks[k][l] : \E i \in DOMAIN w : w[i] = tasks[k][l][j]
    BY WaitingAre
  <1>2. o.n = Len(w)
    BY DEF Outcomes
  <1> HIDE DEF w
  <1>3. Begun(k, o) = w
    <2>1. Begun(k, o) = SubSeq(w, 1, Len(w))
      BY <1>2 DEF Begun, w
    <2> QED
      BY <1>1, <2>1
  <1>4. IDs(w) = UNION {{tasks[k][l][i].id : i \in DOMAIN tasks[k][l]} : l \in Lists}
    <2>1. \A id \in IDs(w) : \E l \in Lists : id \in {tasks[k][l][i].id : i \in DOMAIN tasks[k][l]}
      BY <1>1 DEF IDs
    <2>2. \A l \in Lists : \A i \in DOMAIN tasks[k][l] : tasks[k][l][i].id \in IDs(w)
      BY <1>1 DEF IDs
    <2> QED
      BY <2>1, <2>2
  <1>5. tasks' = [tasks EXCEPT ![k] = NoTasks]
    <2> DEFINE f == tasks[k].first
    <2>1. f \in Seq(Tasks) /\ Len(f) <= Len(w) /\ Len(w) \in Nat
      BY <1>1
    <2> HIDE DEF f
    <2>2. ~(Len(w) < Len(f))
      BY <2>1
    <2> QED
      BY <1>2, <2>2 DEF TasksLeft, f
  <1>6. tasks'[k] = NoTasks /\ \A m \in Keys : m # k => tasks'[m] = tasks[m]
    BY <1>5 DEF Typed, Keys
  <1>7. PartOf(k, o) = <<>>
    BY DEF PartOf
  <1> QED
    BY <1>3, <1>4, <1>6, <1>7

(* A task fails in the middle of its object: it has an ID of the document. *)
LEMMA PartInside ==
    ASSUME Typed, TasksInside, NEW k \in Keys, NEW o \in Outcomes(k)
    PROVE  PartOf(k, o) \in Seq(DOMAIN objects)
  <1> DEFINE w == Waiting(k)
  <1>1. CASE o.how = "part"
    <2>1. o.n \in 0 .. Len(w) - 1
      BY <1>1 DEF Outcomes
    <2>2. w \in Seq(Tasks)
      BY WaitingAre
    <2>3. \A i \in DOMAIN w : w[i].id \in DOMAIN objects
      BY WaitingAre DEF TasksInside
    <2>4. PartOf(k, o) = <<w[o.n + 1].id>>
      BY <1>1 DEF PartOf
    <2> HIDE DEF w
    <2>5. o.n + 1 \in DOMAIN w
      BY <2>1, <2>2
    <2> QED
      BY <2>3, <2>4, <2>5
  <1>2. CASE o.how # "part"
    <2>1. PartOf(k, o) = <<>>
      BY <1>2 DEF PartOf
    <2> QED
      BY <2>1
  <1> QED
    BY <1>1, <1>2

-----------------------------------------------------------------------------
LEMMA EndContainers ==
    ASSUME Typed, NEW a \in Live, NEW release \in BOOLEAN, containers' = AfterEnd(a, release)
    PROVE  /\ \A b \in Addresses : b # a => containers'[b] = containers[b]
           /\ containers'[a].kind \in Kinds =>
                 ~release /\ containers'[a].kind = containers[a].kind
                 /\ containers'[a].streaming = containers[a].streaming
  <1>1. containers[a] \in Containers /\ a \in Addresses
    BY LiveTyped
  <1>2. CASE release
    <2>1. containers' = [containers EXCEPT ![a] = Free]
      BY <1>2 DEF AfterEnd
    <2>2. Free.kind \notin Kinds
      BY DEF Free, Kinds
    <2> QED
      BY <1>1, <2>1, <2>2 DEF Typed
  <1>3. CASE ~release
    <2> DEFINE old == containers[a]
               new == [old EXCEPT !.due = FALSE]
    <2>1. containers' = [containers EXCEPT ![a] = new]
      BY <1>3 DEF AfterEnd
    <2>2. new.kind = old.kind /\ new.streaming = old.streaming
      BY <1>1 DEF Containers
    <2> HIDE DEF new
    <2>3. containers'[a] = new /\ \A b \in Addresses : b # a => containers'[b] = containers[b]
      BY <1>1, <2>1 DEF Typed
    <2> QED
      BY <1>3, <2>2, <2>3
  <1> QED
    BY <1>2, <1>3

(* A container ends and all its tasks run, where only images and opacity   *)
(* states are still owed.                                                  *)
LEMMA EndLedger ==
    ASSUME Typed, Ledger, NEW a \in Live, NEW release \in BOOLEAN,
           containers' = AfterEnd(a, release), NEW os \in Seq(Objects), Later(os),
           \A id \in DOMAIN os : os[id].state = "owed" =>
               id \in DOMAIN objects /\ objects[id].holds \in Resources /\ InList(id),
           \A id \in DOMAIN objects :
               objects[id].holds \in Resources => os[id].state = objects[id].state,
           NEW o \in Outcomes(Key(a)), o.how = "done",
           objects' = AfterTasks(os, Key(a), o), tasks' = TasksLeft(Key(a), o)
    PROVE  Ledger' /\ PartOf(Key(a), o) = <<>>
  <1>0. PICK key : key = Key(a)
    OBVIOUS
  <1> DEFINE ids == IDs(Begun(key, o))
  <1>1. key \in Keys /\ key[2] = a /\ containers[a] \in Containers /\ a \in Addresses
    BY <1>0, LiveTyped DEF Keys, Key
  <1>2. /\ ids = UNION {{tasks[key][l][i].id : i \in DOMAIN tasks[key][l]} : l \in Lists}
        /\ tasks'[key] = NoTasks /\ \A m \in Keys : m # key => tasks'[m] = tasks[m]
        /\ PartOf(key, o) = <<>>
    BY <1>0, <1>1, AllRun
  <1>3. objects' \in Seq(Objects) /\ Len(objects') = Len(os)
        /\ \A id \in DOMAIN os :
              /\ objects'[id].holds = os[id].holds
              /\ objects'[id].state = IF id \in ids THEN "written" ELSE os[id].state
    BY <1>0, AfterTasksKeeps, AfterTasksStates
  <1>4. DOMAIN objects' = DOMAIN os
    BY <1>3
  <1> HIDE DEF ids
  <1>5. \A l \in Lists : DOMAIN tasks'[key][l] = {}
    BY <1>2 DEF NoTasks, Lists
  <1>6. \A b \in Addresses : b # a => containers'[b] = containers[b]
    BY EndContainers
  <1>7. \A k \in Keys, l \in Lists : \A i \in DOMAIN tasks'[k][l] :
            k # key /\ i \in DOMAIN tasks[k][l] /\ tasks'[k][l][i] = tasks[k][l][i]
    BY <1>2, <1>5
  <1>8. ASSUME NEW k \in Keys, NEW l \in Lists, NEW i \in DOMAIN tasks'[k][l], NEW id,
               id = tasks'[k][l][i].id
        PROVE  DueTask(k, id)'
    <2>1. /\ k # key /\ i \in DOMAIN tasks[k][l] /\ id = tasks[k][l][i].id
      BY <1>7, <1>8
    <2>2. DueTask(k, id)
      BY <2>1 DEF Ledger, TasksAreDue
    <2>3. id \notin ids
      <3>1. ASSUME NEW n \in Lists, NEW j \in DOMAIN tasks[key][n], tasks[key][n][j].id = id
            PROVE  FALSE
        BY <1>1, <2>1, <3>1 DEF Ledger, TasksDiffer
      <3> QED
        BY <1>2, <3>1
    <2>4. k[2] # a
      BY <1>0, <2>1, <2>2 DEF DueTask
    <2>5. k[2] \in Live' /\ Key(k[2])' = k /\ containers'[k[2]].due
      BY <1>6, <2>2, <2>4 DEF DueTask, Live, Key
    <2>6. id \in DOMAIN objects' /\ objects'[id].state = "owed" /\ objects'[id].holds \in Resources
      BY <1>3, <1>4, <2>2, <2>3 DEF DueTask, Later
    <2> QED
      BY <2>5, <2>6 DEF DueTask
  <1>9. TasksAreDue'
    BY <1>8 DEF TasksAreDue, DueTask
  <1>10. TasksDiffer'
    <2>1. ASSUME NEW k1 \in Keys, NEW k2 \in Keys, NEW l1 \in Lists, NEW l2 \in Lists,
                 NEW i \in DOMAIN tasks'[k1][l1], NEW j \in DOMAIN tasks'[k2][l2],
                 tasks'[k1][l1][i].id = tasks'[k2][l2][j].id
          PROVE  k1 = k2 /\ l1 = l2 /\ i = j
      <3>1. /\ i \in DOMAIN tasks[k1][l1] /\ j \in DOMAIN tasks[k2][l2]
            /\ tasks[k1][l1][i].id = tasks[k2][l2][j].id
        BY <1>7, <2>1
      <3> QED
        BY <3>1 DEF Ledger, TasksDiffer
    <2> QED
      BY <2>1 DEF TasksDiffer
  <1>11. OwedIsPledged'
    <2>1. ASSUME NEW id \in DOMAIN objects', objects'[id].state = "owed"
          PROVE  objects'[id].holds \in Resources /\ InList(id)'
      <3>1. id \in DOMAIN os /\ id \notin ids /\ os[id].state = "owed"
        BY <1>3, <1>4, <2>1
      <3>2. id \in DOMAIN objects /\ objects[id].holds \in Resources /\ InList(id)
        BY <3>1
      <3>3. PICK k \in Keys, l \in Lists : \E i \in DOMAIN tasks[k][l] : tasks[k][l][i].id = id
        BY <3>2 DEF InList
      <3>4. k # key
        BY <1>2, <3>1, <3>3
      <3>5. tasks'[k] = tasks[k]
        BY <1>2, <3>4
      <3>6. InList(id)'
        BY <3>3, <3>5 DEF InList
      <3> QED
        BY <1>3, <3>1, <3>2, <3>6 DEF Later
    <2> QED
      BY <2>1 DEF OwedIsPledged, Pledged
  <1> QED
    BY <1>0, <1>2, <1>9, <1>10, <1>11 DEF Ledger

LEMMA WritePageWhole ==
    ASSUME Noted, TasksInside, Streams, Whole, NEW a \in Addresses, NEW release \in BOOLEAN,
           WritePage(a, release)
    PROVE  Streams' /\ Whole'
  <1> DEFINE page == PageObject(a, TRUE)
             os == Append(objects, page)
  <1>1. /\ Typed /\ objects \in Seq(Objects) /\ phase = "writing" /\ phase' = phase
        /\ a \in Live /\ ~Streaming /\ Key(a) \in Keys /\ containers' = AfterEnd(a, release)
        /\ unfinished \in Seq(DOMAIN objects)
    BY LiveTyped DEF Noted, Typed, WritePage, MayWritePage, Streams, Keys
  <1>2. PICK o \in Outcomes(Key(a)) :
            /\ objects' = AfterTasks(os, Key(a), o) /\ tasks' = TasksLeft(Key(a), o)
            /\ unfinished' = PartOf(Key(a), o) \o unfinished
            /\ failed' = (failed \/ ~(o.how = "done"))
    BY DEF WritePage, RunTasks, WritePageReturns
  <1>3. page \in Objects /\ page.state = "written"
    <2>1. page \in Objects
      BY <1>1, PageObjectTyped
    <2> QED
      BY <2>1 DEF PageObject, Object
  <1> HIDE DEF page
  <1>4. /\ os \in Seq(Objects) /\ Len(objects) + 1 \notin DOMAIN objects
        /\ DOMAIN os = DOMAIN objects \cup {Len(objects) + 1} /\ os[Len(objects) + 1] = page
        /\ \A id \in DOMAIN objects : os[id] = objects[id]
    BY <1>1, <1>3
  <1> HIDE DEF os
  <1>5. objects' \in Seq(Objects) /\ Len(objects') = Len(os)
    BY <1>2, <1>4, AfterTasksKeeps
  <1>6. DOMAIN objects \subseteq DOMAIN objects'
    BY <1>4, <1>5
  <1>7. unfinished' \in Seq(DOMAIN objects')
    <2>1. PartOf(Key(a), o) \in Seq(DOMAIN objects)
      BY <1>1, PartInside
    <2>2. PartOf(Key(a), o) \o unfinished \in Seq(DOMAIN objects)
      BY <1>1, <2>1
    <2> QED
      BY <1>2, <1>6, <2>2, SeqGrows
  <1>8. \A b \in Addresses : containers'[b].kind \in Kinds => Paused(b)
    <2>1. \A b \in Addresses : containers'[b].kind \in Kinds =>
              /\ b \in Live /\ containers'[b].kind = containers[b].kind
              /\ containers'[b].streaming = containers[b].streaming
      BY <1>1, EndContainers DEF Live
    <2> QED
      BY <1>1, <2>1, NoneStreams DEF Paused
  <1>9. Streams' /\ ~Streaming'
    BY <1>7, <1>8, NoStreams
  <1>10. CASE o.how = "done" /\ ~failed
    <2>1. Counted /\ Ledger
      BY <1>1, <1>10 DEF Whole
    <2>2. Later(os)
      BY <1>4 DEF Later
    <2>3. \A id \in DOMAIN os : os[id].state = "owed" =>
              id \in DOMAIN objects /\ objects[id].holds \in Resources /\ InList(id)
      BY <1>1, <1>3, <1>4, <2>1, OwedInLists
    <2>4. Ledger' /\ PartOf(Key(a), o) = <<>>
      BY <1>1, <1>2, <1>4, <1>10, <2>1, <2>2, <2>3, EndLedger
    <2>5. unfinished' = unfinished
      BY <1>1, <1>2, <2>4
    <2> QED
      BY <1>1, <1>9, <2>1, <2>4, <2>5 DEF Whole, Counted
  <1>11. CASE ~(o.how = "done" /\ ~failed)
    <2>1. failed'
      BY <1>2, <1>11, Zenon
    <2> QED
      BY <1>9, <2>1 DEF Whole
  <1> QED
    BY <1>10, <1>11

LEMMA WritePageFailsWhole ==
    ASSUME Noted, Streams, NEW a \in Addresses, NEW release \in BOOLEAN, WritePageFails(a, release)
    PROVE  Streams' /\ Whole'
  <1> DEFINE page == PageObject(a, FALSE)
  <1>1. /\ Typed /\ objects \in Seq(Objects) /\ Return(FALSE)
        /\ a \in Live /\ ~Streaming /\ containers' = AfterEnd(a, release)
        /\ objects' = Append(objects, page) /\ unfinished' = <<Len(objects) + 1>> \o unfinished
        /\ unfinished \in Seq(DOMAIN objects)
    BY DEF Noted, Typed, WritePageFails, MayWritePage, Streams
  <1> HIDE DEF page
  <1>2. DOMAIN objects' = DOMAIN objects \cup {Len(objects) + 1}
    BY <1>1
  <1>3. unfinished' \in Seq(DOMAIN objects')
    BY <1>1, <1>2, Pushed
  <1>4. \A b \in Addresses : containers'[b].kind \in Kinds => Paused(b)
    <2>1. \A b \in Addresses : containers'[b].kind \in Kinds =>
              /\ b \in Live /\ containers'[b].kind = containers[b].kind
              /\ containers'[b].streaming = containers[b].streaming
      BY <1>1, EndContainers DEF Live
    <2> QED
      BY <1>1, <2>1, NoneStreams DEF Paused
  <1> QED
    BY <1>1, <1>3, <1>4, NoStreams, FailedWhole

(* The objects of a form are written when its stream ends.                 *)
LEMMA FormWritten ==
    ASSUME Noted, Streams, NEW a \in Live, containers[a].kind = "form",
           NEW os, os = ResourcesWritten(FormEnded(objects, a), a)
    PROVE  /\ os \in Seq(Objects) /\ Len(os) = Len(objects) /\ DOMAIN os = DOMAIN objects
           /\ Later(os) /\ StreamAt(a) /\ containers[a].resourcesID \in DOMAIN objects
           /\ \A id \in DOMAIN objects :
                 os[id].state = IF id \in {containers[a].resourcesID, LengthID(a)} THEN "written"
                                ELSE objects[id].state
           /\ objects[containers[a].resourcesID].holds = "resources"
           /\ objects[LengthID(a)].holds = "length" /\ unfinished # <<>>
  <1> DEFINE ended == FormEnded(objects, a)
             own == containers[a].own
             r == containers[a].resourcesID
             new == Object("resources", containers[a].uses)
  <1>1. /\ Typed /\ objects \in Seq(Objects)
        /\ r \in DOMAIN objects /\ objects[r].holds = "resources"
    BY DEF Noted, FormsHaveResources, Typed
  <1>2. StreamAt(a)
    BY DEF Streams, OneStreams
  <1>3. objects[own].holds = "form" /\ LengthID(a) = own + 2 /\ objects[LengthID(a)].holds = "length"
    BY <1>2 DEF StreamAt, LengthID
  <1>4. /\ ended \in Seq(Objects) /\ Len(ended) = Len(objects)
        /\ \A id \in DOMAIN objects :
              ended[id].state = IF id = LengthID(a) THEN "written" ELSE objects[id].state
    BY <1>1, <1>3, StreamEndedKeeps, StreamEndedStates DEF FormEnded
  <1>5. /\ os \in Seq(Objects) /\ Len(os) = Len(objects)
        /\ \A id \in DOMAIN objects : os[id].holds = objects[id].holds
    BY ResourcesKeep
  <1>6. DOMAIN os = DOMAIN objects
    BY <1>1, <1>5
  <1>7. os = [ended EXCEPT ![r] = new] /\ new.state = "written"
    BY DEF ResourcesWritten, Object
  <1> HIDE DEF ended, new, r
  <1>8. \A id \in DOMAIN objects : os[id] = IF id = r THEN new ELSE ended[id]
    BY <1>1, <1>4, <1>7
  <1>9. \A id \in DOMAIN objects :
            os[id].state = IF id \in {r, LengthID(a)} THEN "written" ELSE objects[id].state
    BY <1>4, <1>7, <1>8
  <1> QED
    BY <1>1, <1>2, <1>3, <1>5, <1>6, <1>9 DEF Later, r, StreamAt

LEMMA EndFormWhole ==
    ASSUME Noted, TasksInside, Streams, Whole, NEW a \in Addresses, EndFormXObjectAndRelease(a)
    PROVE  Streams' /\ Whole'
  <1> DEFINE os == ResourcesWritten(FormEnded(objects, a), a)
  <1>1. /\ Typed /\ objects \in Seq(Objects) /\ phase = "writing" /\ phase' = phase
        /\ a \in Live /\ containers[a].kind = "form" /\ Key(a) \in Keys
        /\ containers' = AfterEnd(a, TRUE) /\ unfinished \in Seq(DOMAIN objects)
        /\ containers[a].streaming
    BY LiveTyped DEF Noted, Typed, EndFormXObjectAndRelease, Streams, OneStreams, Keys
  <1>2. PICK o \in Outcomes(Key(a)) :
            /\ objects' = AfterTasks(os, Key(a), o) /\ tasks' = TasksLeft(Key(a), o)
            /\ unfinished' = PartOf(Key(a), o) \o Tail(unfinished) /\ Return(o.how = "done")
    BY DEF EndFormXObjectAndRelease, RunTasks, InnermostEnded
  <1>3. /\ os \in Seq(Objects) /\ Len(os) = Len(objects) /\ DOMAIN os = DOMAIN objects
        /\ Later(os) /\ unfinished # <<>>
        /\ \A id \in DOMAIN objects :
              os[id].state = IF id \in {containers[a].resourcesID, LengthID(a)} THEN "written"
                             ELSE objects[id].state
        /\ objects[containers[a].resourcesID].holds = "resources"
        /\ objects[LengthID(a)].holds = "length"
    BY <1>1, FormWritten
  <1> HIDE DEF os
  <1>4. objects' \in Seq(Objects) /\ Len(objects') = Len(os)
    BY <1>2, <1>3, AfterTasksKeeps
  <1>5. DOMAIN objects' = DOMAIN objects
    BY <1>3, <1>4
  <1>6. /\ Tail(unfinished) \in Seq(DOMAIN objects)
        /\ Len(Tail(unfinished)) = Len(unfinished) - 1 /\ Len(unfinished) \in Nat
    BY <1>1, <1>3, Popped
  <1>7. unfinished' \in Seq(DOMAIN objects')
    <2>1. PartOf(Key(a), o) \in Seq(DOMAIN objects)
      BY <1>1, PartInside
    <2>2. PartOf(Key(a), o) \o Tail(unfinished) \in Seq(DOMAIN objects)
      BY <1>6, <2>1
    <2> QED
      BY <1>2, <1>5, <2>2
  <1>8. /\ Streaming
        /\ \A b \in Live : b # a => containers[b].kind = "page" /\ ~containers[b].streaming
        /\ \A id : OfStream(id) => id = LengthID(a)
        /\ \A id : OfForm(id) => containers[a].resourcesID = id
    BY <1>1, OnlyOneStreams
  <1>9. \A b \in Addresses : containers'[b].kind \in Kinds => Paused(b)
    <2>1. \A b \in Addresses : containers'[b].kind \in Kinds =>
              b # a /\ containers'[b] = containers[b]
      BY <1>1, EndContainers
    <2> QED
      BY <1>8, <2>1 DEF Paused, Live
  <1>10. Streams' /\ ~Streaming'
    BY <1>7, <1>9, NoStreams
  <1>11. CASE o.how = "done" /\ ~failed
    <2>1. Counted /\ Ledger
      BY <1>1, <1>11 DEF Whole
    <2>2. \A id \in DOMAIN os : os[id].state = "owed" =>
              id \in DOMAIN objects /\ objects[id].holds \in Resources /\ InList(id)
      <3>1. ASSUME NEW id \in DOMAIN os, os[id].state = "owed"
            PROVE  id \in DOMAIN objects /\ objects[id].holds \in Resources /\ InList(id)
        <4>1. /\ id \in DOMAIN objects /\ objects[id].state = "owed"
              /\ id # containers[a].resourcesID /\ id # LengthID(a)
          BY <1>3, <3>1
        <4>2. Pledged(id)
          BY <2>1, <4>1 DEF Ledger, OwedIsPledged
        <4> QED
          BY <1>8, <4>1, <4>2 DEF Pledged
      <3> QED
        BY <3>1
    <2>3. \A id \in DOMAIN objects :
              objects[id].holds \in Resources => os[id].state = objects[id].state
      BY <1>3, WordsDiffer
    <2>4. Ledger' /\ PartOf(Key(a), o) = <<>>
      BY <1>1, <1>2, <1>3, <1>11, <2>1, <2>2, <2>3, EndLedger
    <2>5. unfinished' = Tail(unfinished)
      BY <1>2, <1>6, <2>4
    <2>6. Counted'
      BY <1>6, <1>8, <1>10, <2>1, <2>5 DEF Counted
    <2> QED
      BY <1>1, <1>10, <2>4, <2>6 DEF Whole
  <1>12. CASE ~(o.how = "done" /\ ~failed)
    <2>1. failed'
      BY <1>2, <1>12, Zenon DEF Return
    <2> QED
      BY <1>10, <2>1 DEF Whole
  <1> QED
    BY <1>11, <1>12

LEMMA EndFormFailsWhole ==
    ASSUME Noted, Streams, NEW a \in Addresses, EndFormXObjectFails(a)
    PROVE  Streams' /\ Whole'
  <1> DEFINE r == containers[a].resourcesID
  <1>1. /\ Typed /\ a \in Live /\ containers[a].kind = "form" /\ Return(FALSE)
        /\ containers' = AfterEnd(a, TRUE) /\ unfinished \in Seq(DOMAIN objects)
        /\ objects' = ResourcesWritten(FormEnded(objects, a), a)
        /\ unfinished' = <<r>> \o Tail(unfinished) /\ containers[a].streaming
    BY DEF Noted, EndFormXObjectFails, InnermostEnded, Streams, OneStreams
  <1>2. DOMAIN objects' = DOMAIN objects /\ r \in DOMAIN objects /\ unfinished # <<>>
    BY <1>1, FormWritten
  <1> HIDE DEF r
  <1>3. unfinished' \in Seq(DOMAIN objects')
    <2>1. Tail(unfinished) \in Seq(DOMAIN objects)
      BY <1>1, <1>2, Popped
    <2> QED
      BY <1>1, <1>2, <2>1, Pushed
  <1>4. \A b \in Live : b # a => containers[b].kind = "page" /\ ~containers[b].streaming
    BY <1>1, OnlyOneStreams
  <1>5. \A b \in Addresses : containers'[b].kind \in Kinds => Paused(b)
    <2>1. \A b \in Addresses : containers'[b].kind \in Kinds =>
              b # a /\ containers'[b] = containers[b]
      BY <1>1, EndContainers
    <2> QED
      BY <1>4, <2>1 DEF Paused, Live
  <1> QED
    BY <1>1, <1>3, <1>5, NoStreams, FailedWhole

LEMMA EndPDFWhole ==
    ASSUME Noted, Streams, Whole, EndPDF
    PROVE  Streams' /\ Whole'
  <1>1. /\ phase = "writing" /\ \A a \in Live : ~containers[a].due
        /\ phase' = IF \E id \in DOMAIN objects : objects[id].state = "owed" THEN "broken" ELSE "finished"
        /\ objects' = objects /\ unfinished' = unfinished /\ containers' = containers
        /\ failed' = failed
    BY DEF EndPDF
  <1>2. ~Streaming
    BY <1>1 DEF Streaming, Streams, StreamAt
  <1>3. \A b \in Addresses : containers'[b].kind \in Kinds => Paused(b)
    BY <1>1, <1>2, NoneStreams DEF Paused, Live
  <1>4. Streams' /\ ~Streaming'
    BY <1>1, <1>3, NoStreams DEF Streams
  <1>5. ASSUME ~failed
        PROVE  Counted' /\ phase' = "finished"
    <2>1. Counted /\ Ledger
      BY <1>1, <1>5 DEF Whole
    <2>2. \A id \in DOMAIN objects : objects[id].state # "owed"
      <3>1. ASSUME NEW id \in DOMAIN objects, objects[id].state = "owed"
            PROVE  FALSE
        <4>1. InList(id)
          BY <1>2, <2>1, <3>1, OwedInLists
        <4>2. PICK k \in Keys, l \in Lists : \E i \in DOMAIN tasks[k][l] : tasks[k][l][i].id = id
          BY <4>1 DEF InList
        <4> QED
          BY <1>1, <2>1, <4>2 DEF Ledger, TasksAreDue, DueTask
      <3> QED
        BY <3>1
    <2> QED
      BY <1>1, <1>2, <1>4, <2>1, <2>2 DEF Counted
  <1> QED
    BY <1>1, <1>4, <1>5 DEF Whole

LEMMA StartPDFWhole ==
    ASSUME Noted, StartPDF
    PROVE  Streams' /\ Whole'
  <1>1. /\ objects' = <<>> /\ unfinished' = <<>> /\ phase' = "writing"
        /\ containers' = [b \in Addresses |-> Free]
        /\ \A k \in Keys : tasks'[k] = NoTasks
    BY DEF StartPDF, Noted, NothingKept, Keys
  <1>2. \A b \in Addresses : containers'[b].kind \notin Kinds
    BY <1>1 DEF Free, Kinds
  <1>3. Streams' /\ ~Streaming'
    BY <1>1, <1>2, NoStreams
  <1>4. \A k \in Keys, l \in Lists : tasks'[k][l] = <<>>
    BY <1>1 DEF NoTasks, Lists
  <1>5. Ledger'
    BY <1>1, <1>4 DEF Ledger, OwedIsPledged, TasksAreDue, TasksDiffer
  <1>6. Counted'
    BY <1>1, <1>3 DEF Counted
  <1> QED
    BY <1>1, <1>3, <1>5, <1>6 DEF Whole

LEMMA InitWhole == Init => TasksInside /\ Streams /\ Whole
  <1> SUFFICES ASSUME Init PROVE TasksInside /\ Streams /\ Whole
    OBVIOUS
  <1>1. /\ objects = <<>> /\ unfinished = <<>> /\ phase = "writing"
        /\ containers = [b \in Addresses |-> Free]
        /\ \A k \in Keys : tasks[k] = NoTasks
    BY DEF Init, Keys
  <1>2. Live = {} /\ ~Streaming
    BY <1>1 DEF Live, Free, Kinds, Streaming
  <1>3. \A k \in Keys, l \in Lists : tasks[k][l] = <<>>
    BY <1>1 DEF NoTasks, Lists
  <1>4. TasksInside /\ Ledger
    BY <1>1, <1>3 DEF TasksInside, Ledger, OwedIsPledged, TasksAreDue, TasksDiffer
  <1>5. Streams
    BY <1>1, <1>2 DEF Streams, OneStreams
  <1>6. Counted
    BY <1>1, <1>2 DEF Counted
  <1> QED
    BY <1>1, <1>4, <1>5, <1>6 DEF Whole

LEMMA NextWhole == Noted /\ TasksInside /\ Streams /\ Whole /\ [Next]_vars => Streams' /\ Whole'
  <1> SUFFICES ASSUME Noted, TasksInside, Streams, Whole, [Next]_vars PROVE Streams' /\ Whole'
    OBVIOUS
  <1>1. ASSUME NEW a \in Addresses, NewPage(a) PROVE Streams' /\ Whole'
    BY <1>1, NewPageWhole
  <1>2. ASSUME NEW a \in Addresses, StartFormXObject(a) PROVE Streams' /\ Whole'
    BY <1>2, StartFormWhole
  <1>3. ASSUME NEW a \in Addresses, StartFormXObjectFails(a) PROVE Streams' /\ Whole'
    BY <1>3, StartFormFailsWhole
  <1>4. ASSUME NEW a \in Addresses, NEW r \in Resources, Draw(a, r) PROVE Streams' /\ Whole'
    BY <1>4, DrawWhole
  <1>5. ASSUME NEW a \in Addresses, PausePageContentContext(a) PROVE Streams' /\ Whole'
    BY <1>5, PauseWhole
  <1>6. ASSUME NEW a \in Addresses, NEW release \in BOOLEAN, WritePage(a, release)
        PROVE  Streams' /\ Whole'
    BY <1>6, WritePageWhole
  <1>7. ASSUME NEW a \in Addresses, NEW release \in BOOLEAN, WritePageFails(a, release)
        PROVE  Streams' /\ Whole'
    BY <1>7, WritePageFailsWhole
  <1>8. ASSUME NEW a \in Addresses, EndFormXObjectAndRelease(a) PROVE Streams' /\ Whole'
    BY <1>8, EndFormWhole
  <1>9. ASSUME NEW a \in Addresses, EndFormXObjectFails(a) PROVE Streams' /\ Whole'
    BY <1>9, EndFormFailsWhole
  <1>10. CASE UNCHANGED vars
    BY <1>10 DEF vars, Streams, OneStreams, StreamAt, LengthID, Whole, Counted, Streaming, Live,
           Ledger, OwedIsPledged, Pledged, InList, OfForm, OfStream, TasksAreDue, DueTask, Key,
           TasksDiffer
  <1> QED
    BY <1>1, <1>2, <1>3, <1>4, <1>5, <1>6, <1>7, <1>8, <1>9, <1>10, AttachWhole,
       EndPDFWhole, StartPDFWhole DEF Next

-----------------------------------------------------------------------------
LEMMA AllTyped == Noted /\ Owned /\ Sized /\ Streams => TypeOK
  <1> SUFFICES ASSUME Noted, Owned, Sized, Streams PROVE TypeOK
    OBVIOUS
  <1>1. Typed /\ objects \in Seq(Objects)
    BY DEF Noted, Typed
  <1>2. ASSUME NEW id \in DOMAIN objects
        PROVE  /\ objects[id].holds \in Resources \cup
                     {"page", "form", "content", "resources", "length", "annotation"}
               /\ objects[id].state \in {"owed", "written"}
               /\ objects[id].refs \subseteq [id : 1 .. MaxObjects, holds : Resources \cup
                                               {"resources", "length", "content", "annotation"}]
    <2>1. objects[id] \in Objects
      BY <1>1, <1>2
    <2>2. \A ref \in objects[id].refs : ref \in Refs /\ Fits(ref)
      BY <1>2, <2>1 DEF Sized, ObjectsFit, Objects
    <2>3. ASSUME NEW ref \in objects[id].refs
          PROVE  ref \in [id : 1 .. MaxObjects,
                          holds : Resources \cup {"resources", "length", "content", "annotation"}]
      <3>1. ref \in Refs /\ Fits(ref)
        BY <2>2, <2>3
      <3>2. ref = [id |-> ref.id, holds |-> ref.holds]
        BY <3>1 DEF Refs
      <3> QED
        BY <3>1, <3>2 DEF Fits
    <2> QED
      BY <2>1, <2>3 DEF Objects, Holdings
  <1>3. \A a \in Live : containers[a].kind \in Kinds /\ containers[a].streaming \in BOOLEAN
    BY <1>1, LiveTyped DEF Containers
  <1>4. ASSUME NEW k \in DOMAIN tasks
        PROVE  \A i \in DOMAIN Waiting(k) : Waiting(k)[i].what \in Resources
    <2>1. k \in Keys
      BY <1>1 DEF Typed, Keys
    <2> DEFINE w == Waiting(k)
    <2>2. w \in Seq(Tasks)
      BY <1>1, <2>1, WaitingAre
    <2> HIDE DEF w
    <2>3. \A i \in DOMAIN w : w[i] \in Tasks
      BY <2>2
    <2>4. \A task \in Tasks : task.what \in Resources
      BY DEF Tasks
    <2> QED
      BY <2>3, <2>4 DEF w
  <1>5. /\ unfinished \in Seq(DOMAIN objects) /\ annotations \subseteq DOMAIN objects
        /\ serial \in Nat /\ phase \in {"writing", "finished", "broken"}
        /\ forsaken \subseteq Nat
    BY <1>1 DEF Streams, Typed, Owned
  <1>6. /\ shared \in [Resources -> 0 .. MaxObjects] /\ registered \subseteq Resources
        /\ result \in [ok : BOOLEAN, extended : BOOLEAN] /\ failed \in BOOLEAN
        /\ documents \in 1 .. MaxDocuments
    BY DEF Sized, OthersFit
  <1> QED
    BY <1>2, <1>3, <1>4, <1>5, <1>6 DEF TypeOK

LEMMA WholeOwesOnce == Noted /\ Sized /\ Whole => OwedOnce
  <1> SUFFICES ASSUME Noted, Sized, Whole, phase = "writing", ~failed,
                      NEW id \in DOMAIN objects, objects[id].holds \in Resources
               PROVE  Cardinality(Scheduling(id)) = IF objects[id].state = "owed" THEN 1 ELSE 0
    BY DEF OwedOnce
  <1>1. Typed /\ Ledger
    BY DEF Noted, Whole
  <1>2. DOMAIN tasks = Keys
    BY <1>1 DEF Typed, Keys
  <1>3. ASSUME NEW at \in Scheduling(id)
        PROVE  \E k \in Keys, l \in Lists : \E j \in DOMAIN tasks[k][l] :
                   at = <<k, Place(k, l, j)>> /\ tasks[k][l][j].id = id
    <2>1. PICK k \in Keys, i \in 1 .. MaxObjects :
              at = <<k, i>> /\ i \in DOMAIN Waiting(k) /\ Waiting(k)[i].id = id
      BY <1>2, <1>3 DEF Scheduling
    <2>2. \E l \in Lists : \E j \in DOMAIN tasks[k][l] :
              i = Place(k, l, j) /\ Waiting(k)[i] = tasks[k][l][j]
      BY <1>1, <2>1, WaitingAre
    <2> QED
      BY <2>1, <2>2
  <1>4. CASE objects[id].state = "owed"
    <2>1. InList(id)
      BY <1>1, <1>4, WordsDiffer DEF Ledger, OwedIsPledged, Pledged
    <2>2. PICK k \in Keys, l \in Lists : \E i \in DOMAIN tasks[k][l] : tasks[k][l][i].id = id
      BY <2>1 DEF InList
    <2>3. PICK i \in DOMAIN tasks[k][l] : tasks[k][l][i].id = id
      BY <2>2
    <2>4. DueTask(k, id)
      BY <1>1, <2>3 DEF Ledger, TasksAreDue
    <2>5. /\ Place(k, l, i) \in DOMAIN Waiting(k)
          /\ Waiting(k)[Place(k, l, i)] = tasks[k][l][i]
          /\ Waiting(k) \in Seq(Tasks) /\ Len(Waiting(k)) = Waits(tasks[k])
      BY <1>1, WaitingAre
    <2>6. Place(k, l, i) \in 1 .. MaxObjects
      <3>1. Waits(tasks[k]) <= Len(objects) /\ Len(objects) <= MaxObjects /\ Len(objects) \in Nat
        BY <1>1 DEF Sized, ListsFit, ObjectsFit, Typed
      <3> QED
        BY <2>5, <3>1, PageWritingAssumption
    <2>7. <<k, Place(k, l, i)>> \in Scheduling(id)
      BY <1>2, <2>3, <2>4, <2>5, <2>6 DEF Scheduling, DueTask
    <2>8. \A at \in Scheduling(id) : at = <<k, Place(k, l, i)>>
      BY <1>1, <1>3, <2>3 DEF Ledger, TasksDiffer
    <2>9. Scheduling(id) = {<<k, Place(k, l, i)>>}
      BY <2>7, <2>8
    <2> QED
      BY <1>4, <2>9, FS_Singleton
  <1>5. CASE objects[id].state # "owed"
    <2>1. Scheduling(id) = {}
      BY <1>1, <1>3, <1>5 DEF Ledger, TasksAreDue, DueTask
    <2> QED
      BY <1>5, <2>1, FS_EmptySet
  <1> QED
    BY <1>4, <1>5

(* As long as no call of a document fails, every image and opacity state   *)
(* that has an ID and is not written has one task, under a page or form    *)
(* that is to end; one object at a time is begun; and EndPDF finds nothing *)
(* owed: for any images, pages and forms, however calls follow each other, *)
(* and whether or not addresses and images are used again.                 *)
THEOREM DocumentStaysWhole == Spec => []DocumentIsWhole
  <1> DEFINE Everything == Noted /\ Owned /\ Sized /\ TasksInside /\ Streams /\ Whole
  <1>1. Init => Everything
    BY InitNoted, InitOwned, InitSized, InitWhole
  <1>2. Everything /\ [Next]_vars => Everything'
    BY NextNoted, NextOwned, NextSized, NextInside, NextWhole
  <1>3. Everything => DocumentIsWhole
    <2> SUFFICES ASSUME Everything PROVE DocumentIsWhole
      OBVIOUS
    <2>1. TypeOK /\ OwedOnce
      BY AllTyped, WholeOwesOnce
    <2>2. ~failed => Counted
      BY DEF Whole
    <2>3. ObjectsDontNest
      BY <2>2 DEF ObjectsDontNest, Counted
    <2>4. WholeDocument
      <3>1. ASSUME phase # "writing", ~failed
            PROVE  phase = "finished" /\ unfinished = <<>>
        <4>1. phase = "finished" /\ Len(unfinished) = 0
          BY <2>2, <3>1 DEF Whole, Counted
        <4> QED
          BY <4>1 DEF Streams
      <3> QED
        BY <3>1 DEF WholeDocument
    <2> QED
      BY <2>1, <2>3, <2>4 DEF DocumentIsWhole
  <1> QED
    BY <1>1, <1>2, <1>3, PTL DEF Spec
=============================================================================

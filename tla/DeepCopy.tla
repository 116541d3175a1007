------------------------------ MODULE DeepCopy ------------------------------
(***************************************************************************)
(* What a copying context promises: a call asks for objects, and when it   *)
(* succeeds it delivers, in one step, those objects and every object they  *)
(* lead to that has no place in the target document yet, and nothing else. *)
(* Placed objects have an ID in the target document; delivered ones are    *)
(* written there, or are null there because the source document has no     *)
(* such object.                                                            *)
(***************************************************************************)
CONSTANTS
    Objects,    \* IDs of the source documents' objects
    Sources     \* source documents

VARIABLES
    source, placed, delivered, ok,
    asked       \* the objects that the running call is to copy

vars == <<source, placed, delivered, ok, asked>>

Range(s) == {s[i] : i \in DOMAIN s}

LeadsTo(o) == IF source.status[o] = "parsed" THEN Range(source.refs[o]) ELSE {}

(* The least set with the wanted objects in it that leads only to itself   *)
(* and to placed objects.                                                  *)
Closure(wanted) ==
    {o \in Objects :
        \A S \in SUBSET Objects :
            (wanted \subseteq S /\ \A p \in S : LeadsTo(p) \subseteq S \cup placed) => o \in S}

Init == source \in Sources /\ placed = {} /\ delivered = {} /\ ok = TRUE /\ asked = {}

Ask(wanted) == asked = {} /\ asked' = wanted /\ UNCHANGED <<source, placed, delivered, ok>>

Copy ==
    /\ \A o \in Closure(asked) : source.status[o] # "broken"
    /\ delivered' = delivered \cup Closure(asked)
    /\ placed' = placed \cup Closure(asked)
    /\ ok' = TRUE /\ asked' = {}
    /\ UNCHANGED source

(* A copy that fails has done some of its work.                            *)
Fail ==
    /\ ok' = FALSE /\ asked' = {}
    /\ \E more \in SUBSET Objects, done \in SUBSET Objects :
        /\ done \subseteq placed \cup more
        /\ placed' = placed \cup more
        /\ delivered' = delivered \cup done
    /\ UNCHANGED source

(* References are written, their objects are owed.                         *)
Promise(refs) ==
    /\ asked = {}
    /\ placed' = placed \cup refs /\ ok' = TRUE
    /\ UNCHANGED <<source, delivered, asked>>

(* The user has objects to use instead.                                    *)
Replace(o) ==
    /\ asked = {} /\ o \notin placed
    /\ placed' = placed \cup {o} /\ delivered' = delivered \cup {o}
    /\ UNCHANGED <<source, ok, asked>>

Restart ==
    /\ asked = {}
    /\ source' \in Sources /\ placed' = {} /\ delivered' = {}
    /\ UNCHANGED <<ok, asked>>

Next ==
    \/ \E wanted \in SUBSET (Objects \ delivered) : Ask(wanted) \/ Promise(wanted)
    \/ Copy
    \/ Fail
    \/ \E o \in Objects : Replace(o)
    \/ Restart

Spec == Init /\ [][Next]_vars
=============================================================================

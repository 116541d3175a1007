------------------------ MODULE CopyingContextProofs ------------------------
(***************************************************************************)
(* Proofs about CopyingContext, for every set of source documents.         *)
(***************************************************************************)
EXTENDS CopyingContext, SequenceTheorems, WellFoundedInduction, TLAPS

(***************************************************************************)
(* Induction, with the sets that the library's theorem about minima takes. *)
(***************************************************************************)

\* A set of numbers that is not empty has a least one.
LEMMA LeastNumber ==
    ASSUME NEW T, T \subseteq Nat, T # {}
    PROVE  \E x \in T : \A y \in T : x <= y
  <1> DEFINE Less == OpToRel(<, Nat)
  <1>1. IsWellFoundedOn(Less, Nat)
    BY NatLessThanWellFounded
  <1>2. \A x, y \in Nat : x < y => <<x, y>> \in Less
    BY DEF OpToRel
  <1> HIDE DEF Less
  <1>3. PICK x \in T : \A y \in T : ~ (<<y, x>> \in Less)
    BY <1>1, WFMin
  <1>4. \A y \in T : ~ (y < x)
    BY <1>2, <1>3
  <1> QED
    BY <1>3, <1>4

\* A set with 0 in it, and with each of its numbers the next, has them all.
LEMMA Induction ==
    ASSUME NEW S, 0 \in S, \A n \in Nat : n \in S => n + 1 \in S
    PROVE  \A n \in Nat : n \in S
  <1> SUFFICES ASSUME NEW k \in Nat \ S PROVE FALSE
    OBVIOUS
  <1>1. PICK x \in Nat \ S : \A y \in Nat \ S : x <= y
    BY LeastNumber
  <1>2. x - 1 \in Nat
    BY <1>1
  <1> QED
    BY <1>1, <1>2

-----------------------------------------------------------------------------
\* The elements of a list of lists.
AllOf(ss) == UNION {Elements(l) : l \in Elements(ss)}

(***************************************************************************)
(* What Unmapped returns.                                                  *)
(***************************************************************************)
Distinct(s) == \A i, j \in DOMAIN s : s[i] = s[j] => i = j

\* The unmapped ones of the first references, n by n.
FirstOnes(f, m, refs) ==
    [n \in 0 .. Len(refs) |->
        IF n = 0 THEN <<>>
        ELSE IF refs[n] \in DOMAIN m THEN f[n - 1] ELSE Append(f[n - 1], refs[n])]

\* The recursion of Unmapped has a function that satisfies it.
LEMMA FirstOnesExist ==
    ASSUME NEW S, NEW m, NEW refs \in Seq(S)
    PROVE  \E f : f = FirstOnes(f, m, refs)
  <1> DEFINE Upto(f, k) ==
        /\ f \in [0 .. k -> Seq(S)]
        /\ f[0] = <<>>
        /\ \A n \in 1 .. k :
            f[n] = IF refs[n] \in DOMAIN m THEN f[n - 1] ELSE Append(f[n - 1], refs[n])
             P == {k \in Nat : k <= Len(refs) => \E f : Upto(f, k)}
  <1> HIDE DEF Upto
  <1>1. 0 \in P
    <2>1. Upto([n \in 0 .. 0 |-> <<>>], 0)
      BY DEF Upto
    <2> QED
      BY <2>1
  <1>2. ASSUME NEW k \in Nat, k \in P
        PROVE  k + 1 \in P
    <2> SUFFICES ASSUME k + 1 <= Len(refs) PROVE \E f : Upto(f, k + 1)
      OBVIOUS
    <2>1. PICK f : Upto(f, k)
      BY <1>2, LenProperties
    <2> DEFINE last == IF refs[k + 1] \in DOMAIN m THEN f[k] ELSE Append(f[k], refs[k + 1])
               g == [n \in 0 .. k + 1 |-> IF n <= k THEN f[n] ELSE last]
    <2>2. /\ f[k] \in Seq(S) /\ refs[k + 1] \in S
      BY <2>1, LenProperties, ElementOfSeq DEF Upto
    <2>3. last \in Seq(S)
      BY <2>2, AppendProperties
    <2>4. g \in [0 .. k + 1 -> Seq(S)]
      BY <2>1, <2>3 DEF Upto
    <2>5. g[0] = <<>>
      BY <2>1 DEF Upto
    <2>6. \A n \in 1 .. k + 1 :
            g[n] = IF refs[n] \in DOMAIN m THEN g[n - 1] ELSE Append(g[n - 1], refs[n])
      <3> SUFFICES ASSUME NEW n \in 1 .. k + 1
                   PROVE  g[n] = IF refs[n] \in DOMAIN m THEN g[n - 1]
                                 ELSE Append(g[n - 1], refs[n])
        OBVIOUS
      <3>1. g[n - 1] = f[n - 1]
        OBVIOUS
      <3>2. CASE n <= k
        BY <2>1, <3>1, <3>2 DEF Upto
      <3>3. CASE n = k + 1
        BY <3>1, <3>3
      <3> QED
        BY <3>2, <3>3
    <2> HIDE DEF g
    <2>7. Upto(g, k + 1)
      BY <2>4, <2>5, <2>6 DEF Upto
    <2> QED
      BY <2>7
  <1>3. Len(refs) \in P
    <2> HIDE DEF P
    <2> QED
      BY <1>1, <1>2, Induction, LenProperties
  <1>4. PICK f : Upto(f, Len(refs))
    BY <1>3, LenProperties
  <1>5. f = FirstOnes(f, m, refs)
    <2>1. Len(refs) \in Nat
      BY LenProperties
    <2>2. /\ DOMAIN f = 0 .. Len(refs) /\ f[0] = <<>>
          /\ \A n \in 1 .. Len(refs) :
            f[n] = IF refs[n] \in DOMAIN m THEN f[n - 1] ELSE Append(f[n - 1], refs[n])
      BY <1>4 DEF Upto
    <2>3. f = [n \in DOMAIN f |-> f[n]]
      BY <1>4 DEF Upto
    <2>4. \A n \in 0 .. Len(refs) : f[n] =
            IF n = 0 THEN <<>>
            ELSE IF refs[n] \in DOMAIN m THEN f[n - 1] ELSE Append(f[n - 1], refs[n])
      <3> TAKE n \in 0 .. Len(refs)
      <3>1. CASE n = 0
        BY <2>2, <3>1
      <3>2. CASE n \in 1 .. Len(refs)
        <4>1. n # 0
          BY <3>2
        <4>2. f[n] = IF refs[n] \in DOMAIN m THEN f[n - 1] ELSE Append(f[n - 1], refs[n])
          BY <2>2, <3>2
        <4> QED
          BY <4>1, <4>2
      <3> QED
        BY <2>1, <3>1, <3>2
    <2> QED
      BY <2>2, <2>3, <2>4, Zenon DEF FirstOnes
  <1> QED
    BY <1>5

\* Unmapped lists the references that have no target, each of them once when
\* they are referred to once.
LEMMA UnmappedIsRight ==
    ASSUME NEW S, NEW m, NEW refs \in Seq(S)
    PROVE  /\ Unmapped(m, refs) \in Seq(S)
           /\ Elements(Unmapped(m, refs)) = Elements(refs) \ DOMAIN m
           /\ Distinct(refs) => Distinct(Unmapped(m, refs))
  <1> DEFINE f == CHOOSE g : g = FirstOnes(g, m, refs)
  <1>1. Unmapped(m, refs) = f[Len(refs)]
    BY DEF Unmapped, FirstOnes
  <1>2. f = FirstOnes(f, m, refs)
    BY FirstOnesExist
  <1> HIDE DEF f
  <1> DEFINE First(n) == {refs[i] : i \in 1 .. n}
             Right(n) == /\ f[n] \in Seq(S)
                         /\ Elements(f[n]) = First(n) \ DOMAIN m
                         /\ Distinct(refs) => Distinct(f[n])
             P == {n \in Nat : n <= Len(refs) => Right(n)}
  <1>3. /\ f[0] = <<>>
        /\ \A n \in 1 .. Len(refs) :
            f[n] = IF refs[n] \in DOMAIN m THEN f[n - 1] ELSE Append(f[n - 1], refs[n])
    <2>1. Len(refs) \in Nat
      BY LenProperties
    <2>2. \A n \in 0 .. Len(refs) : FirstOnes(f, m, refs)[n] =
            IF n = 0 THEN <<>>
            ELSE IF refs[n] \in DOMAIN m THEN f[n - 1] ELSE Append(f[n - 1], refs[n])
      BY DEF FirstOnes
    <2>3. \A n : f[n] = FirstOnes(f, m, refs)[n]
      BY <1>2
    <2> QED
      BY <2>1, <2>2, <2>3
  <1>4. 0 \in P
    <2>1. /\ <<>> \in Seq(S) /\ DOMAIN <<>> = {}
      BY EmptySeq, LenProperties
    <2>2. Right(0)
      BY <1>3, <2>1 DEF Elements, Distinct
    <2> QED
      BY <2>2
  <1>5. ASSUME NEW n \in Nat, n \in P
        PROVE  n + 1 \in P
    <2> SUFFICES ASSUME n + 1 <= Len(refs) PROVE Right(n + 1)
      OBVIOUS
    <2>1. Len(refs) \in Nat /\ DOMAIN refs = 1 .. Len(refs)
      BY LenProperties
    <2>2. Right(n)
      BY <1>5, <2>1
    <2> DEFINE s == f[n]
               r == refs[n + 1]
    <2>3. First(n + 1) = First(n) \cup {r}
      OBVIOUS
    <2>4. r \in S /\ s \in Seq(S)
      BY <2>1, <2>2, ElementOfSeq
    <2> HIDE DEF P, Right
    <2>8. f[n + 1] = IF r \in DOMAIN m THEN s ELSE Append(s, r)
      <3>1. n + 1 \in 1 .. Len(refs) /\ (n + 1) - 1 = n
        BY <2>1
      <3>2. f[n + 1] = IF refs[n + 1] \in DOMAIN m THEN f[(n + 1) - 1]
                       ELSE Append(f[(n + 1) - 1], refs[n + 1])
        BY <1>3, <3>1
      <3> QED
        BY <3>1, <3>2
    <2>5. Distinct(refs) => r \notin First(n)
      BY <2>1 DEF Distinct
    <2>6. CASE r \in DOMAIN m
      <3>1. f[n + 1] = s
        BY <2>6, <2>8
      <3> QED
        BY <2>2, <2>3, <2>6, <3>1 DEF Right
    <2>7. CASE r \notin DOMAIN m
      <3>1. f[n + 1] = Append(s, r)
        BY <2>7, <2>8
      <3>2. /\ Append(s, r) \in Seq(S)
            /\ Len(s) \in Nat /\ DOMAIN s = 1 .. Len(s)
            /\ DOMAIN Append(s, r) = 1 .. Len(s) + 1
            /\ Append(s, r)[Len(s) + 1] = r
            /\ \A i \in 1 .. Len(s) : Append(s, r)[i] = s[i]
        BY <2>4, AppendProperties, LenProperties
      <3>3. Elements(Append(s, r)) = Elements(s) \cup {r}
        <4> HIDE DEF s, r
        <4> QED
          BY <3>2 DEF Elements
      <3>4. Distinct(s) /\ r \notin Elements(s) => Distinct(Append(s, r))
        <4> HIDE DEF s, r
        <4> QED
          BY <3>2 DEF Elements, Distinct
      <3>5. Elements(s) = First(n) \ DOMAIN m /\ (Distinct(refs) => Distinct(s))
        BY <2>2 DEF Right
      <3> HIDE DEF s, r, First
      <3> QED
        BY <2>3, <2>5, <2>7, <3>1, <3>2, <3>3, <3>4, <3>5 DEF Right
    <2> QED
      BY <2>6, <2>7
  <1>6. Len(refs) \in P
    <2> HIDE DEF P
    <2> QED
      BY <1>4, <1>5, Induction, LenProperties
  <1>7. First(Len(refs)) = Elements(refs)
    BY LenProperties DEF Elements
  <1> HIDE DEF First
  <1> QED
    BY <1>1, <1>6, <1>7, LenProperties

-----------------------------------------------------------------------------
(***************************************************************************)
(* The inductive invariant.  Ledger is about the map and the targets       *)
(* alone: the entries of the current context and the map are each other's  *)
(* inverse.                                                                *)
(***************************************************************************)
States == {"allocated", "written", "truncated", "free", "replacement"}

\* The states of a target that the cross-reference table has an entry for.
Results == States \ {"allocated"}

TargetType == [context : Nat, of : Objects \cup {0}, state : States, refs : Seq(Nat)]

IsCopy(t) == t.context = context /\ t.of # 0

Ledger(m, ts) ==
    /\ context \in Nat \ {0}
    /\ DOMAIN m \subseteq Objects /\ m \in [DOMAIN m -> 1 .. Len(ts)]
    /\ ts \in Seq(TargetType)
    /\ \A i \in 1 .. Len(ts) : ts[i].context \in 1 .. context
    /\ \A o \in DOMAIN m : ts[m[o]].context = context /\ ts[m[o]].of = o
    /\ \A i \in 1 .. Len(ts) :
        IsCopy(ts[i]) => ts[i].of \in DOMAIN m /\ m[ts[i].of] = i
    /\ \A i, j \in 1 .. Len(ts) :
        (ts[i].of # 0 /\ ts[i].of = ts[j].of /\ ts[i].context = ts[j].context) => i = j

\* The references of one target are references to targets, and those of a
\* complete copy lead where its original's lead.
RefsRightAt(ts, i) ==
    /\ ts[i].refs \in Seq(1 .. Len(ts))
    /\ IsCopy(ts[i]) /\ ts[i].state = "written" =>
        /\ Len(ts[i].refs) = Len(source.refs[ts[i].of])
        /\ \A j \in 1 .. Len(ts[i].refs) :
            /\ ts[ts[i].refs[j]].context = context
            /\ ts[ts[i].refs[j]].of = source.refs[ts[i].of][j]

RefsRight(ts) == \A i \in 1 .. Len(ts) : RefsRightAt(ts, i)

Types ==
    /\ source \in Sources
    /\ stack \in Seq(Seq(Objects)) /\ owed \in Seq(Seq(Objects))
    /\ copied \subseteq Objects /\ page \in References
    /\ ok \in BOOLEAN /\ hadFailure \in BOOLEAN
    /\ ended \in {"open", "finished", "failed"} /\ calls \in 0 .. MaxCalls
    /\ Running => ended = "open"
    /\ ~Running => copied = {}

Stacked == AllOf(stack)
Owing == AllOf(owed)

\* Objects by the state of their targets; the allotted ones have IDs, and no
\* objects in the target document.
InState(st) == {o \in DOMAIN map : targets[map[o]].state = st}
Allotted == InState("allocated")

\* An ID of an earlier context that nothing was written for.
Strays(ts) == \E i \in DOMAIN ts : ts[i].state = "allocated" /\ ~IsCopy(ts[i])

\* Lists that share nothing.
Apart(ss) ==
    \A i, j \in DOMAIN ss : i = j \/ Elements(ss[i]) \cap Elements(ss[j]) = {}

Lists ==
    /\ Owing \subseteq Allotted /\ Owing \cap Stacked = {}
    /\ Apart(owed)
    /\ Stacked \cap DOMAIN map \subseteq copied \cup Allotted
    /\ copied \subseteq Delivered
    /\ Elements(page) \subseteq DOMAIN map \cup Stacked

Outcome ==
    /\ \A o \in InState("free") : source.status[o] = "missing"
    /\ hadFailure \/ InState("truncated") = {}
    /\ hadFailure \/ Allotted \subseteq Stacked \cup Owing
    /\ hadFailure \/ ~Strays(targets)
    /\ ended = "finished" => \A i \in DOMAIN targets : ~ (targets[i].state = "allocated")

\* The least set with the wanted objects that leads only to itself and to
\* placed objects, in the terms of DeepCopy.
LeadsTo(o) == IF source.status[o] = "parsed" THEN Elements(source.refs[o]) ELSE {}

Closed(S, placed) == \A p \in S : LeadsTo(p) \subseteq S \cup placed

\* What the running call has done of what it was asked for.
Progress ==
    Running =>
        /\ before.placed \subseteq DOMAIN map
        /\ DOMAIN map \subseteq before.placed \cup copied \cup Stacked
        /\ before.delivered \subseteq before.placed
        /\ Delivered = before.delivered \cup copied
        /\ (copied \cup Stacked) \cap before.delivered = {}
        /\ before.asked \subseteq copied \cup Stacked
        /\ \A S \in SUBSET Objects :
            before.asked \subseteq S /\ Closed(S, before.placed) => copied \cup Stacked \subseteq S
        /\ \A p \in copied :
            /\ source.status[p] # "broken"
            /\ LeadsTo(p) \subseteq copied \cup Stacked \cup before.placed

IInv == Types /\ Ledger(map, targets) /\ RefsRight(targets) /\ Lists /\ Outcome /\ Progress

-----------------------------------------------------------------------------
(***************************************************************************)
(* Steps of the map and the targets.                                       *)
(***************************************************************************)

\* The objects of S that have no target get one each.
Grows(m, ts, m2, ts2, S) ==
    /\ DOMAIN m2 = DOMAIN m \cup S
    /\ \A o \in DOMAIN m : m2[o] = m[o]
    /\ Len(ts) <= Len(ts2)
    /\ \A i \in 1 .. Len(ts) : ts2[i] = ts[i]
    /\ \A i \in Len(ts) + 1 .. Len(ts2) :
        /\ ts2[i].context = context /\ ts2[i].of \in S \ DOMAIN m
        /\ ts2[i].state = "allocated" /\ ts2[i].refs = <<>>
    /\ \A o \in S \ DOMAIN m : m2[o] \in Len(ts) + 1 .. Len(ts2)

\* Targets get no other context and no other original.
Keeps(ts, ts2) ==
    /\ Len(ts) <= Len(ts2)
    /\ \A i \in 1 .. Len(ts) : ts2[i].context = ts[i].context /\ ts2[i].of = ts[i].of

\* Mapped objects other than x have targets in the states they were in.
SameStates(m, ts, m2, ts2, x) ==
    \A o \in DOMAIN m2 \ {x} :
        ts2[m2[o]].state = IF o \in DOMAIN m THEN ts[m[o]].state ELSE "allocated"

\* What an action makes of the states of the mapped objects: those of S are
\* mapped too, and all but x stay as they are.
Effect(m, ts, m2, ts2, S, x) ==
    /\ Ledger(m2, ts2) /\ RefsRight(ts2)
    /\ DOMAIN m2 = DOMAIN m \cup S
    /\ SameStates(m, ts, m2, ts2, x)
    /\ Strays(ts2) => Strays(ts)

\* Actions that write none of the copies.
NoOne == 0

\* New targets are one for each object without a target.
LEMMA Allocating ==
    ASSUME NEW m, NEW ts, NEW refs \in References, Ledger(m, ts)
    PROVE  /\ Ledger(Mapped(m, ts, refs), Allocated(m, ts, refs))
           /\ Grows(m, ts, Mapped(m, ts, refs), Allocated(m, ts, refs), Elements(refs))
  <1> DEFINE new == Unmapped(m, refs)
             m2 == Mapped(m, ts, refs)
             ts2 == Allocated(m, ts, refs)
             added == [i \in DOMAIN new |-> Target(new[i], "allocated", <<>>)]
             n == Len(ts)
  <1>1. /\ new \in Seq(Objects) /\ Elements(new) = Elements(refs) \ DOMAIN m
        /\ Distinct(new) /\ Elements(refs) \subseteq Objects
    <2>1. refs \in Seq(Objects) /\ Distinct(refs)
      BY DEF References, Distinct
    <2>2. /\ new \in Seq(Objects) /\ Elements(new) = Elements(refs) \ DOMAIN m
          /\ Distinct(refs) => Distinct(new)
      BY <2>1, UnmappedIsRight
    <2>3. Elements(refs) \subseteq Objects
      BY <2>1, LenProperties, ElementOfSeq DEF Elements
    <2> QED
      BY <2>1, <2>2, <2>3
  <1>2. /\ Len(new) \in Nat /\ DOMAIN new = 1 .. Len(new) /\ n \in Nat
        /\ \A i \in 1 .. Len(new) : new[i] \in Elements(new) /\ new[i] \in Objects
    BY <1>1, LenProperties DEF Ledger, Elements
  <1>3. /\ m2 = [o \in DOMAIN m \cup Elements(new) |->
                    IF o \in DOMAIN m THEN m[o] ELSE n + Position(new, o)]
        /\ ts2 = ts \o added
    BY DEF Mapped, Allocated
  <1>4. \A i \in 1 .. Len(new) :
            /\ added[i] = Target(new[i], "allocated", <<>>)
            /\ added[i] \in TargetType
            /\ added[i].context = context /\ added[i].of = new[i]
            /\ added[i].state = "allocated" /\ added[i].refs = <<>>
    <2> TAKE i \in 1 .. Len(new)
    <2>1. <<>> \in Seq(Nat) /\ context \in Nat
      BY EmptySeq DEF Ledger
    <2> QED
      BY <1>2, <2>1 DEF Target, TargetType, States
  <1>5. added \in Seq(TargetType) /\ Len(added) = Len(new)
    <2> HIDE DEF new
    <2>1. added = [i \in 1 .. Len(new) |-> Target(new[i], "allocated", <<>>)]
      BY <1>2
    <2>2. \A i \in 1 .. Len(new) : Target(new[i], "allocated", <<>>) \in TargetType
      BY <1>4
    <2>3. added \in [1 .. Len(new) -> TargetType]
      BY <2>1, <2>2
    <2> HIDE DEF added
    <2>4. added \in Seq(TargetType)
      BY <1>2, <2>3, SeqDef
    <2> QED
      BY <1>2, <2>3, <2>4, LenProperties
  <1> HIDE DEF new, added, m2, ts2
  <1>6. /\ ts2 \in Seq(TargetType) /\ Len(ts2) = n + Len(new)
        /\ \A i \in 1 .. n : ts2[i] = ts[i]
        /\ \A i \in n + 1 .. Len(ts2) : ts2[i] = added[i - n] /\ i - n \in 1 .. Len(new)
    <2>1. ts \in Seq(TargetType)
      BY DEF Ledger
    <2>2. /\ ts2 \in Seq(TargetType) /\ Len(ts2) = n + Len(new)
          /\ \A i \in 1 .. n + Len(new) : ts2[i] = IF i <= n THEN ts[i] ELSE added[i - n]
      <3>1. /\ ts \o added \in Seq(TargetType)
            /\ Len(ts \o added) = Len(ts) + Len(added)
            /\ \A i \in 1 .. Len(ts) + Len(added) :
                (ts \o added)[i] = IF i <= Len(ts) THEN ts[i] ELSE added[i - Len(ts)]
        BY <1>5, <2>1, ConcatProperties
      <3> QED
        BY <1>3, <1>5, <3>1
    <2> QED
      BY <1>2, <2>2
  <1>7. \A o \in Elements(new) : Position(new, o) \in 1 .. Len(new) /\ new[Position(new, o)] = o
    BY <1>2 DEF Elements, Position
  <1>8. \A i \in 1 .. Len(new) : Position(new, new[i]) = i
    BY <1>1, <1>2, <1>7 DEF Distinct
  <1>9. /\ DOMAIN m2 = DOMAIN m \cup Elements(new)
        /\ \A o \in DOMAIN m : m2[o] = m[o]
        /\ \A o \in Elements(new) : m2[o] = n + Position(new, o)
    BY <1>1, <1>3
  <1>10. \A i \in n + 1 .. Len(ts2) :
            /\ ts2[i].context = context /\ ts2[i].of = new[i - n] /\ ts2[i].of \in Elements(new)
            /\ ts2[i].state = "allocated" /\ ts2[i].refs = <<>>
    BY <1>2, <1>4, <1>6
  <1>11. \A o \in Elements(new) :
            /\ m2[o] \in n + 1 .. Len(ts2)
            /\ ts2[m2[o]].of = o /\ ts2[m2[o]].context = context
    <2> TAKE o \in Elements(new)
    <2>1. m2[o] = n + Position(new, o) /\ Position(new, o) \in 1 .. Len(new)
      BY <1>7, <1>9
    <2>2. m2[o] \in n + 1 .. Len(ts2) /\ m2[o] - n = Position(new, o)
      BY <1>2, <1>6, <2>1
    <2> QED
      BY <1>7, <1>10, <2>2
  <1>12. Grows(m, ts, m2, ts2, Elements(refs))
    BY <1>1, <1>2, <1>6, <1>9, <1>10, <1>11 DEF Grows
  <1>13. Ledger(m2, ts2)
    <2>1. DOMAIN m2 \subseteq Objects /\ m2 \in [DOMAIN m2 -> 1 .. Len(ts2)]
      <3>1. \A o \in DOMAIN m2 : m2[o] \in 1 .. Len(ts2)
        BY <1>2, <1>6, <1>9, <1>11 DEF Ledger
      <3>2. m2 = [o \in DOMAIN m2 |-> m2[o]]
        BY <1>3
      <3> QED
        BY <1>1, <1>9, <3>1, <3>2 DEF Ledger
    <2>2. \A i \in 1 .. Len(ts2) : ts2[i].context \in 1 .. context
      BY <1>2, <1>6, <1>10 DEF Ledger
    <2>3. \A o \in DOMAIN m2 : ts2[m2[o]].context = context /\ ts2[m2[o]].of = o
      BY <1>6, <1>9, <1>11 DEF Ledger
    <2>4. \A i \in n + 1 .. Len(ts2) : ts2[i].of \in DOMAIN m2 /\ m2[ts2[i].of] = i
      BY <1>2, <1>6, <1>8, <1>9, <1>10
    <2>5. \A i \in 1 .. Len(ts2) :
            IsCopy(ts2[i]) => ts2[i].of \in DOMAIN m2 /\ m2[ts2[i].of] = i
      BY <1>2, <1>6, <1>9, <2>4 DEF Ledger, IsCopy
    <2>6. ASSUME NEW i \in 1 .. Len(ts2), NEW j \in 1 .. Len(ts2),
                 ts2[i].of # 0, ts2[i].of = ts2[j].of, ts2[i].context = ts2[j].context
          PROVE  i = j
      <3>1. CASE ts2[i].context = context
        BY <2>5, <2>6, <3>1 DEF IsCopy
      <3>2. CASE ts2[i].context # context
        <4>1. i \in 1 .. n /\ j \in 1 .. n
          BY <1>2, <1>6, <1>10, <2>6, <3>2
        <4> QED
          BY <1>6, <2>6, <4>1 DEF Ledger
      <3> QED
        BY <3>1, <3>2
    <2> QED
      BY <1>6, <2>1, <2>2, <2>3, <2>5, <2>6 DEF Ledger
  <1> QED
    BY <1>12, <1>13 DEF m2, ts2

\* A ledger stays one when entries keep their contexts and originals.
LEMMA LedgerKept ==
    ASSUME NEW m, NEW ts, NEW ts2 \in Seq(TargetType), Ledger(m, ts),
           Len(ts2) = Len(ts), Keeps(ts, ts2)
    PROVE  Ledger(m, ts2)
  BY DEF Ledger, Keeps, IsCopy

\* References that are right stay so while targets keep what they are for.
LEMMA RefsKept ==
    ASSUME NEW ts, NEW ts2, NEW i \in 1 .. Len(ts), Len(ts) \in Nat, Len(ts2) \in Nat,
           Keeps(ts, ts2), RefsRightAt(ts, i), ts2[i].refs = ts[i].refs,
           ts2[i].state = "written" => ts[i].state = "written"
    PROVE  RefsRightAt(ts2, i)
  <1>1. 1 .. Len(ts) \subseteq 1 .. Len(ts2)
    BY DEF Keeps
  <1>2. /\ ts2[i].refs \in Seq(1 .. Len(ts2))
        /\ \A j \in 1 .. Len(ts[i].refs) : ts[i].refs[j] \in 1 .. Len(ts)
    BY <1>1, SeqMonotonic, ElementOfSeq DEF RefsRightAt
  <1>3. IsCopy(ts2[i]) /\ ts2[i].state = "written" => IsCopy(ts[i]) /\ ts[i].state = "written"
    BY DEF Keeps, IsCopy
  <1>4. ASSUME IsCopy(ts2[i]), ts2[i].state = "written"
        PROVE  /\ Len(ts2[i].refs) = Len(source.refs[ts2[i].of])
               /\ \A j \in 1 .. Len(ts2[i].refs) :
                    /\ ts2[ts2[i].refs[j]].context = context
                    /\ ts2[ts2[i].refs[j]].of = source.refs[ts2[i].of][j]
    <2>1. ts2[i].of = ts[i].of
      BY DEF Keeps
    <2>2. /\ Len(ts[i].refs) = Len(source.refs[ts[i].of])
          /\ \A j \in 1 .. Len(ts[i].refs) :
                /\ ts[ts[i].refs[j]].context = context
                /\ ts[ts[i].refs[j]].of = source.refs[ts[i].of][j]
      BY <1>3, <1>4 DEF RefsRightAt
    <2> DEFINE rs == ts[i].refs
               original == source.refs[ts[i].of]
    <2>3. /\ ts2[i].refs = rs /\ source.refs[ts2[i].of] = original
          /\ Len(rs) = Len(original)
          /\ \A j \in 1 .. Len(rs) :
                ts[rs[j]].context = context /\ ts[rs[j]].of = original[j]
      BY <2>1, <2>2
    <2>4. \A j \in 1 .. Len(rs) : rs[j] \in 1 .. Len(ts)
      BY <1>2
    <2> HIDE DEF rs, original
    <2>5. \A j \in 1 .. Len(rs) :
            ts2[rs[j]].context = context /\ ts2[rs[j]].of = original[j]
      BY <2>3, <2>4 DEF Keeps
    <2> QED
      BY <2>3, <2>5
  <1> QED
    BY <1>2, <1>4 DEF RefsRightAt

WrittenOver(ts, i, st, rs) == [ts EXCEPT ![i].state = st, ![i].refs = rs]

IsWrittenOver(ts2, ts, i, st, rs) ==
    /\ ts2 \in Seq(TargetType) /\ Len(ts2) = Len(ts)
    /\ \A j \in 1 .. Len(ts) : j = i \/ ts2[j] = ts[j]
    /\ ts2[i].context = ts[i].context /\ ts2[i].of = ts[i].of
    /\ ts2[i].state = st /\ ts2[i].refs = rs

\* An entry that is written over.
LEMMA Overwriting ==
    ASSUME NEW ts \in Seq(TargetType), NEW i \in 1 .. Len(ts), NEW st \in States, NEW rs \in Seq(Nat)
    PROVE  IsWrittenOver(WrittenOver(ts, i, st, rs), ts, i, st, rs)
  <1> DEFINE ts2 == WrittenOver(ts, i, st, rs)
             old == ts[i]
             e == [old EXCEPT !.state = st, !.refs = rs]
  <1>1. old \in TargetType
    BY ElementOfSeq
  <1>2. ts2 = [ts EXCEPT ![i] = e]
    BY LenProperties DEF WrittenOver
  <1> HIDE DEF old, ts2
  <1>3. /\ e \in TargetType /\ e.context = old.context /\ e.of = old.of
        /\ e.state = st /\ e.refs = rs
    BY <1>1 DEF TargetType
  <1> HIDE DEF e
  <1>4. /\ ts2 \in Seq(TargetType) /\ Len(ts2) = Len(ts)
        /\ \A j \in 1 .. Len(ts) : ts2[j] = IF j = i THEN e ELSE ts[j]
    <2>1. /\ [ts EXCEPT ![i] = e] \in Seq(TargetType)
          /\ Len([ts EXCEPT ![i] = e]) = Len(ts)
          /\ \A j \in 1 .. Len(ts) : [ts EXCEPT ![i] = e][j] = IF j = i THEN e ELSE ts[j]
      BY <1>3, ExceptSeq
    <2> QED
      BY <1>2, <2>1
  <1> QED
    BY <1>3, <1>4 DEF old, ts2, IsWrittenOver

\* New IDs have no effect on the states of the old ones.
LEMMA GrowingKeepsStates ==
    ASSUME NEW m, NEW ts, NEW m2, NEW ts2, NEW S, Ledger(m, ts), Ledger(m2, ts2),
           Grows(m, ts, m2, ts2, S)
    PROVE  /\ SameStates(m, ts, m2, ts2, NoOne)
           /\ Strays(ts2) => Strays(ts)
  <1>1. Ledger(m2, ts2) /\ Grows(m, ts, m2, ts2, S)
    OBVIOUS
  <1>2. /\ Len(ts) \in Nat /\ Len(ts2) \in Nat
        /\ DOMAIN ts = 1 .. Len(ts) /\ DOMAIN ts2 = 1 .. Len(ts2)
    BY <1>1, LenProperties DEF Ledger
  <1>3. SameStates(m, ts, m2, ts2, NoOne)
    <2> SUFFICES ASSUME NEW o \in DOMAIN m2
                 PROVE  /\ o \in DOMAIN m => ts2[m2[o]].state = ts[m[o]].state
                        /\ o \notin DOMAIN m => ts2[m2[o]].state = "allocated"
      BY DEF SameStates
    <2>2. ASSUME o \in DOMAIN m PROVE ts2[m2[o]] = ts[m[o]]
      <3>1. m[o] \in 1 .. Len(ts) /\ m2[o] = m[o]
        BY <1>1, <2>2 DEF Ledger, Grows
      <3> QED
        BY <1>1, <3>1 DEF Grows
    <2>3. ASSUME o \notin DOMAIN m PROVE ts2[m2[o]].state = "allocated"
      <3>1. m2[o] \in Len(ts) + 1 .. Len(ts2)
        BY <1>1, <2>3 DEF Grows
      <3> QED
        BY <1>1, <3>1 DEF Grows
    <2> QED
      BY <2>2, <2>3
  <1>4. Strays(ts2) => Strays(ts)
    <2> SUFFICES ASSUME NEW i \in DOMAIN ts2, ts2[i].state = "allocated", ~IsCopy(ts2[i])
                 PROVE  Strays(ts)
      BY DEF Strays
    <2>1. ~ (i \in Len(ts) + 1 .. Len(ts2))
      <3> SUFFICES ASSUME i \in Len(ts) + 1 .. Len(ts2) PROVE IsCopy(ts2[i])
        OBVIOUS
      <3>1. ts2[i].of \in DOMAIN m2 /\ ts2[i].context = context
        BY <1>1 DEF Grows
      <3> QED
        BY <1>1, <3>1, CopyingAssumption DEF Ledger, IsCopy
    <2>2. i \in 1 .. Len(ts)
      BY <1>2, <2>1
    <2> QED
      BY <1>1, <1>2, <2>2 DEF Grows, Strays
  <1> QED
    BY <1>3, <1>4

\* IDs that are given out to what a list refers to.
LEMMA AllocatingHasEffect ==
    ASSUME NEW m, NEW ts, NEW refs \in References, Ledger(m, ts),
           RefsRight(ts)
    PROVE  Effect(m, ts, Mapped(m, ts, refs), Allocated(m, ts, refs), Elements(refs), NoOne)
  <1> DEFINE m2 == Mapped(m, ts, refs)
             ts2 == Allocated(m, ts, refs)
  <1>1. Ledger(m2, ts2) /\ Grows(m, ts, m2, ts2, Elements(refs))
    BY Allocating
  <1> HIDE DEF m2, ts2
  <1>2. /\ Len(ts) \in Nat /\ Len(ts2) \in Nat
        /\ DOMAIN ts = 1 .. Len(ts) /\ DOMAIN ts2 = 1 .. Len(ts2)
    BY <1>1, LenProperties DEF Ledger
  <1>3. RefsRight(ts2)
    <2> SUFFICES ASSUME NEW i \in 1 .. Len(ts2) PROVE RefsRightAt(ts2, i)
      BY DEF RefsRight
    <2>1. CASE i \in 1 .. Len(ts)
      <3>1. ts2[i] = ts[i] /\ Keeps(ts, ts2) /\ RefsRightAt(ts, i)
        BY <1>1, <2>1 DEF Grows, Keeps, RefsRight
      <3> QED
        BY <1>2, <2>1, <3>1, RefsKept
    <2>2. CASE i \notin 1 .. Len(ts)
      <3>1. i \in Len(ts) + 1 .. Len(ts2)
        BY <1>2, <2>2
      <3>2. ts2[i].refs = <<>> /\ ts2[i].state = "allocated"
        BY <1>1, <3>1 DEF Grows
      <3> QED
        BY <3>2, EmptySeq DEF RefsRightAt
    <2> QED
      BY <2>1, <2>2
  <1>4. SameStates(m, ts, m2, ts2, NoOne) /\ (Strays(ts2) => Strays(ts))
    BY <1>1, GrowingKeepsStates
  <1>5. DOMAIN m2 = DOMAIN m \cup Elements(refs)
    BY <1>1 DEF Grows
  <1>6. Effect(m, ts, m2, ts2, Elements(refs), NoOne)
    BY <1>1, <1>3, <1>4, <1>5 DEF Effect
  <1> QED
    BY <1>6 DEF m2, ts2

\* An object of the user's leaves the ledger as it is.
LEMMA UserObjectsAreNotListed ==
    ASSUME NEW m, NEW ts, Ledger(m, ts), NEW own \in TargetType,
           own.of = 0, own.context = context
    PROVE  /\ Ledger(m, Append(ts, own))
           /\ Len(Append(ts, own)) = Len(ts) + 1 /\ Len(ts) \in Nat
           /\ \A i \in 1 .. Len(ts) : Append(ts, own)[i] = ts[i]
           /\ Append(ts, own)[Len(ts) + 1] = own
  <1> DEFINE ts2 == Append(ts, own)
  <1>1. /\ ts \in Seq(TargetType) /\ Len(ts) \in Nat
        /\ ts2 \in Seq(TargetType) /\ Len(ts2) = Len(ts) + 1
        /\ \A i \in 1 .. Len(ts) : ts2[i] = ts[i]
        /\ ts2[Len(ts) + 1] = own
    BY AppendProperties, LenProperties DEF Ledger
  <1> HIDE DEF ts2
  <1>2. \A o \in DOMAIN m : m[o] \in 1 .. Len(ts) /\ ts2[m[o]] = ts[m[o]]
    BY <1>1 DEF Ledger
  <1>3. DOMAIN m \subseteq Objects /\ m \in [DOMAIN m -> 1 .. Len(ts2)]
    BY <1>1 DEF Ledger
  <1>4. \A i \in 1 .. Len(ts2) : i \in 1 .. Len(ts) \/ ts2[i] = own
    BY <1>1
  <1>5. \A i \in 1 .. Len(ts2) : ts2[i].context \in 1 .. context
    BY <1>1, <1>4 DEF Ledger
  <1>6. \A i \in 1 .. Len(ts2) : ts2[i].of # 0 => i \in 1 .. Len(ts) /\ ts2[i] = ts[i]
    BY <1>1, <1>4
  <1>7. Ledger(m, ts2)
    <2>1. \A o \in DOMAIN m : ts2[m[o]].context = context /\ ts2[m[o]].of = o
      BY <1>2 DEF Ledger
    <2>2. \A i \in 1 .. Len(ts2) :
            IsCopy(ts2[i]) => ts2[i].of \in DOMAIN m /\ m[ts2[i].of] = i
      BY <1>6 DEF Ledger, IsCopy
    <2>3. \A i, j \in 1 .. Len(ts2) :
            (ts2[i].of # 0 /\ ts2[i].of = ts2[j].of /\ ts2[i].context = ts2[j].context)
                => i = j
      <3> SUFFICES ASSUME NEW i \in 1 .. Len(ts2), NEW j \in 1 .. Len(ts2), ts2[i].of # 0,
                          ts2[i].of = ts2[j].of, ts2[i].context = ts2[j].context
                   PROVE  i = j
        OBVIOUS
      <3>1. /\ i \in 1 .. Len(ts) /\ ts2[i] = ts[i]
            /\ j \in 1 .. Len(ts) /\ ts2[j] = ts[j]
        BY <1>6
      <3> QED
        BY <3>1 DEF Ledger
    <2> QED
      BY <1>1, <1>3, <1>5, <2>1, <2>2, <2>3 DEF Ledger
  <1> QED
    BY <1>1, <1>7 DEF ts2

\* An object of the user's gives IDs to what it refers to.
LEMMA UserObjectHasEffect ==
    ASSUME Ledger(map, targets), RefsRight(targets),
           NEW refs \in References, NEW state \in Results,
           WriteUserObject(refs, state)
    PROVE  Effect(map, targets, map', targets', Elements(refs), NoOne)
  <1> DEFINE n == Len(targets)
             draft == Target(0, state, <<>>)
             ids == Mapped(map, Append(targets, 0), refs)
             own == Target(0, state, [i \in DOMAIN refs |-> ids[refs[i]]])
             ts1 == Append(targets, own)
             ts2 == Allocated(map, ts1, refs)
  <1>0. context \in Nat
    BY DEF Ledger
  <1>1. map' = ids /\ targets' = ts2
    BY DEF WriteUserObject
  <1>2. \A t \in TargetType : Len(Append(targets, t)) = n + 1 /\ n \in Nat
    BY AppendProperties, LenProperties DEF Ledger
  <1>3. Len(Append(targets, 0)) = n + 1
    <2>1. targets \in Seq(TargetType \cup {0})
      BY SeqMonotonic DEF Ledger
    <2> QED
      BY <2>1, AppendProperties
  <1>4. \A t \in TargetType : ids = Mapped(map, Append(targets, t), refs)
    BY <1>2, <1>3 DEF Mapped
  <1> HIDE DEF ids
  <1>5. draft \in TargetType /\ draft.of = 0 /\ draft.context = context
    BY <1>0, EmptySeq DEF Target, TargetType, Results
  <1> HIDE DEF draft
  <1>6. Ledger(ids, Allocated(map, Append(targets, draft), refs))
    <2>1. Ledger(map, Append(targets, draft))
      BY <1>5, UserObjectsAreNotListed
    <2> QED
      BY <1>4, <1>5, <2>1, Allocating
  <1>7. /\ DOMAIN ids = DOMAIN map \cup Elements(refs)
        /\ refs \in Seq(Objects) /\ DOMAIN refs = 1 .. Len(refs) /\ Len(refs) \in Nat
    <2>1. Grows(map, Append(targets, draft), ids, Allocated(map, Append(targets, draft), refs),
                Elements(refs))
      <3>1. Ledger(map, Append(targets, draft))
        BY <1>5, UserObjectsAreNotListed
      <3> QED
        BY <1>4, <1>5, <3>1, Allocating
    <2> QED
      BY <2>1, LenProperties DEF Grows, References
  <1> DEFINE rs == [i \in DOMAIN refs |-> ids[refs[i]]]
  <1>8. ASSUME NEW T, ids \in [DOMAIN ids -> T]
        PROVE  rs \in Seq(T)
    <2>1. \A i \in 1 .. Len(refs) : ids[refs[i]] \in T
      BY <1>7, <1>8 DEF Elements
    <2>2. rs \in [1 .. Len(refs) -> T]
      BY <1>7, <2>1
    <2> HIDE DEF rs
    <2> QED
      BY <1>7, <2>2, SeqDef
  <1>9. rs \in Seq(Nat)
    <2>1. ids \in [DOMAIN ids -> Nat]
      BY <1>6 DEF Ledger
    <2> HIDE DEF rs
    <2> QED
      BY <1>8, <2>1
  <1>10. own = [context |-> context, of |-> 0, state |-> state, refs |-> rs]
    BY DEF Target
  <1> HIDE DEF rs, own
  <1>11. /\ own \in TargetType /\ own.of = 0 /\ own.context = context
         /\ own.state = state /\ own.refs = rs
    BY <1>0, <1>9, <1>10 DEF TargetType, Results
  <1>12. /\ Ledger(map, ts1) /\ Len(ts1) = n + 1 /\ n \in Nat
         /\ \A i \in 1 .. n : ts1[i] = targets[i]
         /\ ts1[n + 1] = own
    BY <1>11, UserObjectsAreNotListed
  <1>13. ids = Mapped(map, ts1, refs)
    BY <1>4, <1>11
  <1> HIDE DEF ts1
  <1>14. Ledger(ids, ts2) /\ Grows(map, ts1, ids, ts2, Elements(refs))
    BY <1>12, <1>13, Allocating
  <1> HIDE DEF ts2
  <1>15. /\ Len(ts2) \in Nat /\ n + 1 <= Len(ts2)
         /\ \A i \in 1 .. n : ts2[i] = targets[i]
         /\ ts2[n + 1] = own
         /\ \A i \in n + 2 .. Len(ts2) : ts2[i].refs = <<>> /\ ts2[i].state = "allocated"
    BY <1>12, <1>14, LenProperties DEF Grows, Ledger
  <1>16. RefsRight(ts2)
    <2> SUFFICES ASSUME NEW i \in 1 .. Len(ts2) PROVE RefsRightAt(ts2, i)
      BY DEF RefsRight
    <2>1. CASE i \in 1 .. n
      <3>1. Keeps(targets, ts2) /\ RefsRightAt(targets, i)
        BY <1>12, <1>15, <2>1 DEF Keeps, RefsRight
      <3> QED
        BY <1>12, <1>15, <2>1, <3>1, RefsKept
    <2>2. CASE i = n + 1
      <3>1. rs \in Seq(1 .. Len(ts2))
        BY <1>8, <1>14 DEF Ledger
      <3> QED
        BY <1>11, <1>15, <2>2, <3>1 DEF RefsRightAt, IsCopy
    <2>3. CASE i \in n + 2 .. Len(ts2)
      BY <1>15, <2>3, EmptySeq DEF RefsRightAt
    <2> QED
      BY <1>12, <1>15, <2>1, <2>2, <2>3
  <1>17. SameStates(map, ts1, ids, ts2, NoOne)
    BY <1>12, <1>14, GrowingKeepsStates
  <1>18. SameStates(map, targets, ids, ts2, NoOne)
    <2>1. \A o \in DOMAIN map : ts1[map[o]] = targets[map[o]]
      BY <1>12 DEF Ledger
    <2> QED
      BY <1>17, <2>1 DEF SameStates
  <1>19. Strays(ts2) => Strays(targets)
    <2>1. Strays(ts2) => Strays(ts1)
      BY <1>12, <1>14, GrowingKeepsStates
    <2>2. DOMAIN ts1 = 1 .. n + 1 /\ DOMAIN targets = 1 .. n
      BY <1>12, LenProperties DEF Ledger
    <2>3. Strays(ts1) => Strays(targets)
      BY <1>11, <1>12, <2>2 DEF Strays, Results
    <2> QED
      BY <2>1, <2>3
  <1> QED
    BY <1>1, <1>7, <1>14, <1>16, <1>18, <1>19 DEF Effect

\* An object of the user's takes the place of a copy.
LEMMA ReplacementHasEffect ==
    ASSUME Ledger(map, targets), RefsRight(targets),
           NEW o \in Objects \ DOMAIN map,
           NEW m2, m2 = [r \in DOMAIN map \cup {o} |-> IF r = o THEN Len(targets) + 1 ELSE map[r]],
           NEW ts2, ts2 = Append(targets, Target(o, "replacement", <<>>))
    PROVE  Effect(map, targets, m2, ts2, {o}, o) /\ ts2[m2[o]].state = "replacement"
  <1> DEFINE n == Len(targets)
             own == Target(o, "replacement", <<>>)
  <1>1. /\ own \in TargetType /\ own.of = o /\ own.context = context
        /\ own.state = "replacement" /\ own.refs = <<>>
    <2>1. context \in Nat
      BY DEF Ledger
    <2> QED
      BY <2>1, EmptySeq DEF Target, TargetType, States
  <1> HIDE DEF own
  <1>2. /\ targets \in Seq(TargetType) /\ n \in Nat /\ DOMAIN targets = 1 .. n
        /\ ts2 \in Seq(TargetType) /\ Len(ts2) = n + 1 /\ DOMAIN ts2 = 1 .. n + 1
        /\ \A i \in 1 .. n : ts2[i] = targets[i]
        /\ ts2[n + 1] = own
    <2>1. ts2 = Append(targets, own) /\ targets \in Seq(TargetType)
      BY DEF own, Ledger
    <2> QED
      BY <1>1, <2>1, AppendProperties, LenProperties
  <1>3. /\ DOMAIN m2 = DOMAIN map \cup {o} /\ m2[o] = n + 1
        /\ \A r \in DOMAIN map : m2[r] = map[r] /\ map[r] \in 1 .. n
        /\ o # 0
    BY CopyingAssumption DEF Ledger
  <1>4. m2 \in [DOMAIN m2 -> 1 .. Len(ts2)] /\ DOMAIN m2 \subseteq Objects
    <2>1. \A r \in DOMAIN m2 : m2[r] \in 1 .. Len(ts2)
      BY <1>2, <1>3
    <2>2. m2 = [r \in DOMAIN m2 |-> m2[r]]
      OBVIOUS
    <2> QED
      BY <1>3, <2>1, <2>2 DEF Ledger
  <1>5. \A i \in 1 .. Len(ts2) : (i \in 1 .. n /\ ts2[i] = targets[i]) \/ (i = n + 1 /\ ts2[i] = own)
    <2> SUFFICES ASSUME NEW i \in 1 .. n + 1
                 PROVE  (i \in 1 .. n /\ ts2[i] = targets[i]) \/ (i = n + 1 /\ ts2[i] = own)
      BY <1>2
    <2>1. i \in 1 .. n \/ i = n + 1
      BY <1>2
    <2>2. ASSUME i = n + 1 PROVE ts2[i] = own
      BY <1>2, <2>2, Zenon
    <2>3. ASSUME i \in 1 .. n PROVE ts2[i] = targets[i]
      BY <1>2, <2>3, Zenon
    <2> QED
      BY <2>1, <2>2, <2>3, Zenon
  <1>6. Ledger(m2, ts2)
    <2>1. \A i \in 1 .. Len(ts2) : ts2[i].context \in 1 .. context
      BY <1>1, <1>5 DEF Ledger
    <2>2. \A r \in DOMAIN m2 : ts2[m2[r]].context = context /\ ts2[m2[r]].of = r
      BY <1>1, <1>2, <1>3 DEF Ledger
    <2>3. \A i \in 1 .. n :
            IsCopy(ts2[i]) => ts2[i].of \in DOMAIN m2 /\ m2[ts2[i].of] = i
      BY <1>2, <1>3 DEF Ledger, IsCopy
    <2>4. \A i \in 1 .. Len(ts2) :
            IsCopy(ts2[i]) => ts2[i].of \in DOMAIN m2 /\ m2[ts2[i].of] = i
      <3> TAKE i \in 1 .. Len(ts2)
      <3>1. CASE i \in 1 .. n
        BY <2>3, <3>1
      <3>2. CASE i = n + 1
        BY <1>1, <1>2, <1>3, <3>2
      <3> QED
        BY <1>5, <3>1, <3>2
    <2>5. ASSUME NEW i \in 1 .. Len(ts2), NEW j \in 1 .. Len(ts2), ts2[i].of # 0,
                 ts2[i].of = ts2[j].of, ts2[i].context = ts2[j].context
          PROVE  i = j
      <3>1. CASE ts2[i].context = context
        <4>1. IsCopy(ts2[i]) /\ IsCopy(ts2[j])
          BY <2>5, <3>1 DEF IsCopy
        <4>2. m2[ts2[i].of] = i /\ m2[ts2[j].of] = j
          BY <2>4, <4>1
        <4> QED
          BY <2>5, <4>2, Zenon
      <3>2. CASE ts2[i].context # context
        <4>1. /\ i \in 1 .. n /\ j \in 1 .. n
              /\ ts2[i] = targets[i] /\ ts2[j] = targets[j]
          <5>1. ts2[i] # own /\ ts2[j] # own
            BY <1>1, <2>5, <3>2
          <5> QED
            BY <1>5, <5>1
        <4>2. targets[i].of # 0 /\ targets[i].of = targets[j].of
              /\ targets[i].context = targets[j].context
          BY <2>5, <4>1
        <4> QED
          BY <4>1, <4>2 DEF Ledger
      <3> QED
        BY <3>1, <3>2
    <2> QED
      BY <1>2, <1>4, <2>1, <2>2, <2>4, <2>5 DEF Ledger
  <1>7. RefsRight(ts2)
    <2> SUFFICES ASSUME NEW i \in 1 .. Len(ts2) PROVE RefsRightAt(ts2, i)
      BY DEF RefsRight
    <2>1. CASE i \in 1 .. n
      <3>1. /\ Keeps(targets, ts2) /\ RefsRightAt(targets, i) /\ ts2[i] = targets[i]
            /\ Len(targets) \in Nat /\ Len(ts2) \in Nat /\ i \in 1 .. Len(targets)
        BY <1>2, <2>1 DEF Keeps, RefsRight
      <3> HIDE DEF n
      <3> QED
        BY <3>1, RefsKept
    <2>2. CASE i = n + 1
      <3>1. ts2[i].refs = <<>> /\ ts2[i].state # "written"
        BY <1>1, <1>2, <2>2
      <3> QED
        BY <3>1, EmptySeq DEF RefsRightAt
    <2> QED
      BY <1>5, <2>1, <2>2
  <1>8. SameStates(map, targets, m2, ts2, o) /\ ts2[m2[o]].state = "replacement"
    BY <1>1, <1>2, <1>3 DEF SameStates
  <1>9. Strays(ts2) => Strays(targets)
    BY <1>1, <1>2 DEF Strays
  <1> QED
    BY <1>3, <1>6, <1>7, <1>8, <1>9 DEF Effect

\* An entry that is written over has the effect of its new state: o is the
\* original of the entry.
LEMMA OverwritingHasEffect ==
    ASSUME NEW m, NEW ts, NEW S, Effect(map, targets, m, ts, S, NoOne),
           NEW o \in S, NEW st \in Results, NEW ts2 \in Seq(TargetType),
           Len(ts2) = Len(ts),
           \A i \in 1 .. Len(ts) : i = m[o] \/ ts2[i] = ts[i],
           ts2[m[o]].context = ts[m[o]].context, ts2[m[o]].of = ts[m[o]].of,
           ts2[m[o]].state = st, RefsRightAt(ts2, m[o])
    PROVE  Effect(map, targets, m, ts2, S, o)
  <1>1. /\ Ledger(m, ts) /\ RefsRight(ts) /\ DOMAIN m = DOMAIN map \cup S
        /\ SameStates(map, targets, m, ts, NoOne) /\ (Strays(ts) => Strays(targets))
    BY DEF Effect
  <1>2. /\ o \in Objects /\ m[o] \in 1 .. Len(ts) /\ ts[m[o]].of = o /\ o # 0
        /\ Len(ts) \in Nat /\ DOMAIN ts = 1 .. Len(ts) /\ DOMAIN ts2 = 1 .. Len(ts)
        /\ \A r \in DOMAIN m : ts[m[r]].of = r /\ m[r] \in 1 .. Len(ts)
    <2>1. /\ DOMAIN m \subseteq Objects /\ ts \in Seq(TargetType)
          /\ \A r \in DOMAIN m : ts[m[r]].of = r /\ m[r] \in 1 .. Len(ts)
      BY <1>1 DEF Ledger
    <2>2. o \in DOMAIN m
      BY <1>1
    <2>3. /\ Len(ts) \in Nat /\ DOMAIN ts = 1 .. Len(ts) /\ DOMAIN ts2 = 1 .. Len(ts)
      BY <2>1, LenProperties
    <2> QED
      BY <2>1, <2>2, <2>3, CopyingAssumption
  <1>3. Keeps(ts, ts2)
    <2>1. \A i \in 1 .. Len(ts) : ts2[i].context = ts[i].context /\ ts2[i].of = ts[i].of
      <3> TAKE i \in 1 .. Len(ts)
      <3>1. CASE i = m[o]
        BY <3>1
      <3>2. CASE i # m[o]
        BY <3>2
      <3> QED
        BY <3>1, <3>2
    <2>2. Len(ts) <= Len(ts2)
      BY <1>2
    <2> QED
      BY <2>1, <2>2 DEF Keeps
  <1>4. Ledger(m, ts2)
    BY <1>1, <1>3, LedgerKept
  <1>5. RefsRight(ts2)
    <2> SUFFICES ASSUME NEW i \in 1 .. Len(ts2) PROVE RefsRightAt(ts2, i)
      BY DEF RefsRight
    <2>1. CASE i = m[o]
      BY <2>1
    <2>2. CASE i # m[o]
      <3>1. RefsRightAt(ts, i) /\ ts2[i] = ts[i]
        BY <1>1, <2>2 DEF RefsRight
      <3> QED
        BY <1>2, <1>3, <3>1, RefsKept
    <2> QED
      BY <2>1, <2>2
  <1>6. SameStates(map, targets, m, ts2, o)
    <2>0. \A r \in DOMAIN m : r # NoOne
      BY <1>1, CopyingAssumption DEF Ledger, NoOne
    <2> SUFFICES ASSUME NEW r \in DOMAIN m \ {o}
                 PROVE  ts2[m[r]].state = ts[m[r]].state
      BY <1>1, <2>0 DEF SameStates
    <2>1. m[r] # m[o]
      BY <1>2
    <2> QED
      BY <1>2, <2>1
  <1>7. Strays(ts2) => Strays(ts)
    BY <1>2 DEF Strays, Results
  <1> QED
    BY <1>1, <1>4, <1>5, <1>6, <1>7 DEF Effect

\* A list with one object in it.
LEMMA OneReference ==
    ASSUME NEW o \in Objects
    PROVE  <<o>> \in References /\ Elements(<<o>>) = {o}
  BY DEF References, Elements

\* The object that is next gets a target, if it has none.
LEMMA NextHasTarget ==
    ASSUME Ledger(map, targets), RefsRight(targets), next \in Objects
    PROVE  /\ Effect(map, targets, nextMap, nextTargets, {next}, NoOne)
           /\ next \in DOMAIN nextMap /\ nextMap[next] \in 1 .. Len(nextTargets)
           /\ nextTargets \in Seq(TargetType) /\ nextTargets[nextMap[next]].of = next
           /\ nextTargets[nextMap[next]].refs \in Seq(1 .. Len(nextTargets))
  <1> DEFINE m == nextMap
             ts == nextTargets
  <1>1. Effect(map, targets, m, ts, {next}, NoOne)
    BY OneReference, AllocatingHasEffect DEF nextMap, nextTargets
  <1>2. Ledger(m, ts) /\ RefsRight(ts) /\ next \in DOMAIN m
    BY <1>1 DEF Effect
  <1> HIDE DEF m, ts
  <1>3. m[next] \in 1 .. Len(ts) /\ ts \in Seq(TargetType) /\ ts[m[next]].of = next
    BY <1>2 DEF Ledger
  <1>4. ts[m[next]].refs \in Seq(1 .. Len(ts))
    BY <1>2, <1>3 DEF RefsRight, RefsRightAt
  <1> QED
    BY <1>1, <1>2, <1>3, <1>4 DEF m, ts

\* A missing object's target is deleted.
LEMMA MissingHasEffect ==
    ASSUME Ledger(map, targets), RefsRight(targets), next \in Objects,
           NEW ts2, ts2 = [nextTargets EXCEPT ![nextMap[next]].state = "free"]
    PROVE  /\ Effect(map, targets, nextMap, ts2, {next}, next)
           /\ ts2[nextMap[next]].state = "free"
  <1> DEFINE i == nextMap[next]
             t == nextTargets[i]
             n == Len(nextTargets)
  <1>1. /\ Effect(map, targets, nextMap, nextTargets, {next}, NoOne)
        /\ i \in 1 .. n /\ nextTargets \in Seq(TargetType)
        /\ t.refs \in Seq(1 .. n) /\ DOMAIN nextTargets = 1 .. n /\ n \in Nat
    BY NextHasTarget, LenProperties
  <1> HIDE DEF i
  <1>2. t \in TargetType /\ "free" \in Results
    BY <1>1, ElementOfSeq DEF Results, States
  <1>3. /\ [t EXCEPT !.state = "free"] \in TargetType
        /\ [t EXCEPT !.state = "free"].context = t.context
        /\ [t EXCEPT !.state = "free"].of = t.of
        /\ [t EXCEPT !.state = "free"].refs = t.refs
        /\ [t EXCEPT !.state = "free"].state = "free"
    <2> HIDE DEF t
    <2> QED
      BY <1>2 DEF TargetType, States
  <1>4. ts2 = [nextTargets EXCEPT ![i] = [t EXCEPT !.state = "free"]]
    BY DEF i
  <1> DEFINE e == [t EXCEPT !.state = "free"]
  <1> HIDE DEF e
  <1>5. /\ ts2 \in Seq(TargetType) /\ Len(ts2) = n
        /\ \A j \in 1 .. n : ts2[j] = IF j = i THEN e ELSE nextTargets[j]
    <2>1. ts2 = [nextTargets EXCEPT ![i] = e] /\ e \in TargetType
      BY <1>3, <1>4 DEF e
    <2>2. /\ [nextTargets EXCEPT ![i] = e] \in Seq(TargetType)
          /\ Len([nextTargets EXCEPT ![i] = e]) = n
          /\ \A j \in 1 .. n :
                [nextTargets EXCEPT ![i] = e][j] = IF j = i THEN e ELSE nextTargets[j]
      BY <1>1, <2>1, ExceptSeq
    <2> QED
      BY <2>1, <2>2
  <1>6. /\ ts2[i].context = t.context /\ ts2[i].of = t.of /\ ts2[i].refs = t.refs
        /\ ts2[i].state = "free"
    BY <1>1, <1>3, <1>5 DEF e
  <1>7. RefsRightAt(ts2, i)
    BY <1>1, <1>5, <1>6 DEF RefsRightAt
  <1> QED
    BY <1>1, <1>2, <1>5, <1>6, <1>7, OverwritingHasEffect DEF i

\* The first references of a list.
LEMMA FirstReferences ==
    ASSUME NEW refs \in References, NEW k \in 0 .. Len(refs)
    PROVE  SubSeq(refs, 1, k) \in References /\ Len(SubSeq(refs, 1, k)) = k
  <1>1. /\ refs \in Seq(Objects) /\ DOMAIN refs = 1 .. Len(refs) /\ Len(refs) \in Nat
        /\ \A i, j \in DOMAIN refs : refs[i] = refs[j] => i = j
    BY LenProperties DEF References
  <1>2. \A i \in 1 .. k : refs[i] \in Objects
    BY <1>1, ElementOfSeq
  <1> DEFINE s == SubSeq(refs, 1, k)
  <1>3. s \in Seq(Objects) /\ Len(s) = k /\ \A i \in 1 .. k : s[i] = refs[i]
    BY <1>1, <1>2, SubSeqProperties
  <1>4. DOMAIN s = 1 .. k
    BY <1>3, LenProperties
  <1> HIDE DEF s
  <1>5. \A i, j \in DOMAIN s : s[i] = s[j] => i = j
    BY <1>1, <1>3, <1>4
  <1> QED
    BY <1>3, <1>5 DEF References, s

\* A copy is written with its first k references.
LEMMA WritingHasEffect ==
    ASSUME Ledger(map, targets), RefsRight(targets), source \in Sources, next \in Objects,
           NEW k \in 0 .. Len(source.refs[next]), NEW state \in Results, WriteObject(k, state),
           state = "written" => k = Len(source.refs[next])
    PROVE  /\ Effect(map, targets, map', targets',
                     {next} \cup Elements(SubSeq(source.refs[next], 1, k)), next)
           /\ targets'[map'[next]].state = state
  <1> DEFINE original == source.refs[next]
             refs == SubSeq(original, 1, k)
             ids == Mapped(nextMap, nextTargets, refs)
             ts == Allocated(nextMap, nextTargets, refs)
             i == nextMap[next]
             rs == [j \in DOMAIN refs |-> ids[refs[j]]]
             S == {next} \cup Elements(refs)
  <1>1. /\ Effect(map, targets, nextMap, nextTargets, {next}, NoOne)
        /\ next \in DOMAIN nextMap
    BY NextHasTarget
  <1>2. original \in References /\ refs \in References /\ Len(refs) = k
    BY CopyingAssumption, FirstReferences
  <1>3. Effect(nextMap, nextTargets, ids, ts, Elements(refs), NoOne)
    BY <1>1, <1>2, AllocatingHasEffect DEF Effect
  <1>4. map' = ids /\ targets' = [ts EXCEPT ![i].state = state, ![i].refs = rs]
    BY DEF WriteObject
  <1>5. /\ refs \in Seq(Objects) /\ DOMAIN refs = 1 .. k /\ k \in Nat
        /\ \A j \in 1 .. k : refs[j] \in Elements(refs)
    BY <1>2, LenProperties DEF References, Elements
  <1>6. Grows(nextMap, nextTargets, ids, ts, Elements(refs))
    BY <1>1, <1>2, Allocating DEF Effect
  <1> HIDE DEF ids, ts
  <1>7. ids[next] = i
    BY <1>1, <1>6 DEF Grows
  <1> HIDE DEF i
  <1>8. /\ Ledger(ids, ts) /\ RefsRight(ts) /\ DOMAIN ids = DOMAIN map \cup S
        /\ ts \in Seq(TargetType) /\ Len(ts) \in Nat
        /\ i \in 1 .. Len(ts)
    <2>1. Ledger(ids, ts) /\ RefsRight(ts) /\ DOMAIN ids = DOMAIN map \cup S
      <3> HIDE DEF refs
      <3> QED
        BY <1>1, <1>3 DEF Effect
    <2> QED
      BY <1>7, <2>1, LenProperties DEF Ledger
  <1> HIDE DEF S, refs
  <1>9. Effect(map, targets, ids, ts, S, NoOne)
    <2>1. SameStates(map, targets, ids, ts, NoOne)
      <3> SUFFICES ASSUME NEW o \in DOMAIN ids \ {NoOne}
                   PROVE  ts[ids[o]].state =
                            IF o \in DOMAIN map THEN targets[map[o]].state ELSE "allocated"
        BY DEF SameStates
      <3>1. DOMAIN nextMap = DOMAIN map \cup {next}
        BY <1>1 DEF Effect
      <3>2. ts[ids[o]].state =
                IF o \in DOMAIN nextMap THEN nextTargets[nextMap[o]].state ELSE "allocated"
        BY <1>3 DEF Effect, SameStates
      <3>3. o \in DOMAIN nextMap => nextTargets[nextMap[o]].state =
                IF o \in DOMAIN map THEN targets[map[o]].state ELSE "allocated"
        BY <1>1 DEF Effect, SameStates
      <3> QED
        BY <3>1, <3>2, <3>3
    <2> QED
      BY <1>1, <1>3, <1>8, <2>1 DEF Effect
  <1>10. /\ rs \in Seq(1 .. Len(ts)) /\ Len(rs) = k
         /\ \A j \in 1 .. k : rs[j] = ids[refs[j]] /\ refs[j] \in DOMAIN ids
    <2>1. \A j \in 1 .. k : refs[j] \in DOMAIN ids /\ ids[refs[j]] \in 1 .. Len(ts)
      BY <1>5, <1>8 DEF Ledger, S
    <2>2. rs \in [1 .. k -> 1 .. Len(ts)] /\ \A j \in 1 .. k : rs[j] = ids[refs[j]]
      BY <1>5, <2>1
    <2> HIDE DEF rs
    <2>3. rs \in Seq(1 .. Len(ts))
      BY <1>5, <2>2, SeqDef
    <2> QED
      BY <1>5, <2>1, <2>2, <2>3, LenProperties
  <1>11. rs \in Seq(Nat)
    <2>1. 1 .. Len(ts) \subseteq Nat
      BY <1>8
    <2> HIDE DEF rs
    <2> QED
      BY <1>10, <2>1, SeqMonotonic
  <1> HIDE DEF rs
  <1> DEFINE ts2 == [ts EXCEPT ![i].state = state, ![i].refs = rs]
  <1>15. ts2 = WrittenOver(ts, i, state, rs)
    BY DEF WrittenOver
  <1> HIDE DEF ts2
  <1>12. /\ ts2 \in Seq(TargetType) /\ Len(ts2) = Len(ts)
         /\ \A j \in 1 .. Len(ts) : j = i \/ ts2[j] = ts[j]
         /\ ts2[i].context = ts[i].context /\ ts2[i].of = ts[i].of
         /\ ts2[i].state = state /\ ts2[i].refs = rs
    <2>1. state \in States
      BY DEF Results
    <2>2. ts \in Seq(TargetType) /\ i \in 1 .. Len(ts)
      BY <1>8
    <2> QED
      <3>1. IsWrittenOver(WrittenOver(ts, i, state, rs), ts, i, state, rs)
        BY <1>11, <2>1, <2>2, Overwriting
      <3> QED
        BY <1>15, <3>1 DEF IsWrittenOver
  <1>13. RefsRightAt(ts2, i)
    <2>1. ts2[i].of = next
      BY <1>7, <1>8, <1>12 DEF Ledger, S
    <2>2. \A j \in 1 .. k :
            ts2[rs[j]].context = context /\ ts2[rs[j]].of = refs[j]
      <3> TAKE j \in 1 .. k
      <3>1. /\ rs[j] \in 1 .. Len(ts)
            /\ ts[rs[j]].context = context /\ ts[rs[j]].of = refs[j]
        BY <1>8, <1>10 DEF Ledger
      <3> QED
        BY <1>12, <3>1
    <2>3. k = Len(original) => refs = original
      BY <1>2, SubSeqFull DEF References, refs
    <2>4. source.refs[ts2[i].of] = original /\ (state = "written" => k = Len(original))
      BY <2>1
    <2> HIDE DEF original
    <2> QED
      BY <1>10, <1>12, <2>2, <2>3, <2>4 DEF RefsRightAt
  <1>14. Effect(map, targets, ids, ts2, S, next) /\ ts2[ids[next]].state = state
    <2>1. \A j \in 1 .. Len(ts) : j = ids[next] \/ ts2[j] = ts[j]
      BY <1>7, <1>12
    <2>2. next \in S
      BY DEF S
    <2> QED
      BY <1>7, <1>9, <1>12, <1>13, <2>1, <2>2, OverwritingHasEffect
  <1> QED
    BY <1>4, <1>14 DEF S, ts2, refs, rs

-----------------------------------------------------------------------------
(***************************************************************************)
(* What the lists of lists hold.                                           *)
(***************************************************************************)

\* A list is its first element and the rest.
LEMMA ElementsOfList ==
    ASSUME NEW S, NEW s \in Seq(S), s # <<>>
    PROVE  /\ Head(s) \in S /\ Tail(s) \in Seq(S)
           /\ Elements(s) = {Head(s)} \cup Elements(Tail(s))
  <1>1. /\ Len(s) \in Nat /\ Len(s) >= 1 /\ DOMAIN s = 1 .. Len(s)
        /\ Head(s) = s[1] /\ Tail(s) \in Seq(S) /\ Len(Tail(s)) = Len(s) - 1
        /\ \A i \in 1 .. Len(Tail(s)) : Tail(s)[i] = s[i + 1]
    BY HeadTailProperties, LenProperties, EmptySeq
  <1>2. DOMAIN Tail(s) = 1 .. Len(s) - 1
    BY <1>1, LenProperties
  <1>3. \A i \in 1 .. Len(s) : i = 1 \/ (i - 1 \in 1 .. Len(s) - 1 /\ s[i] = Tail(s)[i - 1])
    BY <1>1
  <1>4. \A i \in 1 .. Len(s) - 1 : i + 1 \in 1 .. Len(s)
    BY <1>1
  <1>5. Elements(s) \subseteq {Head(s)} \cup Elements(Tail(s))
    <2> SUFFICES ASSUME NEW i \in 1 .. Len(s) PROVE s[i] \in {Head(s)} \cup Elements(Tail(s))
      BY <1>1 DEF Elements
    <2>1. CASE i = 1
      BY <1>1, <2>1
    <2>2. CASE i - 1 \in 1 .. Len(s) - 1 /\ s[i] = Tail(s)[i - 1]
      BY <1>2, <2>2 DEF Elements
    <2> QED
      BY <1>3, <2>1, <2>2
  <1>6. {Head(s)} \cup Elements(Tail(s)) \subseteq Elements(s)
    BY <1>1, <1>2, <1>4 DEF Elements
  <1> QED
    BY <1>1, <1>5, <1>6, HeadTailProperties

\* The elements of two lists, one after the other.
LEMMA ElementsOfBoth ==
    ASSUME NEW S, NEW s \in Seq(S), NEW t \in Seq(S)
    PROVE  s \o t \in Seq(S) /\ Elements(s \o t) = Elements(s) \cup Elements(t)
  <1> DEFINE u == s \o t
  <1>1. /\ u \in Seq(S) /\ Len(u) = Len(s) + Len(t)
        /\ \A i \in 1 .. Len(s) + Len(t) : u[i] = IF i <= Len(s) THEN s[i] ELSE t[i - Len(s)]
    BY ConcatProperties
  <1> HIDE DEF u
  <1>2. /\ DOMAIN u = 1 .. Len(s) + Len(t) /\ DOMAIN s = 1 .. Len(s) /\ DOMAIN t = 1 .. Len(t)
        /\ Len(s) \in Nat /\ Len(t) \in Nat
    BY <1>1, LenProperties
  <1>3. \A i \in 1 .. Len(s) : i \in DOMAIN u /\ u[i] = s[i]
    BY <1>1, <1>2
  <1>4. \A i \in 1 .. Len(t) : i + Len(s) \in DOMAIN u /\ u[i + Len(s)] = t[i]
    <2> TAKE i \in 1 .. Len(t)
    <2>1. i + Len(s) \in 1 .. Len(s) + Len(t) /\ ~ (i + Len(s) <= Len(s)) /\ i + Len(s) - Len(s) = i
      BY <1>2
    <2> QED
      BY <1>1, <1>2, <2>1
  <1>5. \A i \in DOMAIN u : i \in 1 .. Len(s) \/ i - Len(s) \in 1 .. Len(t)
    BY <1>2
  <1>6. \A i \in DOMAIN u : u[i] \in Elements(s) \/ u[i] \in Elements(t)
    <2> TAKE i \in DOMAIN u
    <2>1. CASE i \in 1 .. Len(s)
      BY <1>2, <1>3, <2>1 DEF Elements
    <2>2. CASE i - Len(s) \in 1 .. Len(t)
      <3>1. u[i] = t[i - Len(s)]
        BY <1>1, <1>2, <2>2
      <3> QED
        BY <1>2, <2>2, <3>1 DEF Elements
    <2> QED
      BY <1>5, <2>1, <2>2
  <1>7. Elements(u) \subseteq Elements(s) \cup Elements(t)
    BY <1>6 DEF Elements
  <1>8. Elements(s) \subseteq Elements(u)
    BY <1>2, <1>3 DEF Elements
  <1>9. Elements(t) \subseteq Elements(u)
    BY <1>2, <1>4 DEF Elements
  <1>10. Elements(u) = Elements(s) \cup Elements(t)
    BY <1>7, <1>8, <1>9
  <1> QED
    BY <1>1, <1>10 DEF u

LEMMA EmptyLists == Elements(<<>>) = {} /\ AllOf(<<>>) = {}
  BY DEF Elements, AllOf

\* AllOf of lists that are put together.
LEMMA AllOfBoth ==
    ASSUME NEW S, NEW a \in Seq(Seq(S)), NEW b \in Seq(Seq(S))
    PROVE  a \o b \in Seq(Seq(S)) /\ AllOf(a \o b) = AllOf(a) \cup AllOf(b)
  <1>1. a \o b \in Seq(Seq(S)) /\ Elements(a \o b) = Elements(a) \cup Elements(b)
    BY ElementsOfBoth
  <1> QED
    BY <1>1 DEF AllOf

LEMMA AllOfOne ==
    ASSUME NEW S, NEW l \in Seq(S)
    PROVE  <<l>> \in Seq(Seq(S)) /\ AllOf(<<l>>) = Elements(l)
  BY DEF AllOf, Elements

\* The lists of a stack are its first list and the others.
LEMMA AllOfStack ==
    ASSUME NEW S, NEW ss \in Seq(Seq(S)), ss # <<>>
    PROVE  /\ Head(ss) \in Seq(S) /\ Tail(ss) \in Seq(Seq(S))
           /\ AllOf(ss) = Elements(Head(ss)) \cup AllOf(Tail(ss))
  <1>1. /\ Head(ss) \in Seq(S) /\ Tail(ss) \in Seq(Seq(S))
        /\ Elements(ss) = {Head(ss)} \cup Elements(Tail(ss))
    BY ElementsOfList
  <1> QED
    BY <1>1 DEF AllOf

\* A stack with other lists at its top.
LEMMA AllOfPushed ==
    ASSUME NEW S, NEW a \in Seq(Seq(S)), a # <<>>, NEW ss \in Seq(Seq(S))
    PROVE  /\ a \o ss \in Seq(Seq(S)) /\ a \o ss # <<>>
           /\ AllOf(a \o ss) = AllOf(a) \cup AllOf(ss)
  <1>1. a \o ss \in Seq(Seq(S)) /\ AllOf(a \o ss) = AllOf(a) \cup AllOf(ss)
    BY AllOfBoth
  <1>2. a \o ss # <<>>
    BY ConcatSimplifications
  <1> QED
    BY <1>1, <1>2

LEMMA AllOfTwo ==
    ASSUME NEW S, NEW l \in Seq(S), NEW k \in Seq(S)
    PROVE  <<l, k>> \in Seq(Seq(S)) /\ AllOf(<<l, k>>) = Elements(l) \cup Elements(k)
  <1>1. <<l, k>> \in Seq(Seq(S)) /\ Elements(<<l, k>>) = {l, k}
    BY DEF Elements
  <1> QED
    BY <1>1 DEF AllOf

-----------------------------------------------------------------------------
(***************************************************************************)
(* What effects on the map and the targets make of the states of objects.  *)
(***************************************************************************)

\* The facts of a step that the lists and the progress of a call depend on:
\* N are the objects that got targets.
LEMMA EffectOnStates ==
    ASSUME Ledger(map, targets), context' = context, NEW S, NEW x,
           Effect(map, targets, map', targets', S, x)
    PROVE  /\ Ledger(map, targets)'
           /\ DOMAIN map' = DOMAIN map \cup S /\ DOMAIN map' \subseteq Objects
           /\ Allotted' \ {x} = (Allotted \cup (S \ DOMAIN map)) \ {x}
           /\ Delivered' \ {x} = Delivered \ {x}
           /\ InState("free")' \ {x} = InState("free") \ {x}
           /\ InState("truncated")' \ {x} = InState("truncated") \ {x}
           /\ Strays(targets)' => Strays(targets)
  <1>1. /\ DOMAIN map' = DOMAIN map \cup S /\ SameStates(map, targets, map', targets', x)
        /\ Ledger(map', targets')
        /\ Strays(targets') => Strays(targets)
    BY DEF Effect
  <1>2. \A o \in DOMAIN map' : o = x \/
            targets'[map'[o]].state = IF o \in DOMAIN map THEN targets[map[o]].state ELSE "allocated"
    BY <1>1 DEF SameStates
  <1>3. Ledger(map, targets)' /\ DOMAIN map' \subseteq Objects
    BY <1>1 DEF Ledger, IsCopy
  <1>4. Strays(targets)' => Strays(targets)
    BY <1>1 DEF Strays, IsCopy
  <1>5. Allotted' \ {x} = (Allotted \cup (S \ DOMAIN map)) \ {x}
    BY <1>1, <1>2 DEF Allotted, InState
  <1>6. Delivered' \ {x} = Delivered \ {x}
    BY <1>1, <1>2 DEF Delivered
  <1>7. InState("free")' \ {x} = InState("free") \ {x}
    BY <1>1, <1>2 DEF InState
  <1>8. InState("truncated")' \ {x} = InState("truncated") \ {x}
    BY <1>1, <1>2 DEF InState
  <1> QED
    BY <1>1, <1>3, <1>4, <1>5, <1>6, <1>7, <1>8

\* A step that writes no copy.
LEMMA NothingWritten ==
    ASSUME Ledger(map, targets), context' = context, source' = source, NEW S,
           Effect(map, targets, map', targets', S, NoOne)
    PROVE  /\ Ledger(map, targets)' /\ RefsRight(targets)'
           /\ DOMAIN map' = DOMAIN map \cup S /\ DOMAIN map' \subseteq Objects
           /\ Allotted' = Allotted \cup (S \ DOMAIN map)
           /\ Delivered' = Delivered
           /\ InState("free")' = InState("free")
           /\ InState("truncated")' = InState("truncated")
           /\ Strays(targets)' => Strays(targets)
  <1>1. NoOne \notin DOMAIN map \cup S
    BY CopyingAssumption DEF Effect, Ledger, NoOne
  <1>2. \A st : NoOne \notin InState(st) /\ NoOne \notin InState(st)'
    BY <1>1 DEF InState, Effect
  <1>3. NoOne \notin Delivered /\ NoOne \notin Delivered'
    BY <1>1 DEF Delivered, Effect
  <1>4. RefsRight(targets)'
    BY DEF Effect, RefsRight, RefsRightAt, IsCopy
  <1>5. /\ Ledger(map, targets)'
        /\ DOMAIN map' = DOMAIN map \cup S /\ DOMAIN map' \subseteq Objects
        /\ Allotted' \ {NoOne} = (Allotted \cup (S \ DOMAIN map)) \ {NoOne}
        /\ Delivered' \ {NoOne} = Delivered \ {NoOne}
        /\ InState("free")' \ {NoOne} = InState("free") \ {NoOne}
        /\ InState("truncated")' \ {NoOne} = InState("truncated") \ {NoOne}
        /\ Strays(targets)' => Strays(targets)
    BY EffectOnStates
  <1>6. NoOne \notin Allotted /\ NoOne \notin Allotted'
    BY <1>2 DEF Allotted
  <1>7. Allotted' = Allotted \cup (S \ DOMAIN map)
    BY <1>1, <1>5, <1>6
  <1>8. InState("free")' = InState("free") /\ InState("truncated")' = InState("truncated")
    BY <1>2, <1>5
  <1> QED
    BY <1>3, <1>4, <1>5, <1>7, <1>8

StateOf(m, ts, o) == ts[m[o]].state

\* The states of objects after a step that writes, or deletes, the copy of x.
AfterWriting(S, x, st) ==
    /\ Ledger(map, targets)' /\ RefsRight(targets)'
    /\ DOMAIN map' = DOMAIN map \cup S /\ DOMAIN map' \subseteq Objects
    /\ Allotted' = (Allotted \cup (S \ DOMAIN map)) \ {x}
    /\ Delivered' = Delivered \cup {x}
    /\ InState("free")' \subseteq InState("free") \cup {x}
    /\ st = "free" \/ InState("free")' \subseteq InState("free")
    /\ InState("truncated")' \subseteq InState("truncated") \cup {x}
    /\ st = "truncated" \/ InState("truncated")' \subseteq InState("truncated")
    /\ Strays(targets)' => Strays(targets)

\* A step that writes, or deletes, the copy of x.
LEMMA OneWritten ==
    ASSUME Ledger(map, targets), context' = context, source' = source, NEW S, NEW x \in S,
           Effect(map, targets, map', targets', S, x),
           NEW st \in Results, StateOf(map', targets', x) = st
    PROVE  AfterWriting(S, x, st)
  <1>1. /\ x \in DOMAIN map' /\ targets'[map'[x]].state # "allocated"
        /\ RefsRight(targets)'
    <2>1. RefsRight(targets')
      BY DEF Effect
    <2> QED
      BY <2>1 DEF Effect, Results, StateOf, RefsRight, RefsRightAt, IsCopy
  <1>2. x \in Delivered' /\ x \notin Allotted'
    BY <1>1 DEF Delivered, Allotted, InState
  <1>3. \A st2 : x \notin InState(st2)' \/ st = st2
    BY DEF InState, StateOf
  <1>4. /\ Ledger(map, targets)'
        /\ DOMAIN map' = DOMAIN map \cup S /\ DOMAIN map' \subseteq Objects
        /\ Allotted' \ {x} = (Allotted \cup (S \ DOMAIN map)) \ {x}
        /\ Delivered' \ {x} = Delivered \ {x}
        /\ InState("free")' \ {x} = InState("free") \ {x}
        /\ InState("truncated")' \ {x} = InState("truncated") \ {x}
        /\ Strays(targets)' => Strays(targets)
    BY EffectOnStates
  <1>5. Allotted' = (Allotted \cup (S \ DOMAIN map)) \ {x}
    BY <1>2, <1>4
  <1>6. Delivered' = Delivered \cup {x}
    BY <1>2, <1>4
  <1>7. /\ InState("free")' \subseteq InState("free") \cup {x}
        /\ st = "free" \/ InState("free")' \subseteq InState("free")
    BY <1>3, <1>4
  <1>8. /\ InState("truncated")' \subseteq InState("truncated") \cup {x}
        /\ st = "truncated"
                \/ InState("truncated")' \subseteq InState("truncated")
    BY <1>3, <1>4
  <1> QED
    BY <1>1, <1>4, <1>5, <1>6, <1>7, <1>8 DEF AfterWriting

-----------------------------------------------------------------------------
(***************************************************************************)
(* The invariant is inductive.                                             *)
(***************************************************************************)

\* A call that WriteNewObjects begins, with S as the objects that got targets.
LEMMA CallBegins ==
    ASSUME IInv, MayCall, NEW list \in Seq(Objects), WriteNewObjects(list), NEW S,
           UNCHANGED <<source, context, ok, hadFailure, ended>>,
           Effect(map, targets, map', targets', S, NoOne),
           S \ DOMAIN map \subseteq Elements(list),
           Elements(list) \cap DOMAIN map \subseteq Allotted,
           owed' \in Seq(Seq(Objects)), Elements(list) \cap Owing' = {},
           Owing' \subseteq Owing, Owing \subseteq Owing' \cup Elements(list),
           Apart(owed'),
           page' \in References, Elements(page') \subseteq DOMAIN map \cup S \cup Elements(list)
    PROVE  IInv'
  <1>1. /\ Types /\ Ledger(map, targets) /\ Lists /\ Outcome
        /\ source' = source /\ context' = context /\ ended' = ended /\ ended = "open"
        /\ hadFailure' = hadFailure /\ ok' = ok
        /\ ~Running /\ calls' = calls + 1 /\ calls < MaxCalls
    BY DEF IInv, MayCall
  <1>2. /\ Ledger(map, targets)' /\ RefsRight(targets)'
        /\ DOMAIN map' = DOMAIN map \cup S /\ DOMAIN map' \subseteq Objects
        /\ Allotted' = Allotted \cup (S \ DOMAIN map)
        /\ Delivered' = Delivered
        /\ InState("free")' = InState("free")
        /\ InState("truncated")' = InState("truncated")
        /\ Strays(targets)' => Strays(targets)
    BY <1>1, NothingWritten
  <1>3. stack' = <<list>> /\ copied' = {}
    BY DEF WriteNewObjects
  <1>4. stack' \in Seq(Seq(Objects)) /\ Stacked' = Elements(list)
    BY <1>3, AllOfOne DEF Stacked
  <1>5. Stacked = {}
    BY <1>1, EmptyLists DEF Running, Stacked
  <1>6. Types'
    BY <1>1, <1>3, <1>4, CopyingAssumption DEF Types, Running
  <1>7. Lists'
    BY <1>1, <1>2, <1>3, <1>4 DEF Lists
  <1>8. Outcome'
    BY <1>1, <1>2, <1>4, <1>5 DEF Outcome
  <1>9. Progress'
    <2>1. /\ before'.placed = DOMAIN map /\ before'.delivered = Delivered
          /\ before'.asked = Elements(list)
      BY DEF WriteNewObjects
    <2>2. Delivered \subseteq DOMAIN map /\ Delivered \cap Allotted = {}
      BY DEF Delivered, Allotted, InState
    <2> QED
      BY <1>2, <1>3, <1>4, <2>1, <2>2 DEF Progress
  <1> QED
    BY <1>2, <1>6, <1>7, <1>8, <1>9 DEF IInv

\* What a call that copies nothing does to the objects: those of S get targets.
OnlyMaps(S) ==
    /\ ~Running /\ ~Running'
    /\ DOMAIN map' = DOMAIN map \cup S /\ Delivered' = Delivered

\* What a call that fails does to them.
OnlyGrows == ~Running' /\ DOMAIN map \subseteq DOMAIN map' /\ Delivered \subseteq Delivered'

\* A call that does its work at once, or fails before it copies anything.
LEMMA CallIsBrief ==
    ASSUME IInv, ~Running, ended = "open", calls' \in 0 .. MaxCalls, NEW S,
           UNCHANGED <<source, context, stack, copied, ended>>,
           Effect(map, targets, map', targets', S, NoOne),
           ok' \in BOOLEAN, hadFailure' \in BOOLEAN, hadFailure => hadFailure',
           hadFailure' \/ S \ DOMAIN map \subseteq Owing',
           owed' \in Seq(Seq(Objects)), Owing' \subseteq Owing \cup (S \ DOMAIN map),
           Owing \subseteq Owing',
           Apart(owed'),
           page' \in References, Elements(page') \subseteq DOMAIN map
    PROVE  IInv' /\ OnlyMaps(S)
  <1>1. /\ Types /\ Ledger(map, targets) /\ Lists /\ Outcome
        /\ source' = source /\ context' = context /\ ended' = ended
        /\ stack' = stack /\ copied' = copied
    BY DEF IInv
  <1>2. /\ Ledger(map, targets)' /\ RefsRight(targets)'
        /\ DOMAIN map' = DOMAIN map \cup S /\ DOMAIN map' \subseteq Objects
        /\ Allotted' = Allotted \cup (S \ DOMAIN map)
        /\ Delivered' = Delivered
        /\ InState("free")' = InState("free")
        /\ InState("truncated")' = InState("truncated")
        /\ Strays(targets)' => Strays(targets)
    BY <1>1, NothingWritten
  <1>3. ~Running' /\ Stacked = {} /\ Stacked' = {} /\ copied = {} /\ copied' = {}
    BY <1>1, EmptyLists DEF Running, Stacked, Types
  <1>4. Types'
    BY <1>1, <1>3 DEF Types, Running
  <1>5. Lists'
    BY <1>1, <1>2, <1>3 DEF Lists
  <1>6. Outcome'
    BY <1>1, <1>2, <1>3 DEF Outcome
  <1>7. Progress'
    BY <1>3 DEF Progress
  <1> QED
    BY <1>2, <1>3, <1>4, <1>5, <1>6, <1>7 DEF IInv, OnlyMaps

\* The object that is next, and what stands on the lists after it.
LEMMA TopOfStack ==
    ASSUME Types, IsNext
    PROVE  /\ next \in Objects /\ todo \in Seq(Objects)
           /\ Tail(todo) \in Seq(Objects) /\ Tail(stack) \in Seq(Seq(Objects))
           /\ Stacked = {next} \cup Elements(Tail(todo)) \cup AllOf(Tail(stack))
  <1>1. stack \in Seq(Seq(Objects)) /\ stack # <<>> /\ todo # <<>>
    BY DEF Types, IsNext, Running
  <1>2. /\ todo \in Seq(Objects) /\ Tail(stack) \in Seq(Seq(Objects))
        /\ Stacked = Elements(todo) \cup AllOf(Tail(stack))
    BY <1>1, AllOfStack DEF todo, Stacked
  <1>3. /\ next \in Objects /\ Tail(todo) \in Seq(Objects)
        /\ Elements(todo) = {next} \cup Elements(Tail(todo))
    BY <1>1, <1>2, ElementsOfList DEF next
  <1> QED
    BY <1>2, <1>3

\* The object that is next is written, or deleted because it is missing, and
\* the objects newly referred to are listed.
LEMMA CallGoesOn ==
    ASSUME IInv, IsNext, next \notin copied,
           UNCHANGED <<source, context, owed, page, ok, hadFailure, ended, calls, before>>,
           NEW S, next \in S, LeadsTo(next) \subseteq S, S \subseteq {next} \cup LeadsTo(next),
           Effect(map, targets, map', targets', S, next),
           source.status[next] # "broken",
           NEW st \in {"written", "free"}, StateOf(map', targets', next) = st,
           st = "free" => source.status[next] = "missing",
           copied' = copied \cup {next},
           stack' \in Seq(Seq(Objects)), stack' # <<>>,
           Stacked' \cup {next} = Stacked \cup (S \ (DOMAIN map \cup {next}))
    PROVE  IInv'
  <1>1. /\ Types /\ Ledger(map, targets) /\ Lists /\ Outcome /\ Progress
        /\ source' = source /\ context' = context /\ ended' = ended
        /\ hadFailure' = hadFailure /\ ok' = ok /\ owed' = owed /\ page' = page
        /\ calls' = calls /\ before' = before
        /\ Running /\ Running' /\ next \in S
    BY DEF IInv, IsNext, Running
  <1>2. /\ Ledger(map, targets)' /\ RefsRight(targets)'
        /\ DOMAIN map' = DOMAIN map \cup S /\ DOMAIN map' \subseteq Objects
        /\ Allotted' = (Allotted \cup (S \ DOMAIN map)) \ {next}
        /\ Delivered' = Delivered \cup {next}
        /\ InState("free")' \subseteq InState("free") \cup {next}
        /\ st = "free" \/ InState("free")' \subseteq InState("free")
        /\ InState("truncated")' \subseteq InState("truncated")
        /\ Strays(targets)' => Strays(targets)
    <2>1. st \in Results /\ st # "truncated"
      BY DEF Results, States
    <2>2. AfterWriting(S, next, st)
      BY <1>1, <2>1, OneWritten
    <2> QED
      BY <2>1, <2>2 DEF AfterWriting
  <1>3. /\ next \in Objects /\ next \in Stacked
    BY <1>1, TopOfStack
  <1>4. Types'
    BY <1>1, <1>3 DEF Types
  <1>5. Owing' = Owing /\ Allotted \subseteq DOMAIN map
    BY <1>1 DEF Owing, Allotted, InState
  <1>6. Lists'
    <2>1. Owing' \subseteq Allotted' /\ Owing' \cap Stacked' = {}
      BY <1>1, <1>2, <1>3, <1>5 DEF Lists
    <2>2. Stacked' \cap DOMAIN map' \subseteq copied' \cup Allotted'
      BY <1>1, <1>2, <1>3 DEF Lists
    <2>3. copied' \subseteq Delivered'
      BY <1>1, <1>2 DEF Lists
    <2>4. Elements(page') \subseteq DOMAIN map' \cup Stacked'
      BY <1>1, <1>2 DEF Lists
    <2> QED
      BY <1>1, <2>1, <2>2, <2>3, <2>4 DEF Lists
  <1>7. Outcome'
    <2>1. \A o \in InState("free")' : source'.status[o] = "missing"
      BY <1>1, <1>2 DEF Outcome
    <2>2. hadFailure \/ Allotted' \subseteq Stacked' \cup Owing'
      BY <1>1, <1>2, <1>5 DEF Outcome
    <2>3. ended' # "finished"
      BY <1>1 DEF Types
    <2> QED
      BY <1>1, <1>2, <2>1, <2>2, <2>3 DEF Outcome
  <1>8. Progress'
    <2>1. /\ before.placed \subseteq DOMAIN map /\ before.delivered \subseteq before.placed
          /\ DOMAIN map \subseteq before.placed \cup copied \cup Stacked
          /\ Delivered = before.delivered \cup copied
          /\ (copied \cup Stacked) \cap before.delivered = {}
          /\ before.asked \subseteq copied \cup Stacked
      BY <1>1 DEF Progress
    <2>2. /\ DOMAIN map' \subseteq before.placed \cup copied' \cup Stacked'
          /\ Delivered' = before.delivered \cup copied'
          /\ (copied' \cup Stacked') \cap before.delivered = {}
          /\ before.asked \subseteq copied' \cup Stacked'
          /\ before.placed \subseteq DOMAIN map'
      BY <1>2, <1>3, <2>1
    <2>3. \A o : LeadsTo(o)' = LeadsTo(o)
      BY <1>1 DEF LeadsTo
    <2>4. ASSUME NEW T \in SUBSET Objects, before.asked \subseteq T, Closed(T, before.placed)
          PROVE  copied' \cup Stacked' \subseteq T
      <3>1. copied \cup Stacked \subseteq T
        BY <1>1, <2>4 DEF Progress
      <3>2. LeadsTo(next) \subseteq T \cup before.placed
        BY <1>3, <2>4, <3>1 DEF Closed
      <3> QED
        BY <1>3, <2>1, <3>1, <3>2
    <2>5. \A p \in copied' :
            /\ source.status[p] # "broken"
            /\ LeadsTo(p) \subseteq copied' \cup Stacked' \cup before.placed
      <3> TAKE p \in copied'
      <3>1. CASE p = next
        BY <1>2, <2>2, <3>1
      <3>2. CASE p \in copied
        <4>1. /\ source.status[p] # "broken"
              /\ LeadsTo(p) \subseteq copied \cup Stacked \cup before.placed
          BY <1>1, <3>2 DEF Progress
        <4> QED
          BY <4>1
      <3> QED
        BY <3>1, <3>2
    <2>6. \A T : Closed(T, before.placed)' = Closed(T, before.placed)
      BY <1>1, <2>3 DEF Closed
    <2> QED
      BY <1>1, <2>1, <2>2, <2>3, <2>4, <2>5, <2>6 DEF Progress
  <1> QED
    BY <1>2, <1>4, <1>6, <1>7, <1>8 DEF IInv

\* Lists get shorter, at their copied objects or at their ends.
LEMMA ListsGetShorter ==
    ASSUME IInv, Running,
           UNCHANGED <<source, context, map, targets, owed, page, ended, calls, before>>,
           UNCHANGED <<copied, ok, hadFailure>>,
           stack' \in Seq(Seq(Objects)), stack' # <<>>,
           Stacked' \subseteq Stacked, Stacked \subseteq Stacked' \cup copied
    PROVE  IInv'
  <1>1. /\ Types /\ Ledger(map, targets) /\ RefsRight(targets)
        /\ Lists /\ Outcome /\ Progress /\ Running'
    BY DEF IInv, Running
  <1>2. Types'
    BY <1>1 DEF Types
  <1>3. /\ Ledger(map, targets)' /\ RefsRight(targets)'
        /\ DOMAIN map' = DOMAIN map /\ Allotted' = Allotted /\ Delivered' = Delivered
        /\ InState("free")' = InState("free") /\ InState("truncated")' = InState("truncated")
        /\ Strays(targets)' = Strays(targets) /\ Owing' = Owing
    BY <1>1 DEF Ledger, RefsRight, RefsRightAt, IsCopy, Allotted, InState, Delivered, Strays, Owing
  <1>4. copied \subseteq DOMAIN map /\ copied \cap Allotted = {}
    BY <1>1 DEF Lists, Delivered, Allotted, InState
  <1>5. Lists'
    BY <1>1, <1>3, <1>4 DEF Lists
  <1>6. Outcome'
    BY <1>1, <1>3, <1>4 DEF Outcome
  <1>7. Progress'
    <2>1. \A o : LeadsTo(o)' = LeadsTo(o)
      BY DEF LeadsTo
    <2>2. \A T : Closed(T, before.placed)' = Closed(T, before.placed)
      BY <2>1 DEF Closed
    <2>3. copied' \cup Stacked' = copied \cup Stacked
      OBVIOUS
    <2> QED
      BY <1>1, <1>3, <2>1, <2>2, <2>3 DEF Progress
  <1> QED
    BY <1>2, <1>3, <1>5, <1>6, <1>7 DEF IInv

\* A call that fails where it is.
LEMMA CallFails ==
    ASSUME IInv, IsNext, GiveUp,
           UNCHANGED <<source, context, owed, ended, calls, before>>,
           Ledger(map, targets)', RefsRight(targets)',
           Owing \subseteq Allotted', InState("free")' \subseteq InState("free")
    PROVE  IInv'
  <1>1. /\ Types /\ Ledger(map, targets) /\ Lists /\ Outcome
        /\ stack' = <<>> /\ copied' = {} /\ page' = <<>> /\ ok' = FALSE /\ hadFailure' = TRUE
        /\ ended # "finished"
    BY DEF IInv, GiveUp, Fail, IsNext, Types
  <1>2. stack' \in Seq(Seq(Objects)) /\ page' \in References
    BY <1>1, EmptySeq DEF References
  <1>3. Types'
    BY <1>1, <1>2 DEF Types, Running
  <1>4. Stacked' = {} /\ Owing' = Owing /\ Elements(page') = {} /\ ~Running'
    BY <1>1, EmptyLists DEF Stacked, Owing, Running
  <1>5. Lists'
    BY <1>1, <1>4 DEF Lists
  <1>6. Outcome'
    BY <1>1 DEF Outcome
  <1>7. Progress'
    BY <1>4 DEF Progress
  <1> QED
    BY <1>3, <1>5, <1>6, <1>7 DEF IInv

\* The steps of a running call.
LEMMA SkippingCopied ==
    ASSUME IInv, SkipCopied
    PROVE  IInv' /\ Running'
  <1> DEFINE lists == <<Tail(todo)>>
  <1>1. /\ Types /\ IsNext /\ Running /\ next \in copied
        /\ stack' = lists \o Tail(stack)
    BY DEF IInv, SkipCopied, IsNext
  <1>2. /\ Tail(todo) \in Seq(Objects) /\ Tail(stack) \in Seq(Seq(Objects))
        /\ Stacked = {next} \cup Elements(Tail(todo)) \cup AllOf(Tail(stack))
    BY <1>1, TopOfStack
  <1>3. /\ lists \in Seq(Seq(Objects)) /\ lists # <<>>
        /\ AllOf(lists) = Elements(Tail(todo))
    BY <1>2, AllOfOne
  <1> HIDE DEF lists
  <1>4. /\ stack' \in Seq(Seq(Objects)) /\ stack' # <<>>
        /\ AllOf(stack') = AllOf(lists) \cup AllOf(Tail(stack))
    <2> DEFINE rest == Tail(stack)
    <2>1. rest \in Seq(Seq(Objects)) /\ lists \in Seq(Seq(Objects)) /\ lists # <<>>
      BY <1>2, <1>3
    <2>2. stack' = lists \o rest
      BY <1>1
    <2> HIDE DEF rest
    <2>3. /\ lists \o rest \in Seq(Seq(Objects)) /\ lists \o rest # <<>>
          /\ AllOf(lists \o rest) = AllOf(lists) \cup AllOf(rest)
      BY <2>1, AllOfPushed
    <2> QED
      BY <2>2, <2>3 DEF rest
  <1>5. Stacked' = Elements(Tail(todo)) \cup AllOf(Tail(stack))
    BY <1>3, <1>4 DEF Stacked, AllOf, Elements
  <1>6. Stacked' \subseteq Stacked /\ Stacked \subseteq Stacked' \cup copied
    BY <1>1, <1>2, <1>5
  <1>7. /\ UNCHANGED <<source, context, map, targets, owed, page, ended, calls, before>>
        /\ UNCHANGED <<copied, ok, hadFailure>>
    BY DEF SkipCopied
  <1> QED
    BY <1>1, <1>4, <1>6, <1>7, ListsGetShorter DEF Running

LEMMA CopyingMissing ==
    ASSUME IInv, CopyMissing
    PROVE  IInv' /\ Running'
  <1> DEFINE lists == <<Tail(todo)>>
  <1>1. /\ Types /\ IsNext /\ next \notin copied /\ source.status[next] = "missing"
        /\ Ledger(map, targets) /\ RefsRight(targets)
        /\ map' = nextMap
        /\ targets' = [nextTargets EXCEPT ![nextMap[next]].state = "free"]
        /\ stack' = lists \o Tail(stack) /\ copied' = copied \cup {next}
        /\ UNCHANGED <<source, context, owed, page, ok, hadFailure, ended, calls, before>>
    BY DEF IInv, CopyMissing
  <1>2. /\ next \in Objects
        /\ Tail(todo) \in Seq(Objects) /\ Tail(stack) \in Seq(Seq(Objects))
        /\ Stacked = {next} \cup Elements(Tail(todo)) \cup AllOf(Tail(stack))
    BY <1>1, TopOfStack
  <1>3. /\ lists \in Seq(Seq(Objects)) /\ lists # <<>>
        /\ AllOf(lists) = Elements(Tail(todo))
    BY <1>2, AllOfOne
  <1> HIDE DEF lists
  <1>4. /\ stack' \in Seq(Seq(Objects)) /\ stack' # <<>>
        /\ AllOf(stack') = AllOf(lists) \cup AllOf(Tail(stack))
    <2> DEFINE rest == Tail(stack)
    <2>1. rest \in Seq(Seq(Objects)) /\ lists \in Seq(Seq(Objects)) /\ lists # <<>>
      BY <1>2, <1>3
    <2>2. stack' = lists \o rest
      BY <1>1
    <2> HIDE DEF rest
    <2>3. /\ lists \o rest \in Seq(Seq(Objects)) /\ lists \o rest # <<>>
          /\ AllOf(lists \o rest) = AllOf(lists) \cup AllOf(rest)
      BY <2>1, AllOfPushed
    <2> QED
      BY <2>2, <2>3 DEF rest
  <1>5. Stacked' = Elements(Tail(todo)) \cup AllOf(Tail(stack))
    BY <1>3, <1>4 DEF Stacked, AllOf, Elements
  <1>6. /\ Effect(map, targets, map', targets', {next}, next)
        /\ StateOf(map', targets', next) = "free"
    <2>1. /\ Effect(map, targets, nextMap, targets', {next}, next)
          /\ targets'[nextMap[next]].state = "free"
      BY <1>1, <1>2, MissingHasEffect
    <2> QED
      BY <1>1, <2>1 DEF StateOf
  <1>7. LeadsTo(next) = {}
    BY <1>1 DEF LeadsTo
  <1> DEFINE S == {next}
  <1>8. /\ next \in S /\ LeadsTo(next) \subseteq S /\ S \subseteq {next} \cup LeadsTo(next)
        /\ Stacked' \cup {next} = Stacked \cup (S \ (DOMAIN map \cup {next}))
        /\ Effect(map, targets, map', targets', S, next)
    BY <1>2, <1>5, <1>6, <1>7
  <1> HIDE DEF S
  <1> QED
    BY <1>1, <1>4, <1>6, <1>8, CallGoesOn DEF Running

LEMMA CopyingInDirectObject ==
    ASSUME IInv, CopyInDirectObject
    PROVE  IInv' /\ Running'
  <1> DEFINE refs == source.refs[next]
             new == Listed(nextMap, refs)
             lists == <<new, Tail(todo)>>
  <1>1. /\ Types /\ IsNext /\ next \notin copied /\ source.status[next] = "parsed"
        /\ Ledger(map, targets) /\ RefsRight(targets)
        /\ WriteObject(Len(refs), "written")
        /\ stack' = lists \o Tail(stack) /\ copied' = copied \cup {next}
        /\ UNCHANGED <<source, context, owed, page, ok, hadFailure, ended, calls, before>>
    BY DEF IInv, CopyInDirectObject, CanStart
  <1>2. /\ next \in Objects /\ source \in Sources
        /\ Tail(todo) \in Seq(Objects) /\ Tail(stack) \in Seq(Seq(Objects))
        /\ Stacked = {next} \cup Elements(Tail(todo)) \cup AllOf(Tail(stack))
    BY <1>1, TopOfStack DEF Types
  <1>3. refs \in References /\ refs \in Seq(Objects) /\ Len(refs) \in Nat
    BY <1>2, CopyingAssumption, LenProperties DEF References
  <1>4. /\ new \in Seq(Objects) /\ Elements(new) = Elements(refs) \ DOMAIN nextMap
    BY <1>3, UnmappedIsRight DEF Listed
  <1>5. DOMAIN nextMap = DOMAIN map \cup {next}
    BY <1>1, <1>2, NextHasTarget DEF Effect
  <1>6. LeadsTo(next) = Elements(refs)
    BY <1>1 DEF LeadsTo
  <1>7. /\ Effect(map, targets, map', targets', {next} \cup Elements(refs), next)
        /\ StateOf(map', targets', next) = "written"
    <2>1. Len(refs) \in 0 .. Len(refs) /\ SubSeq(refs, 1, Len(refs)) = refs
      BY <1>3, SubSeqFull
    <2>2. /\ Effect(map, targets, map', targets',
                    {next} \cup Elements(SubSeq(refs, 1, Len(refs))), next)
          /\ targets'[map'[next]].state = "written"
      <3>1. "written" \in Results
        BY DEF Results, States
      <3> QED
        BY <1>1, <1>2, <2>1, <3>1, WritingHasEffect
    <2> QED
      BY <2>1, <2>2 DEF StateOf
  <1> HIDE DEF refs, new
  <1>8. /\ lists \in Seq(Seq(Objects)) /\ lists # <<>>
        /\ AllOf(lists) = Elements(new) \cup Elements(Tail(todo))
    BY <1>2, <1>4, AllOfTwo
  <1> HIDE DEF lists
  <1>9. /\ stack' \in Seq(Seq(Objects)) /\ stack' # <<>>
        /\ AllOf(stack') = AllOf(lists) \cup AllOf(Tail(stack))
    <2> DEFINE rest == Tail(stack)
    <2>1. rest \in Seq(Seq(Objects)) /\ lists \in Seq(Seq(Objects)) /\ lists # <<>>
      BY <1>2, <1>8
    <2>2. stack' = lists \o rest
      BY <1>1
    <2> HIDE DEF rest
    <2>3. /\ lists \o rest \in Seq(Seq(Objects)) /\ lists \o rest # <<>>
          /\ AllOf(lists \o rest) = AllOf(lists) \cup AllOf(rest)
      BY <2>1, AllOfPushed
    <2> QED
      BY <2>2, <2>3 DEF rest
  <1>10. Stacked' = Elements(new) \cup Elements(Tail(todo)) \cup AllOf(Tail(stack))
    BY <1>8, <1>9 DEF Stacked, AllOf, Elements
  <1> DEFINE S == {next} \cup Elements(refs)
  <1>11. /\ next \in S /\ LeadsTo(next) \subseteq S /\ S \subseteq {next} \cup LeadsTo(next)
         /\ Stacked' \cup {next} = Stacked \cup (S \ (DOMAIN map \cup {next}))
         /\ Effect(map, targets, map', targets', S, next)
    BY <1>2, <1>4, <1>5, <1>6, <1>7, <1>10
  <1> HIDE DEF S
  <1> QED
    BY <1>1, <1>7, <1>9, <1>11, CallGoesOn DEF Running

LEMMA CopyStartFailing ==
    ASSUME IInv, CopyStartFails
    PROVE  IInv' /\ OnlyGrows
  <1>1. /\ Types /\ IsNext /\ Ledger(map, targets) /\ RefsRight(targets) /\ Lists
        /\ map' = nextMap /\ targets' = nextTargets /\ GiveUp
        /\ UNCHANGED <<source, context, owed, ended, calls, before>>
    BY DEF IInv, CopyStartFails
  <1>2. next \in Objects
    BY <1>1, TopOfStack
  <1>3. Effect(map, targets, map', targets', {next}, NoOne)
    BY <1>1, <1>2, NextHasTarget
  <1>4. /\ Ledger(map, targets)' /\ RefsRight(targets)'
        /\ DOMAIN map' = DOMAIN map \cup {next} /\ Delivered' = Delivered
        /\ Allotted' = Allotted \cup ({next} \ DOMAIN map)
        /\ InState("free")' = InState("free")
    BY <1>1, <1>3, NothingWritten
  <1>5. Owing \subseteq Allotted'
    BY <1>1, <1>4 DEF Lists
  <1> QED
    BY <1>1, <1>4, <1>5, CallFails DEF OnlyGrows, GiveUp, Running

LEMMA CopyContentFailing ==
    ASSUME IInv, CopyContentFails
    PROVE  IInv' /\ OnlyGrows
  <1> DEFINE refs == source.refs[next]
  <1>1. /\ Types /\ IsNext /\ Ledger(map, targets) /\ RefsRight(targets) /\ Lists
        /\ GiveUp /\ UNCHANGED <<source, context, owed, ended, calls, before>>
    BY DEF IInv, CopyContentFails
  <1>2. PICK k \in 0 .. Len(refs) : WriteObject(k, "truncated")
    BY DEF CopyContentFails
  <1>3. next \in Objects /\ source \in Sources /\ next \in Stacked
    BY <1>1, TopOfStack DEF Types
  <1> DEFINE S == {next} \cup Elements(SubSeq(refs, 1, k))
  <1>4. Effect(map, targets, map', targets', S, next) /\ StateOf(map', targets', next) = "truncated"
    <2>1. "truncated" \in Results
      BY DEF Results, States
    <2> QED
      BY <1>1, <1>2, <1>3, <2>1, WritingHasEffect DEF StateOf
  <1>5. next \in S
    OBVIOUS
  <1> HIDE DEF S
  <1>6. AfterWriting(S, next, "truncated")
    <2>1. "truncated" \in Results
      BY DEF Results, States
    <2> QED
      BY <1>1, <1>4, <1>5, <2>1, OneWritten
  <1>7. Owing \subseteq Allotted'
    BY <1>1, <1>3, <1>6 DEF AfterWriting, Lists
  <1> QED
    BY <1>1, <1>6, <1>7, CallFails DEF AfterWriting, OnlyGrows, GiveUp, Running

LEMMA ReturningToCaller ==
    ASSUME IInv, ReturnToCaller
    PROVE  IInv'
  <1>1. /\ Types /\ Ledger(map, targets) /\ RefsRight(targets) /\ Lists /\ Outcome
        /\ Running /\ todo = <<>> /\ stack' = Tail(stack)
        /\ UNCHANGED <<source, context, map, targets, owed, page, ended, calls, before>>
    BY DEF IInv, ReturnToCaller
  <1>2. /\ Tail(stack) \in Seq(Seq(Objects))
        /\ Stacked = AllOf(Tail(stack))
    <2>1. /\ Head(stack) \in Seq(Objects) /\ Tail(stack) \in Seq(Seq(Objects))
          /\ AllOf(stack) = Elements(Head(stack)) \cup AllOf(Tail(stack))
      BY <1>1, AllOfStack DEF Types, Running
    <2> QED
      BY <1>1, <2>1, EmptyLists DEF todo, Stacked
  <1>3. Stacked' = Stacked
    BY <1>1, <1>2 DEF Stacked, AllOf, Elements
  <1>4. CASE Tail(stack) # <<>>
    <2>1. UNCHANGED <<copied, ok, hadFailure>>
      BY <1>4 DEF ReturnToCaller
    <2>2. stack' \in Seq(Seq(Objects)) /\ stack' # <<>>
      BY <1>1, <1>2, <1>4
    <2> QED
      BY <1>1, <1>3, <2>1, <2>2, ListsGetShorter
  <1>5. CASE Tail(stack) = <<>>
    <2>1. ok' = TRUE /\ hadFailure' = hadFailure /\ copied' = {} /\ stack' = <<>>
      BY <1>1, <1>5 DEF ReturnToCaller, Succeed
    <2>2. Stacked = {} /\ Stacked' = {} /\ ~Running'
      BY <1>2, <1>3, <1>5, <2>1, EmptyLists DEF Running
    <2>3. Types'
      BY <1>1, <1>2, <2>1, <2>2 DEF Types
    <2>4. /\ Ledger(map, targets)' /\ RefsRight(targets)'
          /\ DOMAIN map' = DOMAIN map /\ Allotted' = Allotted /\ Delivered' = Delivered
          /\ InState("free")' = InState("free") /\ InState("truncated")' = InState("truncated")
          /\ Strays(targets)' = Strays(targets) /\ Owing' = Owing
      BY <1>1 DEF Ledger, RefsRight, RefsRightAt, IsCopy, Allotted, InState, Delivered, Strays, Owing
    <2>5. Lists'
      BY <1>1, <2>1, <2>2, <2>4 DEF Lists
    <2>6. Outcome'
      BY <1>1, <2>1, <2>2, <2>4 DEF Outcome
    <2>7. Progress'
      BY <2>2 DEF Progress
    <2> QED
      BY <2>3, <2>4, <2>5, <2>6, <2>7 DEF IInv
  <1> QED
    BY <1>4, <1>5

-----------------------------------------------------------------------------
(***************************************************************************)
(* The calls of the user.                                                  *)
(***************************************************************************)
NothingHappens == UNCHANGED <<map, targets>>

LEMMA NothingHasEffect ==
    ASSUME Ledger(map, targets), RefsRight(targets), NothingHappens
    PROVE  Effect(map, targets, map', targets', {}, NoOne)
  BY DEF Effect, SameStates, NothingHappens

\* A list of lists without one of them.
Without(ss, i) == SubSeq(ss, 1, i - 1) \o SubSeq(ss, i + 1, Len(ss))

LEMMA WithoutOne ==
    ASSUME NEW S, NEW ss \in Seq(S), NEW i \in DOMAIN ss
    PROVE  /\ Without(ss, i) \in Seq(S)
           /\ \A j \in DOMAIN Without(ss, i) :
                \E k \in DOMAIN ss \ {i} : Without(ss, i)[j] = ss[k] /\ k = IF j < i THEN j ELSE j + 1
           /\ \A k \in DOMAIN ss \ {i} : \E j \in DOMAIN Without(ss, i) : Without(ss, i)[j] = ss[k]
  <1> DEFINE n == Len(ss)
             a == SubSeq(ss, 1, i - 1)
             b == SubSeq(ss, i + 1, n)
             r == Without(ss, i)
  <1>1. n \in Nat /\ DOMAIN ss = 1 .. n /\ i \in 1 .. n /\ \A k \in 1 .. n : ss[k] \in S
    BY LenProperties, ElementOfSeq
  <1>2. a \in Seq(S) /\ Len(a) = i - 1 /\ \A k \in 1 .. i - 1 : a[k] = ss[k]
    <2>1. /\ 1 \in 1 .. n + 1 /\ i - 1 \in Nat /\ \A k \in 1 .. i - 1 : k \in 1 .. n
          /\ IF 1 <= i - 1 THEN i - 1 - 1 + 1 = i - 1 ELSE i - 1 = 0
      BY <1>1
    <2> QED
      BY <1>1, <2>1, SubSeqProperties
  <1>3. b \in Seq(S) /\ Len(b) = n - i /\ \A k \in 1 .. n - i : b[k] = ss[i + k]
    <2>1. /\ i + 1 \in Nat /\ n \in Nat /\ \A k \in i + 1 .. n : k \in 1 .. n
          /\ \A k \in 1 .. n - i : i + 1 + k - 1 = i + k
      BY <1>1
    <2> QED
      BY <1>1, <2>1, SubSeqProperties
  <1> HIDE DEF a, b
  <1>4. r = a \o b
    BY DEF Without, a, b
  <1>5. /\ r \in Seq(S) /\ Len(r) = n - 1
        /\ \A j \in 1 .. n - 1 : r[j] = IF j <= i - 1 THEN a[j] ELSE b[j - (i - 1)]
    <2>1. /\ a \o b \in Seq(S) /\ Len(a \o b) = Len(a) + Len(b)
          /\ \A j \in 1 .. Len(a) + Len(b) :
                (a \o b)[j] = IF j <= Len(a) THEN a[j] ELSE b[j - Len(a)]
      BY <1>2, <1>3, ConcatProperties
    <2>2. Len(a) + Len(b) = n - 1
      BY <1>1, <1>2, <1>3
    <2> QED
      BY <1>2, <1>4, <2>1, <2>2
  <1> HIDE DEF r
  <1>6. DOMAIN r = 1 .. n - 1
    BY <1>1, <1>5, LenProperties
  <1>7. \A j \in 1 .. n - 1 : r[j] = IF j < i THEN ss[j] ELSE ss[j + 1]
    <2> TAKE j \in 1 .. n - 1
    <2>1. CASE j < i
      BY <1>1, <1>2, <1>5, <2>1
    <2>2. CASE ~ (j < i)
      <3>1. j - (i - 1) \in 1 .. n - i /\ i + (j - (i - 1)) = j + 1 /\ ~ (j <= i - 1)
        BY <1>1, <2>2
      <3> QED
        BY <1>3, <1>5, <2>2, <3>1
    <2> QED
      BY <2>1, <2>2
  <1>8. \A j \in DOMAIN r :
            \E k \in DOMAIN ss \ {i} : r[j] = ss[k] /\ k = IF j < i THEN j ELSE j + 1
    BY <1>1, <1>6, <1>7
  <1>9. \A k \in DOMAIN ss \ {i} : \E j \in DOMAIN r : r[j] = ss[k]
    <2> TAKE k \in DOMAIN ss \ {i}
    <2>1. CASE k < i
      BY <1>1, <1>6, <1>7, <2>1
    <2>2. CASE k > i
      <3>1. k - 1 \in 1 .. n - 1 /\ ~ (k - 1 < i) /\ k - 1 + 1 = k
        BY <1>1, <2>2
      <3> QED
        BY <1>6, <1>7, <3>1
    <2> QED
      BY <1>1, <2>1, <2>2
  <1> QED
    BY <1>5, <1>8, <1>9 DEF r

\* Lists that share nothing, without one of them.
LEMMA ApartWithoutOne ==
    ASSUME NEW S, NEW ss \in Seq(Seq(S)), Apart(ss), NEW i \in DOMAIN ss
    PROVE  /\ Without(ss, i) \in Seq(Seq(S)) /\ Apart(Without(ss, i))
           /\ AllOf(ss) = AllOf(Without(ss, i)) \cup Elements(ss[i])
           /\ AllOf(Without(ss, i)) \cap Elements(ss[i]) = {}
  <1> DEFINE r == Without(ss, i)
  <1>1. /\ r \in Seq(Seq(S))
        /\ \A j \in DOMAIN r :
                \E k \in DOMAIN ss \ {i} : r[j] = ss[k] /\ k = IF j < i THEN j ELSE j + 1
        /\ \A k \in DOMAIN ss \ {i} : \E j \in DOMAIN r : r[j] = ss[k]
    BY WithoutOne
  <1> HIDE DEF r
  <1>2. DOMAIN r \subseteq Nat /\ i \in Nat
    <2>1. DOMAIN r = 1 .. Len(r) /\ DOMAIN ss = 1 .. Len(ss)
      BY <1>1, LenProperties
    <2> QED
      BY <2>1
  <1>3. Apart(r)
    <2> SUFFICES ASSUME NEW j \in DOMAIN r, NEW l \in DOMAIN r, j # l
                 PROVE  Elements(r[j]) \cap Elements(r[l]) = {}
      BY DEF Apart
    <2>1. PICK k \in DOMAIN ss \ {i} : r[j] = ss[k] /\ k = IF j < i THEN j ELSE j + 1
      BY <1>1
    <2>2. PICK m \in DOMAIN ss \ {i} : r[l] = ss[m] /\ m = IF l < i THEN l ELSE l + 1
      BY <1>1
    <2>3. k # m
      BY <1>2, <2>1, <2>2
    <2> QED
      BY <2>1, <2>2, <2>3 DEF Apart
  <1>4. \A l : l \in Elements(r) <=> \E k \in DOMAIN ss \ {i} : l = ss[k]
    BY <1>1 DEF Elements
  <1>5. AllOf(ss) = AllOf(r) \cup Elements(ss[i])
    <2>0. \A l : l \in Elements(ss) <=> \E k \in DOMAIN ss : l = ss[k]
      BY DEF Elements
    <2>1. \A x : x \in AllOf(ss) <=> \E k \in DOMAIN ss : x \in Elements(ss[k])
      BY <2>0 DEF AllOf
    <2>2. \A x : x \in AllOf(r) <=> \E k \in DOMAIN ss \ {i} : x \in Elements(ss[k])
      BY <1>4 DEF AllOf
    <2> QED
      BY <2>1, <2>2
  <1>6. AllOf(r) \cap Elements(ss[i]) = {}
    <2>1. \A x : x \in AllOf(r) <=> \E k \in DOMAIN ss \ {i} : x \in Elements(ss[k])
      BY <1>4 DEF AllOf
    <2> QED
      BY <2>1 DEF Apart
  <1> QED
    BY <1>1, <1>3, <1>5, <1>6 DEF r

\* Lists that share nothing, and one more.
LEMMA ApartWithOneMore ==
    ASSUME NEW S, NEW ss \in Seq(Seq(S)), Apart(ss), NEW l \in Seq(S),
           AllOf(ss) \cap Elements(l) = {}
    PROVE  /\ Append(ss, l) \in Seq(Seq(S)) /\ Apart(Append(ss, l))
           /\ AllOf(Append(ss, l)) = AllOf(ss) \cup Elements(l)
  <1> DEFINE r == Append(ss, l)
             n == Len(ss)
  <1>1. /\ r \in Seq(Seq(S)) /\ Len(r) = n + 1 /\ r[n + 1] = l
        /\ \A i \in 1 .. n : r[i] = ss[i]
        /\ n \in Nat /\ DOMAIN ss = 1 .. n
    BY AppendProperties, LenProperties
  <1> HIDE DEF r
  <1>2. DOMAIN r = 1 .. n + 1
    BY <1>1, LenProperties
  <1>3. \A i \in DOMAIN r : (i \in DOMAIN ss /\ r[i] = ss[i]) \/ (i = n + 1 /\ r[i] = l)
    BY <1>1, <1>2
  <1>4. \A i \in DOMAIN ss : i \in DOMAIN r /\ r[i] = ss[i]
    BY <1>1, <1>2
  <1>5. n + 1 \in DOMAIN r /\ r[n + 1] = l
    BY <1>1, <1>2
  <1>6. \A i \in DOMAIN ss : Elements(ss[i]) \cap Elements(l) = {}
    <2>1. \A i \in DOMAIN ss : ss[i] \in Elements(ss)
      BY DEF Elements
    <2> QED
      BY <2>1 DEF AllOf
  <1>7. Apart(r)
    <2> SUFFICES ASSUME NEW i \in DOMAIN r, NEW j \in DOMAIN r, i # j
                 PROVE  Elements(r[i]) \cap Elements(r[j]) = {}
      BY DEF Apart
    <2>1. CASE i \in DOMAIN ss /\ r[i] = ss[i] /\ j \in DOMAIN ss /\ r[j] = ss[j]
      BY <2>1 DEF Apart
    <2>2. CASE i = n + 1 /\ r[i] = l
      <3>1. j \in DOMAIN ss /\ r[j] = ss[j]
        BY <1>3, <2>2
      <3> QED
        BY <1>6, <2>2, <3>1
    <2>3. CASE j = n + 1 /\ r[j] = l
      <3>1. i \in DOMAIN ss /\ r[i] = ss[i]
        BY <1>3, <2>3
      <3> QED
        BY <1>6, <2>3, <3>1
    <2> QED
      BY <1>3, <2>1, <2>2, <2>3
  <1>8. \A k : k \in Elements(r) <=> k \in Elements(ss) \/ k = l
    BY <1>3, <1>4, <1>5 DEF Elements
  <1>9. AllOf(r) = AllOf(ss) \cup Elements(l)
    BY <1>8 DEF AllOf
  <1> QED
    BY <1>1, <1>7, <1>9 DEF r

\* The state between calls.
LEMMA BetweenCalls ==
    ASSUME IInv, MayCall
    PROVE  /\ Types /\ Ledger(map, targets) /\ RefsRight(targets) /\ Lists /\ Outcome
           /\ ~Running /\ Stacked = {} /\ page = <<>> /\ ended = "open"
           /\ calls' \in 0 .. MaxCalls /\ Elements(page) = {}
           /\ Owing \subseteq Allotted /\ Allotted \subseteq DOMAIN map /\ Apart(owed)
           /\ page \in References /\ owed \in Seq(Seq(Objects))
  <1>1. calls' = calls + 1 /\ calls < MaxCalls /\ calls \in 0 .. MaxCalls /\ MaxCalls \in Nat
    BY CopyingAssumption DEF IInv, Types, MayCall
  <1> QED
    BY <1>1, EmptyLists DEF IInv, Types, Lists, MayCall, Running, Stacked, Allotted, InState

LEMMA CopyingObject ==
    ASSUME IInv, CopyObject
    PROVE  IInv' /\ \E l \in Seq(Objects) : WriteNewObjects(l)
  <1>1. PICK o \in Objects \ DOMAIN map : WriteNewObjects(<<o>>)
    BY DEF CopyObject
  <1> DEFINE list == <<o>>
  <1>2. list \in Seq(Objects) /\ Elements(list) = {o}
    BY DEF Elements
  <1>3. WriteNewObjects(list)
    BY <1>1
  <1> HIDE DEF list
  <1>4. /\ MayCall /\ UNCHANGED <<source, context, ok, hadFailure, ended>>
        /\ NothingHappens /\ owed' = owed /\ page' = page
    BY DEF CopyObject, NothingHappens
  <1>5. Effect(map, targets, map', targets', {}, NoOne)
    BY <1>4, BetweenCalls, NothingHasEffect
  <1>6. /\ Elements(list) \cap DOMAIN map \subseteq Allotted
        /\ Elements(list) \cap Owing' = {} /\ Owing' = Owing
        /\ Apart(owed') /\ owed' \in Seq(Seq(Objects))
        /\ page' \in References /\ Elements(page') = {}
    BY <1>2, <1>4, BetweenCalls DEF Owing
  <1> QED
    BY <1>2, <1>3, <1>4, <1>5, <1>6, CallBegins

LEMMA CopyingDirectObjectToIndirectObject ==
    ASSUME IInv, CopyDirectObjectToIndirectObject
    PROVE  IInv' /\ \E l \in Seq(Objects) : WriteNewObjects(l)
  <1>1. PICK refs \in RefLists :
            WriteUserObject(refs, "written") /\ WriteNewObjects(Listed(map, refs))
    BY DEF CopyDirectObjectToIndirectObject
  <1> DEFINE list == Listed(map, refs)
             S == Elements(refs)
  <1>2. /\ MayCall /\ UNCHANGED <<source, context, ok, hadFailure, ended>>
        /\ owed' = owed /\ page' = page
    BY DEF CopyDirectObjectToIndirectObject
  <1>3. refs \in References /\ refs \in Seq(Objects)
    BY CopyingAssumption DEF References
  <1>4. list \in Seq(Objects) /\ Elements(list) = S \ DOMAIN map
    BY <1>3, UnmappedIsRight DEF Listed
  <1>5. Effect(map, targets, map', targets', S, NoOne)
    <2>1. "written" \in Results
      BY DEF Results, States
    <2> QED
      BY <1>1, <1>2, <1>3, <2>1, BetweenCalls, UserObjectHasEffect
  <1>6. WriteNewObjects(list)
    BY <1>1
  <1> HIDE DEF list, S
  <1>7. /\ Elements(list) \cap DOMAIN map \subseteq Allotted /\ S \ DOMAIN map \subseteq Elements(list)
        /\ Elements(list) \cap Owing' = {} /\ Owing' = Owing
        /\ Apart(owed') /\ owed' \in Seq(Seq(Objects))
        /\ page' \in References /\ Elements(page') = {}
    BY <1>2, <1>4, BetweenCalls DEF Owing
  <1> QED
    BY <1>2, <1>4, <1>5, <1>6, <1>7, CallBegins

LEMMA CopyingNewObjectsForDirectObject ==
    ASSUME IInv, CopyNewObjectsForDirectObject
    PROVE  IInv' /\ \E l \in Seq(Objects) : WriteNewObjects(l)
  <1>1. /\ MayCall /\ UNCHANGED <<source, context, ok, hadFailure, ended>>
        /\ NothingHappens /\ page' = page
    BY DEF CopyNewObjectsForDirectObject, NothingHappens
  <1>2. Effect(map, targets, map', targets', {}, NoOne)
    BY <1>1, BetweenCalls, NothingHasEffect
  <1>3. /\ Apart(owed) /\ owed \in Seq(Seq(Objects)) /\ Owing \subseteq Allotted
        /\ page' \in References /\ Elements(page') = {}
    BY <1>1, BetweenCalls
  <1>4. ASSUME NEW i \in DOMAIN owed, WriteNewObjects(owed[i]), owed' = Without(owed, i)
        PROVE  IInv' /\ \E l \in Seq(Objects) : WriteNewObjects(l)
    <2>1. owed[i] \in Seq(Objects)
      BY <1>3, LenProperties, ElementOfSeq
    <2>2. /\ owed' \in Seq(Seq(Objects)) /\ Apart(owed')
          /\ AllOf(owed) = AllOf(owed') \cup Elements(owed[i])
          /\ AllOf(owed') \cap Elements(owed[i]) = {}
      BY <1>3, <1>4, ApartWithoutOne
    <2>3. Owing' = AllOf(owed')
      BY DEF Owing, AllOf, Elements
    <2> DEFINE list == owed[i]
    <2>4. WriteNewObjects(list)
      BY <1>4
    <2>5. /\ list \in Seq(Objects) /\ owed' \in Seq(Seq(Objects)) /\ Apart(owed')
          /\ Elements(list) \cap DOMAIN map \subseteq Allotted
          /\ Elements(list) \cap Owing' = {} /\ Owing' \subseteq Owing
          /\ Owing \subseteq Owing' \cup Elements(list)
      BY <1>3, <2>1, <2>2, <2>3 DEF Owing
    <2> HIDE DEF list
    <2> QED
      BY <1>1, <1>2, <1>3, <2>4, <2>5, CallBegins
  <1>5. ASSUME Len(owed) = 2, WriteNewObjects(owed[1] \o owed[2]), owed' = <<>>
        PROVE  IInv' /\ \E l \in Seq(Objects) : WriteNewObjects(l)
    <2> DEFINE list == owed[1] \o owed[2]
    <2>1. DOMAIN owed = 1 .. 2
      BY <1>3, <1>5, LenProperties
    <2>2. owed[1] \in Seq(Objects) /\ owed[2] \in Seq(Objects)
      <3>1. 1 \in 1 .. Len(owed) /\ 2 \in 1 .. Len(owed)
        BY <1>5
      <3> QED
        BY <1>3, <3>1, ElementOfSeq
    <2>3. list \in Seq(Objects) /\ Elements(list) = Elements(owed[1]) \cup Elements(owed[2])
      BY <2>2, ElementsOfBoth
    <2>4. Elements(owed) = {owed[1], owed[2]}
      BY <2>1 DEF Elements
    <2>5. Elements(list) = Owing
      BY <2>3, <2>4 DEF Owing, AllOf
    <2>6. Owing' = {} /\ owed' \in Seq(Seq(Objects)) /\ Apart(owed')
      <3>1. Owing' = {}
        BY <1>5, EmptyLists DEF Owing
      <3>2. DOMAIN <<>> = {} /\ <<>> \in Seq(Seq(Objects))
        BY EmptySeq, LenProperties
      <3> QED
        BY <1>5, <3>1, <3>2 DEF Apart
    <2>7. WriteNewObjects(list)
      BY <1>5
    <2> HIDE DEF list
    <2>8. /\ Elements(list) \cap DOMAIN map \subseteq Allotted
          /\ Elements(list) \cap Owing' = {} /\ Owing' \subseteq Owing
          /\ Owing \subseteq Owing' \cup Elements(list)
      BY <1>3, <2>5, <2>6
    <2> QED
      BY <1>1, <1>2, <1>3, <2>3, <2>6, <2>7, <2>8, CallBegins
  <1> QED
    BY <1>4, <1>5 DEF CopyNewObjectsForDirectObject, Without

LEMMA CopyingResourcesIndirectObjects ==
    ASSUME IInv, CopyResourcesIndirectObjects
    PROVE  IInv' /\ \E l \in Seq(Objects) : WriteNewObjects(l)
  <1>1. PICK refs \in RefLists \ {<<>>} :
            page' = refs /\ WriteNewObjects(Unmapped(map, refs \o <<refs[1]>>))
    BY DEF CopyResourcesIndirectObjects
  <1> DEFINE twice == refs \o <<refs[1]>>
             list == Unmapped(map, twice)
  <1>2. /\ MayCall /\ UNCHANGED <<source, context, ok, hadFailure, ended>>
        /\ NothingHappens /\ owed' = owed
    BY DEF CopyResourcesIndirectObjects, NothingHappens
  <1>3. refs \in References /\ refs \in Seq(Objects) /\ refs # <<>>
    BY CopyingAssumption DEF References
  <1>4. twice \in Seq(Objects) /\ Elements(twice) = Elements(refs)
    <2>1. /\ 1 \in DOMAIN refs /\ refs[1] \in Objects
      <3>1. Len(refs) \in Nat /\ Len(refs) # 0 /\ DOMAIN refs = 1 .. Len(refs)
        BY <1>3, LenProperties, EmptySeq
      <3>2. 1 \in 1 .. Len(refs)
        BY <3>1
      <3> QED
        BY <1>3, <3>1, <3>2, ElementOfSeq
    <2>2. <<refs[1]>> \in Seq(Objects) /\ Elements(<<refs[1]>>) = {refs[1]}
      BY <2>1 DEF Elements
    <2>3. refs[1] \in Elements(refs)
      BY <2>1 DEF Elements
    <2> DEFINE one == <<refs[1]>>
    <2>4. one \in Seq(Objects) /\ Elements(one) \subseteq Elements(refs)
      BY <2>2, <2>3
    <2> HIDE DEF one
    <2>5. /\ refs \o one \in Seq(Objects)
          /\ Elements(refs \o one) = Elements(refs) \cup Elements(one)
      BY <1>3, <2>4, ElementsOfBoth
    <2>6. Elements(refs \o one) = Elements(refs)
      BY <2>4, <2>5
    <2> QED
      BY <2>5, <2>6 DEF one
  <1> HIDE DEF twice
  <1>5. list \in Seq(Objects) /\ Elements(list) = Elements(refs) \ DOMAIN map
    BY <1>4, UnmappedIsRight
  <1>6. Effect(map, targets, map', targets', {}, NoOne)
    BY <1>2, BetweenCalls, NothingHasEffect
  <1>7. WriteNewObjects(list)
    BY <1>1 DEF twice
  <1> HIDE DEF list
  <1>8. /\ Elements(list) \cap DOMAIN map \subseteq Allotted
        /\ Elements(list) \cap Owing' = {} /\ Owing' = Owing
        /\ Apart(owed') /\ owed' \in Seq(Seq(Objects))
        /\ page' \in References /\ Elements(page') \subseteq DOMAIN map \cup Elements(list)
    BY <1>1, <1>2, <1>3, <1>5, BetweenCalls DEF Owing
  <1> QED
    BY <1>2, <1>5, <1>6, <1>7, <1>8, CallBegins

LEMMA CopyingDirectObjectWithDeepCopy ==
    ASSUME IInv, CopyDirectObjectWithDeepCopy
    PROVE  IInv' /\ \E S : OnlyMaps(S)
  <1>1. PICK refs \in RefLists :
            WriteUserObject(refs, "written") /\ owed' = Append(owed, Listed(map, refs))
    BY DEF CopyDirectObjectWithDeepCopy
  <1> DEFINE list == Listed(map, refs)
             S == Elements(refs)
  <1>2. /\ MayCall /\ UNCHANGED <<source, context, stack, copied, ended>>
        /\ page' = page /\ ok' = TRUE /\ hadFailure' = hadFailure
    BY DEF CopyDirectObjectWithDeepCopy, Succeed
  <1>3. refs \in References /\ refs \in Seq(Objects)
    BY CopyingAssumption DEF References
  <1>4. list \in Seq(Objects) /\ Elements(list) = S \ DOMAIN map
    BY <1>3, UnmappedIsRight DEF Listed
  <1>5. Effect(map, targets, map', targets', S, NoOne)
    <2>1. "written" \in Results
      BY DEF Results, States
    <2> QED
      BY <1>1, <1>2, <1>3, <2>1, BetweenCalls, UserObjectHasEffect
  <1>6. owed' = Append(owed, list)
    BY <1>1
  <1> HIDE DEF list, S
  <1>7. AllOf(owed) \cap Elements(list) = {} /\ Owing = AllOf(owed)
    BY <1>2, <1>4, BetweenCalls DEF Owing
  <1>8. /\ owed' \in Seq(Seq(Objects)) /\ Apart(owed')
        /\ AllOf(owed') = AllOf(owed) \cup Elements(list)
    <2>1. owed \in Seq(Seq(Objects)) /\ Apart(owed)
      BY <1>2, BetweenCalls
    <2> QED
      BY <1>4, <1>6, <1>7, <2>1, ApartWithOneMore
  <1>9. Owing' = AllOf(owed')
    BY DEF Owing, AllOf, Elements
  <1>10. /\ Owing' \subseteq Owing \cup (S \ DOMAIN map) /\ Owing \subseteq Owing'
         /\ S \ DOMAIN map \subseteq Owing'
    BY <1>4, <1>7, <1>8, <1>9
  <1>11. /\ ~Running /\ ended = "open" /\ calls' \in 0 .. MaxCalls /\ hadFailure \in BOOLEAN
         /\ page' \in References /\ Elements(page') \subseteq DOMAIN map
    BY <1>2, BetweenCalls DEF Types
  <1> QED
    BY <1>2, <1>5, <1>8, <1>10, <1>11, CallIsBrief

LEMMA CopyingDirectObjectFails ==
    ASSUME IInv, CopyDirectObjectFails
    PROVE  IInv' /\ \E S : OnlyMaps(S)
  <1>0. PICK refs \in RefLists : \E k \in 0 .. Len(refs) :
            WriteUserObject(SubSeq(refs, 1, k), "truncated")
    BY DEF CopyDirectObjectFails
  <1>1. PICK k \in 0 .. Len(refs) : WriteUserObject(SubSeq(refs, 1, k), "truncated")
    BY <1>0
  <1> DEFINE first == SubSeq(refs, 1, k)
             S == Elements(first)
  <1>2. /\ MayCall /\ UNCHANGED <<source, context, stack, copied, ended>>
        /\ owed' = owed /\ page' = page /\ ok' = FALSE /\ hadFailure' = TRUE
    BY DEF CopyDirectObjectFails, Fail
  <1>3. first \in References
    BY CopyingAssumption, FirstReferences
  <1>4. WriteUserObject(first, "truncated")
    BY <1>1
  <1> HIDE DEF first
  <1>5. Effect(map, targets, map', targets', S, NoOne)
    <2>1. "truncated" \in Results
      BY DEF Results, States
    <2> QED
      BY <1>2, <1>3, <1>4, <2>1, BetweenCalls, UserObjectHasEffect
  <1> HIDE DEF S
  <1>6. /\ ~Running /\ ended = "open" /\ calls' \in 0 .. MaxCalls
        /\ owed' \in Seq(Seq(Objects)) /\ Apart(owed') /\ Owing' = Owing
        /\ page' \in References /\ Elements(page') \subseteq DOMAIN map
    BY <1>2, BetweenCalls DEF Owing
  <1> QED
    BY <1>2, <1>5, <1>6, CallIsBrief

LEMMA WritingResources ==
    ASSUME IInv, OnResourcesWrite
    PROVE  IInv' /\ OnlyMaps({})
  <1> DEFINE S == Elements(page)
  <1>1. /\ ended = "open" /\ ~Running /\ WriteUserObject(page, "written") /\ page' = <<>>
        /\ UNCHANGED <<source, context, stack, copied, ended>>
        /\ owed' = owed /\ ok' = ok /\ hadFailure' = hadFailure /\ calls' = calls
    BY DEF OnResourcesWrite
  <1>2. /\ Types /\ Ledger(map, targets) /\ RefsRight(targets) /\ Lists
        /\ page \in References /\ Stacked = {}
    BY <1>1, EmptyLists DEF IInv, Types, Running, Stacked
  <1>3. Effect(map, targets, map', targets', S, NoOne)
    <2>1. "written" \in Results
      BY DEF Results, States
    <2> QED
      BY <1>1, <1>2, <2>1, UserObjectHasEffect
  <1>4. S \subseteq DOMAIN map
    BY <1>2 DEF Lists
  <1> HIDE DEF S
  <1>5. page' \in References /\ Elements(page') = {}
    BY <1>1, EmptySeq, EmptyLists DEF References
  <1>6. /\ owed' \in Seq(Seq(Objects)) /\ Apart(owed') /\ Owing' = Owing
        /\ ok' \in BOOLEAN /\ hadFailure' \in BOOLEAN /\ calls' \in 0 .. MaxCalls
    BY <1>1, <1>2 DEF Lists, Types, Owing
  <1>7. hadFailure' \/ S \ DOMAIN map \subseteq Owing'
    BY <1>4
  <1>8. IInv' /\ OnlyMaps(S)
    BY <1>1, <1>3, <1>5, <1>6, <1>7, CallIsBrief
  <1> QED
    BY <1>4, <1>8 DEF OnlyMaps

LEMMA ReplacingSourceObjects ==
    ASSUME IInv, ReplaceSourceObjects
    PROVE  /\ IInv' /\ ~Running /\ ~Running'
           /\ \E o \in Objects \ DOMAIN map :
                DOMAIN map' = DOMAIN map \cup {o} /\ Delivered' = Delivered \cup {o}
  <1>1. PICK o \in Objects \ DOMAIN map :
            /\ map' = [r \in DOMAIN map \cup {o} |->
                        IF r = o THEN Len(targets) + 1 ELSE map[r]]
            /\ targets' = Append(targets, Target(o, "replacement", <<>>))
    BY DEF ReplaceSourceObjects
  <1>2. /\ MayCall
        /\ UNCHANGED <<source, context, stack, copied, owed, page, ok, hadFailure, ended, before>>
    BY DEF ReplaceSourceObjects
  <1>3. /\ Types /\ Ledger(map, targets) /\ RefsRight(targets) /\ Lists /\ Outcome
        /\ ~Running /\ Stacked = {} /\ ended = "open" /\ calls' \in 0 .. MaxCalls
        /\ Elements(page) = {} /\ Owing \subseteq Allotted /\ Allotted \subseteq DOMAIN map
    BY <1>2, BetweenCalls
  <1> DEFINE S == {o}
  <1>4. Effect(map, targets, map', targets', S, o) /\ StateOf(map', targets', o) = "replacement"
    BY <1>1, <1>3, ReplacementHasEffect DEF StateOf
  <1>5. o \in S /\ o \notin Allotted
    BY <1>3
  <1>6. S \subseteq {o}
    OBVIOUS
  <1> HIDE DEF S
  <1>7. AfterWriting(S, o, "replacement")
    <2>1. "replacement" \in Results
      BY DEF Results, States
    <2> QED
      BY <1>2, <1>3, <1>4, <1>5, <2>1, OneWritten
  <1>8. /\ Ledger(map, targets)' /\ RefsRight(targets)'
        /\ DOMAIN map' = DOMAIN map \cup S
        /\ Allotted' = Allotted /\ Delivered \subseteq Delivered'
        /\ InState("free")' \subseteq InState("free")
        /\ InState("truncated")' \subseteq InState("truncated")
        /\ Strays(targets)' => Strays(targets)
    BY <1>5, <1>6, <1>7 DEF AfterWriting
  <1>9. Stacked' = {} /\ Owing' = Owing /\ ~Running' /\ copied = {} /\ copied' = {}
    BY <1>2, <1>3, EmptyLists DEF Running, Owing, Stacked, Types
  <1>10. Types'
    BY <1>2, <1>3, <1>9 DEF Types
  <1>11. Lists'
    BY <1>2, <1>3, <1>8, <1>9 DEF Lists
  <1>12. Outcome'
    BY <1>2, <1>3, <1>8, <1>9 DEF Outcome
  <1>13. Progress'
    BY <1>9 DEF Progress
  <1>14. DOMAIN map' = DOMAIN map \cup {o} /\ Delivered' = Delivered \cup {o}
    BY <1>5, <1>6, <1>7 DEF AfterWriting
  <1> QED
    BY <1>3, <1>8, <1>9, <1>10, <1>11, <1>12, <1>13, <1>14 DEF IInv

LEMMA StoppingCopyingContext ==
    ASSUME IInv, StopCopyingContext
    PROVE  /\ IInv' /\ ~Running /\ ~Running'
           /\ DOMAIN map' = {} /\ Delivered' = {}
  <1>1. /\ MayCall /\ (owed = <<>> \/ hadFailure)
        /\ source' \in Sources /\ context' = context + 1
        /\ map' = <<>> /\ owed' = <<>>
        /\ UNCHANGED <<targets, stack, copied, page, ok, hadFailure, ended, before>>
    BY DEF StopCopyingContext
  <1>2. /\ Types /\ Ledger(map, targets) /\ RefsRight(targets) /\ Lists /\ Outcome
        /\ ~Running /\ Stacked = {} /\ ended = "open" /\ calls' \in 0 .. MaxCalls
        /\ Elements(page) = {}
    BY <1>1, BetweenCalls
  <1>3. DOMAIN map' = {} /\ <<>> \in Seq(Seq(Objects)) /\ Apart(<<>>)
    <2>1. DOMAIN <<>> = {} /\ <<>> \in Seq(Seq(Objects))
      BY EmptySeq, LenProperties
    <2> QED
      BY <1>1, <2>1 DEF Apart
  <1>4. /\ context \in Nat \ {0} /\ Len(targets) \in Nat /\ DOMAIN targets = 1 .. Len(targets)
        /\ \A i \in 1 .. Len(targets) : targets[i].context \in 1 .. context
    BY <1>2, LenProperties DEF Ledger
  <1>5. \A i \in 1 .. Len(targets) : ~ (IsCopy(targets[i])')
    BY <1>1, <1>4 DEF IsCopy
  <1>6. Ledger(map, targets)'
    <2>1. map' \in [DOMAIN map' -> 1 .. Len(targets)]
      BY <1>1, <1>3
    <2>2. \A i \in 1 .. Len(targets) : targets[i].context \in 1 .. context'
      BY <1>1, <1>4
    <2>3. /\ targets \in Seq(TargetType)
          /\ \A i, j \in 1 .. Len(targets) :
                (targets[i].of # 0 /\ targets[i].of = targets[j].of
                    /\ targets[i].context = targets[j].context) => i = j
      BY <1>2 DEF Ledger
    <2>4. context' \in Nat \ {0} /\ targets' = targets
      BY <1>1, <1>4
    <2> QED
      BY <1>3, <1>5, <2>1, <2>2, <2>3, <2>4 DEF Ledger
  <1>7. RefsRight(targets)'
    <2> SUFFICES ASSUME NEW i \in 1 .. Len(targets) PROVE RefsRightAt(targets, i)'
      BY <1>1 DEF RefsRight
    <2>1. targets[i].refs \in Seq(1 .. Len(targets))
      BY <1>2 DEF RefsRight, RefsRightAt
    <2> QED
      BY <1>1, <1>5, <2>1 DEF RefsRightAt
  <1>8. \A st : InState(st)' = {}
    BY <1>3 DEF InState
  <1>9. /\ Stacked' = {} /\ Owing' = {} /\ ~Running' /\ copied = {} /\ copied' = {}
        /\ Allotted' = {} /\ Elements(page') = {}
    BY <1>1, <1>2, <1>8, EmptyLists DEF Running, Owing, Stacked, Types, Allotted
  <1>10. Types'
    BY <1>1, <1>2, <1>3, <1>9 DEF Types
  <1>11. Lists'
    BY <1>1, <1>3, <1>9 DEF Lists
  <1>12. hadFailure \/ ~Strays(targets)'
    <2> SUFFICES ASSUME ~hadFailure, NEW i \in DOMAIN targets, targets[i].state = "allocated"
                 PROVE  FALSE
      BY <1>1 DEF Strays
    <2>1. Allotted = {}
      BY <1>1, <1>2, EmptyLists DEF Outcome, Owing
    <2>2. IsCopy(targets[i])
      BY <1>2 DEF Outcome, Strays
    <2>3. targets[i].of \in DOMAIN map /\ map[targets[i].of] = i
      BY <1>2, <1>4, <2>2 DEF Ledger
    <2> QED
      BY <2>1, <2>3 DEF Allotted, InState
  <1>13. Outcome'
    BY <1>1, <1>2, <1>8, <1>9, <1>12 DEF Outcome
  <1>14. Progress'
    BY <1>9 DEF Progress
  <1>15. Delivered' = {}
    BY <1>3 DEF Delivered
  <1> QED
    BY <1>2, <1>3, <1>6, <1>7, <1>9, <1>10, <1>11, <1>13, <1>14, <1>15 DEF IInv

\* Steps that leave the objects and the lists as they are.
LEMMA NothingChanges ==
    ASSUME IInv,
           UNCHANGED <<source, context, map, targets, stack, copied, owed, page, ok,
                       hadFailure, calls, before>>
    PROVE  /\ (Ledger(map, targets) /\ RefsRight(targets) /\ Lists /\ Progress)'
           /\ Stacked' = Stacked /\ Owing' = Owing /\ Allotted' = Allotted
           /\ Delivered' = Delivered /\ Running' = Running
           /\ InState("free")' = InState("free") /\ InState("truncated")' = InState("truncated")
           /\ Strays(targets)' = Strays(targets)
  <1>1. /\ Ledger(map, targets)' /\ RefsRight(targets)'
        /\ Allotted' = Allotted /\ Delivered' = Delivered
        /\ InState("free")' = InState("free") /\ InState("truncated")' = InState("truncated")
        /\ Strays(targets)' = Strays(targets) /\ Owing' = Owing /\ Stacked' = Stacked
        /\ Running' = Running
    BY DEF IInv, Ledger, RefsRight, RefsRightAt, IsCopy, Allotted, InState, Delivered, Strays,
           Owing, Stacked, Running
  <1>2. Lists'
    BY <1>1 DEF IInv, Lists
  <1>3. Progress'
    <2>1. \A o : LeadsTo(o)' = LeadsTo(o)
      BY DEF LeadsTo
    <2>2. \A T : Closed(T, before.placed)' = Closed(T, before.placed)
      BY <2>1 DEF Closed
    <2> QED
      BY <1>1, <2>1, <2>2 DEF IInv, Progress
  <1> QED
    BY <1>1, <1>2, <1>3

LEMMA EndingPDF ==
    ASSUME IInv, EndPDF
    PROVE  IInv'
  <1>1. /\ ~Running
        /\ UNCHANGED <<source, context, map, targets, stack, copied, owed, page, ok,
                       hadFailure, calls, before>>
        /\ ended' = IF \A i \in DOMAIN targets : targets[i].state # "allocated"
                    THEN "finished" ELSE "failed"
    BY DEF EndPDF
  <1>2. /\ (Ledger(map, targets) /\ RefsRight(targets) /\ Lists /\ Progress)'
        /\ Stacked' = Stacked /\ Owing' = Owing /\ Allotted' = Allotted
        /\ Delivered' = Delivered /\ Running' = Running
        /\ InState("free")' = InState("free") /\ InState("truncated")' = InState("truncated")
        /\ Strays(targets)' = Strays(targets)
    BY <1>1, NothingChanges
  <1>3. Types'
    BY <1>1, <1>2 DEF IInv, Types
  <1>4. Outcome'
    BY <1>1, <1>2 DEF IInv, Outcome
  <1> QED
    BY <1>2, <1>3, <1>4 DEF IInv

LEMMA Stuttering ==
    ASSUME IInv, UNCHANGED vars
    PROVE  IInv'
  <1>1. /\ UNCHANGED <<source, context, map, targets, stack, copied, owed, page, ok,
                       hadFailure, calls, before>>
        /\ ended' = ended
    BY DEF vars
  <1>2. /\ (Ledger(map, targets) /\ RefsRight(targets) /\ Lists /\ Progress)'
        /\ Stacked' = Stacked /\ Owing' = Owing /\ Allotted' = Allotted
        /\ Delivered' = Delivered /\ Running' = Running
        /\ InState("free")' = InState("free") /\ InState("truncated")' = InState("truncated")
        /\ Strays(targets)' = Strays(targets)
    BY <1>1, NothingChanges
  <1>3. Types'
    BY <1>1, <1>2 DEF IInv, Types
  <1>4. Outcome'
    BY <1>1, <1>2 DEF IInv, Outcome
  <1> QED
    BY <1>2, <1>3, <1>4 DEF IInv

LEMMA Initially == Init => IInv
  <1> SUFFICES ASSUME Init PROVE IInv
    OBVIOUS
  <1>1. /\ source \in Sources /\ context = 1 /\ map = <<>> /\ targets = <<>>
        /\ stack = <<>> /\ copied = {} /\ owed = <<>> /\ page = <<>>
        /\ ok = TRUE /\ hadFailure = FALSE /\ ended = "open" /\ calls = 0
    BY DEF Init
  <1>2. /\ DOMAIN <<>> = {} /\ <<>> \in Seq(Seq(Objects)) /\ <<>> \in Seq(Objects)
        /\ <<>> \in Seq(TargetType) /\ Len(<<>>) = 0 /\ 1 .. 0 = {}
    BY EmptySeq, LenProperties
  <1>3. Types
    <2>1. page \in References
      BY <1>1, <1>2 DEF References
    <2>2. calls \in 0 .. MaxCalls
      BY <1>1, CopyingAssumption
    <2> QED
      BY <1>1, <1>2, <2>1, <2>2 DEF Types, Running
  <1>4. Ledger(map, targets)
    BY <1>1, <1>2 DEF Ledger
  <1>5. RefsRight(targets)
    BY <1>1, <1>2 DEF RefsRight
  <1>6. Stacked = {} /\ Owing = {} /\ Elements(page) = {} /\ ~Running
    BY <1>1, EmptyLists DEF Stacked, Owing, Running
  <1>7. \A st : InState(st) = {}
    BY <1>1, <1>2 DEF InState
  <1>8. Apart(owed)
    BY <1>1, <1>2 DEF Apart
  <1>9. Lists
    BY <1>1, <1>6, <1>7, <1>8 DEF Lists, Allotted
  <1>10. Outcome
    BY <1>1, <1>2, <1>7 DEF Outcome, Strays, Allotted
  <1>11. Progress
    BY <1>6 DEF Progress
  <1> QED
    BY <1>3, <1>4, <1>5, <1>9, <1>10, <1>11 DEF IInv

\* The states and the steps of copying keep the map and the targets each
\* other's inverse, and account for every object without a copy.
THEOREM Inductive == Spec => []IInv
  <1>1. Init => IInv
    BY Initially
  <1>2. IInv /\ [Next]_vars => IInv'
    <2> SUFFICES ASSUME IInv, [Next]_vars PROVE IInv'
      OBVIOUS
    <2>1. CASE CopyObject
      BY <2>1, CopyingObject
    <2>2. CASE CopyDirectObjectToIndirectObject
      BY <2>2, CopyingDirectObjectToIndirectObject
    <2>3. CASE CopyDirectObjectWithDeepCopy
      BY <2>3, CopyingDirectObjectWithDeepCopy
    <2>4. CASE CopyDirectObjectFails
      BY <2>4, CopyingDirectObjectFails
    <2>5. CASE CopyNewObjectsForDirectObject
      BY <2>5, CopyingNewObjectsForDirectObject
    <2>6. CASE CopyResourcesIndirectObjects
      BY <2>6, CopyingResourcesIndirectObjects
    <2>7. CASE OnResourcesWrite
      BY <2>7, WritingResources
    <2>8. CASE ReplaceSourceObjects
      BY <2>8, ReplacingSourceObjects
    <2>9. CASE StopCopyingContext
      BY <2>9, StoppingCopyingContext
    <2>10. CASE EndPDF
      BY <2>10, EndingPDF
    <2>11. CASE Step
      <3>1. CASE SkipCopied
        BY <3>1, SkippingCopied
      <3>2. CASE CopyMissing
        BY <3>2, CopyingMissing
      <3>3. CASE CopyInDirectObject
        BY <3>3, CopyingInDirectObject
      <3>4. CASE CopyStartFails
        BY <3>4, CopyStartFailing
      <3>5. CASE CopyContentFails
        BY <3>5, CopyContentFailing
      <3>6. CASE ReturnToCaller
        BY <3>6, ReturningToCaller
      <3> QED
        BY <2>11, <3>1, <3>2, <3>3, <3>4, <3>5, <3>6 DEF Step
    <2>12. CASE UNCHANGED vars
      BY <2>12, Stuttering
    <2> QED
      BY <2>1, <2>2, <2>3, <2>4, <2>5, <2>6, <2>7, <2>8, <2>9, <2>10, <2>11, <2>12 DEF Next
  <1> QED
    BY <1>1, <1>2, PTL DEF Spec

-----------------------------------------------------------------------------
(***************************************************************************)
(* What the invariant says of the targets, one by one.                     *)
(***************************************************************************)
LEMMA TargetsAreTyped ==
    ASSUME Ledger(map, targets)
    PROVE  /\ Len(targets) \in Nat /\ DOMAIN targets = 1 .. Len(targets)
           /\ \A i \in DOMAIN targets : targets[i] \in TargetType
           /\ \A t \in Elements(targets) : \E i \in DOMAIN targets : t = targets[i]
  BY LenProperties, ElementOfSeq DEF Ledger, Elements

LEMMA InvariantGivesTypes == IInv => TypeOK
  <1> SUFFICES ASSUME IInv PROVE TypeOK
    OBVIOUS
  <1>1. Types /\ Ledger(map, targets) /\ RefsRight(targets)
    BY DEF IInv
  <1>2. /\ Len(targets) \in Nat /\ DOMAIN targets = 1 .. Len(targets)
        /\ \A i \in DOMAIN targets : targets[i] \in TargetType
        /\ \A t \in Elements(targets) : \E i \in DOMAIN targets : t = targets[i]
    BY <1>1, TargetsAreTyped
  <1>3. DOMAIN map \subseteq Objects /\ Elements(map) \subseteq DOMAIN targets
    BY <1>1, <1>2 DEF Ledger, Elements
  <1>4. ASSUME NEW t \in Elements(targets)
        PROVE  /\ t.context \in 1 .. context /\ t.of \in Objects \cup {0}
               /\ t.state \in {"allocated", "written", "truncated", "free", "replacement"}
               /\ t.refs \in Seq(DOMAIN targets)
    <2>1. PICK i \in 1 .. Len(targets) : t = targets[i] /\ t \in TargetType
      BY <1>2, <1>4
    <2>2. targets[i].context \in 1 .. context /\ targets[i].refs \in Seq(1 .. Len(targets))
      BY <1>1, <2>1 DEF Ledger, RefsRight, RefsRightAt
    <2>3. t.of \in Objects \cup {0} /\ t.state \in States
      BY <2>1 DEF TargetType
    <2> QED
      BY <1>2, <2>1, <2>2, <2>3 DEF States
  <1>5. page \in Seq(Objects)
    BY <1>1 DEF Types, References
  <1> QED
    BY <1>1, <1>3, <1>4, <1>5 DEF Types, TypeOK

LEMMA InvariantGivesCopies == IInv => CopiedOnce /\ ListsAreOwed
  <1> SUFFICES ASSUME IInv PROVE CopiedOnce /\ ListsAreOwed
    OBVIOUS
  <1>1. Ledger(map, targets) /\ Lists
    BY DEF IInv
  <1>2. CopiedOnce
    BY <1>1, TargetsAreTyped DEF Ledger, CopiedOnce
  <1>3. \A i \in DOMAIN stack : \A x \in Elements(stack[i]) : x \in Stacked
    <2>1. \A i \in DOMAIN stack : stack[i] \in Elements(stack)
      BY DEF Elements
    <2> QED
      BY <2>1 DEF Stacked, AllOf
  <1>4. \A i \in DOMAIN owed : \A x \in Elements(owed[i]) : x \in Owing
    <2>1. \A i \in DOMAIN owed : owed[i] \in Elements(owed)
      BY DEF Elements
    <2> QED
      BY <2>1 DEF Owing, AllOf
  <1>5. /\ \A x \in Stacked : x \in copied \/ x \notin DOMAIN map \/ x \in Allotted
        /\ \A x \in Owing : x \in Allotted
    BY <1>1 DEF Lists
  <1>6. \A x \in Allotted : x \in DOMAIN map /\ targets[map[x]].state = "allocated"
    BY DEF Allotted, InState
  <1>7. ListsAreOwed
    BY <1>3, <1>4, <1>5, <1>6 DEF ListsAreOwed
  <1> QED
    BY <1>2, <1>7

LEMMA InvariantGivesReferences == IInv => ReferencesReachCopies
  <1> SUFFICES ASSUME IInv, NEW t \in Copies, t.state = "written"
               PROVE  /\ Len(t.refs) = Len(source.refs[t.of])
                      /\ \A i \in DOMAIN t.refs :
                            /\ targets[t.refs[i]].context = context
                            /\ targets[t.refs[i]].of = source.refs[t.of][i]
    BY DEF ReferencesReachCopies
  <1>1. PICK i \in 1 .. Len(targets) : t = targets[i]
    BY TargetsAreTyped DEF IInv, Copies
  <1>2. IsCopy(targets[i]) /\ targets[i].state = "written"
    BY <1>1 DEF Copies, IsCopy
  <1>3. /\ t.refs \in Seq(1 .. Len(targets))
        /\ Len(t.refs) = Len(source.refs[t.of])
        /\ \A j \in 1 .. Len(t.refs) :
            /\ targets[t.refs[j]].context = context
            /\ targets[t.refs[j]].of = source.refs[t.of][j]
    BY <1>1, <1>2 DEF IInv, RefsRight, RefsRightAt
  <1>4. DOMAIN t.refs = 1 .. Len(t.refs)
    BY <1>3, LenProperties
  <1> QED
    BY <1>3, <1>4

LEMMA InvariantForgetsNothing == IInv => NothingForgotten
  <1> SUFFICES ASSUME IInv, ~hadFailure, NEW t \in Elements(targets), t.state = "allocated"
               PROVE  \/ \E i \in DOMAIN stack : t.of \in Elements(stack[i])
                      \/ \E i \in DOMAIN owed : t.of \in Elements(owed[i])
    BY DEF NothingForgotten
  <1>1. PICK i \in 1 .. Len(targets) : t = targets[i] /\ i \in DOMAIN targets
    BY TargetsAreTyped DEF IInv
  <1>2. IsCopy(targets[i])
    BY <1>1 DEF IInv, Outcome, Strays
  <1>3. targets[i].of \in DOMAIN map /\ map[targets[i].of] = i
    BY <1>1, <1>2 DEF IInv, Ledger
  <1>4. t.of \in Allotted
    BY <1>1, <1>3 DEF Allotted, InState
  <1>5. t.of \in Stacked \/ t.of \in Owing
    BY <1>4 DEF IInv, Outcome
  <1>6. \A ss : t.of \in AllOf(ss) => \E j \in DOMAIN ss : t.of \in Elements(ss[j])
    BY DEF AllOf, Elements
  <1> QED
    BY <1>5, <1>6 DEF Stacked, Owing

LEMMA InvariantFindsResources == IInv => PageFindsItsResources
  <1> SUFFICES ASSUME IInv, ~Running PROVE Unmapped(map, page) = <<>>
    BY DEF PageFindsItsResources
  <1>1. page \in Seq(Objects)
    BY DEF IInv, Types, References
  <1>2. Stacked = {}
    BY EmptyLists DEF Running, Stacked
  <1>3. Elements(page) \subseteq DOMAIN map
    BY <1>2 DEF IInv, Lists
  <1> DEFINE list == Unmapped(map, page)
  <1>4. list \in Seq(Objects) /\ Elements(list) = {}
    BY <1>1, <1>3, UnmappedIsRight
  <1> HIDE DEF list
  <1>5. list = <<>>
    <2> SUFFICES ASSUME list # <<>> PROVE FALSE
      OBVIOUS
    <2>1. list \in Seq(Objects)
      BY <1>4
    <2>2. Elements(list) = {Head(list)} \cup Elements(Tail(list))
      BY <2>1, ElementsOfList
    <2> QED
      BY <1>4, <2>2
  <1> QED
    BY <1>5 DEF list

LEMMA InvariantCompletesDocuments == IInv => FinishedDocumentIsComplete
  <1> SUFFICES ASSUME IInv, ended = "finished", ~hadFailure, NEW t \in Copies
               PROVE  \/ t.state \in {"written", "replacement"}
                      \/ t.state = "free" /\ source.status[t.of] = "missing"
    BY DEF FinishedDocumentIsComplete
  <1>1. PICK i \in 1 .. Len(targets) : t = targets[i] /\ i \in DOMAIN targets /\ t \in TargetType
    BY TargetsAreTyped DEF IInv, Copies
  <1>2. t.of \in DOMAIN map /\ map[t.of] = i
    BY <1>1 DEF IInv, Ledger, Copies, IsCopy
  <1>3. \A st : t.state = st => t.of \in InState(st)
    BY <1>1, <1>2 DEF InState
  <1>4. t.state # "allocated" /\ t.state # "truncated"
    BY <1>1, <1>3 DEF IInv, Outcome
  <1>5. t.state = "free" => source.status[t.of] = "missing"
    BY <1>3 DEF IInv, Outcome
  <1>6. t.state \in States
    BY <1>1 DEF TargetType
  <1> QED
    BY <1>4, <1>5, <1>6 DEF States

\* For all source documents, cyclic ones too: there is one copy of each
\* object, what stands on a list is still to be copied, and references lead
\* to the copies of what the source refers to.
THEOREM CopiesStayRight == Spec => []CopiesAreRight
  <1>1. IInv => CopiesAreRight
    BY InvariantGivesTypes, InvariantGivesCopies, InvariantGivesReferences DEF CopiesAreRight
  <1> QED
    BY <1>1, Inductive, PTL

\* Calls that succeeded forget no object: not on the lists, not for a page,
\* not in the finished document.
THEOREM NothingGoesMissing == Spec => []NothingIsMissing
  <1>1. IInv => NothingIsMissing
    BY InvariantForgetsNothing, InvariantFindsResources, InvariantCompletesDocuments
    DEF NothingIsMissing
  <1> QED
    BY <1>1, Inductive, PTL

-----------------------------------------------------------------------------
(***************************************************************************)
(* The refinement of DeepCopy: a call asks at its first step and delivers, *)
(* or fails, at its last.                                                  *)
(***************************************************************************)
Placed == IF Running THEN before.placed ELSE DOMAIN map
Given == IF Running THEN before.delivered ELSE Delivered
Asked == IF Running THEN before.asked ELSE {}

AbstractStutter == UNCHANGED <<source, Placed, Given, ok, Asked>>

LEMMA AbstractVars == AbstractStutter => UNCHANGED Abstract!vars
  BY DEF AbstractStutter, Placed, Given, Asked, Abstract!vars

\* The wanted objects and all that they lead to, placed objects apart.
Closure(wanted) ==
    {o \in Objects : \A S \in SUBSET Objects :
                        wanted \subseteq S /\ Closed(S, Placed) => o \in S}

LEMMA AbstractClosure ==
    ASSUME NEW wanted
    PROVE  Abstract!Closure(wanted) = Closure(wanted)
  BY DEF Abstract!Closure, Closure, Closed, LeadsTo, Abstract!LeadsTo, Abstract!Range,
         Elements, Placed

LEMMA CopiedIsClosure ==
    ASSUME IInv, Running, Stacked = {}
    PROVE  Closure(Asked) = copied
  <1>1. /\ copied \in SUBSET Objects /\ Placed = before.placed /\ Asked = before.asked
        /\ before.asked \subseteq copied
        /\ \A p \in copied : LeadsTo(p) \subseteq copied \cup before.placed
        /\ \A S \in SUBSET Objects :
            before.asked \subseteq S /\ Closed(S, before.placed) => copied \subseteq S
    BY DEF IInv, Types, Progress, Placed, Asked
  <1>2. Closed(copied, before.placed)
    BY <1>1 DEF Closed
  <1> QED
    BY <1>1, <1>2 DEF Closure

LEMMA ImplementsAsk ==
    ASSUME IInv, IInv', ~Running, NEW list \in Seq(Objects), WriteNewObjects(list),
           UNCHANGED <<source, ok>>
    PROVE  Abstract!Next
  <1> DEFINE wanted == Elements(list)
  <1>1. /\ Running' /\ before'.placed = DOMAIN map /\ before'.delivered = Delivered
        /\ before'.asked = wanted /\ source' = source /\ ok' = ok
    BY DEF WriteNewObjects, Running
  <1>2. wanted \subseteq Objects
    BY LenProperties, ElementOfSeq DEF Elements
  <1>3. wanted \cap Delivered = {}
    <2>1. Progress'
      BY DEF IInv
    <2> HIDE DEF wanted
    <2> QED
      BY <1>1, <2>1 DEF Progress
  <1> HIDE DEF wanted
  <1>4. /\ Asked = {} /\ Asked' = wanted /\ Placed' = Placed /\ Given' = Given
    BY <1>1 DEF Asked, Placed, Given
  <1>5. wanted \in SUBSET (Objects \ Given)
    BY <1>2, <1>3 DEF Given
  <1>6. Abstract!Ask(wanted)
    BY <1>1, <1>4 DEF Abstract!Ask, Asked, Placed, Given
  <1> QED
    BY <1>5, <1>6 DEF Abstract!Next, Given

LEMMA ImplementsCopy ==
    ASSUME IInv, ReturnToCaller, Tail(stack) = <<>>
    PROVE  Abstract!Next
  <1>1. /\ Running /\ ~Running' /\ ok' = TRUE /\ Stacked = {}
        /\ UNCHANGED <<source, map, targets>>
    <2>1. /\ Running /\ todo = <<>> /\ stack' = <<>> /\ ok' = TRUE
          /\ UNCHANGED <<source, map, targets>>
      BY DEF ReturnToCaller, Succeed
    <2>2. AllOf(stack) = Elements(Head(stack)) \cup AllOf(Tail(stack))
      BY <2>1, AllOfStack DEF IInv, Types, Running
    <2> QED
      BY <2>1, <2>2, EmptyLists DEF todo, Stacked, Running
  <1>2. Closure(Asked) = copied
    BY <1>1, CopiedIsClosure
  <1>3. /\ before.placed \subseteq DOMAIN map /\ DOMAIN map \subseteq before.placed \cup copied
        /\ Delivered = before.delivered \cup copied /\ Delivered \subseteq DOMAIN map
        /\ \A p \in copied : source.status[p] # "broken"
    BY <1>1 DEF IInv, Progress, Delivered
  <1>4. /\ Placed' = DOMAIN map /\ Given' = Delivered /\ Asked' = {}
        /\ Placed = before.placed /\ Given = before.delivered
    BY <1>1 DEF Placed, Given, Asked, Delivered
  <1>5. /\ Placed' = Placed \cup Closure(Asked) /\ Given' = Given \cup Closure(Asked)
        /\ \A o \in Closure(Asked) : source.status[o] # "broken"
    BY <1>2, <1>3, <1>4
  <1>6. Abstract!Copy
    <2>1. Abstract!Closure(Asked) = Closure(Asked)
      BY AbstractClosure
    <2> QED
      BY <1>1, <1>4, <1>5, <2>1 DEF Abstract!Copy, Placed, Given, Asked
  <1> QED
    BY <1>6 DEF Abstract!Next

LEMMA ImplementsFail ==
    ASSUME IInv, IInv', OnlyGrows, Fail, UNCHANGED source
    PROVE  Abstract!Next
  <1> DEFINE more == DOMAIN map'
             done == Delivered'
  <1>1. /\ more \in SUBSET Objects /\ done \subseteq more
    BY DEF IInv, Ledger, Delivered
  <1>2. /\ Placed' = more /\ Given' = done /\ Asked' = {}
        /\ DOMAIN map \subseteq more /\ Delivered \subseteq done
    BY DEF OnlyGrows, Placed, Given, Asked
  <1>3. Placed \subseteq DOMAIN map /\ Given \subseteq Delivered
    BY DEF IInv, Progress, Placed, Given
  <1> HIDE DEF more, done
  <1>4. Placed' = Placed \cup more /\ Given' = Given \cup done /\ done \subseteq Placed \cup more
    BY <1>1, <1>2, <1>3
  <1>5. ok' = FALSE /\ source' = source /\ done \in SUBSET Objects
    BY <1>1 DEF Fail
  <1>6. Abstract!Fail
    BY <1>1, <1>2, <1>4, <1>5 DEF Abstract!Fail, Placed, Given, Asked
  <1> QED
    BY <1>6 DEF Abstract!Next

LEMMA ImplementsPromise ==
    ASSUME IInv, IInv', NEW S, OnlyMaps(S), ok' = TRUE, UNCHANGED source
    PROVE  Abstract!Next
  <1> DEFINE refs == DOMAIN map' \ DOMAIN map
  <1>1. /\ refs \in SUBSET (Objects \ Delivered) /\ DOMAIN map' = DOMAIN map \cup refs
        /\ Delivered' = Delivered /\ ~Running /\ ~Running'
    BY DEF IInv, Ledger, OnlyMaps, Delivered
  <1> HIDE DEF refs
  <1>2. /\ Placed = DOMAIN map /\ Placed' = Placed \cup refs
        /\ Given = Delivered /\ Given' = Given /\ Asked = {} /\ Asked' = {}
    BY <1>1 DEF Placed, Given, Asked
  <1>3. Abstract!Promise(refs)
    BY <1>2 DEF Abstract!Promise, Placed, Given, Asked
  <1>4. refs \in SUBSET (Objects \ Given)
    BY <1>1, <1>2
  <1> QED
    BY <1>3, <1>4 DEF Abstract!Next, Given

LEMMA ImplementsReplace ==
    ASSUME IInv, ReplaceSourceObjects
    PROVE  Abstract!Next
  <1>1. PICK o \in Objects \ DOMAIN map :
            DOMAIN map' = DOMAIN map \cup {o} /\ Delivered' = Delivered \cup {o}
    BY ReplacingSourceObjects
  <1>2. ~Running /\ ~Running'
    BY ReplacingSourceObjects
  <1>3. /\ Placed = DOMAIN map /\ Placed' = Placed \cup {o} /\ Given' = Given \cup {o}
        /\ Asked = {} /\ Asked' = {}
    BY <1>1, <1>2 DEF Placed, Given, Asked
  <1>4. Abstract!Replace(o)
    BY <1>1, <1>3 DEF Abstract!Replace, Placed, Given, Asked, ReplaceSourceObjects
  <1> QED
    BY <1>4 DEF Abstract!Next

LEMMA ImplementsRestart ==
    ASSUME IInv, StopCopyingContext
    PROVE  Abstract!Next
  <1>1. /\ ~Running /\ ~Running' /\ DOMAIN map' = {} /\ Delivered' = {}
        /\ source' \in Sources /\ ok' = ok
    BY StoppingCopyingContext DEF StopCopyingContext
  <1>2. Placed' = {} /\ Given' = {} /\ Asked = {} /\ Asked' = {}
    BY <1>1 DEF Placed, Given, Asked
  <1>3. Abstract!Restart
    BY <1>1, <1>2 DEF Abstract!Restart, Placed, Given, Asked
  <1> QED
    BY <1>3 DEF Abstract!Next

\* Inner steps of a call, and steps between calls that give no ID.
LEMMA ImplementsStutter ==
    ASSUME UNCHANGED <<source, ok>>,
           \/ Running /\ Running' /\ before' = before
           \/ ~Running /\ ~Running' /\ DOMAIN map' = DOMAIN map /\ Delivered' = Delivered
    PROVE  UNCHANGED Abstract!vars
  <1>1. UNCHANGED <<Placed, Given, Asked>>
    BY DEF Placed, Given, Asked
  <1> QED
    BY <1>1, AbstractVars DEF AbstractStutter

LEMMA CallsImplement ==
    ASSUME IInv, IInv', MayCall, UNCHANGED <<source, ok>>,
           \E l \in Seq(Objects) : WriteNewObjects(l)
    PROVE  Abstract!Next
  BY ImplementsAsk DEF MayCall

LEMMA StepsImplement ==
    ASSUME IInv, IInv', Step
    PROVE  Abstract!Next \/ UNCHANGED Abstract!vars
  <1>1. CASE SkipCopied
    BY <1>1, SkippingCopied, ImplementsStutter DEF SkipCopied, IsNext
  <1>2. CASE CopyMissing
    BY <1>2, CopyingMissing, ImplementsStutter DEF CopyMissing, IsNext
  <1>3. CASE CopyInDirectObject
    BY <1>3, CopyingInDirectObject, ImplementsStutter DEF CopyInDirectObject, IsNext
  <1>4. CASE CopyStartFails
    BY <1>4, CopyStartFailing, ImplementsFail DEF CopyStartFails, GiveUp
  <1>5. CASE CopyContentFails
    BY <1>5, CopyContentFailing, ImplementsFail DEF CopyContentFails, GiveUp
  <1>6. CASE ReturnToCaller
    <2>1. CASE Tail(stack) = <<>>
      BY <1>6, <2>1, ImplementsCopy
    <2>2. CASE Tail(stack) # <<>>
      BY <1>6, <2>2, ImplementsStutter DEF ReturnToCaller, Running
    <2> QED
      BY <2>1, <2>2
  <1> QED
    BY <1>1, <1>2, <1>3, <1>4, <1>5, <1>6 DEF Step

LEMMA EverythingImplements ==
    ASSUME IInv, IInv', [Next]_vars
    PROVE  Abstract!Next \/ UNCHANGED Abstract!vars
  <1>1. CASE CopyObject
    BY <1>1, CopyingObject, CallsImplement DEF CopyObject
  <1>2. CASE CopyDirectObjectToIndirectObject
    BY <1>2, CopyingDirectObjectToIndirectObject, CallsImplement
    DEF CopyDirectObjectToIndirectObject
  <1>3. CASE CopyNewObjectsForDirectObject
    BY <1>3, CopyingNewObjectsForDirectObject, CallsImplement DEF CopyNewObjectsForDirectObject
  <1>4. CASE CopyResourcesIndirectObjects
    BY <1>4, CopyingResourcesIndirectObjects, CallsImplement DEF CopyResourcesIndirectObjects
  <1>5. CASE CopyDirectObjectWithDeepCopy
    BY <1>5, CopyingDirectObjectWithDeepCopy, ImplementsPromise
    DEF CopyDirectObjectWithDeepCopy, Succeed
  <1>6. CASE CopyDirectObjectFails
    BY <1>6, CopyingDirectObjectFails, ImplementsFail
    DEF CopyDirectObjectFails, OnlyMaps, OnlyGrows
  <1>7. CASE OnResourcesWrite
    BY <1>7, WritingResources, ImplementsStutter DEF OnResourcesWrite, OnlyMaps
  <1>8. CASE ReplaceSourceObjects
    BY <1>8, ImplementsReplace
  <1>9. CASE StopCopyingContext
    BY <1>9, ImplementsRestart
  <1>10. CASE EndPDF
    BY <1>10, ImplementsStutter DEF EndPDF, Delivered, Running
  <1>11. CASE Step
    BY <1>11, StepsImplement
  <1>12. CASE UNCHANGED vars
    BY <1>12, ImplementsStutter DEF vars, Delivered, Running
  <1> QED
    BY <1>1, <1>2, <1>3, <1>4, <1>5, <1>6, <1>7, <1>8, <1>9, <1>10, <1>11, <1>12 DEF Next

LEMMA StartsAbstractly == Init => Abstract!Init
  <1> SUFFICES ASSUME Init PROVE Abstract!Init
    OBVIOUS
  <1>1. /\ source \in Sources /\ map = <<>> /\ ok = TRUE /\ ~Running
    BY DEF Init, Running
  <1>2. DOMAIN map = {} /\ Delivered = {}
    BY <1>1 DEF Delivered
  <1> QED
    BY <1>1, <1>2 DEF Abstract!Init

\* A call that succeeds has delivered what it was asked for and all that this
\* leads to, and nothing else: copying implements DeepCopy.
THEOREM CopyingImplementsDeepCopy == Spec => ImplementsDeepCopy
  <1>1. IInv /\ IInv' /\ [Next]_vars => [Abstract!Next]_(Abstract!vars)
    BY EverythingImplements
  <1> QED
    BY <1>1, Inductive, StartsAbstractly, PTL DEF Spec, ImplementsDeepCopy, Abstract!Spec

=============================================================================

------------------------ MODULE ContentStreamProofs ------------------------
(***************************************************************************)
(* What goes into a content stream and what comes of it in the file.  A    *)
(* context that pairs its q's and Q's shows every text in its font: what   *)
(* it believes to be placed is what the viewer has, level by level, so a   *)
(* Tf that it leaves out was not needed.  And the encoders of a stream,    *)
(* over any buffer, block and cache and a device that may fail, leave      *)
(* nothing out of it, repeat nothing and tell of every loss they can.      *)
(***************************************************************************)
EXTENDS ContentContext, StreamWriting, SequenceTheorems, WellFoundedInduction, TLAPS

-----------------------------------------------------------------------------
(* Pushing copies the last state and keeps the others.                     *)
LEMMA PushKeeps ==
    ASSUME NEW S, NEW s \in Seq(S), s # <<>>
    PROVE  /\ Push(s) \in Seq(S) /\ Push(s) # <<>>
           /\ Len(Push(s)) = Len(s) + 1
           /\ \A i \in 1 .. Len(s) : Push(s)[i] = s[i]
           /\ Push(s)[Len(s) + 1] = s[Len(s)]
  <1>1. Len(s) \in Nat \ {0}
    BY EmptySeq
  <1>2. s[Len(s)] \in S
    BY <1>1, ElementOfSeq
  <1> QED
    BY <1>1, <1>2, AppendProperties, EmptySeq DEF Push

(* Popping takes the last state away, unless it is the only one.           *)
LEMMA PopKeeps ==
    ASSUME NEW S, NEW s \in Seq(S), s # <<>>
    PROVE  /\ Pop(s) \in Seq(S) /\ Pop(s) # <<>>
           /\ Len(s) > 1 => Len(Pop(s)) = Len(s) - 1
           /\ \A i \in 1 .. Len(Pop(s)) : i \in 1 .. Len(s) /\ Pop(s)[i] = s[i]
  <1>1. Len(s) \in Nat \ {0}
    BY EmptySeq
  <1>2. CASE Len(s) = 1
    <2> DEFINE t == Pop(s)
    <2>1. t = s
      BY <1>2 DEF Pop
    <2> HIDE DEF t
    <2>2. t \in Seq(S) /\ t # <<>>
      BY <2>1
    <2>3. ~(Len(s) > 1)
      BY <1>2
    <2>4. \A i \in 1 .. Len(t) : i \in 1 .. Len(s) /\ t[i] = s[i]
      BY <2>1, Zenon
    <2> QED
      BY <2>2, <2>3, <2>4 DEF t
  <1>3. CASE Len(s) # 1
    <2> DEFINE n == Len(s) - 1
               t == SubSeq(s, 1, n)
    <2>1. n \in Nat \ {0} /\ \A i \in 1 .. n : i \in 1 .. Len(s) /\ s[i] \in S
      BY <1>1, <1>3, ElementOfSeq
    <2>2. Pop(s) = t
      BY <1>3 DEF Pop
    <2> HIDE DEF n
    <2>3. /\ t \in Seq(S)
          /\ Len(t) = IF 1 <= n THEN n - 1 + 1 ELSE 0
          /\ \A i \in 1 .. n - 1 + 1 : t[i] = s[1 + i - 1]
      BY <2>1, SubSeqProperties
    <2>4. n - 1 + 1 = n /\ 1 <= n
      BY <2>1
    <2>5. Len(t) = n
      BY <2>3, <2>4
    <2>6. \A i \in 1 .. n : t[i] = s[i]
      BY <2>3, <2>4
    <2> HIDE DEF t
    <2>7. t # <<>>
      BY <2>1, <2>3, <2>5, EmptySeq
    <2> QED
      BY <1>1, <2>1, <2>2, <2>3, <2>5, <2>6, <2>7 DEF n
  <1> QED
    BY <1>2, <1>3

(* Changing the last element keeps the others.                             *)
LEMMA LastChanged ==
    ASSUME NEW S, NEW s \in Seq(S), s # <<>>, NEW e \in S
    PROVE  LET t == [s EXCEPT ![Len(s)] = e]
           IN  /\ t \in Seq(S) /\ t # <<>>
               /\ Len(t) = Len(s)
               /\ t[Len(s)] = e
               /\ \A i \in 1 .. Len(s) : i # Len(s) => t[i] = s[i]
  <1> DEFINE t == [s EXCEPT ![Len(s)] = e]
  <1>1. Len(s) \in Nat \ {0} /\ Len(s) \in 1 .. Len(s)
    BY EmptySeq
  <1>2. /\ t \in Seq(S) /\ Len(t) = Len(s)
        /\ \A j \in 1 .. Len(s) : t[j] = IF j = Len(s) THEN e ELSE s[j]
    BY <1>1, ExceptSeq
  <1>3. t # <<>>
    BY <1>1, <1>2, EmptySeq
  <1> QED
    BY <1>1, <1>2, <1>3

LEMMA TopTyped ==
    ASSUME TypeOK
    PROVE  /\ Len(stack) \in Nat \ {0} /\ Len(viewer) \in Nat \ {0}
           /\ Current \in GraphicState /\ Viewed \in ViewerState
  <1>1. Len(stack) \in Nat \ {0} /\ Len(viewer) \in Nat \ {0}
    BY EmptySeq DEF TypeOK
  <1> QED
    BY <1>1, ElementOfSeq DEF TypeOK, Current, Viewed

(* The name of an object, old or new, is a name, and never the empty one.  *)
LEMMA NameTyped ==
    ASSUME TypeOK, NEW o \in FontObjects, Named(o) \/ fontsCount < MaxNames
    PROVE  /\ NameOf(o) \in UserNames \cup 1 .. Counted(o)
           /\ Counted(o) \in fontsCount .. MaxNames
           /\ NameOf(o) \in Names /\ NameOf(o) # Nothing
  <1> USE ContentContextAssumption
  <1>1. fontsCount \in Nat /\ fontsCount <= MaxNames
    BY DEF TypeOK
  <1>2. CASE Named(o)
    <2>1. fonts[o] \in UserNames \cup 1 .. fontsCount
      BY <1>2 DEF TypeOK, Named
    <2> QED
      BY <1>1, <1>2, <2>1 DEF NameOf, Counted, Names
  <1>3. CASE ~Named(o)
    BY <1>1, <1>3 DEF NameOf, Counted, Names
  <1> QED
    BY <1>2, <1>3

-----------------------------------------------------------------------------
(* The types survive a change of the context's state alone.                *)
LEMMA StateTyped ==
    ASSUME TypeOK, NEW g \in GraphicState, stack' = WithCurrent(g),
           UNCHANGED <<viewer, fonts, fontsCount, shown, namings, failed>>
    PROVE  TypeOK'
  <1>1. stack' \in Seq(GraphicState) /\ stack' # <<>>
    BY LastChanged DEF TypeOK, WithCurrent
  <1> QED
    BY <1>1 DEF TypeOK

LEMMA ShowTyped ==
    ASSUME TypeOK, NEW o \in FontObjects, Show(o)
    PROVE  TypeOK'
  <1> USE ContentContextAssumption
  <1>1. /\ Current \in GraphicState /\ Viewed \in ViewerState
    BY TopTyped
  <1>2. /\ NameOf(o) \in UserNames \cup 1 .. Counted(o)
        /\ Counted(o) \in fontsCount .. MaxNames /\ NameOf(o) \in Names
    BY NameTyped DEF Show
  <1>3. Current.size \in Sizes \cup {Nothing}
    BY <1>1 DEF GraphicState
  <1>4. stack' \in Seq(GraphicState) /\ stack' # <<>>
    <2>1. [Current EXCEPT !.placedName = NameOf(o), !.placedSize = Current.size] \in GraphicState
      BY <1>1, <1>2, <1>3 DEF GraphicState
    <2>2. CASE NeedsTf(o)
      BY <2>1, <2>2, LastChanged DEF TypeOK, Show, Placed, WithCurrent
    <2>3. CASE ~NeedsTf(o)
      BY <2>3 DEF TypeOK, Show
    <2> QED
      BY <2>2, <2>3
  <1>5. ViewedFor(o) \in ViewerState
    BY <1>1, <1>2, <1>3 DEF ViewedFor, ViewerState
  <1>6. viewer' \in Seq(ViewerState) /\ viewer' # <<>>
    BY <1>5, LastChanged DEF TypeOK, Show, WithViewed
  <1>7. fontsCount' \in 0 .. MaxNames /\ fontsCount' = Counted(o)
    BY <1>2 DEF TypeOK, Show
  <1>8. /\ DOMAIN fonts' = DOMAIN fonts \cup {o}
        /\ fonts' \in [DOMAIN fonts' -> UserNames \cup 1 .. fontsCount']
    <2>1. DOMAIN fonts' = DOMAIN fonts \cup {o}
      BY DEF Show, WithName
    <2>2. \A p \in DOMAIN fonts : fonts[p] \in UserNames \cup 1 .. Counted(o)
      BY <1>2 DEF TypeOK
    <2>3. \A p \in DOMAIN fonts \cup {o} :
             (IF p = o THEN NameOf(o) ELSE fonts[p]) \in UserNames \cup 1 .. Counted(o)
      BY <1>2, <2>2
    <2> QED
      BY <1>7, <2>1, <2>3 DEF Show, WithName
  <1> DEFINE t == [object |-> o, asked |-> NameOf(o), size |-> Current.size,
                   name |-> ViewedFor(o).name, viewedSize |-> ViewedFor(o).size]
  <1>9. t \in Text /\ t.object = o /\ o \in DOMAIN fonts'
    BY <1>2, <1>3, <1>5, <1>8 DEF Text, ViewerState
  <1>10. shown' \in {shown, t} /\ UNCHANGED <<namings, failed>>
    BY DEF Show
  <1> HIDE DEF t
  <1>11. shown' = Nothing \/ (shown' \in Text /\ shown'.object \in DOMAIN fonts')
    BY <1>8, <1>9, <1>10 DEF TypeOK
  <1>12. DOMAIN fonts' \subseteq FontObjects
    BY <1>8 DEF TypeOK
  <1> QED
    BY <1>4, <1>6, <1>7, <1>8, <1>10, <1>11, <1>12 DEF TypeOK

LEMMA InitTyped == Init => TypeOK
  <1> SUFFICES ASSUME Init PROVE TypeOK
    OBVIOUS
  <1> USE ContentContextAssumption
  <1>1. InitialState \in GraphicState /\ [name |-> Nothing, size |-> Nothing] \in ViewerState
    BY DEF InitialState, GraphicState, ViewerState, Names
  <1>2. stack \in Seq(GraphicState) /\ stack # <<>>
    BY <1>1 DEF Init
  <1>3. viewer \in Seq(ViewerState) /\ viewer # <<>>
    BY <1>1 DEF Init
  <1>4. DOMAIN fonts = {} /\ fonts \in [DOMAIN fonts -> UserNames \cup 1 .. fontsCount]
    BY DEF Init
  <1>5. /\ fontsCount \in 0 .. MaxNames /\ failed \in BOOLEAN /\ shown = Nothing
        /\ namings \subseteq FontObjects \X UserNames
    <2>1. fontsCount = 0 /\ failed = FALSE /\ shown = Nothing /\ namings = {}
      BY Zenon DEF Init
    <2>2. failed \in BOOLEAN /\ shown = Nothing /\ namings \subseteq FontObjects \X UserNames
      BY <2>1, Zenon
    <2>3. fontsCount \in 0 .. MaxNames
      BY <2>1
    <2> QED
      BY <2>2, <2>3
  <1>6. DOMAIN fonts \subseteq FontObjects
    BY <1>4
  <1> QED
    BY <1>2, <1>3, <1>4, <1>5, <1>6 DEF TypeOK

LEMMA StepTyped == TypeOK /\ [Next]_contentVars => TypeOK'
  <1> SUFFICES ASSUME TypeOK, [Next]_contentVars PROVE TypeOK'
    OBVIOUS
  <1> USE ContentContextAssumption
  <1>0. Current \in GraphicState /\ Viewed \in ViewerState
    BY TopTyped
  <1>1. CASE q
    <2>1. stack' \in Seq(GraphicState) /\ stack' # <<>>
      BY <1>1, PushKeeps DEF q, TypeOK
    <2>2. viewer' \in Seq(ViewerState) /\ viewer' # <<>>
      BY <1>1, PushKeeps DEF q, TypeOK
    <2> QED
      BY <1>1, <2>1, <2>2 DEF q, TypeOK
  <1>2. CASE Q
    <2>1. stack' \in Seq(GraphicState) /\ stack' # <<>>
      BY <1>2, PopKeeps DEF Q, TypeOK
    <2>2. viewer' \in Seq(ViewerState) /\ viewer' # <<>>
      BY <1>2, PopKeeps DEF Q, TypeOK
    <2> QED
      BY <1>2, <2>1, <2>2 DEF Q, TypeOK
  <1>3. ASSUME NEW f \in Fonts, SetCurrentFont(f) PROVE TypeOK'
    <2>1. [Current EXCEPT !.font = f] \in GraphicState
      BY <1>0 DEF GraphicState
    <2> QED
      BY <1>3, <2>1, StateTyped DEF SetCurrentFont
  <1>4. ASSUME NEW size \in Sizes, SetCurrentFontSize(size) PROVE TypeOK'
    <2>1. [Current EXCEPT !.size = size] \in GraphicState
      BY <1>0 DEF GraphicState
    <2> QED
      BY <1>4, <2>1, StateTyped DEF SetCurrentFontSize
  <1>5. ASSUME NEW f \in Fonts, NEW size \in Sizes, Tf(f, size) PROVE TypeOK'
    <2>1. [Current EXCEPT !.font = f, !.size = size] \in GraphicState
      BY <1>0 DEF GraphicState
    <2> QED
      BY <1>5, <2>1, StateTyped DEF Tf
  <1>6. ASSUME NEW name \in UserNames, NEW size \in Sizes, TfLow(name, size) PROVE TypeOK'
    <2>1. [Current EXCEPT !.placedName = name, !.placedSize = size] \in GraphicState
      BY <1>0 DEF GraphicState, Names
    <2>2. [Viewed EXCEPT !.name = name, !.size = size] \in ViewerState
      BY <1>0 DEF ViewerState, Names
    <2>3. stack' \in Seq(GraphicState) /\ stack' # <<>>
      BY <1>6, <2>1, LastChanged DEF TfLow, Placed, WithCurrent, TypeOK
    <2>4. viewer' \in Seq(ViewerState) /\ viewer' # <<>>
      BY <1>6, <2>2, LastChanged DEF TfLow, WithViewed, TypeOK
    <2> QED
      BY <1>6, <2>3, <2>4 DEF TfLow, TypeOK
  <1>7. ASSUME NEW o \in FontObjects, NEW name \in UserNames, AddFontMappingNamed(o, name)
        PROVE  TypeOK'
    <2>1. /\ DOMAIN fonts' = DOMAIN fonts \cup {o}
          /\ fonts' \in [DOMAIN fonts' -> UserNames \cup 1 .. fontsCount]
      BY <1>7 DEF AddFontMappingNamed, WithName, TypeOK
    <2>2. namings' \subseteq FontObjects \X UserNames
      BY <1>7 DEF AddFontMappingNamed, TypeOK
    <2>3. shown' = Nothing \/ (shown' \in Text /\ shown'.object \in DOMAIN fonts')
      BY <1>7, <2>1 DEF AddFontMappingNamed, TypeOK
    <2> QED
      BY <1>7, <2>1, <2>2, <2>3 DEF AddFontMappingNamed, TypeOK
  <1>8. CASE ReserveFontName
    <2>1. fontsCount' \in 0 .. MaxNames /\ fontsCount <= fontsCount' /\ fontsCount \in Nat
      BY <1>8 DEF ReserveFontName, TypeOK
    <2>2. fonts' \in [DOMAIN fonts' -> UserNames \cup 1 .. fontsCount']
      BY <1>8, <2>1 DEF ReserveFontName, TypeOK
    <2> QED
      BY <1>8, <2>1, <2>2 DEF ReserveFontName, TypeOK
  <1>9. CASE Tj
    <2>1. CASE NoFont
      BY <2>1 DEF NoFont, TypeOK
    <2>2. CASE Current.font # Nothing /\ \E o \in ObjectsOf[Current.font] : Show(o)
      <3>1. PICK o \in ObjectsOf[Current.font] : Show(o)
        BY <2>2
      <3>2. o \in FontObjects
        BY <1>0, <2>2 DEF GraphicState, FontObjects
      <3> QED
        BY <3>1, <3>2, ShowTyped
    <2> QED
      BY <1>9, <2>1, <2>2 DEF Tj
  <1>10. CASE TJ
    BY <1>9, <1>10 DEF Tj, TJ
  <1>11. CASE EndAndStartPageContentContext
    <2>1. InitialState \in GraphicState
      BY DEF InitialState, GraphicState, Names
    <2>2. stack' \in Seq(GraphicState) /\ stack' # <<>>
      BY <1>11, <2>1 DEF EndAndStartPageContentContext
    <2> QED
      BY <1>11, <2>2 DEF EndAndStartPageContentContext, TypeOK
  <1>12. CASE UNCHANGED contentVars
    BY <1>12 DEF contentVars, TypeOK
  <1> QED
    BY <1>1, <1>2, <1>3, <1>4, <1>5, <1>6, <1>7, <1>8, <1>9, <1>10, <1>11, <1>12 DEF Next

(***************************************************************************)
(* Stacks, names, counters and texts keep their types, also when q's and   *)
(* Q's are not paired.                                                     *)
(***************************************************************************)
THEOREM TypesHold == Spec => []TypeOK
  BY InitTyped, StepTyped, PTL DEF Spec

-----------------------------------------------------------------------------
(***************************************************************************)
(* What is known of names: a name comes from the dictionary's counter or   *)
(* from the program; two objects share one only if the program gave it to  *)
(* one of them; and the name of a text is one of the counter's or one that *)
(* the program gave to the object of the text.                             *)
(***************************************************************************)
Generated(name) == name \in 1 .. fontsCount

Given(o, name) == <<o, name>> \in namings

NamesHaveSource == \A o \in DOMAIN fonts : Generated(fonts[o]) \/ Given(o, fonts[o])

SharedAreGiven ==
    \A o, p \in DOMAIN fonts :
      o # p /\ fonts[o] = fonts[p] => Given(o, fonts[o]) \/ Given(p, fonts[p])

TextHasSource ==
    shown # Nothing => Generated(shown.asked) \/ Given(shown.object, shown.asked)

NamesInv ==
    TypeOK /\ NamesHaveSource /\ SharedAreGiven /\ TextHasSource /\ NamesDenoteOne

LEMMA InitNames == Init => NamesInv
  <1> SUFFICES ASSUME Init PROVE NamesInv
    OBVIOUS
  <1>1. TypeOK
    BY InitTyped
  <1>2. DOMAIN fonts = {}
    BY DEF Init
  <1>3. shown = Nothing
    BY Zenon DEF Init
  <1> QED
    BY <1>1, <1>2, <1>3
       DEF NamesInv, NamesHaveSource, SharedAreGiven, TextHasSource, NamesDenoteOne

(* Where no object is named, what is known of names stays.                 *)
LEMMA NamesStay ==
    ASSUME NamesInv, TypeOK', UNCHANGED <<fonts, shown, namings>>,
           fontsCount' \in Nat, fontsCount <= fontsCount'
    PROVE  NamesInv'
  <1>1. \A name : Generated(name) => Generated(name)'
    BY DEF Generated, NamesInv, TypeOK
  <1> QED
    BY <1>1
       DEF NamesInv, NamesHaveSource, SharedAreGiven, TextHasSource, NamesDenoteOne, Given

(* A program that names an object breaks only what it gives the name for.  *)
LEMMA GivingKeeps ==
    ASSUME NamesInv, TypeOK', NEW o \in FontObjects, NEW name \in UserNames,
           AddFontMappingNamed(o, name)
    PROVE  NamesInv'
  <1>1. /\ DOMAIN fonts' = DOMAIN fonts \cup {o} /\ fonts'[o] = name
        /\ \A p \in DOMAIN fonts : p # o => fonts'[p] = fonts[p]
    BY DEF AddFontMappingNamed, WithName
  <1>2. /\ namings' = namings \cup {<<o, name>>} /\ fontsCount' = fontsCount /\ shown' = shown
    BY DEF AddFontMappingNamed
  <1>3. (\A p, n : Given(p, n) => Given(p, n)') /\ Given(o, name)'
    BY <1>2 DEF Given
  <1>4. \A n : Generated(n) => Generated(n)'
    BY <1>2 DEF Generated
  <1>5. NamesHaveSource'
    BY <1>1, <1>3, <1>4 DEF NamesInv, NamesHaveSource
  <1>6. SharedAreGiven'
    BY <1>1, <1>3 DEF NamesInv, SharedAreGiven
  <1>7. TextHasSource'
    BY <1>2, <1>3, <1>4 DEF NamesInv, TextHasSource
  <1>8. NamesDenoteOne'
    <2> SUFFICES ASSUME shown # Nothing, NEW p \in DOMAIN fonts'
                 PROVE  \/ fonts'[p] = shown.asked <=> p = shown.object
                        \/ <<p, fonts'[p]>> \in namings'
                        \/ /\ p # shown.object
                           /\ shown.asked \in Nat /\ <<shown.object, shown.asked>> \in namings'
      BY <1>2 DEF NamesDenoteOne
    <2>1. CASE p = o
      BY <1>1, <1>2, <2>1
    <2>2. CASE p # o
      BY <1>1, <1>2, <2>2 DEF NamesInv, NamesDenoteOne
    <2> QED
      BY <2>1, <2>2
  <1> QED
    BY <1>5, <1>6, <1>7, <1>8 DEF NamesInv

(***************************************************************************)
(* Showing a text names its object at most with the counter's next number, *)
(* which only names that a program gave can equal.                         *)
(***************************************************************************)
LEMMA ShowingKeeps ==
    ASSUME NamesInv, TypeOK', NEW o \in FontObjects, Show(o)
    PROVE  NamesInv'
  <1>0. TypeOK /\ fontsCount \in Nat
    BY DEF NamesInv, TypeOK
  <1>1. /\ DOMAIN fonts' = DOMAIN fonts \cup {o} /\ fonts'[o] = NameOf(o)
        /\ \A p \in DOMAIN fonts : p # o => fonts'[p] = fonts[p]
        /\ namings' = namings
    BY DEF Show, WithName
  <1>2. /\ fontsCount' \in Nat /\ fontsCount <= fontsCount' /\ fontsCount' = Counted(o)
    BY <1>0, NameTyped DEF Show, TypeOK
  <1>3. (\A p, n : Given(p, n)' <=> Given(p, n)) /\ \A n : Generated(n) => Generated(n)'
    BY <1>0, <1>1, <1>2 DEF Given, Generated
  <1>4. NameOf(o) \in 1 .. fontsCount' \/ Given(o, NameOf(o))
    <2>1. CASE Named(o)
      <3>1. NameOf(o) = fonts[o] /\ o \in DOMAIN fonts
        BY <2>1 DEF Named, NameOf
      <3>2. Generated(fonts[o]) \/ Given(o, fonts[o])
        BY <3>1 DEF NamesInv, NamesHaveSource
      <3> QED
        BY <1>0, <1>2, <3>1, <3>2 DEF Generated
    <2>2. CASE ~Named(o)
      <3>1. NameOf(o) = fontsCount + 1 /\ fontsCount' = fontsCount + 1
        BY <1>2, <2>2 DEF NameOf, Counted
      <3> QED
        BY <1>0, <3>1
    <2> QED
      BY <2>1, <2>2
  <1>5. ASSUME NEW p \in DOMAIN fonts, p # o, fonts[p] = NameOf(o)
        PROVE  Given(o, NameOf(o)) \/ Given(p, fonts[p])
    <2>1. CASE Named(o)
      BY <1>5, <2>1 DEF Named, NameOf, NamesInv, SharedAreGiven
    <2>2. CASE ~Named(o)
      <3>1. ~Generated(fonts[p])
        BY <1>0, <1>5, <2>2 DEF NameOf, Generated
      <3> QED
        BY <3>1 DEF NamesInv, NamesHaveSource
    <2> QED
      BY <2>1, <2>2
  <1>6. NamesHaveSource'
    <2> SUFFICES ASSUME NEW p \in DOMAIN fonts'
                 PROVE  fonts'[p] \in 1 .. fontsCount' \/ Given(p, fonts'[p])
      BY <1>1 DEF NamesHaveSource, Generated, Given
    <2>1. CASE p = o
      BY <1>1, <1>4, <2>1
    <2>2. CASE p # o
      <3>1. p \in DOMAIN fonts /\ fonts'[p] = fonts[p]
        BY <1>1, <2>2
      <3>2. Generated(fonts[p]) \/ Given(p, fonts[p])
        BY <3>1 DEF NamesInv, NamesHaveSource
      <3> QED
        BY <1>0, <1>2, <3>1, <3>2 DEF Generated
    <2> QED
      BY <2>1, <2>2
  <1>7. SharedAreGiven'
    <2> SUFFICES ASSUME NEW a \in DOMAIN fonts', NEW b \in DOMAIN fonts',
                        a # b, fonts'[a] = fonts'[b]
                 PROVE  Given(a, fonts'[a]) \/ Given(b, fonts'[b])
      BY <1>3 DEF SharedAreGiven
    <2>1. CASE a = o
      BY <1>1, <1>5, <2>1
    <2>2. CASE b = o
      BY <1>1, <1>5, <2>2
    <2>3. CASE a # o /\ b # o
      BY <1>1, <2>3 DEF NamesInv, SharedAreGiven
    <2> QED
      BY <2>1, <2>2, <2>3
  <1> DEFINE t == [object |-> o, asked |-> NameOf(o), size |-> Current.size,
                   name |-> ViewedFor(o).name, viewedSize |-> ViewedFor(o).size]
  <1>8. t.object = o /\ t.asked = NameOf(o) /\ shown' \in {shown, t}
    BY DEF Show
  <1> HIDE DEF t
  <1>9. CASE shown' = t
    <2>1. TextHasSource'
      BY <1>3, <1>4, <1>8, <1>9 DEF TextHasSource, Generated
    <2>2. ASSUME NEW p \in DOMAIN fonts', p # o, fonts'[p] = NameOf(o), ~Given(p, fonts'[p])
          PROVE  NameOf(o) \in Nat /\ Given(o, NameOf(o))
      <3>1. p \in DOMAIN fonts /\ fonts'[p] = fonts[p]
        BY <1>1, <2>2
      <3>2. Generated(fonts[p])
        BY <2>2, <3>1 DEF NamesInv, NamesHaveSource
      <3>3. Given(o, NameOf(o))
        BY <1>5, <2>2, <3>1
      <3> QED
        BY <1>0, <2>2, <3>1, <3>2, <3>3 DEF Generated
    <2>3. NamesDenoteOne'
      BY <1>1, <1>8, <1>9, <2>2 DEF NamesDenoteOne, Given
    <2> QED
      BY <1>6, <1>7, <2>1, <2>3 DEF NamesInv
  <1>10. CASE UNCHANGED shown
    <2>1. TextHasSource'
      BY <1>3, <1>10 DEF NamesInv, TextHasSource
    <2>2. ASSUME shown # Nothing, o \notin DOMAIN fonts, fonts'[o] = shown.asked
          PROVE  o # shown.object /\ shown.asked \in Nat /\ Given(shown.object, shown.asked)
      <3>1. o # shown.object
        BY <2>2 DEF NamesInv, TypeOK
      <3>2. shown.asked = fontsCount + 1
        BY <1>1, <2>2 DEF NameOf, Named
      <3>3. ~Generated(shown.asked)
        BY <1>0, <3>2 DEF Generated
      <3> QED
        BY <1>0, <2>2, <3>1, <3>2, <3>3 DEF NamesInv, TextHasSource
    <2>3. NamesDenoteOne'
      <3> SUFFICES ASSUME shown # Nothing, NEW p \in DOMAIN fonts'
                   PROVE  \/ fonts'[p] = shown.asked <=> p = shown.object
                          \/ <<p, fonts'[p]>> \in namings
                          \/ /\ p # shown.object
                             /\ shown.asked \in Nat /\ <<shown.object, shown.asked>> \in namings
        BY <1>1, <1>10 DEF NamesDenoteOne
      <3>1. CASE p \in DOMAIN fonts
        <4>1. fonts'[p] = fonts[p]
          BY <1>1, <3>1 DEF NameOf, Named
        <4> QED
          BY <3>1, <4>1 DEF NamesInv, NamesDenoteOne
      <3>2. CASE p \notin DOMAIN fonts
        <4>1. p = o /\ p # shown.object
          BY <1>1, <3>2 DEF NamesInv, TypeOK
        <4> QED
          BY <2>2, <3>2, <4>1 DEF Given
      <3> QED
        BY <3>1, <3>2
    <2> QED
      BY <1>6, <1>7, <2>1, <2>3 DEF NamesInv
  <1> QED
    BY <1>8, <1>9, <1>10

LEMMA StepNames == NamesInv /\ [Next]_contentVars => NamesInv'
  <1> SUFFICES ASSUME NamesInv, [Next]_contentVars PROVE NamesInv'
    OBVIOUS
  <1>1. TypeOK /\ TypeOK' /\ fontsCount \in Nat
    BY StepTyped DEF NamesInv, TypeOK
  <1>2. CASE UNCHANGED <<fonts, fontsCount, shown, namings>>
    BY <1>1, <1>2, NamesStay
  <1>3. CASE ReserveFontName
    BY <1>1, <1>3, NamesStay DEF ReserveFontName
  <1>4. ASSUME NEW o \in FontObjects, NEW name \in UserNames, AddFontMappingNamed(o, name)
        PROVE  NamesInv'
    BY <1>1, <1>4, GivingKeeps
  <1>5. ASSUME NEW o \in FontObjects, Show(o)
        PROVE  NamesInv'
    BY <1>1, <1>5, ShowingKeeps
  <1>6. \A o \in ObjectsOf[Current.font] : Current.font # Nothing => o \in FontObjects
    BY <1>1, TopTyped DEF GraphicState, FontObjects
  <1> QED
    BY <1>2, <1>3, <1>4, <1>5, <1>6
       DEF Next, q, Q, SetCurrentFont, SetCurrentFontSize, Tf, TfLow, NoFont,
           Tj, TJ, EndAndStartPageContentContext, contentVars

-----------------------------------------------------------------------------
(* What a context notes in one state is so in a viewer's state.            *)
Agree(g, v) == g.placedName # Nothing => v.name = g.placedName /\ v.size = g.placedSize

StatesAgree ==
    Len(stack) = Len(viewer) /\ \A i \in 1 .. Len(stack) : Agree(stack[i], viewer[i])

LEMMA PictureIsAgreement == TypeOK => (PictureMatches <=> StatesAgree)
  <1> SUFFICES ASSUME TypeOK PROVE PictureMatches <=> StatesAgree
    OBVIOUS
  <1>1. DOMAIN stack = 1 .. Len(stack)
    BY LenProperties DEF TypeOK
  <1> QED
    BY <1>1, Zenon DEF PictureMatches, StatesAgree, Agree

LEMMA TopAgrees ==
    ASSUME TypeOK, StatesAgree
    PROVE  Agree(Current, Viewed)
  <1>1. Len(stack) \in Nat \ {0}
    BY TopTyped
  <1>2. Len(stack) \in 1 .. Len(stack) /\ Len(viewer) = Len(stack)
    BY <1>1 DEF StatesAgree
  <1>3. Agree(stack[Len(stack)], viewer[Len(stack)])
    BY <1>2 DEF StatesAgree
  <1> QED
    BY <1>2, <1>3 DEF Current, Viewed

(* States that agree below the top agree when the new tops do.             *)
LEMMA NewTopAgrees ==
    ASSUME TypeOK, StatesAgree, NEW g \in GraphicState, NEW v \in ViewerState,
           stack' = WithCurrent(g), viewer' = WithViewed(v), Agree(g, v)
    PROVE  StatesAgree'
  <1>1. Len(stack) \in Nat \ {0} /\ Len(viewer) = Len(stack)
    BY TopTyped DEF StatesAgree
  <1>2. /\ Len(stack') = Len(stack) /\ stack'[Len(stack)] = g
        /\ \A i \in 1 .. Len(stack) : i # Len(stack) => stack'[i] = stack[i]
    BY LastChanged DEF TypeOK, WithCurrent
  <1>3. /\ Len(viewer') = Len(viewer) /\ viewer'[Len(viewer)] = v
        /\ \A i \in 1 .. Len(viewer) : i # Len(viewer) => viewer'[i] = viewer[i]
    BY LastChanged DEF TypeOK, WithViewed
  <1>4. ASSUME NEW i \in 1 .. Len(stack) PROVE Agree(stack'[i], viewer'[i])
    <2>1. CASE i = Len(stack)
      BY <1>1, <1>2, <1>3, <2>1
    <2>2. CASE i # Len(stack)
      <3>1. stack'[i] = stack[i] /\ viewer'[i] = viewer[i]
        BY <1>1, <1>2, <1>3, <2>2
      <3>2. Agree(stack[i], viewer[i])
        BY DEF StatesAgree
      <3> QED
        BY <3>1, <3>2
    <2> QED
      BY <2>1, <2>2
  <1> QED
    BY <1>1, <1>2, <1>3, <1>4 DEF StatesAgree

(* The same with the viewer's state as it was.                             *)
LEMMA NewStateAgrees ==
    ASSUME TypeOK, StatesAgree, NEW g \in GraphicState,
           stack' = WithCurrent(g), viewer' = viewer, Agree(g, Viewed)
    PROVE  StatesAgree'
  <1>1. Len(viewer) \in 1 .. Len(viewer) /\ Viewed \in ViewerState
    BY TopTyped
  <1>2. /\ WithViewed(Viewed) \in Seq(ViewerState)
        /\ Len(WithViewed(Viewed)) = Len(viewer)
        /\ WithViewed(Viewed)[Len(viewer)] = Viewed
        /\ \A i \in 1 .. Len(viewer) : i # Len(viewer) => WithViewed(Viewed)[i] = viewer[i]
    BY <1>1, LastChanged DEF TypeOK, WithViewed
  <1>3. \A i \in 1 .. Len(viewer) : WithViewed(Viewed)[i] = viewer[i]
    BY <1>2 DEF Viewed
  <1>4. WithViewed(Viewed) = viewer
    BY <1>2, <1>3, SeqEqual DEF TypeOK
  <1> QED
    BY <1>1, <1>4, NewTopAgrees

(* Showing a text keeps the agreement, and shows it in its font.           *)
LEMMA ShowAgrees ==
    ASSUME TypeOK, StatesAgree, ShownInItsFont, NEW o \in FontObjects, Show(o)
    PROVE  StatesAgree' /\ ShownInItsFont'
  <1>1. Current \in GraphicState /\ Viewed \in ViewerState
    BY TopTyped
  <1>2. NameOf(o) \in Names /\ NameOf(o) # Nothing
    BY NameTyped DEF Show
  <1>3. Agree(Current, Viewed)
    BY TopAgrees
  <1>4. ViewedFor(o) \in ViewerState
    BY <1>1, <1>2 DEF ViewedFor, ViewerState, GraphicState
  <1>5. ViewedFor(o).name = NameOf(o) /\ ViewedFor(o).size = Current.size
    <2>1. CASE NeedsTf(o)
      BY <1>1, <2>1 DEF ViewedFor, ViewerState
    <2>2. CASE ~NeedsTf(o)
      <3>1. Current.placedName = NameOf(o) /\ Current.placedSize = Current.size
        BY <2>2 DEF NeedsTf
      <3>2. Viewed.name = NameOf(o) /\ Viewed.size = Current.size
        BY <1>2, <1>3, <3>1 DEF Agree
      <3> QED
        BY <2>2, <3>2 DEF ViewedFor
    <2> QED
      BY <2>1, <2>2
  <1>6. StatesAgree'
    <2>1. CASE NeedsTf(o)
      <3> DEFINE g == [Current EXCEPT !.placedName = NameOf(o), !.placedSize = Current.size]
      <3>1. g \in GraphicState /\ g.placedName = NameOf(o) /\ g.placedSize = Current.size
        BY <1>1, <1>2 DEF GraphicState
      <3>2. stack' = WithCurrent(g) /\ viewer' = WithViewed(ViewedFor(o))
        BY <2>1 DEF Show, Placed
      <3> HIDE DEF g
      <3>3. Agree(g, ViewedFor(o))
        BY <1>5, <3>1 DEF Agree
      <3> QED
        BY <1>4, <3>1, <3>2, <3>3, NewTopAgrees
    <2>2. CASE ~NeedsTf(o)
      <3>1. stack' = stack /\ viewer' = WithViewed(Viewed)
        BY <2>2 DEF Show, ViewedFor
      <3>2. stack = WithCurrent(Current)
        <4>1. Len(stack) \in 1 .. Len(stack)
          BY TopTyped
        <4>2. /\ WithCurrent(Current) \in Seq(GraphicState)
              /\ Len(WithCurrent(Current)) = Len(stack)
              /\ WithCurrent(Current)[Len(stack)] = Current
              /\ \A i \in 1 .. Len(stack) : i # Len(stack) => WithCurrent(Current)[i] = stack[i]
          BY <1>1, LastChanged DEF TypeOK, WithCurrent
        <4>3. \A i \in 1 .. Len(stack) : WithCurrent(Current)[i] = stack[i]
          BY <4>2 DEF Current
        <4> QED
          BY <4>2, <4>3, SeqEqual DEF TypeOK
      <3> QED
        BY <1>1, <1>3, <3>1, <3>2, NewTopAgrees
    <2> QED
      BY <2>1, <2>2
  <1> DEFINE t == [object |-> o, asked |-> NameOf(o), size |-> Current.size,
                   name |-> ViewedFor(o).name, viewedSize |-> ViewedFor(o).size]
  <1>7. t.name = t.asked /\ t.viewedSize = t.size
    BY <1>5
  <1>8. shown' \in {shown, t}
    BY DEF Show
  <1> HIDE DEF t
  <1> QED
    BY <1>6, <1>7, <1>8 DEF ShownInItsFont

Inv == TypeOK /\ StatesAgree /\ ShownInItsFont

LEMMA InitInv == Init => Inv
  <1> SUFFICES ASSUME Init PROVE Inv
    OBVIOUS
  <1>1. TypeOK
    BY InitTyped
  <1>3. stack = <<InitialState>> /\ viewer = <<[name |-> Nothing, size |-> Nothing]>>
    BY Zenon DEF Init
  <1>4. Len(stack) = 1 /\ Len(viewer) = 1 /\ stack[1] = InitialState
    BY <1>3
  <1>5. StatesAgree
    BY <1>4 DEF StatesAgree, Agree, InitialState
  <1>6. shown = Nothing
    BY Zenon DEF Init
  <1> QED
    BY <1>1, <1>5, <1>6, Zenon DEF Inv, ShownInItsFont

LEMMA StepInv ==
    ASSUME Balanced
    PROVE  Inv /\ [Next]_contentVars => Inv'
  <1> SUFFICES ASSUME Inv, [Next]_contentVars PROVE Inv'
    OBVIOUS
  <1> USE DEF Inv
  <1>1. TypeOK'
    BY StepTyped
  <1>2. Current \in GraphicState /\ Viewed \in ViewerState /\ Agree(Current, Viewed)
        /\ Len(stack) \in Nat \ {0} /\ Len(viewer) = Len(stack)
    BY TopTyped, TopAgrees DEF StatesAgree
  <1>3. UNCHANGED shown => ShownInItsFont'
    BY DEF ShownInItsFont
  <1>4. CASE q
    <2>1. Len(stack') = Len(stack) + 1 /\ Len(viewer') = Len(stack) + 1
      BY <1>2, <1>4, PushKeeps DEF q, TypeOK
    <2>2. \A i \in 1 .. Len(stack) : stack'[i] = stack[i] /\ viewer'[i] = viewer[i]
      BY <1>2, <1>4, PushKeeps DEF q, TypeOK
    <2>3. stack'[Len(stack) + 1] = Current /\ viewer'[Len(stack) + 1] = Viewed
      BY <1>2, <1>4, PushKeeps DEF q, TypeOK, Current, Viewed
    <2>4. ASSUME NEW i \in 1 .. Len(stack) + 1 PROVE Agree(stack'[i], viewer'[i])
      <3>1. CASE i = Len(stack) + 1
        BY <1>2, <2>3, <3>1
      <3>2. CASE i # Len(stack) + 1
        <4>1. i \in 1 .. Len(stack)
          BY <1>2, <3>2
        <4>2. Agree(stack[i], viewer[i])
          BY <4>1 DEF StatesAgree
        <4> QED
          BY <2>2, <4>1, <4>2
      <3> QED
        BY <3>1, <3>2
    <2>5. StatesAgree'
      BY <2>1, <2>4 DEF StatesAgree
    <2> QED
      BY <1>1, <1>3, <1>4, <2>5 DEF q
  <1>5. CASE Q
    <2>1. Len(stack) > 1
      BY <1>5 DEF Q
    <2>2. Len(stack') = Len(stack) - 1 /\ Len(viewer') = Len(stack) - 1
      BY <1>2, <1>5, <2>1, PopKeeps DEF Q, TypeOK
    <2>3. \A i \in 1 .. Len(stack') : i \in 1 .. Len(stack) /\ stack'[i] = stack[i]
      BY <1>5, PopKeeps DEF Q, TypeOK
    <2>4. \A i \in 1 .. Len(viewer') : viewer'[i] = viewer[i]
      BY <1>5, PopKeeps DEF Q, TypeOK
    <2>5. StatesAgree'
      BY <2>2, <2>3, <2>4, Zenon DEF StatesAgree
    <2> QED
      BY <1>1, <1>3, <1>5, <2>5 DEF Q
  <1>6. ASSUME NEW g \in GraphicState, stack' = WithCurrent(g), UNCHANGED <<viewer, shown>>,
               g.placedName = Current.placedName, g.placedSize = Current.placedSize
        PROVE  Inv'
    <2>1. Agree(g, Viewed)
      BY <1>2, <1>6 DEF Agree
    <2> QED
      BY <1>1, <1>3, <1>6, <2>1, NewStateAgrees
  <1>7. ASSUME NEW f \in Fonts, SetCurrentFont(f) PROVE Inv'
    <2> DEFINE g == [Current EXCEPT !.font = f]
    <2>1. g \in GraphicState /\ g.placedName = Current.placedName /\ g.placedSize = Current.placedSize
      BY <1>2 DEF GraphicState
    <2> QED
      BY <1>6, <1>7, <2>1 DEF SetCurrentFont
  <1>8. ASSUME NEW size \in Sizes, SetCurrentFontSize(size) PROVE Inv'
    <2> DEFINE g == [Current EXCEPT !.size = size]
    <2>1. g \in GraphicState /\ g.placedName = Current.placedName /\ g.placedSize = Current.placedSize
      BY <1>2 DEF GraphicState
    <2> QED
      BY <1>6, <1>8, <2>1 DEF SetCurrentFontSize
  <1>9. ASSUME NEW f \in Fonts, NEW size \in Sizes, Tf(f, size) PROVE Inv'
    <2> DEFINE g == [Current EXCEPT !.font = f, !.size = size]
    <2>1. g \in GraphicState /\ g.placedName = Current.placedName /\ g.placedSize = Current.placedSize
      BY <1>2 DEF GraphicState
    <2> QED
      BY <1>6, <1>9, <2>1 DEF Tf
  <1>10. ASSUME NEW name \in UserNames, NEW size \in Sizes, TfLow(name, size) PROVE Inv'
    <2> DEFINE g == [Current EXCEPT !.placedName = name, !.placedSize = size]
               v == [Viewed EXCEPT !.name = name, !.size = size]
    <2>1. g \in GraphicState /\ g.placedName = name /\ g.placedSize = size
      BY <1>2 DEF GraphicState, Names
    <2>2. v \in ViewerState /\ v.name = name /\ v.size = size
      BY <1>2 DEF ViewerState, Names
    <2>3. stack' = WithCurrent(g) /\ viewer' = WithViewed(v) /\ UNCHANGED shown
      BY <1>10 DEF TfLow, Placed
    <2> HIDE DEF g, v
    <2>4. Agree(g, v)
      BY <2>1, <2>2 DEF Agree
    <2> QED
      BY <1>1, <1>3, <2>1, <2>2, <2>3, <2>4, NewTopAgrees
  <1>11. CASE UNCHANGED <<stack, viewer, shown>>
    BY <1>1, <1>3, <1>11 DEF StatesAgree
  <1>12. ASSUME NEW o \in FontObjects, Show(o) PROVE Inv'
    BY <1>1, <1>12, ShowAgrees
  <1>13. \A o \in ObjectsOf[Current.font] : Current.font # Nothing => o \in FontObjects
    BY <1>2 DEF GraphicState, FontObjects
  <1>14. CASE EndAndStartPageContentContext
    <2>1. stack' = <<InitialState>> /\ viewer' = viewer /\ Len(viewer) = 1 /\ UNCHANGED shown
      BY <1>2, <1>14 DEF EndAndStartPageContentContext
    <2>2. Len(stack') = 1 /\ stack'[1] = InitialState
      BY <2>1
    <2>3. StatesAgree'
      BY <2>1, <2>2 DEF StatesAgree, Agree, InitialState
    <2> QED
      BY <1>1, <1>3, <2>1, <2>3
  <1>15. CASE Tj
    BY <1>11, <1>12, <1>13, <1>15 DEF Tj, NoFont
  <1>16. CASE TJ
    BY <1>15, <1>16 DEF Tj, TJ
  <1>17. CASE ReserveFontName
    BY <1>11, <1>17 DEF ReserveFontName
  <1>18. ASSUME NEW o \in FontObjects, NEW name \in UserNames, AddFontMappingNamed(o, name)
         PROVE  Inv'
    BY <1>11, <1>18 DEF AddFontMappingNamed
  <1>19. CASE UNCHANGED contentVars
    BY <1>11, <1>19 DEF contentVars
  <1> HIDE DEF Inv
  <1> QED
    BY <1>4, <1>5, <1>7, <1>8, <1>9, <1>10, <1>14, <1>15, <1>16, <1>17, <1>18, <1>19 DEF Next

(***************************************************************************)
(* In a program that pairs its q's and Q's, what a context believes to be  *)
(* placed is placed, at every level.                                       *)
(***************************************************************************)
THEOREM PictureIsRight == ASSUME Balanced PROVE Spec => []PictureMatches
  <1>1. Inv => PictureMatches
    BY PictureIsAgreement DEF Inv
  <1> QED
    BY <1>1, InitInv, StepInv, PTL DEF Spec

(***************************************************************************)
(* In such a program every text is shown in its font at its size.          *)
(***************************************************************************)
THEOREM TextInItsFont == ASSUME Balanced PROVE Spec => []ShownInItsFont
  <1>1. Inv => ShownInItsFont
    BY DEF Inv
  <1> QED
    BY <1>1, InitInv, StepInv, PTL DEF Spec

(***************************************************************************)
(* The name that a text was shown under means its font object, and no      *)
(* other, for as long as the page is written: only the program itself can  *)
(* change it, by renaming the object, by giving its name to another, or by *)
(* having given it a name of the form that the dictionary generates.  The  *)
(* program may name whatever it likes, and need not pair its q's and Q's.  *)
(***************************************************************************)
THEOREM NamesMeanOneFont == Spec => []NamesDenoteOne
  <1>1. NamesInv => NamesDenoteOne
    BY DEF NamesInv
  <1> QED
    BY <1>1, InitNames, StepNames, PTL DEF Spec

-----------------------------------------------------------------------------
(***************************************************************************)
(* Induction, with the sets that the library's theorem about minima takes. *)
(***************************************************************************)

(* A set of numbers that is not empty has a least one.                     *)
LEMMA LeastNumber ==
    ASSUME NEW T, T \subseteq Nat, T # {}
    PROVE  \E x \in T : \A y \in T : x <= y
  <1> DEFINE Less == OpToRel(<, Nat)
  <1>1. IsWellFoundedOn(Less, Nat)
    BY NatLessThanWellFounded
  <1>2. \A x, y \in Nat : x < y => <<x, y>> \in Less
    BY DEF OpToRel
  <1> HIDE DEF Less
  <1>3. PICK x \in T : \A y \in T : ~ (<<y, x>> \in Less)
    BY <1>1, WFMin
  <1>4. \A y \in T : ~ (y < x)
    BY <1>2, <1>3
  <1> QED
    BY <1>3, <1>4

(* A set with 0 in it, and with each of its numbers the next, has them all.*)
LEMMA Induction ==
    ASSUME NEW S, 0 \in S, \A n \in Nat : n \in S => n + 1 \in S
    PROVE  \A n \in Nat : n \in S
  <1> SUFFICES ASSUME NEW k \in Nat \ S PROVE FALSE
    OBVIOUS
  <1>1. PICK x \in Nat \ S : \A y \in Nat \ S : x <= y
    BY LeastNumber
  <1>2. x - 1 \in Nat
    BY <1>1
  <1> QED
    BY <1>1, <1>2

(* The same from 0 to a limit.                                             *)
LEMMA InductionUpTo ==
    ASSUME NEW S, NEW n \in Nat, 0 \in S, \A k \in 0 .. n - 1 : k \in S => k + 1 \in S
    PROVE  \A k \in 0 .. n : k \in S
  <1> DEFINE T == {k \in Nat : k <= n => k \in S}
  <1>1. 0 \in T
    OBVIOUS
  <1>2. \A k \in Nat : k \in T => k + 1 \in T
    OBVIOUS
  <1> HIDE DEF T
  <1>3. \A k \in Nat : k \in T
    BY <1>1, <1>2, Induction
  <1> QED
    BY <1>3 DEF T

(* A step after the other gives a function.                                *)
Steps(f, V, base, n, step) ==
    /\ f \in [0 .. n -> V] /\ f[0] = base
    /\ \A k \in 1 .. n : f[k] = step[<<k, f[k - 1]>>]

LEMMA Recursion ==
    ASSUME NEW V, NEW base, base \in V, NEW n, n \in Nat, NEW step, step \in [(1 .. n) \X V -> V]
    PROVE  \E f : Steps(f, V, base, n, step)
  <1> DEFINE UpTo(f, m) == /\ f \in [0 .. m -> V] /\ f[0] = base
                           /\ \A k \in 1 .. m : f[k] = step[<<k, f[k - 1]>>]
             S == {m \in 0 .. n : \E f : UpTo(f, m)}
  <1> HIDE DEF UpTo
  <1>1. 0 \in S
    <2>1. UpTo([k \in 0 .. 0 |-> base], 0)
      BY DEF UpTo
    <2> QED
      BY <2>1
  <1>2. ASSUME NEW m \in 0 .. n - 1, m \in S
        PROVE  m + 1 \in S
    <2>1. PICK f : UpTo(f, m)
      BY <1>2
    <2> DEFINE last == step[<<m + 1, f[m]>>]
               g == [k \in 0 .. m + 1 |-> IF k <= m THEN f[k] ELSE last]
    <2>2. f[m] \in V /\ m + 1 \in 1 .. n
      BY <2>1 DEF UpTo
    <2>3. last \in V
      BY <2>2
    <2> HIDE DEF last
    <2>4. g \in [0 .. m + 1 -> V] /\ g[0] = base
      BY <2>1, <2>3 DEF UpTo
    <2>5. \A k \in 1 .. m + 1 : g[k] = step[<<k, g[k - 1]>>]
      <3> SUFFICES ASSUME NEW k \in 1 .. m + 1 PROVE g[k] = step[<<k, g[k - 1]>>]
        OBVIOUS
      <3>1. g[k - 1] = f[k - 1] /\ g[k] = IF k <= m THEN f[k] ELSE last
        OBVIOUS
      <3> HIDE DEF g
      <3>2. CASE k <= m
        <4>1. k \in 1 .. m
          BY <3>2
        <4> QED
          BY <2>1, <3>1, <3>2, <4>1 DEF UpTo
      <3>3. CASE k = m + 1
        <4>1. ~(k <= m) /\ k - 1 = m
          BY <3>3
        <4> QED
          BY <3>1, <3>3, <4>1 DEF last
      <3> QED
        BY <3>2, <3>3
    <2> HIDE DEF g
    <2>6. UpTo(g, m + 1)
      BY <2>4, <2>5 DEF UpTo
    <2> QED
      BY <2>6
  <1> HIDE DEF S
  <1>3. \A m \in 0 .. n : m \in S
    BY <1>1, <1>2, InductionUpTo
  <1>4. PICK f : UpTo(f, n)
    BY <1>3 DEF S
  <1> QED
    BY <1>4 DEF UpTo, Steps


-----------------------------------------------------------------------------
(***************************************************************************)
(* The streams under a content context.  What encoders put out is made of  *)
(* what they were given: a unit of the document, of the deflated content,  *)
(* and of the encrypted file.                                              *)
(***************************************************************************)
Kinds == {"raw", "plain", "z", "zend", "iv", "block", "rc4"}

Simple   == [kind : Kinds, n : Nat, of : {<< >>}]
Deflated == [kind : Kinds, n : Nat, of : Seq(Simple)]
Units    == [kind : Kinds, n : Nat, of : Seq(Deflated)]

Chains ==
    [bytes : Seq(Units), held : Nat, buffer : Seq(Units), flushes : Nat,
     temporary : Seq(Units), key : Nat, iv : BOOLEAN, block : Seq(Deflated),
     padded : BOOLEAN, pending : Seq(Simple), encoding : BOOLEAN, faults : Nat]

Outcomes == [c : Chains, ok : BOOLEAN]

(* Within its bounds: what StreamsTyped says of a chain. *)
Sound(c) ==
    /\ Len(c.buffer) <= BufferSize
    /\ c.held <= CacheSize /\ c.held <= Len(c.bytes)
    /\ Len(c.block) <= BlockSize
    /\ c.faults <= MaxFaults

SameEncoders(c, d) ==
    /\ d.temporary = c.temporary /\ d.key = c.key /\ d.iv = c.iv /\ d.block = c.block
    /\ d.padded = c.padded /\ d.pending = c.pending /\ d.encoding = c.encoding

(* The document's file, once its buffer is written. *)
FileOf(c) == c.bytes \o c.buffer

IsPart(t, s) == \E m \in 0 .. Len(s) : t = SubSeq(s, 1, m)

LEMMA Levels ==
    /\ Simple \subseteq Deflated /\ Deflated \subseteq Units
    /\ Seq(Simple) \subseteq Seq(Deflated) /\ Seq(Deflated) \subseteq Seq(Units)
  <1>1. Simple \subseteq Deflated
    <2>1. {<< >>} \subseteq Seq(Simple)
      OBVIOUS
    <2> QED
      BY <2>1 DEF Simple, Deflated
  <1>2. Seq(Simple) \subseteq Seq(Deflated)
    BY <1>1
  <1>3. Deflated \subseteq Units
    BY <1>2 DEF Deflated, Units
  <1>4. Seq(Deflated) \subseteq Seq(Units)
    BY <1>3
  <1> QED
    BY <1>1, <1>2, <1>3, <1>4

LEMMA Cut ==
    ASSUME NEW S, NEW s \in Seq(S), NEW n \in 0 .. Len(s)
    PROVE  /\ Prefix(s, n) \in Seq(S) /\ Len(Prefix(s, n)) = n
           /\ \A i \in 1 .. n : Prefix(s, n)[i] = s[i]
           /\ Rest(s, n) \in Seq(S) /\ Len(Rest(s, n)) = Len(s) - n
           /\ \A i \in 1 .. Len(s) - n : Rest(s, n)[i] = s[n + i]
           /\ Prefix(s, n) \o Rest(s, n) = s
           /\ IsPart(Prefix(s, n), s)
  <1>1. Len(s) \in Nat
    OBVIOUS
  <1>2. /\ Prefix(s, n) \in Seq(S) /\ Len(Prefix(s, n)) = n
        /\ \A i \in 1 .. n : Prefix(s, n)[i] = s[i]
    BY <1>1 DEF Prefix
  <1>3. /\ Rest(s, n) \in Seq(S) /\ Len(Rest(s, n)) = Len(s) - n
        /\ \A i \in 1 .. Len(s) - n : Rest(s, n)[i] = s[n + i]
    BY <1>1 DEF Rest
  <1>4. Prefix(s, n) \o Rest(s, n) = s
    <2> DEFINE p == Prefix(s, n)
               r == Rest(s, n)
    <2> HIDE DEF p, r
    <2>1. p \o r \in Seq(S) /\ Len(p \o r) = Len(s)
      <3>1. p \in Seq(S) /\ r \in Seq(S) /\ Len(p) = n /\ Len(r) = Len(s) - n
        BY <1>2, <1>3 DEF p, r
      <3>2. p \o r \in Seq(S) /\ Len(p \o r) = Len(p) + Len(r)
        BY <3>1, ConcatProperties
      <3>3. n + (Len(s) - n) = Len(s)
        BY <1>1
      <3> QED
        BY <3>1, <3>2, <3>3
    <2>2. \A i \in 1 .. Len(s) : (p \o r)[i] = s[i]
      <3>1. p \in Seq(S) /\ r \in Seq(S) /\ Len(p) = n /\ Len(r) = Len(s) - n
            /\ (\A i \in 1 .. n : p[i] = s[i])
            /\ \A i \in 1 .. Len(s) - n : r[i] = s[n + i]
        BY <1>2, <1>3 DEF p, r
      <3> SUFFICES ASSUME NEW i \in 1 .. Len(s)
                   PROVE  (p \o r)[i] = s[i]
        OBVIOUS
      <3>2. (p \o r)[i] = IF i <= Len(p) THEN p[i] ELSE r[i - Len(p)]
        BY <1>1, <3>1, ConcatProperties
      <3>3. CASE i <= n
        BY <3>1, <3>2, <3>3
      <3>4. CASE ~(i <= n)
        <4>1. i - n \in 1 .. Len(s) - n /\ n + (i - n) = i
          BY <1>1, <3>4
        <4> QED
          BY <3>1, <3>2, <3>4, <4>1
      <3> QED
        BY <3>3, <3>4
    <2>3. p \o r = s
      BY <2>1, <2>2, SeqEqual
    <2> QED
      BY <2>3 DEF p, r
  <1>5. IsPart(Prefix(s, n), s)
    BY DEF IsPart, Prefix
  <1> QED
    BY <1>2, <1>3, <1>4, <1>5

LEMMA Joins ==
    ASSUME NEW S, NEW a \in Seq(S), NEW b \in Seq(S), NEW d \in Seq(S)
    PROVE  /\ (a \o b) \o d = a \o (b \o d)
           /\ a \o b \in Seq(S) /\ Len(a \o b) = Len(a) + Len(b)
           /\ \A i \in 1 .. Len(a) : (a \o b)[i] = a[i]
           /\ \A i \in 1 .. Len(b) : (a \o b)[Len(a) + i] = b[i]
           /\ a \o << >> = a /\ << >> \o a = a
           /\ IsPart(a, a) /\ IsPart(a, a \o b)
           /\ \A n \in 0 .. Len(b) : IsPart(a \o Prefix(b, n), a \o b)
  <1>1. (a \o b) \o d = a \o (b \o d)
    BY SeqEqual, ConcatProperties
  <1>2. a \o b \in Seq(S) /\ Len(a \o b) = Len(a) + Len(b) /\ Len(a) \in Nat /\ Len(b) \in Nat
    OBVIOUS
  <1>3. /\ \A i \in 1 .. Len(a) : (a \o b)[i] = a[i]
        /\ \A i \in 1 .. Len(b) : (a \o b)[Len(a) + i] = b[i]
    BY <1>2
  <1>4. a \o << >> = a /\ << >> \o a = a
    BY ConcatEmptySeq
  <1>5. ASSUME NEW n \in 0 .. Len(b)
        PROVE  a \o Prefix(b, n) = SubSeq(a \o b, 1, Len(a) + n)
    <2> DEFINE p == Prefix(b, n)
               h == SubSeq(a \o b, 1, Len(a) + n)
    <2>1. p \in Seq(S) /\ Len(p) = n /\ \A i \in 1 .. n : p[i] = b[i]
      BY Cut
    <2> HIDE DEF p
    <2>2. a \o p \in Seq(S) /\ Len(a \o p) = Len(a) + n
      BY <1>2, <2>1, ConcatProperties
    <2>3. Len(a) + n \in 0 .. Len(a \o b)
      BY <1>2
    <2>4. h \in Seq(S) /\ Len(h) = Len(a) + n /\ \A i \in 1 .. Len(a) + n : h[i] = (a \o b)[i]
      BY <1>2, <2>3, SubSeqProperties
    <2> HIDE DEF h
    <2>5. ASSUME NEW i \in 1 .. Len(a) + n
          PROVE  (a \o p)[i] = h[i]
      <3>1. CASE i <= Len(a)
        BY <1>2, <2>1, <2>4, <3>1
      <3>2. CASE i > Len(a)
        <4>1. i - Len(a) \in 1 .. n /\ i - Len(a) \in 1 .. Len(b)
          BY <1>2, <3>2
        <4>2. (a \o p)[i] = p[i - Len(a)] /\ (a \o b)[i] = b[i - Len(a)]
          <5>1. i \in 1 .. Len(a) + Len(p) /\ i \in 1 .. Len(a) + Len(b) /\ ~(i <= Len(a))
            BY <1>2, <2>1, <3>2, <4>1
          <5> QED
            BY <2>1, <5>1, ConcatProperties
        <4> QED
          BY <2>1, <2>4, <4>1, <4>2
      <3>3. i <= Len(a) \/ i > Len(a)
        BY <1>2
      <3> QED
        BY <3>1, <3>2, <3>3
    <2>6. a \o p = h
      BY <2>2, <2>4, <2>5, SeqEqual
    <2> QED
      BY <2>6 DEF p, h
  <1>6. \A n \in 0 .. Len(b) : IsPart(a \o Prefix(b, n), a \o b)
    <2> SUFFICES ASSUME NEW n \in 0 .. Len(b) PROVE IsPart(a \o Prefix(b, n), a \o b)
      OBVIOUS
    <2>1. Len(a) + n \in 0 .. Len(a \o b)
      BY <1>2
    <2> QED
      BY <1>5, <2>1 DEF IsPart
  <1>7. IsPart(a, a \o b)
    <2>1. 0 \in 0 .. Len(b) /\ Prefix(b, 0) = << >>
      BY <1>2 DEF Prefix
    <2> QED
      BY <1>4, <1>6, <2>1
  <1>8. IsPart(a, a)
    <2>1. << >> \in Seq(S)
      OBVIOUS
    <2>2. a \o << >> = a
      BY <1>4
    <2>3. a = SubSeq(a, 1, Len(a))
      BY <1>2, SubSeqProperties, SeqEqual
    <2> QED
      <3>1. Len(a) \in 0 .. Len(a)
        BY <1>2
      <3> QED
        BY <2>3, <3>1 DEF IsPart
  <1> QED
    BY <1>1, <1>2, <1>3, <1>4, <1>6, <1>7, <1>8

LEMMA Regroup ==
    ASSUME NEW S, NEW a \in Seq(S), NEW b \in Seq(S), NEW d \in Seq(S)
    PROVE  (a \o b) \o d = a \o (b \o d)
  BY Joins

LEMMA RegroupUnits ==
    ASSUME NEW a \in Seq(Units), NEW b \in Seq(Units), NEW d \in Seq(Units)
    PROVE  (a \o b) \o d = a \o (b \o d)
  BY Regroup

LEMMA Closed ==
    ASSUME NEW S, NEW a \in Seq(S), NEW b \in Seq(S)
    PROVE  a \o b \in Seq(S)
  BY ConcatProperties


-----------------------------------------------------------------------------
(* The numbers in a sequence of units, and whether they ascend.            *)
Nums(s) == {NumberOf(s[i]) : i \in {j \in DOMAIN s : Numbered(s[j])}}

Ascends(s) ==
    \A i, j \in DOMAIN s :
        i < j /\ Numbered(s[i]) /\ Numbered(s[j]) => NumberOf(s[i]) < NumberOf(s[j])

Before(A, B) == \A a \in A, b \in B : a < b

(* What s becomes when data is written to it, or a part of it, or when a   *)
(* part of it is lost.                                                     *)
Ordered(s, data, t) ==
    /\ Nums(t) \subseteq Nums(s) \cup Nums(data)
    /\ Ascends(s \o data) => Ascends(t)

LEMMA NumsJoin ==
    ASSUME NEW S, NEW a \in Seq(S), NEW b \in Seq(S)
    PROVE  Nums(a \o b) = Nums(a) \cup Nums(b)
  <1>1. /\ a \o b \in Seq(S) /\ Len(a \o b) = Len(a) + Len(b) /\ Len(a) \in Nat /\ Len(b) \in Nat
        /\ \A i \in 1 .. Len(a) : (a \o b)[i] = a[i]
        /\ \A i \in 1 .. Len(b) : (a \o b)[Len(a) + i] = b[i]
    BY Joins
  <1>2. DOMAIN a = 1 .. Len(a) /\ DOMAIN b = 1 .. Len(b) /\ DOMAIN (a \o b) = 1 .. Len(a) + Len(b)
    BY <1>1
  <1> DEFINE d == a \o b
  <1> HIDE DEF d
  <1>3. ASSUME NEW x \in Nums(d)
        PROVE  x \in Nums(a) \cup Nums(b)
    <2>1. PICK i \in 1 .. Len(a) + Len(b) : Numbered(d[i]) /\ x = NumberOf(d[i])
      BY <1>2, <1>3 DEF Nums, d
    <2>2. CASE i <= Len(a)
      <3>1. i \in DOMAIN a /\ d[i] = a[i]
        BY <1>1, <1>2, <2>2 DEF d
      <3> QED
        BY <2>1, <3>1 DEF Nums
    <2>3. CASE i > Len(a)
      <3>1. i - Len(a) \in 1 .. Len(b) /\ Len(a) + (i - Len(a)) = i
        BY <1>1, <2>3
      <3>2. i - Len(a) \in DOMAIN b /\ d[i] = b[i - Len(a)]
        BY <1>1, <1>2, <3>1 DEF d
      <3> QED
        BY <2>1, <3>2 DEF Nums
    <2>4. i <= Len(a) \/ i > Len(a)
      BY <1>1
    <2> QED
      BY <2>2, <2>3, <2>4
  <1>4. ASSUME NEW x \in Nums(a) \cup Nums(b)
        PROVE  x \in Nums(d)
    <2>1. CASE x \in Nums(a)
      <3>1. PICK i \in 1 .. Len(a) : Numbered(a[i]) /\ x = NumberOf(a[i])
        BY <1>2, <2>1 DEF Nums
      <3>2. i \in 1 .. Len(a) + Len(b) /\ d[i] = a[i]
        BY <1>1, <3>1 DEF d
      <3>3. i \in DOMAIN d
        BY <1>2, <3>2 DEF d
      <3> QED
        BY <3>1, <3>2, <3>3 DEF Nums
    <2>2. CASE x \in Nums(b)
      <3>1. PICK i \in 1 .. Len(b) : Numbered(b[i]) /\ x = NumberOf(b[i])
        BY <1>2, <2>2 DEF Nums
      <3>2. Len(a) + i \in 1 .. Len(a) + Len(b) /\ d[Len(a) + i] = b[i]
        BY <1>1, <3>1 DEF d
      <3>3. Len(a) + i \in DOMAIN d
        BY <1>2, <3>2 DEF d
      <3> QED
        BY <3>1, <3>2, <3>3 DEF Nums
    <2> QED
      BY <1>4, <2>1, <2>2
  <1> QED
    BY <1>3, <1>4 DEF d

LEMMA AscendsJoin ==
    ASSUME NEW S, NEW a \in Seq(S), NEW b \in Seq(S)
    PROVE  Ascends(a \o b) <=> /\ Ascends(a) /\ Ascends(b)
                               /\ Before(Nums(a), Nums(b))
  <1>1. /\ a \o b \in Seq(S) /\ Len(a \o b) = Len(a) + Len(b) /\ Len(a) \in Nat /\ Len(b) \in Nat
        /\ \A i \in 1 .. Len(a) : (a \o b)[i] = a[i]
        /\ \A i \in 1 .. Len(b) : (a \o b)[Len(a) + i] = b[i]
    BY Joins
  <1>2. DOMAIN a = 1 .. Len(a) /\ DOMAIN b = 1 .. Len(b) /\ DOMAIN (a \o b) = 1 .. Len(a) + Len(b)
    BY <1>1
  <1> DEFINE d == a \o b
  <1> HIDE DEF d
  <1>3. ASSUME Ascends(d)
        PROVE  Ascends(a) /\ Ascends(b) /\ Before(Nums(a), Nums(b))
    <2>1. Ascends(a)
      <3> SUFFICES ASSUME NEW i \in 1 .. Len(a), NEW j \in 1 .. Len(a), i < j,
                          Numbered(a[i]), Numbered(a[j])
                   PROVE  NumberOf(a[i]) < NumberOf(a[j])
        BY <1>2 DEF Ascends
      <3>1. d[i] = a[i] /\ d[j] = a[j] /\ i \in DOMAIN d /\ j \in DOMAIN d
        BY <1>1, <1>2 DEF d
      <3> QED
        BY <1>3, <3>1 DEF Ascends
    <2>2. Ascends(b)
      <3> SUFFICES ASSUME NEW i \in 1 .. Len(b), NEW j \in 1 .. Len(b), i < j,
                          Numbered(b[i]), Numbered(b[j])
                   PROVE  NumberOf(b[i]) < NumberOf(b[j])
        BY <1>2 DEF Ascends
      <3>1. /\ d[Len(a) + i] = b[i] /\ d[Len(a) + j] = b[j] /\ Len(a) + i < Len(a) + j
            /\ Len(a) + i \in DOMAIN d /\ Len(a) + j \in DOMAIN d
        BY <1>1, <1>2 DEF d
      <3> QED
        BY <1>3, <3>1 DEF Ascends
    <2>3. ASSUME NEW x \in Nums(a), NEW y \in Nums(b)
          PROVE  x < y
      <3>1. PICK i \in 1 .. Len(a) : Numbered(a[i]) /\ x = NumberOf(a[i])
        BY <1>2, <2>3 DEF Nums
      <3>2. PICK j \in 1 .. Len(b) : Numbered(b[j]) /\ y = NumberOf(b[j])
        BY <1>2, <2>3 DEF Nums
      <3>3. /\ d[i] = a[i] /\ d[Len(a) + j] = b[j] /\ i < Len(a) + j
            /\ i \in DOMAIN d /\ Len(a) + j \in DOMAIN d
        BY <1>1, <1>2 DEF d
      <3> QED
        BY <1>3, <3>1, <3>2, <3>3 DEF Ascends
    <2> QED
      BY <2>1, <2>2, <2>3 DEF Before
  <1>4. ASSUME Ascends(a), Ascends(b), Before(Nums(a), Nums(b))
        PROVE  Ascends(d)
    <2> SUFFICES ASSUME NEW i \in DOMAIN d, NEW j \in DOMAIN d, i < j,
                        Numbered(d[i]), Numbered(d[j])
                 PROVE  NumberOf(d[i]) < NumberOf(d[j])
      BY DEF Ascends
    <2>1. i \in 1 .. Len(a) + Len(b) /\ j \in 1 .. Len(a) + Len(b)
      BY <1>2 DEF d
    <2>2. CASE j <= Len(a)
      <3>1. i \in DOMAIN a /\ j \in DOMAIN a /\ d[i] = a[i] /\ d[j] = a[j]
        BY <1>1, <1>2, <2>1, <2>2 DEF d
      <3> QED
        BY <1>4, <3>1 DEF Ascends
    <2>3. CASE j > Len(a) /\ i <= Len(a)
      <3>1. j - Len(a) \in 1 .. Len(b) /\ Len(a) + (j - Len(a)) = j /\ i \in 1 .. Len(a)
        BY <1>1, <2>1, <2>3
      <3>2. i \in DOMAIN a /\ j - Len(a) \in DOMAIN b /\ d[i] = a[i] /\ d[j] = b[j - Len(a)]
        BY <1>1, <1>2, <3>1 DEF d
      <3>3. NumberOf(d[i]) \in Nums(a) /\ NumberOf(d[j]) \in Nums(b)
        BY <3>2 DEF Nums
      <3> QED
        BY <1>4, <3>3 DEF Before
    <2>4. CASE j > Len(a) /\ i > Len(a)
      <3>1. /\ j - Len(a) \in 1 .. Len(b) /\ Len(a) + (j - Len(a)) = j
            /\ i - Len(a) \in 1 .. Len(b) /\ Len(a) + (i - Len(a)) = i
            /\ i - Len(a) < j - Len(a)
        BY <1>1, <2>1, <2>4
      <3>2. /\ i - Len(a) \in DOMAIN b /\ j - Len(a) \in DOMAIN b
            /\ d[i] = b[i - Len(a)] /\ d[j] = b[j - Len(a)]
        BY <1>1, <1>2, <3>1 DEF d
      <3> QED
        BY <1>4, <3>1, <3>2 DEF Ascends
    <2>5. j <= Len(a) \/ (j > Len(a) /\ i <= Len(a)) \/ (j > Len(a) /\ i > Len(a))
      BY <1>1, <2>1
    <2> QED
      BY <2>2, <2>3, <2>4, <2>5
  <1> QED
    BY <1>3, <1>4 DEF d

LEMMA PartOrdered ==
    ASSUME NEW S, NEW a \in Seq(S), NEW b \in Seq(S), NEW t, IsPart(t, a \o b)
    PROVE  t \in Seq(S) /\ Ordered(a, b, t)
  <1> DEFINE d == a \o b
  <1>1. d \in Seq(S)
    BY Joins
  <1>2. Nums(d) = Nums(a) \cup Nums(b)
    BY NumsJoin
  <1> HIDE DEF d
  <1>3. PICK m \in 0 .. Len(d) : t = Prefix(d, m)
    BY DEF IsPart, Prefix, d
  <1>4. t \in Seq(S) /\ Rest(d, m) \in Seq(S) /\ t \o Rest(d, m) = d
    BY <1>1, <1>3, Cut
  <1>5. Nums(t) \subseteq Nums(d)
    <2>1. Nums(t \o Rest(d, m)) = Nums(t) \cup Nums(Rest(d, m))
      <3> DEFINE r == Rest(d, m)
      <3>1. t \in Seq(S) /\ r \in Seq(S)
        BY <1>4
      <3> HIDE DEF r
      <3>2. Nums(t \o r) = Nums(t) \cup Nums(r)
        BY <3>1, NumsJoin
      <3> QED
        BY <3>2 DEF r
    <2> QED
      BY <1>4, <2>1
  <1>6. Ascends(d) => Ascends(t)
    <2>1. Ascends(t \o Rest(d, m)) => Ascends(t)
      BY <1>4, AscendsJoin
    <2> QED
      BY <1>4, <2>1
  <1> QED
    BY <1>2, <1>4, <1>5, <1>6 DEF Ordered, d


-----------------------------------------------------------------------------
(* The encoders and the buffer do not notice what happens to the file.     *)
OnlyFile(c, d) ==
    SameEncoders(c, d) /\ d.buffer = c.buffer /\ d.flushes = c.flushes

(* Failures are told, and counted.                                         *)
Tells(c, o) == o.c.faults >= c.faults /\ (o.c.faults = c.faults => o.ok)

LEMMA FailedIs ==
    ASSUME NEW c \in Chains, Sound(c), MayFail(c)
    PROVE  /\ Failed(c) \in Chains /\ OnlyFile(c, Failed(c)) /\ Sound(Failed(c))
           /\ Failed(c).bytes = c.bytes /\ Failed(c).faults = c.faults + 1
  <1> DEFINE f == c.faults + 1
  <1>1. f \in Nat /\ f <= MaxFaults
    BY SizesAssumption DEF Chains, MayFail
  <1>2. Failed(c) = [c EXCEPT !.faults = f]
    BY DEF Failed
  <1> HIDE DEF f
  <1>3. /\ Failed(c) \in Chains /\ OnlyFile(c, Failed(c)) /\ Failed(c).bytes = c.bytes
        /\ Failed(c).faults = f /\ Failed(c).held = c.held /\ Failed(c).buffer = c.buffer
        /\ Failed(c).block = c.block
    BY <1>1, <1>2 DEF Chains, OnlyFile, SameEncoders
  <1>4. Sound(Failed(c))
    BY <1>1, <1>3 DEF Sound
  <1> QED
    BY <1>3, <1>4 DEF f

LEMMA Grew ==
    ASSUME NEW x \in Nat, NEW y, y = x + 1
    PROVE  y >= x /\ y # x
  OBVIOUS

(* What FILE makes of data: all of it, or the first units only.            *)
Takes(c, o, data) ==
    \E m \in 0 .. Len(data) :
        /\ o.c.bytes = c.bytes \o Prefix(data, m)
        /\ o.ok <=> m = Len(data)

LEMMA FileWriteTakes ==
    ASSUME NEW c \in Chains, Sound(c), NEW data \in Seq(Units), NEW o \in FileWrite(c, data)
    PROVE  /\ o \in Outcomes /\ Sound(o.c) /\ OnlyFile(c, o.c) /\ Tells(c, o)
           /\ Takes(c, o, data)
  <1> DEFINE Held(n) == IF c.held + n <= CacheSize THEN c.held + n ELSE CacheSize
             Took(n, h) == [c EXCEPT !.bytes = @ \o Prefix(data, n), !.held = h]
  <1>1. Len(data) \in Nat /\ c.held \in Nat /\ CacheSize \in Nat /\ Len(c.bytes) \in Nat
        /\ c.faults \in Nat /\ MaxFaults \in Nat
    BY SizesAssumption DEF Chains
  <1>2. ASSUME NEW n \in 0 .. Len(data), NEW h \in {0, Held(n)}
        PROVE  /\ Took(n, h) \in Chains /\ Sound(Took(n, h)) /\ OnlyFile(c, Took(n, h))
               /\ Took(n, h).bytes = c.bytes \o Prefix(data, n) /\ Took(n, h).faults = c.faults
    <2>1. c.bytes \in Seq(Units) /\ Prefix(data, n) \in Seq(Units) /\ Len(Prefix(data, n)) = n
      BY Cut DEF Chains
    <2>2. c.bytes \o Prefix(data, n) \in Seq(Units) /\ Len(c.bytes \o Prefix(data, n)) = Len(c.bytes) + n
      <3> DEFINE p == Prefix(data, n)
      <3>1. p \in Seq(Units) /\ Len(p) = n
        BY <2>1
      <3> HIDE DEF p
      <3>2. c.bytes \o p \in Seq(Units) /\ Len(c.bytes \o p) = Len(c.bytes) + Len(p)
        BY <2>1, <3>1, ConcatProperties
      <3> QED
        BY <3>1, <3>2 DEF p
    <2>3. h \in Nat /\ h <= CacheSize /\ h <= c.held + n
      BY <1>1, <1>2
    <2> DEFINE b == c.bytes \o Prefix(data, n)
               d == [c EXCEPT !.bytes = b, !.held = h]
    <2> HIDE DEF b, Held
    <2>4. d \in Chains /\ d.bytes = b /\ d.held = h /\ OnlyFile(c, d)
          /\ d.buffer = c.buffer /\ d.block = c.block /\ d.faults = c.faults
      BY <2>2, <2>3 DEF Chains, OnlyFile, SameEncoders, b
    <2>5. Sound(d)
      BY <1>1, <2>2, <2>3, <2>4 DEF Sound, b
    <2> QED
      BY <2>4, <2>5 DEF b
  <1>3. CASE o \in {[c |-> Took(Len(data), h), ok |-> TRUE] : h \in {0, Held(Len(data))}}
    <2>1. PICK h \in {0, Held(Len(data))} : o = [c |-> Took(Len(data), h), ok |-> TRUE]
      BY <1>3
    <2>2. Len(data) \in 0 .. Len(data)
      BY <1>1
    <2> HIDE DEF Took, Held
    <2>3. o.c = Took(Len(data), h) /\ o.ok = TRUE /\ o = [c |-> o.c, ok |-> o.ok]
      BY <2>1
    <2>4. /\ o.c \in Chains /\ Sound(o.c) /\ OnlyFile(c, o.c)
          /\ o.c.bytes = c.bytes \o Prefix(data, Len(data)) /\ o.c.faults = c.faults
      BY <1>2, <2>2, <2>3
    <2>5. o \in Outcomes
      BY <2>3, <2>4 DEF Outcomes
    <2>6. Tells(c, o)
      BY <1>1, <2>3, <2>4 DEF Tells
    <2>7. Takes(c, o, data)
      BY <2>2, <2>3, <2>4 DEF Takes
    <2> QED
      BY <2>4, <2>5, <2>6, <2>7
  <1>4. CASE o \in {[c |-> Failed(Took(n, Held(n))), ok |-> FALSE] :
                       n \in IF MayFail(c) THEN 0 .. Len(data) - 1 ELSE {}}
    <2>1. PICK n \in IF MayFail(c) THEN 0 .. Len(data) - 1 ELSE {} :
                 o = [c |-> Failed(Took(n, Held(n))), ok |-> FALSE]
      BY <1>4
    <2>2. n \in 0 .. Len(data) /\ n # Len(data) /\ MayFail(c)
      BY <1>1, <2>1
    <2> DEFINE d == Took(n, Held(n))
    <2>3. o.c = Failed(d) /\ o.ok = FALSE /\ o = [c |-> o.c, ok |-> o.ok]
      BY <2>1
    <2> HIDE DEF Took, Held
    <2>4. /\ d \in Chains /\ Sound(d) /\ OnlyFile(c, d)
          /\ d.bytes = c.bytes \o Prefix(data, n) /\ d.faults = c.faults
      <3>1. Held(n) \in {0, Held(n)}
        OBVIOUS
      <3> QED
        BY <1>2, <2>2, <3>1
    <2> HIDE DEF d
    <2>5. MayFail(d)
      BY <2>2, <2>4 DEF MayFail
    <2>6. /\ o.c \in Chains /\ OnlyFile(d, o.c) /\ Sound(o.c)
          /\ o.c.bytes = d.bytes /\ o.c.faults = d.faults + 1
      BY <2>3, <2>4, <2>5, FailedIs
    <2>7. OnlyFile(c, o.c)
      BY <2>4, <2>6 DEF OnlyFile, SameEncoders
    <2>8. o \in Outcomes
      BY <2>3, <2>6 DEF Outcomes
    <2>9. Tells(c, o)
      BY <1>1, <2>4, <2>6, Grew DEF Tells
    <2>10. Takes(c, o, data)
      BY <2>2, <2>3, <2>4, <2>6 DEF Takes
    <2> QED
      BY <2>6, <2>7, <2>8, <2>9, <2>10
  <1> QED
    BY <1>3, <1>4 DEF FileWrite

(* A chain whose file lost its last bytes, or none.                        *)
Shorter(c, d) ==
    \E n \in 0 .. Len(c.bytes) : d.bytes = Prefix(c.bytes, n)

LEMMA LostIsShorter ==
    ASSUME NEW c \in Chains, Sound(c), NEW d \in Lost(c)
    PROVE  /\ d \in Chains /\ Sound(d) /\ OnlyFile(c, d) /\ Shorter(c, d)
           /\ d.faults = c.faults + 1 /\ c.held > 0
  <1>1. c.held \in Nat /\ CacheSize \in Nat /\ Len(c.bytes) \in Nat /\ c.faults \in Nat
        /\ MaxFaults \in Nat /\ c.held <= Len(c.bytes) /\ c.bytes \in Seq(Units)
    BY SizesAssumption DEF Chains, Sound
  <1>2. PICK n \in 1 .. c.held : d = [c EXCEPT !.bytes = Prefix(@, Len(@) - n), !.held = 0, !.faults = @ + 1]
    BY DEF Lost
  <1>3. MayFail(c)
    BY DEF Lost
  <1> DEFINE b == Prefix(c.bytes, Len(c.bytes) - n)
  <1>4. Len(c.bytes) - n \in 0 .. Len(c.bytes)
    BY <1>1
  <1> DEFINE f == c.faults + 1
  <1>5. b \in Seq(Units) /\ Len(b) \in Nat
    <2>1. b \in Seq(Units)
      BY <1>1, <1>4, Cut
    <2> HIDE DEF b
    <2> QED
      BY <2>1
  <1>6. f \in Nat /\ f <= MaxFaults
    BY <1>1, <1>3 DEF MayFail
  <1>7. d = [c EXCEPT !.bytes = b, !.held = 0, !.faults = f]
    BY <1>2
  <1> HIDE DEF b, f
  <1>8. d \in Chains /\ d.bytes = b /\ d.held = 0 /\ d.faults = f /\ OnlyFile(c, d)
        /\ d.buffer = c.buffer /\ d.block = c.block
    BY <1>1, <1>5, <1>6, <1>7 DEF Chains, OnlyFile, SameEncoders
  <1>9. Sound(d)
    BY <1>1, <1>5, <1>6, <1>8 DEF Sound
  <1>10. Shorter(c, d)
    BY <1>4, <1>8 DEF Shorter, b
  <1>11. c.held > 0
    BY <1>1, <1>2
  <1> QED
    BY <1>8, <1>9, <1>10, <1>11 DEF f

LEMMA FileFlushLoses ==
    ASSUME NEW c \in Chains, Sound(c), NEW o \in FileFlush(c) \cup FileClose(c)
    PROVE  /\ o \in Outcomes /\ Sound(o.c) /\ OnlyFile(c, o.c) /\ Tells(c, o)
           /\ Shorter(c, o.c)
           /\ o.ok => o.c.bytes = c.bytes /\ o.c.held = 0
           /\ c.held = 0 => o.ok
  <1>1. c.held \in Nat /\ Len(c.bytes) \in Nat /\ c.faults \in Nat /\ c.bytes \in Seq(Units)
        /\ CacheSize \in Nat /\ MaxFaults \in Nat
    BY SizesAssumption DEF Chains
  <1>2. ASSUME NEW d, d.bytes = c.bytes
        PROVE  Shorter(c, d)
    <2>1. Len(c.bytes) \in 0 .. Len(c.bytes) /\ Prefix(c.bytes, Len(c.bytes)) = c.bytes
      <3>1. Len(c.bytes) \in 0 .. Len(c.bytes)
        BY <1>1
      <3>2. /\ Prefix(c.bytes, Len(c.bytes)) \in Seq(Units)
            /\ Len(Prefix(c.bytes, Len(c.bytes))) = Len(c.bytes)
            /\ \A i \in 1 .. Len(c.bytes) : Prefix(c.bytes, Len(c.bytes))[i] = c.bytes[i]
        BY <1>1, <3>1, Cut
      <3>3. Prefix(c.bytes, Len(c.bytes)) = c.bytes
        BY <1>1, <3>2, SeqEqual
      <3> QED
        BY <3>1, <3>3
    <2> QED
      BY <1>2, <2>1 DEF Shorter
  <1>3. CASE o \in Fine([c EXCEPT !.held = 0])
    <2> DEFINE d == [c EXCEPT !.held = 0]
    <2>1. o = [c |-> d, ok |-> TRUE]
      BY <1>3 DEF Fine
    <2>2. d \in Chains /\ OnlyFile(c, d) /\ d.bytes = c.bytes /\ d.held = 0 /\ d.faults = c.faults
          /\ d.buffer = c.buffer /\ d.block = c.block
      BY DEF Chains, OnlyFile, SameEncoders
    <2> HIDE DEF d
    <2>3. Sound(d)
      BY <1>1, <2>2 DEF Sound
    <2> QED
      BY <1>1, <1>2, <2>1, <2>2, <2>3 DEF Outcomes, Tells
  <1>4. CASE o \in {[c |-> d, ok |-> FALSE] : d \in Lost(c)}
    <2>1. PICK d \in Lost(c) : o = [c |-> d, ok |-> FALSE]
      BY <1>4
    <2>2. /\ d \in Chains /\ Sound(d) /\ OnlyFile(c, d) /\ Shorter(c, d)
          /\ d.faults = c.faults + 1 /\ c.held > 0
      BY LostIsShorter
    <2> QED
      BY <1>1, <2>1, <2>2 DEF Outcomes, Tells
  <1>5. CASE o \in {[c |-> Failed(c), ok |-> FALSE] : n \in IF MayFail(c) /\ c.held > 0 THEN {1} ELSE {}}
    <2>1. o = [c |-> Failed(c), ok |-> FALSE] /\ MayFail(c) /\ c.held > 0
      BY <1>5
    <2>2. /\ Failed(c) \in Chains /\ OnlyFile(c, Failed(c)) /\ Sound(Failed(c))
          /\ Failed(c).bytes = c.bytes /\ Failed(c).faults = c.faults + 1
      BY <2>1, FailedIs
    <2>3. o.c = Failed(c) /\ o.ok = FALSE /\ o \in Outcomes
      BY <2>1, <2>2 DEF Outcomes
    <2>4. Tells(c, o)
      BY <1>1, <2>2, <2>3, Grew DEF Tells
    <2>5. OnlyFile(c, o.c) /\ Sound(o.c) /\ o.c.bytes = c.bytes
      BY <2>2, <2>3
    <2>6. Shorter(c, o.c)
      BY <1>2, <2>5
    <2>7. c.held # 0
      BY <2>1
    <2> QED
      BY <2>3, <2>4, <2>5, <2>6, <2>7
  <1> QED
    BY <1>3, <1>4, <1>5 DEF FileFlush, FileClose


-----------------------------------------------------------------------------
(* What a write to the document's stream, or a Flush of it, may do.        *)
WritesFile(c, o, data) ==
    /\ o \in Outcomes /\ Sound(o.c) /\ SameEncoders(c, o.c) /\ Tells(c, o)
    /\ o.ok => FileOf(o.c) = FileOf(c) \o data
    /\ IsPart(FileOf(o.c), FileOf(c) \o data)

LEMMA FlushBufferEmpties ==
    ASSUME NEW c \in Chains, Sound(c), NEW o \in FlushBuffer(c)
    PROVE  WritesFile(c, o, << >>) /\ o.c.buffer = << >> /\ o.c.flushes = c.flushes
  <1>1. c.bytes \in Seq(Units) /\ c.buffer \in Seq(Units) /\ c.faults \in Nat
    BY DEF Chains
  <1>2. /\ FileOf(c) \in Seq(Units) /\ FileOf(c) \o << >> = FileOf(c)
        /\ IsPart(FileOf(c), FileOf(c)) /\ c.bytes \o << >> = c.bytes
    BY <1>1, Joins DEF FileOf
  <1>3. CASE c.buffer = << >>
    <2>1. o = [c |-> c, ok |-> TRUE]
      BY <1>3 DEF FlushBuffer, Fine
    <2> QED
      BY <1>1, <1>2, <1>3, <2>1 DEF WritesFile, Outcomes, SameEncoders, Tells
  <1>4. CASE c.buffer # << >>
    <2> DEFINE b == [c EXCEPT !.buffer = << >>]
    <2>1. o \in FileWrite(b, c.buffer)
      BY <1>4 DEF FlushBuffer
    <2>2. /\ b \in Chains /\ b.buffer = << >> /\ b.bytes = c.bytes /\ b.faults = c.faults
          /\ SameEncoders(c, b) /\ b.flushes = c.flushes /\ b.held = c.held /\ b.block = c.block
      <3>1. << >> \in Seq(Units)
        OBVIOUS
      <3> QED
        BY <3>1 DEF Chains, SameEncoders
    <2> HIDE DEF b
    <2>3. Sound(b)
      BY <2>2, SizesAssumption DEF Sound
    <2>4. /\ o \in Outcomes /\ Sound(o.c) /\ OnlyFile(b, o.c) /\ Tells(b, o)
          /\ Takes(b, o, c.buffer)
      BY <1>1, <2>1, <2>2, <2>3, FileWriteTakes
    <2>5. PICK m \in 0 .. Len(c.buffer) : /\ o.c.bytes = b.bytes \o Prefix(c.buffer, m)
                                          /\ o.ok <=> m = Len(c.buffer)
      BY <2>4 DEF Takes
    <2>6. o.c.buffer = << >> /\ o.c.flushes = c.flushes /\ SameEncoders(c, o.c) /\ Tells(c, o)
      BY <2>2, <2>4 DEF OnlyFile, SameEncoders, Tells
    <2>7. o.c.bytes \in Seq(Units)
      BY <2>4 DEF Outcomes, Chains
    <2>8. FileOf(o.c) = o.c.bytes
      BY <2>6, <2>7, Joins DEF FileOf
    <2>9. IsPart(FileOf(o.c), FileOf(c))
      <3>1. IsPart(c.bytes \o Prefix(c.buffer, m), c.bytes \o c.buffer)
        BY <1>1, Joins
      <3> QED
        BY <2>2, <2>5, <2>8, <3>1 DEF FileOf
    <2>10. ASSUME o.ok PROVE FileOf(o.c) = FileOf(c)
      <3>1. m = Len(c.buffer)
        BY <2>5, <2>10
      <3>2. /\ Prefix(c.buffer, m) \in Seq(Units) /\ Len(Prefix(c.buffer, m)) = m
            /\ \A i \in 1 .. m : Prefix(c.buffer, m)[i] = c.buffer[i]
        BY <1>1, Cut
      <3>3. Prefix(c.buffer, m) = c.buffer
        BY <1>1, <3>1, <3>2, SeqEqual
      <3> QED
        BY <2>2, <2>5, <2>8, <3>3 DEF FileOf
    <2> QED
      BY <1>2, <2>4, <2>6, <2>9, <2>10 DEF WritesFile
  <1> QED
    BY <1>3, <1>4

LEMMA Remainder ==
    ASSUME NEW n \in Nat, NEW k \in Nat \ {0}
    PROVE  n % k \in 0 .. k - 1 /\ n % k <= n
  OBVIOUS

LEMMA PartOfPart ==
    ASSUME NEW S, NEW a \in Seq(S), NEW b, IsPart(b, a), NEW t, IsPart(t, b)
    PROVE  IsPart(t, a)
  <1>1. PICK m \in 0 .. Len(a) : b = Prefix(a, m)
    BY DEF IsPart, Prefix
  <1>2. b \in Seq(S) /\ Len(b) = m /\ \A i \in 1 .. m : b[i] = a[i]
    BY <1>1, Cut
  <1>3. PICK n \in 0 .. Len(b) : t = Prefix(b, n)
    BY DEF IsPart, Prefix
  <1>4. t \in Seq(S) /\ Len(t) = n /\ \A i \in 1 .. n : t[i] = b[i]
    BY <1>2, <1>3, Cut
  <1>5. Len(a) \in Nat
    OBVIOUS
  <1>6. n \in 0 .. Len(a) /\ n \in 0 .. m
    BY <1>2, <1>5
  <1> DEFINE p == Prefix(a, n)
  <1>7. p \in Seq(S) /\ Len(p) = n /\ \A i \in 1 .. n : p[i] = a[i]
    BY <1>6, Cut
  <1> HIDE DEF p
  <1>8. \A i \in 1 .. n : t[i] = p[i]
    BY <1>2, <1>4, <1>6, <1>7
  <1>9. t = p
    BY <1>4, <1>7, <1>8, SeqEqual
  <1> QED
    BY <1>6, <1>9 DEF p, IsPart, Prefix

LEMMA BufferedWriteWrites ==
    ASSUME NEW c \in Chains, Sound(c), NEW data \in Seq(Units), NEW o \in BufferedWrite(c, data)
    PROVE  WritesFile(c, o, data)
  <1>1. c.bytes \in Seq(Units) /\ c.buffer \in Seq(Units) /\ c.faults \in Nat
        /\ Len(c.buffer) \in Nat /\ Len(data) \in Nat /\ BufferSize \in Nat \ {0}
    BY SizesAssumption DEF Chains
  <1>2. /\ FileOf(c) \in Seq(Units) /\ FileOf(c) \o data \in Seq(Units)
        /\ IsPart(FileOf(c) \o data, FileOf(c) \o data) /\ IsPart(FileOf(c), FileOf(c) \o data)
    <2>1. FileOf(c) \in Seq(Units)
      BY <1>1, Joins DEF FileOf
    <2>2. FileOf(c) \o data \in Seq(Units)
      BY <2>1, Joins
    <2> QED
      BY <2>1, <2>2, Joins
  <1>3. CASE Len(data) <= BufferSize - Len(c.buffer)
    <2> DEFINE b == c.buffer \o data
               d == [c EXCEPT !.buffer = b]
    <2>1. b \in Seq(Units) /\ Len(b) = Len(c.buffer) + Len(data)
      BY <1>1, Joins
    <2>2. c.bytes \o b = FileOf(c) \o data
      BY <1>1, RegroupUnits DEF FileOf
    <2>3. o = [c |-> d, ok |-> TRUE]
      BY <1>3 DEF BufferedWrite, Fine
    <2> HIDE DEF b
    <2>4. d \in Chains /\ d.bytes = c.bytes /\ d.buffer = b /\ d.faults = c.faults /\ SameEncoders(c, d)
          /\ d.held = c.held /\ d.block = c.block
      BY <2>1 DEF Chains, SameEncoders
    <2> HIDE DEF d
    <2>5. Len(b) <= BufferSize
      BY <1>1, <1>3, <2>1
    <2>6. Sound(d)
      BY <2>4, <2>5 DEF Sound
    <2>7. FileOf(d) = FileOf(c) \o data
      BY <2>2, <2>4 DEF FileOf
    <2>8. o \in Outcomes /\ o.c = d /\ o.ok
      BY <2>3, <2>4 DEF Outcomes
    <2>9. Tells(c, o)
      BY <1>1, <2>4, <2>8 DEF Tells
    <2> QED
      BY <1>2, <2>4, <2>6, <2>7, <2>8, <2>9 DEF WritesFile
  <1>4. CASE ~(Len(data) <= BufferSize - Len(c.buffer))
    <2> DEFINE tail == Len(data) % BufferSize
               whole == Len(data) - tail
               head == Prefix(data, whole)
               rest == Rest(data, whole)
    <2>1. tail \in 0 .. BufferSize - 1 /\ tail <= Len(data)
      BY <1>1, Remainder
    <2>2. whole \in 0 .. Len(data) /\ Len(data) - whole = tail
      BY <1>1, <2>1
    <2>3. PICK p \in FlushBuffer(c) :
             \/ ~p.ok /\ o = p
             \/ /\ p.ok
                /\ \E h \in FileWrite(p.c, head) :
                      \/ ~h.ok /\ o = h
                      \/ h.ok /\ o = [c |-> [h.c EXCEPT !.buffer = @ \o rest], ok |-> TRUE]
      BY <1>4 DEF BufferedWrite, AndThen, Fine
    <2> HIDE DEF tail, whole
    <2>4. /\ head \in Seq(Units) /\ rest \in Seq(Units) /\ head \o rest = data
          /\ Len(rest) = tail /\ IsPart(head, data)
      BY <2>2, Cut
    <2> HIDE DEF head, rest
    <2>5. WritesFile(c, p, << >>) /\ p.c.buffer = << >>
      BY FlushBufferEmpties
    <2>6. p.c \in Chains /\ Sound(p.c) /\ SameEncoders(c, p.c) /\ Tells(c, p)
          /\ p.c.bytes \in Seq(Units) /\ p.c.faults \in Nat
      BY <2>5 DEF WritesFile, Outcomes, Chains
    <2>7. FileOf(c) \o << >> = FileOf(c)
      BY <1>2, Joins
    <2>10. FileOf(c) \o head \in Seq(Units) /\ (FileOf(c) \o head) \o rest = FileOf(c) \o (head \o rest)
      <3> DEFINE f == FileOf(c)
      <3>1. f \in Seq(Units) /\ head \in Seq(Units) /\ rest \in Seq(Units)
        BY <1>2, <2>4
      <3> HIDE DEF f
      <3>2. f \o head \in Seq(Units) /\ (f \o head) \o rest = f \o (head \o rest)
        BY <3>1, RegroupUnits, Closed
      <3> QED
        BY <3>2 DEF f
    <2>8. CASE ~p.ok /\ o = p
      <3>1. IsPart(FileOf(o.c), FileOf(c))
        BY <2>5, <2>7, <2>8 DEF WritesFile
      <3>2. IsPart(FileOf(o.c), FileOf(c) \o data)
        BY <1>2, <3>1, PartOfPart
      <3> QED
        BY <2>5, <2>8, <3>2 DEF WritesFile
    <2>9. CASE /\ p.ok
               /\ \E h \in FileWrite(p.c, head) :
                      \/ ~h.ok /\ o = h
                      \/ h.ok /\ o = [c |-> [h.c EXCEPT !.buffer = @ \o rest], ok |-> TRUE]
      <3>1. PICK h \in FileWrite(p.c, head) :
                      \/ ~h.ok /\ o = h
                      \/ h.ok /\ o = [c |-> [h.c EXCEPT !.buffer = @ \o rest], ok |-> TRUE]
        BY <2>9
      <3>2. p.c.bytes = FileOf(c)
        <4>1. FileOf(p.c) = FileOf(c)
          BY <2>5, <2>7, <2>9 DEF WritesFile
        <4>2. FileOf(p.c) = p.c.bytes
          BY <2>5, <2>6, Joins DEF FileOf
        <4> QED
          BY <4>1, <4>2
      <3>3. /\ h \in Outcomes /\ Sound(h.c) /\ OnlyFile(p.c, h.c) /\ Tells(p.c, h)
            /\ Takes(p.c, h, head)
        BY <2>4, <2>6, FileWriteTakes
      <3>4. PICK m \in 0 .. Len(head) : /\ h.c.bytes = p.c.bytes \o Prefix(head, m)
                                        /\ h.ok <=> m = Len(head)
        BY <3>3 DEF Takes
      <3>5. h.c \in Chains /\ h.c.bytes \in Seq(Units) /\ h.c.buffer = << >> /\ h.c.faults \in Nat
            /\ SameEncoders(c, h.c)
        BY <2>5, <2>6, <3>3 DEF Outcomes, Chains, OnlyFile, SameEncoders
      <3>6. h.c.faults >= c.faults /\ (h.c.faults = c.faults => h.ok)
        BY <1>1, <2>6, <3>3, <3>5 DEF Tells
      <3>7. CASE ~h.ok /\ o = h
        <4>1. FileOf(o.c) = FileOf(c) \o Prefix(head, m)
          <5>1. FileOf(h.c) = h.c.bytes
            BY <3>5, Joins DEF FileOf
          <5> QED
            BY <3>2, <3>4, <3>7, <5>1
        <4>2. IsPart(FileOf(o.c), FileOf(c) \o head)
          BY <1>2, <2>4, <4>1, Joins
        <4>3. IsPart(FileOf(c) \o head, FileOf(c) \o data)
          <5>1. FileOf(c) \o head \in Seq(Units) /\ (FileOf(c) \o head) \o rest = FileOf(c) \o (head \o rest)
            BY <2>10
          <5>2. IsPart(FileOf(c) \o head, (FileOf(c) \o head) \o rest)
            BY <2>4, <5>1, Joins
          <5> QED
            BY <2>4, <5>1, <5>2
        <4>4. IsPart(FileOf(o.c), FileOf(c) \o data)
          BY <1>2, <4>2, <4>3, PartOfPart
        <4> QED
          BY <3>3, <3>5, <3>6, <3>7, <4>4 DEF WritesFile, Tells
      <3>8. CASE h.ok /\ o = [c |-> [h.c EXCEPT !.buffer = @ \o rest], ok |-> TRUE]
        <4>1. << >> \o rest = rest
          BY <2>4, Joins
        <4> DEFINE d == [h.c EXCEPT !.buffer = rest]
        <4>2. o = [c |-> d, ok |-> TRUE]
          BY <3>5, <3>8, <4>1
        <4>3. d \in Chains /\ d.bytes = h.c.bytes /\ d.buffer = rest /\ d.faults = h.c.faults
              /\ SameEncoders(h.c, d) /\ d.held = h.c.held /\ d.block = h.c.block
          BY <2>4, <3>5 DEF Chains, SameEncoders
        <4> HIDE DEF d
        <4>4. Sound(d)
          BY <1>1, <2>1, <2>4, <3>3, <4>3 DEF Sound
        <4>5. Prefix(head, m) = head
          <5>1. m = Len(head)
            BY <3>4, <3>8
          <5>2. /\ Prefix(head, m) \in Seq(Units) /\ Len(Prefix(head, m)) = m
                /\ \A i \in 1 .. m : Prefix(head, m)[i] = head[i]
            BY <2>4, Cut
          <5> QED
            BY <2>4, <5>1, <5>2, SeqEqual
        <4>6. FileOf(d) = FileOf(c) \o data
          <5>1. (FileOf(c) \o head) \o rest = FileOf(c) \o (head \o rest)
            BY <2>10
          <5> QED
            BY <2>4, <3>2, <3>4, <4>3, <4>5, <5>1 DEF FileOf
        <4>7. SameEncoders(c, d)
          BY <3>5, <4>3 DEF SameEncoders
        <4>8. Tells(c, o)
          BY <3>6, <4>2, <4>3 DEF Tells
        <4>9. o \in Outcomes /\ o.c = d /\ o.ok
          BY <4>2, <4>3 DEF Outcomes
        <4> QED
          BY <1>2, <4>4, <4>6, <4>7, <4>8, <4>9 DEF WritesFile
      <3> QED
        BY <3>1, <3>7, <3>8
    <2> QED
      BY <2>3, <2>8, <2>9
  <1> QED
    BY <1>3, <1>4


-----------------------------------------------------------------------------
Quiet(c) == c.buffer = << >> /\ c.held = 0

LEMMA BufferedFlushKeeps ==
    ASSUME NEW c \in Chains, Sound(c), NEW o \in BufferedFlush(c)
    PROVE  /\ WritesFile(c, o, << >>) /\ o.c.buffer = << >>
           /\ o.ok => Quiet(o.c)
           /\ Quiet(c) => o.ok
  <1> DEFINE f == c.flushes + 1
             b == [c EXCEPT !.flushes = f]
  <1>1. f \in Nat
    BY DEF Chains
  <1>2. PICK p \in FlushBuffer(b) : \E n \in FileFlush(p.c) : o = [n EXCEPT !.ok = @ /\ p.ok]
    BY DEF BufferedFlush, Regardless
  <1>3. PICK n \in FileFlush(p.c) : o = [n EXCEPT !.ok = @ /\ p.ok]
    BY <1>2
  <1> HIDE DEF f
  <1>4. /\ b \in Chains /\ b.bytes = c.bytes /\ b.buffer = c.buffer /\ b.faults = c.faults
        /\ SameEncoders(c, b) /\ b.held = c.held /\ b.block = c.block
    BY <1>1 DEF Chains, SameEncoders
  <1> HIDE DEF b
  <1>5. Sound(b) /\ FileOf(b) = FileOf(c)
    BY <1>4 DEF Sound, FileOf
  <1>6. WritesFile(b, p, << >>) /\ p.c.buffer = << >>
    BY <1>4, <1>5, FlushBufferEmpties
  <1>7. /\ p.c \in Chains /\ Sound(p.c) /\ p.ok \in BOOLEAN /\ SameEncoders(b, p.c) /\ Tells(b, p)
        /\ IsPart(FileOf(p.c), FileOf(b) \o << >>)
        /\ p.ok => FileOf(p.c) = FileOf(b) \o << >>
    BY <1>6 DEF WritesFile, Outcomes
  <1>8. /\ n \in Outcomes /\ Sound(n.c) /\ OnlyFile(p.c, n.c) /\ Tells(p.c, n)
        /\ Shorter(p.c, n.c)
        /\ n.ok => n.c.bytes = p.c.bytes /\ n.c.held = 0
        /\ p.c.held = 0 => n.ok
    BY <1>7, FileFlushLoses
  <1>9. n.c \in Chains /\ n.ok \in BOOLEAN /\ n = [c |-> n.c, ok |-> n.ok]
    BY <1>8 DEF Outcomes
  <1>10. o.c = n.c /\ o.ok = (n.ok /\ p.ok) /\ o \in Outcomes
    BY <1>3, <1>7, <1>9 DEF Outcomes
  <1>11. p.c.bytes \in Seq(Units) /\ n.c.bytes \in Seq(Units) /\ FileOf(c) \in Seq(Units)
         /\ c.faults \in Nat /\ p.c.faults \in Nat /\ n.c.faults \in Nat
    BY <1>7, <1>9, Closed DEF Chains, FileOf
  <1>12. FileOf(p.c) = p.c.bytes /\ n.c.buffer = << >> /\ FileOf(n.c) = n.c.bytes
         /\ FileOf(c) \o << >> = FileOf(c)
    BY <1>6, <1>8, <1>11, ConcatEmptySeq DEF FileOf, OnlyFile
  <1>13. IsPart(FileOf(n.c), FileOf(c) \o << >>)
    <2>1. PICK k \in 0 .. Len(p.c.bytes) : n.c.bytes = Prefix(p.c.bytes, k)
      BY <1>8 DEF Shorter
    <2>2. IsPart(n.c.bytes, p.c.bytes)
      BY <1>11, <2>1, Cut
    <2>3. IsPart(p.c.bytes, FileOf(c))
      BY <1>5, <1>7, <1>12
    <2> QED
      BY <1>11, <1>12, <2>2, <2>3, PartOfPart
  <1>14. o.ok => FileOf(o.c) = FileOf(c) \o << >>
    BY <1>5, <1>7, <1>8, <1>9, <1>10, <1>12
  <1>15. SameEncoders(c, o.c)
    BY <1>4, <1>7, <1>8, <1>10 DEF SameEncoders, OnlyFile
  <1>16. Tells(c, o)
    <2>1. p.c.faults >= c.faults /\ (p.c.faults = c.faults => p.ok)
      BY <1>4, <1>7 DEF Tells
    <2>2. n.c.faults >= p.c.faults /\ (n.c.faults = p.c.faults => n.ok)
      BY <1>8 DEF Tells
    <2>3. n.c.faults >= c.faults /\ (n.c.faults = c.faults => n.ok /\ p.ok)
      BY <1>11, <2>1, <2>2
    <2> QED
      BY <1>10, <2>3 DEF Tells
  <1>17. WritesFile(c, o, << >>)
    BY <1>8, <1>10, <1>13, <1>14, <1>15, <1>16 DEF WritesFile
  <1>18. o.ok => Quiet(o.c)
    BY <1>8, <1>9, <1>10, <1>12 DEF Quiet
  <1>19. Quiet(c) => o.ok
    <2> SUFFICES ASSUME Quiet(c) PROVE o.ok
      OBVIOUS
    <2>1. p = [c |-> b, ok |-> TRUE]
      BY <1>4 DEF Quiet, FlushBuffer, Fine
    <2>2. p.ok /\ p.c.held = 0
      BY <1>4, <2>1 DEF Quiet
    <2> QED
      BY <1>8, <1>10, <2>2
  <1> QED
    BY <1>12, <1>10, <1>17, <1>18, <1>19

-----------------------------------------------------------------------------
(* Where encoders put what they make: the file, or the temporary stream.   *)
Out(c) == IF setup.direct THEN c.temporary ELSE FileOf(c)

SameCipher(c, d) ==
    /\ d.key = c.key /\ d.iv = c.iv /\ d.block = c.block /\ d.padded = c.padded

SameFlate(c, d) ==
    d.pending = c.pending /\ d.encoding = c.encoding

(* The other of the two is left alone. *)
Aside(c, d) ==
    IF setup.direct
    THEN d.bytes = c.bytes /\ d.buffer = c.buffer
    ELSE d.temporary = c.temporary

(* What any write below an encoder promises.                               *)
Puts(c, o, data) ==
    /\ o \in Outcomes /\ Sound(o.c) /\ Aside(c, o.c) /\ o.c.faults >= c.faults
    /\ Ordered(Out(c), data, Out(o.c))

TargetPuts(c, o, data) ==
    /\ Puts(c, o, data) /\ SameCipher(c, o.c) /\ SameFlate(c, o.c) /\ Tells(c, o)
    /\ o.ok => Out(o.c) = Out(c) \o data

LEMMA OutIs ==
    ASSUME NEW c \in Chains
    PROVE  /\ Out(c) \in Seq(Units) /\ FileOf(c) \in Seq(Units) /\ c.temporary \in Seq(Units)
           /\ c.faults \in Nat
           /\ Out(c) \o << >> = Out(c)
  <1>1. FileOf(c) \in Seq(Units) /\ c.temporary \in Seq(Units) /\ c.faults \in Nat
    BY Closed DEF Chains, FileOf
  <1>2. Out(c) \in Seq(Units)
    BY <1>1 DEF Out
  <1> QED
    BY <1>1, <1>2, ConcatEmptySeq

LEMMA FileIsTarget ==
    ASSUME NEW c \in Chains, ~setup.direct, NEW data \in Seq(Units), NEW o, WritesFile(c, o, data)
    PROVE  TargetPuts(c, o, data)
  <1>1. Out(c) = FileOf(c) /\ Out(o.c) = FileOf(o.c)
    BY DEF Out
  <1>2. Ordered(FileOf(c), data, FileOf(o.c))
    BY OutIs, PartOrdered DEF WritesFile
  <1> QED
    BY <1>1, <1>2
       DEF WritesFile, TargetPuts, Puts, SameEncoders, SameCipher, SameFlate, Aside, Tells

LEMMA TargetWritePuts ==
    ASSUME NEW c \in Chains, Sound(c), NEW data \in Seq(Units), NEW o \in TargetWrite(c, data)
    PROVE  TargetPuts(c, o, data)
  <1>1. CASE ~setup.direct
    <2>1. o \in BufferedWrite(c, data)
      BY <1>1 DEF TargetWrite
    <2> QED
      BY <1>1, <2>1, BufferedWriteWrites, FileIsTarget
  <1>2. CASE setup.direct
    <2> DEFINE t == c.temporary \o data
               d == [c EXCEPT !.temporary = t]
    <2>1. o = [c |-> d, ok |-> TRUE]
      BY <1>2 DEF TargetWrite, Fine
    <2>2. t \in Seq(Units) /\ IsPart(t, t)
      <3>1. t \in Seq(Units)
        BY OutIs, Closed
      <3> QED
        BY <3>1, Joins
    <2>3. Ordered(c.temporary, data, t)
      BY <2>2, OutIs, PartOrdered
    <2> HIDE DEF t
    <2>4. /\ d \in Chains /\ d.temporary = t /\ d.bytes = c.bytes /\ d.buffer = c.buffer
          /\ d.held = c.held /\ d.block = c.block /\ d.faults = c.faults
          /\ SameCipher(c, d) /\ SameFlate(c, d)
      BY <2>2 DEF Chains, SameCipher, SameFlate
    <2> HIDE DEF d
    <2>5. Sound(d)
      BY <2>4 DEF Sound
    <2>6. o \in Outcomes /\ o.c = d /\ o.ok
      BY <2>1, <2>4 DEF Outcomes
    <2>7. Out(c) = c.temporary /\ Out(d) = t
      BY <1>2, <2>4 DEF Out
    <2>8. Tells(c, o) /\ o.c.faults >= c.faults
      BY <2>4, <2>6, OutIs DEF Tells
    <2>9. Aside(c, d)
      BY <1>2, <2>4 DEF Aside
    <2>10. Puts(c, o, data)
      BY <2>3, <2>5, <2>6, <2>7, <2>8, <2>9 DEF Puts
    <2> QED
      BY <2>4, <2>6, <2>7, <2>8, <2>10 DEF TargetPuts, t
  <1> QED
    BY <1>1, <1>2

(* A Flush of the target puts nothing; when one went well, the next one    *)
(* does as well.                                                           *)
Settled(c) == setup.direct \/ Quiet(c)

LEMMA TargetFlushKeeps ==
    ASSUME NEW c \in Chains, Sound(c), NEW o \in TargetFlush(c)
    PROVE  /\ TargetPuts(c, o, << >>)
           /\ o.ok => Settled(o.c)
           /\ Settled(c) => o.ok
  <1>1. CASE ~setup.direct
    <2>1. o \in BufferedFlush(c)
      BY <1>1 DEF TargetFlush
    <2>2. /\ WritesFile(c, o, << >>)
          /\ o.ok => Quiet(o.c)
          /\ Quiet(c) => o.ok
      BY <2>1, BufferedFlushKeeps
    <2>3. << >> \in Seq(Units)
      OBVIOUS
    <2> QED
      BY <1>1, <2>2, <2>3, FileIsTarget DEF Settled
  <1>2. CASE setup.direct
    <2>1. o = [c |-> c, ok |-> TRUE]
      BY <1>2 DEF TargetFlush, Fine
    <2>2. o \in Outcomes /\ o.c = c /\ o.ok
      BY <2>1 DEF Outcomes
    <2>3. << >> \in Seq(Units) /\ Out(c) \in Seq(Units) /\ IsPart(Out(c), Out(c) \o << >>)
      BY OutIs, Joins
    <2>4. Ordered(Out(c), << >>, Out(c))
      BY <2>3, PartOrdered
    <2> QED
      BY <1>2, <2>2, <2>4, OutIs DEF Settled, TargetPuts, Puts, SameCipher, SameFlate, Aside, Tells
  <1> QED
    BY <1>1, <1>2


-----------------------------------------------------------------------------
(* One unit after the other: what a loop over data computes.               *)
Loops(f, V, base, D, data, one) ==
    /\ f \in [0 .. Len(data) -> V] /\ f[0] = base
    /\ \A k \in 1 .. Len(data) : f[k] = one[<<f[k - 1], data[k]>>]

LEMMA UnitByUnit ==
    ASSUME NEW V, NEW base \in V, NEW D, NEW data \in Seq(D), NEW one \in [V \X D -> V]
    PROVE  \E f : Loops(f, V, base, D, data, one)
  <1> DEFINE n == Len(data)
             step == [p \in (1 .. n) \X V |-> one[<<p[2], data[p[1]]>>]]
  <1>1. n \in Nat /\ \A k \in 1 .. n : data[k] \in D
    OBVIOUS
  <1> HIDE DEF n
  <1>2. step \in [(1 .. n) \X V -> V]
    BY <1>1
  <1>3. \A k \in 1 .. n, x \in V : step[<<k, x>>] = one[<<x, data[k]>>]
    OBVIOUS
  <1> HIDE DEF step
  <1>4. PICK f : Steps(f, V, base, n, step)
    BY <1>1, <1>2, Recursion
  <1>5. \A k \in 1 .. n : f[k - 1] \in V
    BY <1>1, <1>4 DEF Steps
  <1>6. f \in [0 .. n -> V] /\ f[0] = base /\ \A k \in 1 .. n : f[k] = one[<<f[k - 1], data[k]>>]
    BY <1>3, <1>4, <1>5 DEF Steps
  <1> QED
    BY <1>6 DEF Loops, n

LEMMA Grows ==
    ASSUME NEW D, NEW data \in Seq(D), NEW k \in 0 .. Len(data) - 1
    PROVE  /\ Prefix(data, k) \in Seq(D) /\ data[k + 1] \in D
           /\ Prefix(data, k + 1) = Prefix(data, k) \o <<data[k + 1]>>
  <1>1. Len(data) \in Nat /\ k \in 0 .. Len(data) /\ k + 1 \in 0 .. Len(data) /\ k \in Nat
    OBVIOUS
  <1>2. data[k + 1] \in D
    BY <1>1
  <1> DEFINE p == Prefix(data, k)
             h == Prefix(data, k + 1)
             u == data[k + 1]
  <1>3. p \in Seq(D) /\ Len(p) = k /\ \A i \in 1 .. k : p[i] = data[i]
    BY <1>1, Cut
  <1>4. h \in Seq(D) /\ Len(h) = k + 1 /\ \A i \in 1 .. k + 1 : h[i] = data[i]
    BY <1>1, Cut
  <1> HIDE DEF p, h
  <1>5. <<u>> \in Seq(D) /\ Len(<<u>>) = 1 /\ <<u>>[1] = u
    BY <1>2
  <1> DEFINE v == <<u>>
  <1> HIDE DEF v
  <1>6. p \o v \in Seq(D) /\ Len(p \o v) = k + 1
    BY <1>3, <1>5, ConcatProperties DEF v
  <1>7. ASSUME NEW i \in 1 .. k + 1 PROVE h[i] = (p \o v)[i]
    <2>1. (p \o v)[i] = IF i <= Len(p) THEN p[i] ELSE v[i - Len(p)]
      BY <1>1, <1>3, <1>5, <1>7, ConcatProperties DEF v
    <2>2. CASE i <= k
      BY <1>1, <1>3, <1>4, <2>1, <2>2
    <2>3. CASE i = k + 1
      BY <1>1, <1>3, <1>4, <1>5, <2>1, <2>3 DEF v
    <2>4. i <= k \/ i = k + 1
      BY <1>1
    <2> QED
      BY <2>2, <2>3, <2>4
  <1>8. h = p \o v
    BY <1>4, <1>6, <1>7, SeqEqual
  <1> QED
    BY <1>2, <1>3, <1>8 DEF p, h, v

LEMMA Whole ==
    ASSUME NEW D, NEW data \in Seq(D)
    PROVE  Prefix(data, Len(data)) = data /\ Prefix(data, 0) = << >> /\ Len(data) \in 0 .. Len(data)
  <1>1. Len(data) \in Nat /\ Len(data) \in 0 .. Len(data) /\ 0 \in 0 .. Len(data)
    OBVIOUS
  <1>2. Prefix(data, Len(data)) = data
    <2> DEFINE p == Prefix(data, Len(data))
    <2>1. p \in Seq(D) /\ Len(p) = Len(data) /\ \A i \in 1 .. Len(data) : p[i] = data[i]
      BY <1>1, Cut
    <2> HIDE DEF p
    <2>2. p = data
      BY <1>1, <2>1, SeqEqual
    <2> QED
      BY <2>2 DEF p
  <1>3. Prefix(data, 0) \in Seq(D) /\ Len(Prefix(data, 0)) = 0
    BY <1>1, Cut
  <1> QED
    BY <1>1, <1>2, <1>3, EmptySeq

-----------------------------------------------------------------------------
(* Order: of single units, of more than one write, and of a write whose    *)
(* units have the numbers of others.                                       *)
LEMMA NumsOne ==
    ASSUME NEW u
    PROVE  /\ Nums(<<u>>) = IF Numbered(u) THEN {NumberOf(u)} ELSE {}
           /\ Ascends(<<u>>)
           /\ Nums(<< >>) = {} /\ Ascends(<< >>)
  <1>1. DOMAIN <<u>> = {1} /\ <<u>>[1] = u
    OBVIOUS
  <1>2. DOMAIN << >> = {}
    OBVIOUS
  <1>3. Nums(<<u>>) = IF Numbered(u) THEN {NumberOf(u)} ELSE {}
    BY <1>1 DEF Nums
  <1>4. Ascends(<<u>>)
    BY <1>1 DEF Ascends
  <1>5. Nums(<< >>) = {} /\ Ascends(<< >>)
    BY <1>2 DEF Nums, Ascends
  <1> QED
    BY <1>3, <1>4, <1>5

LEMMA OrderedThen ==
    ASSUME NEW s \in Seq(Units), NEW a \in Seq(Units), NEW b \in Seq(Units),
           NEW t \in Seq(Units), NEW w, Ordered(s, a, t), Ordered(t, b, w)
    PROVE  Ordered(s, a \o b, w)
  <1>1. Nums(a \o b) = Nums(a) \cup Nums(b)
    BY NumsJoin
  <1>2. a \o b \in Seq(Units) /\ s \o a \in Seq(Units)
    BY Closed
  <1>3. ASSUME Ascends(s \o (a \o b)) PROVE Ascends(w)
    <2>1. Ascends(s) /\ Ascends(a \o b) /\ Before(Nums(s), Nums(a \o b))
      BY <1>2, <1>3, AscendsJoin
    <2>2. Ascends(a) /\ Ascends(b) /\ Before(Nums(a), Nums(b))
      BY <2>1, AscendsJoin
    <2>3. Before(Nums(s), Nums(a)) /\ Before(Nums(s), Nums(b))
      BY <1>1, <2>1 DEF Before
    <2>4. Ascends(s \o a)
      BY <2>1, <2>2, <2>3, AscendsJoin
    <2>5. Ascends(t) /\ Nums(t) \subseteq Nums(s) \cup Nums(a)
      BY <2>4 DEF Ordered
    <2>6. Before(Nums(t), Nums(b))
      BY <2>2, <2>3, <2>5 DEF Before
    <2>7. Ascends(t \o b)
      BY <2>2, <2>5, <2>6, AscendsJoin
    <2> QED
      BY <2>7 DEF Ordered
  <1> QED
    BY <1>1, <1>3 DEF Ordered

LEMMA OrderedLike ==
    ASSUME NEW s \in Seq(Units), NEW a \in Seq(Units), NEW b \in Seq(Units), NEW t,
           Ordered(s, a, t), Nums(a) \subseteq Nums(b), Ascends(b) => Ascends(a)
    PROVE  Ordered(s, b, t)
  <1>1. ASSUME Ascends(s \o b) PROVE Ascends(t)
    <2>1. Ascends(s) /\ Ascends(b) /\ Before(Nums(s), Nums(b))
      BY <1>1, AscendsJoin
    <2>2. Before(Nums(s), Nums(a))
      BY <2>1 DEF Before
    <2>3. Ascends(s \o a)
      BY <2>1, <2>2, AscendsJoin
    <2> QED
      BY <2>3 DEF Ordered
  <1> QED
    BY <1>1 DEF Ordered

LEMMA PutsLike ==
    ASSUME NEW c \in Chains, NEW o, NEW a \in Seq(Units), NEW b \in Seq(Units),
           Puts(c, o, a), Nums(a) \subseteq Nums(b), Ascends(b) => Ascends(a)
    PROVE  Puts(c, o, b)
  BY OutIs, OrderedLike DEF Puts

LEMMA PutsThen ==
    ASSUME NEW c \in Chains, NEW o, NEW p, NEW a \in Seq(Units), NEW b \in Seq(Units),
           Puts(c, o, a), Puts(o.c, p, b)
    PROVE  Puts(c, p, a \o b)
  <1>1. o.c \in Chains /\ p.c \in Chains
    BY DEF Puts, Outcomes
  <1>2. /\ Out(c) \in Seq(Units) /\ Out(o.c) \in Seq(Units)
        /\ c.faults \in Nat /\ o.c.faults \in Nat /\ p.c.faults \in Nat
    BY <1>1, OutIs
  <1>3. Ordered(Out(c), a \o b, Out(p.c))
    BY <1>2, OrderedThen DEF Puts
  <1>4. p.c.faults >= c.faults
    BY <1>2 DEF Puts
  <1>5. Aside(c, p.c)
    BY DEF Puts, Aside
  <1> QED
    BY <1>3, <1>4, <1>5 DEF Puts


-----------------------------------------------------------------------------
(***************************************************************************)
(* The encryption streams.                                                 *)
(***************************************************************************)
(* The outcomes within their bounds. *)
Fits == {o \in Outcomes : Sound(o.c)}

LEMMA KeyedIs ==
    ASSUME NEW u \in Deflated, NEW k \in Nat
    PROVE  /\ Keyed(k, u) \in Units
           /\ Nums(<<Keyed(k, u)>>) \subseteq Nums(<<u>>)
  <1>1. <<u>> \in Seq(Deflated) /\ <<u>>[1] = u
    OBVIOUS
  <1>2. Keyed(k, u) = [kind |-> "rc4", n |-> k, of |-> <<u>>]
    BY DEF Keyed
  <1>3. Keyed(k, u) \in Units
    <2> DEFINE v == <<u>>
    <2>1. v \in Seq(Deflated)
      BY <1>1
    <2>2. Keyed(k, u) = [kind |-> "rc4", n |-> k, of |-> v]
      BY <1>2
    <2> HIDE DEF v
    <2>3. "rc4" \in Kinds
      BY DEF Kinds
    <2> QED
      BY <2>1, <2>2, <2>3 DEF Units
  <1>4. Numbered(Keyed(k, u)) => Numbered(u) /\ NumberOf(Keyed(k, u)) = NumberOf(u)
    <2> DEFINE v == Keyed(k, u)
    <2>1. v.kind = "rc4" /\ v.of[1] = u
      BY <1>1, <1>2
    <2> HIDE DEF v
    <2>2. Numbered(v) => u.kind = "raw"
      BY <2>1 DEF Numbered
    <2>3. u.kind = "raw" => Numbered(u) /\ NumberOf(u) = u.n /\ NumberOf(v) = u.n
      BY <2>1 DEF Numbered, NumberOf
    <2> QED
      BY <2>2, <2>3 DEF v
  <1>5. Nums(<<Keyed(k, u)>>) \subseteq Nums(<<u>>)
    BY <1>4, NumsOne
  <1> QED
    BY <1>3, <1>5

(* One byte, after whatever the stream's Write said of the one before. *)
RC4Byte(h, u, o) ==
    o \in Ignored(TargetWrite([h.c EXCEPT !.key = @ + 1], <<Keyed(h.c.key + 1, u)>>))

LEMMA RC4WritesOne ==
    ASSUME NEW h, NEW c \in Chains, c = h.c, Sound(c), NEW u \in Deflated, NEW o, RC4Byte(h, u, o)
    PROVE  /\ o.ok /\ Puts(c, o, <<u>>) /\ SameFlate(c, o.c)
           /\ o.c.key = c.key + 1 /\ o.c.iv = c.iv /\ o.c.block = c.block /\ o.c.padded = c.padded
           /\ o.c.faults = c.faults => Out(o.c) = Out(c) \o <<Keyed(c.key + 1, u)>>
  <1> DEFINE k == c.key + 1
             b == [c EXCEPT !.key = k]
             e == <<Keyed(k, u)>>
  <1>1. k \in Nat
    BY DEF Chains
  <1>2. PICK p \in TargetWrite(b, e) : o = [p EXCEPT !.ok = TRUE]
    BY DEF Ignored, RC4Byte
  <1> HIDE DEF k
  <1>3. /\ b \in Chains /\ b.key = k /\ b.bytes = c.bytes /\ b.buffer = c.buffer /\ b.held = c.held
        /\ b.temporary = c.temporary /\ b.iv = c.iv /\ b.block = c.block /\ b.padded = c.padded
        /\ b.pending = c.pending /\ b.encoding = c.encoding /\ b.faults = c.faults
    BY <1>1 DEF Chains
  <1>4. e \in Seq(Units) /\ <<u>> \in Seq(Units) /\ Nums(e) \subseteq Nums(<<u>>)
    BY <1>1, KeyedIs, Levels
  <1> HIDE DEF b, e
  <1>5. Sound(b)
    BY <1>3 DEF Sound
  <1>6. TargetPuts(b, p, e)
    BY <1>2, <1>3, <1>4, <1>5, TargetWritePuts
  <1>7. p \in Outcomes /\ Out(b) = Out(c)
    BY <1>3, <1>6 DEF TargetPuts, Puts, Out, FileOf
  <1>8. o.c = p.c /\ o.ok = TRUE /\ o \in Outcomes
    BY <1>2, <1>7 DEF Outcomes
  <1>9. Puts(c, o, e)
    BY <1>3, <1>6, <1>7, <1>8 DEF TargetPuts, Puts, Aside
  <1>10. Puts(c, o, <<u>>)
    BY <1>4, <1>9, PutsLike, NumsOne DEF e
  <1>11. SameFlate(c, o.c) /\ o.c.key = k /\ o.c.iv = c.iv /\ o.c.block = c.block /\ o.c.padded = c.padded
    BY <1>3, <1>6, <1>8 DEF TargetPuts, SameFlate, SameCipher
  <1>12. o.c.faults = c.faults => Out(o.c) = Out(c) \o e
    BY <1>3, <1>6, <1>7, <1>8 DEF TargetPuts, Tells
  <1> QED
    BY <1>8, <1>10, <1>11, <1>12 DEF k, e

(* The plain units P, keyed in their order, are E. *)
RC4Of(c, P, E) ==
    /\ c.key = Len(P) /\ Len(E) = Len(P)
    /\ \A k \in 1 .. Len(P) : E[k] = Keyed(k, P[k])

RC4Holds(c, pre, P) ==
    \E E \in Seq(Units) : Out(c) = pre \o E /\ RC4Of(c, P, E)

LEMMA RC4HoldsMore ==
    ASSUME NEW c \in Chains, NEW d \in Chains, NEW u \in Deflated,
           NEW pre \in Seq(Units), NEW P \in Seq(Deflated), RC4Holds(c, pre, P),
           d.key = c.key + 1, Out(d) = Out(c) \o <<Keyed(c.key + 1, u)>>
    PROVE  RC4Holds(d, pre, P \o <<u>>)
  <1>1. PICK E \in Seq(Units) : Out(c) = pre \o E /\ RC4Of(c, P, E)
    BY DEF RC4Holds
  <1> DEFINE n == Len(P)
             e == <<Keyed(n + 1, u)>>
             v == <<u>>
  <1>2. n \in Nat /\ c.key = n /\ Len(E) = n
    BY <1>1 DEF RC4Of
  <1>3. Keyed(n + 1, u) \in Units
    <2>1. n + 1 \in Nat
      BY <1>2
    <2> QED
      BY <2>1, KeyedIs
  <1>4. e \in Seq(Units) /\ Len(e) = 1 /\ e[1] = Keyed(n + 1, u)
    BY <1>3
  <1>5. v \in Seq(Deflated) /\ Len(v) = 1 /\ v[1] = u
    OBVIOUS
  <1>6. Out(d) = (pre \o E) \o e
    BY <1>1, <1>2
  <1> HIDE DEF e, v, n
  <1>7. Out(d) = pre \o (E \o e)
    BY <1>4, <1>6, RegroupUnits
  <1>8. /\ E \o e \in Seq(Units) /\ Len(E \o e) = n + 1
        /\ \A i \in 1 .. n + 1 : (E \o e)[i] = IF i <= n THEN E[i] ELSE e[i - n]
    <2>1. /\ E \o e \in Seq(Units) /\ Len(E \o e) = Len(E) + Len(e)
          /\ \A i \in 1 .. Len(E) + Len(e) : (E \o e)[i] = IF i <= Len(E) THEN E[i] ELSE e[i - Len(E)]
      BY <1>4, ConcatProperties
    <2> QED
      BY <1>2, <1>4, <2>1
  <1>9. /\ P \o v \in Seq(Deflated) /\ Len(P \o v) = n + 1
        /\ \A i \in 1 .. n + 1 : (P \o v)[i] = IF i <= n THEN P[i] ELSE v[i - n]
    <2>1. /\ P \o v \in Seq(Deflated) /\ Len(P \o v) = Len(P) + Len(v)
          /\ \A i \in 1 .. Len(P) + Len(v) : (P \o v)[i] = IF i <= Len(P) THEN P[i] ELSE v[i - Len(P)]
      BY <1>5, ConcatProperties
    <2> QED
      BY <1>2, <1>5, <2>1 DEF n
  <1>10. ASSUME NEW k \in 1 .. n + 1 PROVE (E \o e)[k] = Keyed(k, (P \o v)[k])
    <2>1. CASE k <= n
      <3>1. (E \o e)[k] = E[k] /\ (P \o v)[k] = P[k]
        BY <1>8, <1>9, <2>1
      <3>2. k \in 1 .. n
        BY <1>2, <2>1
      <3>3. E[k] = Keyed(k, P[k])
        BY <1>1, <3>2 DEF RC4Of, n
      <3> QED
        BY <3>1, <3>3
    <2>2. CASE k = n + 1
      <3>1. ~(k <= n) /\ k - n = 1
        BY <1>2, <2>2
      <3>2. (E \o e)[k] = e[1] /\ (P \o v)[k] = v[1]
        BY <1>8, <1>9, <3>1
      <3> QED
        BY <1>4, <1>5, <2>2, <3>2
    <2>3. k <= n \/ k = n + 1
      BY <1>2
    <2> QED
      BY <2>1, <2>2, <2>3
  <1>11. RC4Of(d, P \o v, E \o e)
    BY <1>2, <1>8, <1>9, <1>10 DEF RC4Of
  <1> QED
    BY <1>7, <1>8, <1>11 DEF RC4Holds, v

(* What an RC4 stream promises: no Write of it fails, and while the device *)
(* works every byte is encrypted with the key that is its turn.            *)
RC4Puts(c, o, data) ==
    /\ o.ok /\ Puts(c, o, data) /\ SameFlate(c, o.c) /\ o.c.padded = c.padded
    /\ o.c.faults = c.faults =>
          \A pre \in Seq(Units), P \in Seq(Deflated) :
              RC4Holds(c, pre, P) => RC4Holds(o.c, pre, P \o data)

LEMMA RC4PutsOneMore ==
    ASSUME NEW c \in Chains, NEW data \in Seq(Deflated), NEW o, RC4Puts(c, o, data),
           NEW u \in Deflated, NEW p, RC4Byte(o, u, p)
    PROVE  RC4Puts(c, p, data \o <<u>>)
  <1>1. o.c \in Chains /\ Sound(o.c) /\ Puts(c, o, data)
    BY DEF RC4Puts, Puts, Outcomes
  <1>2. /\ p.ok /\ Puts(o.c, p, <<u>>) /\ SameFlate(o.c, p.c)
        /\ p.c.key = o.c.key + 1 /\ p.c.padded = o.c.padded
        /\ p.c.faults = o.c.faults => Out(p.c) = Out(o.c) \o <<Keyed(o.c.key + 1, u)>>
    BY <1>1, RC4WritesOne
  <1>3. <<u>> \in Seq(Deflated) /\ <<u>> \in Seq(Units) /\ data \in Seq(Units)
    BY Levels
  <1>4. Puts(c, p, data \o <<u>>)
    BY <1>1, <1>2, <1>3, PutsThen
  <1>5. p.c \in Chains /\ c.faults \in Nat /\ o.c.faults \in Nat /\ p.c.faults \in Nat
        /\ o.c.faults >= c.faults /\ p.c.faults >= o.c.faults
    BY <1>1, <1>2, OutIs DEF Puts, Outcomes
  <1>6. ASSUME p.c.faults = c.faults, NEW pre \in Seq(Units), NEW P \in Seq(Deflated), RC4Holds(c, pre, P)
        PROVE  RC4Holds(p.c, pre, P \o (data \o <<u>>))
    <2>1. o.c.faults = c.faults /\ p.c.faults = o.c.faults
      BY <1>5, <1>6
    <2>2. RC4Holds(o.c, pre, P \o data)
      BY <1>6, <2>1 DEF RC4Puts
    <2>3. P \o data \in Seq(Deflated)
      BY Closed
    <2>4. RC4Holds(p.c, pre, (P \o data) \o <<u>>)
      BY <1>1, <1>2, <1>5, <2>1, <2>2, <2>3, RC4HoldsMore
    <2>5. (P \o data) \o <<u>> = P \o (data \o <<u>>)
      BY <1>3, Regroup
    <2> QED
      BY <2>4, <2>5
  <1>7. SameFlate(c, p.c) /\ p.c.padded = c.padded
    BY <1>2 DEF RC4Puts, SameFlate
  <1> QED
    BY <1>2, <1>4, <1>6, <1>7 DEF RC4Puts


LEMMA RC4WriteOneIs ==
    ASSUME NEW S, NEW u, NEW p
    PROVE  p \in RC4WriteOne(S, u) <=> \E o \in S : RC4Byte(o, u, p)
  BY DEF RC4WriteOne, RC4Byte

LEMMA RC4WriteFits ==
    ASSUME NEW S \in SUBSET Fits, NEW u \in Deflated
    PROVE  RC4WriteOne(S, u) \in SUBSET Fits
  <1> SUFFICES ASSUME NEW p \in RC4WriteOne(S, u) PROVE p \in Fits
    OBVIOUS
  <1>1. PICK o \in S : RC4Byte(o, u, p)
    BY RC4WriteOneIs
  <1>2. o.c \in Chains /\ Sound(o.c)
    BY DEF Fits, Outcomes
  <1>3. Puts(o.c, p, <<u>>)
    BY <1>1, <1>2, RC4WritesOne
  <1> QED
    BY <1>3 DEF Puts, Fits

RC4Runs(f, c, data) ==
    f = [n \in 0 .. Len(data) |-> IF n = 0 THEN Fine(c) ELSE RC4WriteOne(f[n - 1], data[n])]

LEMMA RC4RunsExist ==
    ASSUME NEW c \in Chains, Sound(c), NEW data \in Seq(Deflated)
    PROVE  \E f : RC4Runs(f, c, data)
  <1> DEFINE V == SUBSET Fits
             one == [p \in V \X Deflated |-> RC4WriteOne(p[1], p[2])]
  <1>1. Fine(c) \in V
    BY DEF Fine, Fits, Outcomes
  <1>2. one \in [V \X Deflated -> V]
    BY RC4WriteFits
  <1>3. \A S \in V, u \in Deflated : one[<<S, u>>] = RC4WriteOne(S, u)
    OBVIOUS
  <1> HIDE DEF V, one
  <1>4. PICK f : Loops(f, V, Fine(c), Deflated, data, one)
    BY <1>1, <1>2, UnitByUnit
  <1>5. Len(data) \in Nat /\ \A k \in 1 .. Len(data) : data[k] \in Deflated
    OBVIOUS
  <1>6. \A k \in 1 .. Len(data) : f[k - 1] \in V /\ data[k] \in Deflated
    BY <1>4, <1>5 DEF Loops
  <1>7. f[0] = Fine(c) /\ \A k \in 1 .. Len(data) : f[k] = RC4WriteOne(f[k - 1], data[k])
    BY <1>3, <1>4, <1>6 DEF Loops
  <1>8. \A k \in 0 .. Len(data) : k = 0 \/ k \in 1 .. Len(data)
    BY <1>5
  <1>9. RC4Runs(f, c, data)
    BY <1>4, <1>7, <1>8 DEF Loops, RC4Runs
  <1> QED
    BY <1>9

LEMMA RC4PutsNothing ==
    ASSUME NEW c \in Chains, Sound(c)
    PROVE  RC4Puts(c, [c |-> c, ok |-> TRUE], << >>)
  <1> DEFINE o == [c |-> c, ok |-> TRUE]
  <1>1. o \in Outcomes /\ o.c = c /\ o.ok
    BY DEF Outcomes
  <1> HIDE DEF o
  <1>2. << >> \in Seq(Units) /\ Out(c) \in Seq(Units) /\ IsPart(Out(c), Out(c) \o << >>)
    BY OutIs, Joins
  <1>3. Puts(c, o, << >>)
    <2>1. Ordered(Out(c), << >>, Out(c))
      BY <1>2, PartOrdered
    <2> QED
      BY <1>1, <2>1, OutIs DEF Puts, Aside
  <1>4. \A P \in Seq(Deflated) : P \o << >> = P
    BY ConcatEmptySeq
  <1> QED
    BY <1>1, <1>3, <1>4 DEF RC4Puts, SameFlate, o

LEMMA RC4WritePuts ==
    ASSUME NEW c \in Chains, Sound(c), NEW data \in Seq(Deflated), NEW o \in RC4Write(c, data)
    PROVE  RC4Puts(c, o, data)
  <1> DEFINE f == CHOOSE g : RC4Runs(g, c, data)
             n == Len(data)
  <1>1. RC4Runs(f, c, data)
    BY RC4RunsExist
  <1>2. o \in f[n]
    BY DEF RC4Write, RC4Runs
  <1> HIDE DEF f
  <1>3. n \in Nat
    OBVIOUS
  <1> DEFINE T == {k \in 0 .. n : \A p \in f[k] : RC4Puts(c, p, Prefix(data, k))}
  <1>4. 0 \in T
    <2>1. f[0] = Fine(c)
      BY <1>1, <1>3 DEF RC4Runs
    <2>2. ASSUME NEW p \in f[0] PROVE RC4Puts(c, p, << >>)
      BY <2>1, <2>2, RC4PutsNothing DEF Fine
    <2>3. Prefix(data, 0) = << >>
      BY Whole
    <2> QED
      BY <1>3, <2>2, <2>3
  <1>5. ASSUME NEW k \in 0 .. n - 1, k \in T PROVE k + 1 \in T
    <2>1. f[k + 1] = RC4WriteOne(f[k], data[k + 1])
      <3>1. k + 1 \in 0 .. n /\ k + 1 # 0 /\ (k + 1) - 1 = k
        BY <1>3
      <3> QED
        BY <1>1, <3>1 DEF RC4Runs
    <2>2. /\ Prefix(data, k) \in Seq(Deflated) /\ data[k + 1] \in Deflated
          /\ Prefix(data, k + 1) = Prefix(data, k) \o <<data[k + 1]>>
      BY Grows
    <2>3. ASSUME NEW p \in f[k + 1] PROVE RC4Puts(c, p, Prefix(data, k + 1))
      <3>1. PICK h \in f[k] : RC4Byte(h, data[k + 1], p)
        BY <2>1, <2>3, RC4WriteOneIs
      <3>2. RC4Puts(c, h, Prefix(data, k))
        BY <1>5
      <3> QED
        BY <2>2, <3>1, <3>2, RC4PutsOneMore
    <2> QED
      BY <1>3, <2>3
  <1>6. n \in T
    <2> HIDE DEF T
    <2>1. n \in 0 .. n
      BY <1>3
    <2> QED
      BY <1>3, <1>4, <1>5, <2>1, InductionUpTo
  <1>7. Prefix(data, n) = data
    BY Whole
  <1> QED
    BY <1>2, <1>6, <1>7


-----------------------------------------------------------------------------
(* FlattenSeq, block by block. *)
Flattens(h, D, B) ==
    /\ h \in [0 .. Len(B) -> Seq(D)] /\ h[0] = << >>
    /\ \A k \in 1 .. Len(B) : h[k] = h[k - 1] \o B[k]

LEMMA FlattensIsOne ==
    ASSUME NEW D, NEW B \in Seq(Seq(D)), NEW h, Flattens(h, D, B), NEW C \in Seq(Seq(D)),
           NEW g, Flattens(g, D, C), NEW n \in Nat, n <= Len(B), n <= Len(C)
    PROVE  (\A k \in 1 .. n : B[k] = C[k]) => h[n] = g[n]
  <1> SUFFICES ASSUME \A k \in 1 .. n : B[k] = C[k] PROVE h[n] = g[n]
    OBVIOUS
  <1> DEFINE T == {k \in 0 .. n : h[k] = g[k]}
  <1>1. Len(B) \in Nat /\ Len(C) \in Nat
    OBVIOUS
  <1>2. 0 \in T
    BY DEF Flattens
  <1>3. ASSUME NEW k \in 0 .. n - 1, k \in T PROVE k + 1 \in T
    <2>1. k + 1 \in 1 .. Len(B) /\ k + 1 \in 1 .. Len(C) /\ k + 1 \in 1 .. n /\ (k + 1) - 1 = k
          /\ k + 1 \in 0 .. n
      BY <1>1
    <2>2. h[k + 1] = h[k] \o B[k + 1] /\ g[k + 1] = g[k] \o C[k + 1]
      BY <2>1 DEF Flattens
    <2> QED
      BY <1>3, <2>1, <2>2
  <1> HIDE DEF T
  <1>4. n \in T
    <2>1. n \in 0 .. n
      OBVIOUS
    <2> QED
      BY <1>2, <1>3, <2>1, InductionUpTo
  <1> QED
    BY <1>4 DEF T

LEMMA FlattensExists ==
    ASSUME NEW D, NEW B \in Seq(Seq(D))
    PROVE  \E h : Flattens(h, D, B)
  <1> DEFINE V == Seq(D)
             one == [p \in V \X V |-> p[1] \o p[2]]
  <1>1. << >> \in V
    OBVIOUS
  <1>2. one \in [V \X V -> V]
    BY Closed
  <1>3. \A x, y \in V : one[<<x, y>>] = x \o y
    OBVIOUS
  <1>4. B \in Seq(V)
    OBVIOUS
  <1> HIDE DEF V, one
  <1>5. PICK h : Loops(h, V, << >>, V, B, one)
    BY <1>1, <1>2, <1>4, UnitByUnit
  <1>6. Len(B) \in Nat /\ \A k \in 1 .. Len(B) : B[k] \in V
    BY <1>4
  <1>7. \A k \in 1 .. Len(B) : h[k - 1] \in V
    <2>1. \A k \in 1 .. Len(B) : k - 1 \in 0 .. Len(B)
      BY <1>6
    <2> QED
      BY <1>5, <2>1 DEF Loops
  <1>8. \A k \in 1 .. Len(B) : h[k] = h[k - 1] \o B[k]
    BY <1>3, <1>5, <1>6, <1>7 DEF Loops
  <1>9. Flattens(h, D, B)
    BY <1>5, <1>8 DEF Loops, Flattens, V
  <1> QED
    BY <1>9

LEMMA FlattenSeqIs ==
    ASSUME NEW D, NEW B \in Seq(Seq(D)), NEW h, Flattens(h, D, B)
    PROVE  FlattenSeq(B) = h[Len(B)]
  <1> DEFINE n == Len(B)
             Runs(f) == f = [i \in 1 .. n |-> IF i = 1 THEN B[i] ELSE f[i - 1] \o B[i]]
             g == CHOOSE f : Runs(f)
  <1>1. n \in Nat /\ \A k \in 1 .. n : B[k] \in Seq(D)
    OBVIOUS
  <1>2. CASE n = 0
    <2>1. B = << >>
      BY <1>2, EmptySeq
    <2>2. FlattenSeq(B) = B
      BY <1>2 DEF FlattenSeq
    <2> QED
      BY <1>2, <2>1, <2>2 DEF Flattens
  <1>3. CASE n # 0
    <2>1. FlattenSeq(B) = g[n]
      BY <1>3 DEF FlattenSeq
    <2> DEFINE f == [i \in 1 .. n |-> h[i]]
    <2>2. Runs(f)
      <3> SUFFICES ASSUME NEW i \in 1 .. n
                   PROVE  h[i] = IF i = 1 THEN B[i] ELSE f[i - 1] \o B[i]
        OBVIOUS
      <3>1. h[i] = h[i - 1] \o B[i]
        BY DEF Flattens
      <3>2. CASE i = 1
        <4>1. h[i - 1] = << >> /\ B[i] \in Seq(D)
          BY <1>1, <3>2 DEF Flattens
        <4>2. << >> \o B[i] = B[i]
          BY <4>1, ConcatEmptySeq
        <4> QED
          BY <3>1, <3>2, <4>1, <4>2
      <3>3. CASE i # 1
        <4>1. i - 1 \in 1 .. n
          BY <1>1, <3>3
        <4>2. f[i - 1] = h[i - 1]
          BY <4>1
        <4> QED
          BY <3>1, <3>3, <4>2
      <3> QED
        BY <3>2, <3>3
    <2>3. Runs(g)
      BY <2>2
    <2> HIDE DEF f, g
    <2> DEFINE T == {k \in 0 .. n : k # 0 => g[k] = h[k]}
    <2>4. 0 \in T
      BY <1>1
    <2>5. ASSUME NEW k \in 0 .. n - 1, k \in T PROVE k + 1 \in T
      <3>1. k + 1 \in 1 .. n /\ k + 1 \in 0 .. n /\ (k + 1) - 1 = k
        BY <1>1
      <3>2. g[k + 1] = IF k + 1 = 1 THEN B[k + 1] ELSE g[(k + 1) - 1] \o B[k + 1]
        BY <2>3, <3>1
      <3>3. h[k + 1] = h[k] \o B[k + 1]
        BY <3>1 DEF Flattens
      <3>4. CASE k = 0
        <4>1. h[k] = << >> /\ B[k + 1] \in Seq(D)
          BY <1>1, <3>1, <3>4 DEF Flattens
        <4>2. << >> \o B[k + 1] = B[k + 1]
          BY <4>1, ConcatEmptySeq
        <4>3. g[k + 1] = B[k + 1]
          BY <3>2, <3>4
        <4> QED
          BY <3>1, <3>3, <4>1, <4>2, <4>3
      <3>5. CASE k # 0
        <4>1. g[k] = h[k] /\ k + 1 # 1
          BY <2>5, <3>5
        <4> QED
          BY <3>1, <3>2, <3>3, <4>1
      <3> QED
        BY <3>4, <3>5
    <2> HIDE DEF T
    <2>6. n \in T
      <3>1. n \in 0 .. n
        BY <1>1
      <3> QED
        BY <1>1, <2>4, <2>5, <3>1, InductionUpTo
    <2> QED
      BY <1>3, <2>1, <2>6 DEF T
  <1> QED
    BY <1>2, <1>3

LEMMA FlattenSeqEmpty == FlattenSeq(<< >>) = << >>
  BY DEF FlattenSeq

LEMMA FlattenSeqMore ==
    ASSUME NEW D, NEW B \in Seq(Seq(D)), NEW b \in Seq(D)
    PROVE  /\ FlattenSeq(B) \in Seq(D)
           /\ FlattenSeq(B \o <<b>>) = FlattenSeq(B) \o b
  <1> DEFINE C == B \o <<b>>
             n == Len(B)
  <1>1. n \in Nat
    OBVIOUS
  <1>2. <<b>> \in Seq(Seq(D)) /\ Len(<<b>>) = 1 /\ <<b>>[1] = b
    OBVIOUS
  <1> DEFINE v == <<b>>
  <1> HIDE DEF v
  <1>3. C \in Seq(Seq(D)) /\ Len(C) = n + 1 /\ C[n + 1] = b /\ \A k \in 1 .. n : C[k] = B[k]
    <2>1. /\ B \o v \in Seq(Seq(D)) /\ Len(B \o v) = Len(B) + Len(v)
          /\ \A i \in 1 .. Len(B) + Len(v) : (B \o v)[i] = IF i <= Len(B) THEN B[i] ELSE v[i - Len(B)]
      BY <1>2, ConcatProperties DEF v
    <2>2. n + 1 \in 1 .. Len(B) + Len(v) /\ ~(n + 1 <= Len(B)) /\ (n + 1) - Len(B) = 1
      BY <1>1, <1>2 DEF v
    <2>3. \A k \in 1 .. n : k \in 1 .. Len(B) + Len(v) /\ k <= Len(B)
      BY <1>1, <1>2 DEF v
    <2> QED
      BY <1>2, <2>1, <2>2, <2>3 DEF v
  <1> HIDE DEF C
  <1>4. PICK h : Flattens(h, D, B)
    BY FlattensExists
  <1>5. PICK g : Flattens(g, D, C)
    BY <1>3, FlattensExists
  <1>6. FlattenSeq(B) = h[n] /\ FlattenSeq(C) = g[n + 1]
    BY <1>3, <1>4, <1>5, FlattenSeqIs
  <1>7. h[n] = g[n]
    <2>1. n <= Len(B) /\ n <= Len(C) /\ \A k \in 1 .. n : B[k] = C[k]
      BY <1>1, <1>3
    <2> HIDE DEF n
    <2>2. B \in Seq(Seq(D)) /\ C \in Seq(Seq(D)) /\ n \in Nat
      BY <1>1, <1>3
    <2>3. (\A k \in 1 .. n : B[k] = C[k]) => h[n] = g[n]
      BY <1>4, <1>5, <2>1, <2>2, FlattensIsOne
    <2> QED
      BY <2>1, <2>3
  <1>8. g[n + 1] = g[n] \o b
    <2>1. n + 1 \in 1 .. Len(C) /\ (n + 1) - 1 = n
      BY <1>1, <1>3
    <2> QED
      BY <1>3, <1>5, <2>1 DEF Flattens
  <1>9. h[n] \in Seq(D)
    BY <1>1, <1>4 DEF Flattens
  <1> QED
    BY <1>6, <1>7, <1>8, <1>9 DEF C


-----------------------------------------------------------------------------
Blocks(B) == [k \in 1 .. Len(B) |-> Block(B[k])]

LEMMA BlockIs ==
    ASSUME NEW b \in Seq(Deflated)
    PROVE  /\ Block(b) \in Units /\ <<Block(b)>> \in Seq(Units)
           /\ Nums(<<Block(b)>>) = {}
           /\ Block(b).kind = "block" /\ Block(b).n = Len(b) /\ Block(b).of = b
  <1>1. "block" \in Kinds /\ Len(b) \in Nat
    BY DEF Kinds
  <1>2. Block(b) \in Units
    BY <1>1 DEF Block, Units
  <1>3. Block(b).kind = "block" /\ Block(b).n = Len(b) /\ Block(b).of = b
    BY DEF Block
  <1>4. ~Numbered(Block(b))
    BY <1>3 DEF Numbered
  <1>5. Nums(<<Block(b)>>) = {}
    BY <1>4, NumsOne
  <1>6. <<Block(b)>> \in Seq(Units)
    BY <1>2
  <1> QED
    BY <1>2, <1>3, <1>5, <1>6

LEMMA IVIs == IV \in Units /\ <<IV>> \in Seq(Units) /\ Nums(<<IV>>) = {}
  <1>1. "iv" \in Kinds /\ << >> \in Seq(Deflated)
    BY DEF Kinds
  <1>2. IV \in Units
    BY <1>1 DEF IV, Units
  <1>3. IV.kind = "iv"
    BY DEF IV
  <1>4. ~Numbered(IV)
    BY <1>3 DEF Numbered
  <1>5. Nums(<<IV>>) = {}
    BY <1>4, NumsOne
  <1>6. <<IV>> \in Seq(Units)
    BY <1>2
  <1> QED
    BY <1>2, <1>5, <1>6

LEMMA BlocksMore ==
    ASSUME NEW B \in Seq(Seq(Deflated)), NEW b \in Seq(Deflated)
    PROVE  /\ Blocks(B) \in Seq(Units) /\ Len(Blocks(B)) = Len(B)
           /\ B \o <<b>> \in Seq(Seq(Deflated)) /\ Len(B \o <<b>>) = Len(B) + 1
           /\ \A k \in 1 .. Len(B) : (B \o <<b>>)[k] = B[k]
           /\ (B \o <<b>>)[Len(B) + 1] = b
           /\ Blocks(B \o <<b>>) = Blocks(B) \o <<Block(b)>>
  <1> DEFINE n == Len(B)
             C == B \o <<b>>
             e == <<Block(b)>>
             F == Blocks(B)
             G == Blocks(C)
  <1>1. n \in Nat /\ \A k \in 1 .. n : B[k] \in Seq(Deflated)
    OBVIOUS
  <1>2. <<b>> \in Seq(Seq(Deflated)) /\ Len(<<b>>) = 1 /\ <<b>>[1] = b
    OBVIOUS
  <1>3. /\ C \in Seq(Seq(Deflated)) /\ Len(C) = n + 1
        /\ \A k \in 1 .. n : C[k] = B[k]
        /\ C[n + 1] = b
    <2> DEFINE v == <<b>>
    <2> HIDE DEF v
    <2>1. /\ B \o v \in Seq(Seq(Deflated)) /\ Len(B \o v) = Len(B) + Len(v)
          /\ \A i \in 1 .. Len(B) + Len(v) : (B \o v)[i] = IF i <= Len(B) THEN B[i] ELSE v[i - Len(B)]
      BY <1>2, ConcatProperties DEF v
    <2>2. n + 1 \in 1 .. Len(B) + Len(v) /\ ~(n + 1 <= Len(B)) /\ (n + 1) - Len(B) = 1
      BY <1>1, <1>2 DEF v
    <2>3. \A k \in 1 .. n : k \in 1 .. Len(B) + Len(v) /\ k <= Len(B)
      BY <1>1, <1>2 DEF v
    <2> QED
      BY <1>2, <2>1, <2>2, <2>3 DEF v
  <1> HIDE DEF C
  <1>4. F \in Seq(Units) /\ Len(F) = n /\ \A k \in 1 .. n : F[k] = Block(B[k])
    <2>1. \A k \in 1 .. n : Block(B[k]) \in Units
      BY <1>1, BlockIs
    <2>2. F = [k \in 1 .. n |-> Block(B[k])]
      BY DEF Blocks
    <2> QED
      BY <1>1, <2>1, <2>2
  <1>5. G \in Seq(Units) /\ Len(G) = n + 1 /\ \A k \in 1 .. n + 1 : G[k] = Block(C[k])
    <2>1. \A k \in 1 .. n + 1 : C[k] \in Seq(Deflated)
      BY <1>1, <1>3
    <2>2. \A k \in 1 .. n + 1 : Block(C[k]) \in Units
      BY <2>1, BlockIs
    <2>3. G = [k \in 1 .. n + 1 |-> Block(C[k])]
      BY <1>3 DEF Blocks
    <2> QED
      BY <1>1, <2>2, <2>3
  <1>6. e \in Seq(Units) /\ Len(e) = 1 /\ e[1] = Block(b)
    BY BlockIs
  <1> HIDE DEF e, F, G
  <1>7. /\ F \o e \in Seq(Units) /\ Len(F \o e) = n + 1
        /\ \A i \in 1 .. n + 1 : (F \o e)[i] = IF i <= n THEN F[i] ELSE e[i - n]
    <2>1. /\ F \o e \in Seq(Units) /\ Len(F \o e) = Len(F) + Len(e)
          /\ \A i \in 1 .. Len(F) + Len(e) : (F \o e)[i] = IF i <= Len(F) THEN F[i] ELSE e[i - Len(F)]
      <3>1. F \in Seq(Units) /\ e \in Seq(Units)
        BY <1>4, <1>6
      <3> QED
        BY <3>1, ConcatProperties
    <2> QED
      BY <1>4, <1>6, <2>1
  <1>8. ASSUME NEW i \in 1 .. n + 1 PROVE G[i] = (F \o e)[i]
    <2>1. CASE i <= n
      <3>1. i \in 1 .. n
        BY <1>1, <2>1
      <3> QED
        BY <1>3, <1>4, <1>5, <1>7, <2>1, <3>1
    <2>2. CASE i = n + 1
      <3>1. ~(i <= n) /\ i - n = 1
        BY <1>1, <2>2
      <3> QED
        BY <1>3, <1>5, <1>6, <1>7, <2>2, <3>1
    <2>3. i <= n \/ i = n + 1
      BY <1>1
    <2> QED
      BY <2>1, <2>2, <2>3
  <1>9. G = F \o e
    BY <1>5, <1>7, <1>8, SeqEqual
  <1> QED
    BY <1>3, <1>4, <1>9 DEF C, F, G, e

(* The full blocks B. *)
AllFull(B) == \A k \in 1 .. Len(B) : Len(B[k]) = BlockSize

(* An AES stream in the middle of the units P. *)
AESOf(c, P, E) ==
    IF c.iv
    THEN \E B \in Seq(Seq(Deflated)) :
            /\ E = <<IV>> \o Blocks(B) /\ AllFull(B)
            /\ FlattenSeq(B) \o c.block = P
    ELSE E = << >> /\ P = << >> /\ c.block = << >>

AESHolds(c, pre, P) ==
    \E E \in Seq(Units) : Out(c) = pre \o E /\ AESOf(c, P, E)

(* An AES stream that ended: the last block is not full. *)
AESEnds(c, pre, P) ==
    \E B \in Seq(Seq(Deflated)), b \in Seq(Deflated) :
        /\ Out(c) = pre \o (<<IV>> \o Blocks(B \o <<b>>))
        /\ AllFull(B) /\ Len(b) < BlockSize
        /\ FlattenSeq(B \o <<b>>) = P

(* A step of an AES stream that encrypts data. *)
AESStep(c, o, data) ==
    /\ Puts(c, o, data) /\ SameFlate(c, o.c) /\ Tells(c, o)
    /\ o.c.padded = c.padded /\ (c.iv => o.c.iv)
    /\ o.ok => \A pre \in Seq(Units), P \in Seq(Deflated) :
                   AESHolds(c, pre, P) => AESHolds(o.c, pre, P \o data)

LEMMA AESStepThen ==
    ASSUME NEW c \in Chains, NEW o, NEW p, NEW a \in Seq(Deflated), NEW b \in Seq(Deflated),
           AESStep(c, o, a), o.ok, AESStep(o.c, p, b)
    PROVE  AESStep(c, p, a \o b)
  <1>1. o.c \in Chains /\ p.c \in Chains
    BY DEF AESStep, Puts, Outcomes
  <1>2. a \in Seq(Units) /\ b \in Seq(Units)
    BY Levels
  <1>3. Puts(c, p, a \o b)
    BY <1>2, PutsThen DEF AESStep
  <1>4. SameFlate(c, p.c) /\ p.c.padded = c.padded /\ (c.iv => p.c.iv)
    BY DEF AESStep, SameFlate
  <1>5. Tells(c, p)
    <2>1. c.faults \in Nat /\ o.c.faults \in Nat /\ p.c.faults \in Nat
      BY <1>1, OutIs
    <2>2. o.c.faults >= c.faults /\ p.c.faults >= o.c.faults /\ (p.c.faults = o.c.faults => p.ok)
      BY DEF AESStep, Tells
    <2>3. p.c.faults >= c.faults /\ (p.c.faults = c.faults => p.c.faults = o.c.faults)
      BY <2>1, <2>2
    <2> QED
      BY <2>2, <2>3 DEF Tells
  <1>6. ASSUME p.ok, NEW pre \in Seq(Units), NEW P \in Seq(Deflated), AESHolds(c, pre, P)
        PROVE  AESHolds(p.c, pre, P \o (a \o b))
    <2>1. AESHolds(o.c, pre, P \o a)
      BY <1>6 DEF AESStep
    <2>2. P \o a \in Seq(Deflated)
      BY Closed
    <2>3. AESHolds(p.c, pre, (P \o a) \o b)
      BY <1>6, <2>1, <2>2 DEF AESStep
    <2>4. (P \o a) \o b = P \o (a \o b)
      BY Regroup, SMTT(30)
    <2> QED
      BY <2>3, <2>4
  <1> QED
    BY <1>3, <1>4, <1>5, <1>6 DEF AESStep

LEMMA AESStepStops ==
    ASSUME NEW c \in Chains, NEW o, NEW a \in Seq(Deflated), NEW b \in Seq(Deflated),
           AESStep(c, o, a), ~o.ok
    PROVE  AESStep(c, o, a \o b)
  <1>1. a \in Seq(Units) /\ b \in Seq(Units) /\ a \o b \in Seq(Units)
    BY Levels, Closed
  <1>2. Nums(a) \subseteq Nums(a \o b) /\ (Ascends(a \o b) => Ascends(a))
    BY <1>1, NumsJoin, AscendsJoin
  <1>3. Puts(c, o, a \o b)
    BY <1>1, <1>2, PutsLike DEF AESStep
  <1> QED
    BY <1>3 DEF AESStep


LEMMA PutsUnnumbered ==
    ASSUME NEW c \in Chains, NEW o, NEW a \in Seq(Units), Nums(a) = {}, Puts(c, o, a)
    PROVE  Puts(c, o, << >>)
  <1>1. << >> \in Seq(Units) /\ Out(c) \in Seq(Units)
    BY OutIs
  <1>2. Ascends(a)
    BY DEF Nums, Ascends
  <1>3. ASSUME Ascends(Out(c) \o << >>) PROVE Ascends(Out(c) \o a)
    <2>1. Ascends(Out(c))
      BY <1>3, OutIs
    <2> QED
      BY <1>1, <1>2, <2>1, AscendsJoin DEF Before
  <1>4. Ordered(Out(c), << >>, Out(o.c))
    BY <1>3 DEF Puts, Ordered
  <1> QED
    BY <1>4 DEF Puts

(* A step that leaves the stream as it is. *)
LEMMA AESStays ==
    ASSUME NEW c \in Chains, Sound(c)
    PROVE  AESStep(c, [c |-> c, ok |-> TRUE], << >>)
  <1> DEFINE o == [c |-> c, ok |-> TRUE]
  <1>1. o \in Outcomes /\ o.c = c /\ o.ok
    BY DEF Outcomes
  <1> HIDE DEF o
  <1>2. << >> \in Seq(Units) /\ Out(c) \in Seq(Units) /\ IsPart(Out(c), Out(c) \o << >>)
    BY OutIs, Joins
  <1>3. Ordered(Out(c), << >>, Out(c))
    BY <1>2, PartOrdered
  <1>4. Puts(c, o, << >>)
    BY <1>1, <1>3, OutIs DEF Puts, Aside
  <1>5. \A P \in Seq(Deflated) : P \o << >> = P
    BY ConcatEmptySeq
  <1> QED
    BY <1>1, <1>4, <1>5, OutIs DEF AESStep, SameFlate, Tells, o

(* The chain after a write of a unit of its own, changed by the encryption *)
(* stream when that went well.                                             *)
LEMMA AESEnsureIV ==
    ASSUME NEW c \in Chains, Sound(c), NEW o \in EnsureIVWritten(c)
    PROVE  AESStep(c, o, << >>) /\ (o.ok => o.c.iv) /\ o.c.block = c.block
  <1>1. CASE c.iv
    <2>1. o = [c |-> c, ok |-> TRUE]
      BY <1>1 DEF EnsureIVWritten, Fine
    <2> QED
      BY <1>1, <2>1, AESStays
  <1>2. CASE ~c.iv
    <2>1. PICK p \in TargetWrite(c, <<IV>>) :
             \/ ~p.ok /\ o = p
             \/ p.ok /\ o = [c |-> [p.c EXCEPT !.iv = TRUE], ok |-> TRUE]
      BY <1>2 DEF EnsureIVWritten, AndThen, Fine
    <2>2. TargetPuts(c, p, <<IV>>)
      BY IVIs, TargetWritePuts
    <2>3. Puts(c, p, << >>)
      BY <2>2, IVIs, PutsUnnumbered DEF TargetPuts
    <2>4. /\ p.c \in Chains /\ Sound(p.c) /\ SameCipher(c, p.c) /\ SameFlate(c, p.c) /\ Tells(c, p)
          /\ p.ok => Out(p.c) = Out(c) \o <<IV>>
      BY <2>2 DEF TargetPuts, Puts, Outcomes
    <2>5. CASE ~p.ok /\ o = p
      BY <1>2, <2>3, <2>4, <2>5 DEF AESStep, SameCipher
    <2>6. CASE p.ok /\ o = [c |-> [p.c EXCEPT !.iv = TRUE], ok |-> TRUE]
      <3> DEFINE d == [p.c EXCEPT !.iv = TRUE]
      <3>1. /\ d \in Chains /\ d.iv /\ d.bytes = p.c.bytes /\ d.buffer = p.c.buffer
            /\ d.temporary = p.c.temporary /\ d.held = p.c.held /\ d.block = p.c.block
            /\ d.faults = p.c.faults /\ d.padded = p.c.padded /\ SameFlate(p.c, d)
        BY <2>4 DEF Chains, SameFlate
      <3>2. o.c = d /\ o.ok /\ o \in Outcomes
        BY <2>6, <3>1 DEF Outcomes
      <3> HIDE DEF d
      <3>3. Sound(d) /\ Out(d) = Out(p.c)
        BY <2>4, <3>1 DEF Sound, Out, FileOf
      <3>4. Puts(c, o, << >>)
        BY <2>3, <3>1, <3>2, <3>3 DEF Puts, Aside
      <3>5. d.block = c.block /\ d.padded = c.padded /\ SameFlate(c, d)
        BY <2>4, <3>1 DEF SameCipher, SameFlate
      <3>6. Tells(c, o)
        BY <2>4, <3>1, <3>2 DEF Tells
      <3>7. ASSUME NEW pre \in Seq(Units), NEW P \in Seq(Deflated), AESHolds(c, pre, P)
            PROVE  AESHolds(d, pre, P \o << >>)
        <4>1. Out(c) = pre \o << >> /\ P = << >> /\ c.block = << >>
          BY <1>2, <3>7 DEF AESHolds, AESOf
        <4>2. Out(c) = pre
          BY <4>1, ConcatEmptySeq
        <4> DEFINE B == << >>
        <4>3. B \in Seq(Seq(Deflated)) /\ Len(B) = 0 /\ AllFull(B)
          BY DEF AllFull
        <4>4. Blocks(B) = << >>
          BY DEF Blocks
        <4>5. <<IV>> \o Blocks(B) = <<IV>>
          BY <4>4, IVIs, ConcatEmptySeq
        <4>6. FlattenSeq(B) = << >>
          BY FlattenSeqEmpty
        <4>7. << >> \o d.block = << >> /\ P \o << >> = << >>
          <5>1. << >> \o << >> = << >>
            BY ConcatEmptySeq
          <5> QED
            BY <3>5, <4>1, <5>1
        <4>8. Out(d) = pre \o <<IV>>
          BY <2>4, <2>6, <3>3, <4>2
        <4>9. AESOf(d, P \o << >>, <<IV>>)
          BY <3>1, <4>3, <4>5, <4>6, <4>7 DEF AESOf
        <4> QED
          BY <4>8, <4>9, IVIs DEF AESHolds
      <3> QED
        BY <1>2, <3>1, <3>2, <3>4, <3>5, <3>6, <3>7 DEF AESStep
    <2> QED
      BY <2>1, <2>5, <2>6
  <1> QED
    BY <1>1, <1>2

LEMMA AESFullBlock ==
    ASSUME NEW c \in Chains, Sound(c), NEW o \in WriteFullBlock(c)
    PROVE  AESStep(c, o, << >>) /\ (o.ok => Len(o.c.block) < BlockSize)
  <1>1. c.block \in Seq(Deflated) /\ Len(c.block) \in Nat /\ BlockSize \in Nat \ {0}
        /\ Len(c.block) <= BlockSize
    BY SizesAssumption DEF Chains, Sound
  <1>2. CASE Len(c.block) < BlockSize
    <2>1. o = [c |-> c, ok |-> TRUE]
      BY <1>2 DEF WriteFullBlock, Fine
    <2> QED
      BY <1>2, <2>1, AESStays
  <1>3. CASE ~(Len(c.block) < BlockSize)
    <2> DEFINE e == <<Block(c.block)>>
    <2>1. PICK p \in TargetWrite(c, e) :
             \/ ~p.ok /\ o = p
             \/ p.ok /\ o = [c |-> [p.c EXCEPT !.block = << >>], ok |-> TRUE]
      BY <1>3 DEF WriteFullBlock, AndThen, Fine
    <2>2. e \in Seq(Units) /\ Nums(e) = {}
      BY <1>1, BlockIs
    <2> HIDE DEF e
    <2>3. TargetPuts(c, p, e)
      BY <2>2, TargetWritePuts
    <2>4. Puts(c, p, << >>)
      BY <2>2, <2>3, PutsUnnumbered DEF TargetPuts
    <2>5. /\ p.c \in Chains /\ Sound(p.c) /\ SameCipher(c, p.c) /\ SameFlate(c, p.c) /\ Tells(c, p)
          /\ p.ok => Out(p.c) = Out(c) \o e
      BY <2>3 DEF TargetPuts, Puts, Outcomes
    <2>6. CASE ~p.ok /\ o = p
      BY <2>4, <2>5, <2>6 DEF AESStep, SameCipher
    <2>7. CASE p.ok /\ o = [c |-> [p.c EXCEPT !.block = << >>], ok |-> TRUE]
      <3> DEFINE d == [p.c EXCEPT !.block = << >>]
      <3>1. /\ d \in Chains /\ d.block = << >> /\ d.bytes = p.c.bytes /\ d.buffer = p.c.buffer
            /\ d.temporary = p.c.temporary /\ d.held = p.c.held /\ d.iv = p.c.iv
            /\ d.faults = p.c.faults /\ d.padded = p.c.padded /\ SameFlate(p.c, d)
        <4>1. << >> \in Seq(Deflated)
          OBVIOUS
        <4> QED
          BY <2>5, <4>1 DEF Chains, SameFlate
      <3>2. o.c = d /\ o.ok /\ o \in Outcomes
        BY <2>7, <3>1 DEF Outcomes
      <3> HIDE DEF d
      <3>3. Sound(d) /\ Out(d) = Out(p.c) /\ Len(d.block) < BlockSize
        <4>1. Len(d.block) = 0
          BY <3>1
        <4>2. Len(d.block) <= BlockSize /\ Len(d.block) < BlockSize
          BY <1>1, <4>1
        <4> QED
          BY <2>5, <3>1, <4>2 DEF Sound, Out, FileOf
      <3>4. Puts(c, o, << >>)
        BY <2>4, <3>1, <3>2, <3>3 DEF Puts, Aside
      <3>5. d.iv = c.iv /\ d.padded = c.padded /\ SameFlate(c, d)
        BY <2>5, <3>1 DEF SameCipher, SameFlate
      <3>6. Tells(c, o)
        BY <2>5, <3>1, <3>2 DEF Tells
      <3>7. ASSUME NEW pre \in Seq(Units), NEW P \in Seq(Deflated), AESHolds(c, pre, P)
            PROVE  AESHolds(d, pre, P \o << >>)
        <4>1. PICK E \in Seq(Units) : Out(c) = pre \o E /\ AESOf(c, P, E)
          BY <3>7 DEF AESHolds
        <4>2. c.iv
          <5>1. c.block # << >>
            BY <1>1, <1>3
          <5> QED
            BY <4>1, <5>1 DEF AESOf
        <4>3. PICK B \in Seq(Seq(Deflated)) :
                 E = <<IV>> \o Blocks(B) /\ AllFull(B) /\ FlattenSeq(B) \o c.block = P
          BY <4>1, <4>2 DEF AESOf
        <4> DEFINE C == B \o <<c.block>>
        <4>4. /\ C \in Seq(Seq(Deflated)) /\ Len(C) = Len(B) + 1
              /\ \A k \in 1 .. Len(B) : C[k] = B[k]
              /\ C[Len(B) + 1] = c.block
              /\ Blocks(C) = Blocks(B) \o e /\ Blocks(B) \in Seq(Units)
          BY <1>1, BlocksMore DEF e
        <4>5. FlattenSeq(C) = P /\ FlattenSeq(C) \in Seq(Deflated)
          BY <1>1, <4>3, FlattenSeqMore
        <4> HIDE DEF C
        <4>6. AllFull(C)
          <5> SUFFICES ASSUME NEW k \in 1 .. Len(C) PROVE Len(C[k]) = BlockSize
            BY DEF AllFull
          <5>1. Len(B) \in Nat
            OBVIOUS
          <5>2. k \in 1 .. Len(B) \/ k = Len(B) + 1
            BY <4>4, <5>1
          <5>3. Len(c.block) = BlockSize
            BY <1>1, <1>3
          <5> QED
            BY <4>3, <4>4, <5>2, <5>3 DEF AllFull
        <4>7. Out(d) = pre \o (<<IV>> \o Blocks(C)) /\ <<IV>> \o Blocks(C) \in Seq(Units)
          <5>1. Out(d) = (pre \o E) \o e
            BY <2>5, <2>7, <3>3, <4>1
          <5>2. Out(d) = pre \o (E \o e)
            BY <2>2, <5>1, RegroupUnits
          <5>3. E \o e = <<IV>> \o (Blocks(B) \o e)
            BY <2>2, <4>3, <4>4, IVIs, RegroupUnits, SMTT(30)
          <5>4. Blocks(C) \in Seq(Units)
            BY <2>2, <4>4, Closed
          <5>5. <<IV>> \o Blocks(C) \in Seq(Units)
            BY <5>4, IVIs, Closed
          <5> QED
            BY <4>4, <5>2, <5>3, <5>5
        <4>8. FlattenSeq(C) \o d.block = P \o << >>
          <5>1. P \o << >> = P
            BY ConcatEmptySeq
          <5>2. FlattenSeq(C) \o << >> = FlattenSeq(C)
            BY <4>5, ConcatEmptySeq
          <5> QED
            BY <3>1, <4>5, <5>1, <5>2
        <4>9. AESOf(d, P \o << >>, <<IV>> \o Blocks(C))
          BY <3>5, <4>2, <4>4, <4>6, <4>8 DEF AESOf
        <4> QED
          BY <4>7, <4>9 DEF AESHolds
      <3> QED
        BY <3>2, <3>3, <3>4, <3>5, <3>6, <3>7 DEF AESStep
    <2> QED
      BY <2>1, <2>6, <2>7
  <1> QED
    BY <1>2, <1>3


(* A unit joins a block that is not full. *)
LEMMA AESAdds ==
    ASSUME NEW c \in Chains, Sound(c), Len(c.block) < BlockSize, c.iv, NEW u \in Deflated
    PROVE  LET d == [c EXCEPT !.block = Append(@, u)]
           IN  AESStep(c, [c |-> d, ok |-> TRUE], <<u>>) /\ d \in Chains /\ Sound(d) /\ d.iv
  <1> DEFINE b == Append(c.block, u)
             v == <<u>>
             d == [c EXCEPT !.block = b]
             o == [c |-> d, ok |-> TRUE]
  <1>1. c.block \in Seq(Deflated) /\ Len(c.block) \in Nat /\ BlockSize \in Nat \ {0}
    BY SizesAssumption DEF Chains
  <1>2. v \in Seq(Deflated)
    OBVIOUS
  <1>3. b = c.block \o v /\ b \in Seq(Deflated) /\ Len(b) = Len(c.block) + 1
    BY <1>1, AppendIsConcat, AppendProperties
  <1> HIDE DEF b, v
  <1>4. /\ d \in Chains /\ d.block = b /\ d.bytes = c.bytes /\ d.buffer = c.buffer
        /\ d.temporary = c.temporary /\ d.held = c.held /\ d.iv = c.iv
        /\ d.faults = c.faults /\ d.padded = c.padded /\ SameFlate(c, d)
    BY <1>3 DEF Chains, SameFlate
  <1>5. o.c = d /\ o.ok /\ o \in Outcomes
    BY <1>4 DEF Outcomes
  <1>6. [c EXCEPT !.block = Append(@, u)] = d
    BY DEF b
  <1> HIDE DEF o, d
  <1>7. Len(b) <= BlockSize
    BY <1>1, <1>3
  <1>8. Sound(d) /\ Out(d) = Out(c)
    BY <1>4, <1>7 DEF Sound, Out, FileOf
  <1>9. Puts(c, o, v)
    <2>1. v \in Seq(Units) /\ Out(c) \in Seq(Units) /\ IsPart(Out(c), Out(c) \o v)
      BY <1>2, Levels, OutIs, Joins
    <2>2. Ordered(Out(c), v, Out(c))
      BY <2>1, PartOrdered
    <2> QED
      BY <1>4, <1>5, <1>8, <2>2, OutIs DEF Puts, Aside
  <1>10. ASSUME NEW pre \in Seq(Units), NEW P \in Seq(Deflated), AESHolds(c, pre, P)
         PROVE  AESHolds(d, pre, P \o v)
    <2>1. PICK E \in Seq(Units) : Out(c) = pre \o E /\ AESOf(c, P, E)
      BY <1>10 DEF AESHolds
    <2>2. PICK B \in Seq(Seq(Deflated)) :
             E = <<IV>> \o Blocks(B) /\ AllFull(B) /\ FlattenSeq(B) \o c.block = P
      BY <2>1 DEF AESOf
    <2>3. FlattenSeq(B) \in Seq(Deflated)
      BY <1>1, FlattenSeqMore
    <2>4. FlattenSeq(B) \o d.block = P \o v
      <3> DEFINE F == FlattenSeq(B)
                 k == c.block
      <3> HIDE DEF F, k
      <3>1. (F \o k) \o v = F \o (k \o v)
        <4>1. F \in Seq(Deflated) /\ k \in Seq(Deflated)
          BY <1>1, <2>3 DEF F, k
        <4> QED
          BY <1>2, <4>1, Regroup, SMTT(30)
      <3> QED
        BY <1>3, <1>4, <2>2, <3>1 DEF F, k
    <2>5. AESOf(d, P \o v, E)
      BY <1>4, <2>2, <2>4 DEF AESOf
    <2> QED
      BY <1>8, <2>1, <2>5 DEF AESHolds
  <1>11. AESStep(c, o, v)
    <2>1. Tells(c, o)
      BY <1>4, <1>5, OutIs DEF Tells
    <2>2. SameFlate(c, o.c) /\ o.c.padded = c.padded /\ (c.iv => o.c.iv)
      BY <1>4, <1>5
    <2> QED
      BY <1>5, <1>9, <1>10, <2>1, <2>2 DEF AESStep
  <1> QED
    BY <1>4, <1>6, <1>8, <1>11 DEF o, v

(* One unit, after an outcome of what was before. *)
AESByte(o, u, p) ==
    \/ ~o.ok /\ p = o
    \/ /\ o.ok
       /\ \E h \in WriteFullBlock(o.c) :
             \/ ~h.ok /\ p = h
             \/ h.ok /\ p \in WriteFullBlock([h.c EXCEPT !.block = Append(@, u)])

LEMMA AESWriteOneIs ==
    ASSUME NEW S, NEW u, NEW p
    PROVE  p \in AESWriteOne(S, u) <=> \E o \in S : AESByte(o, u, p)
  <1>1. \A h : h \in AndThen(S, WriteFullBlock) <=>
                 \E o \in S : (~o.ok /\ h = o) \/ (o.ok /\ h \in WriteFullBlock(o.c))
    BY DEF AndThen
  <1> DEFINE Add(d) == Fine([d EXCEPT !.block = Append(@, u)])
             A == AndThen(S, WriteFullBlock)
             B == AndThen(A, Add)
  <1>2. \A h : h \in B <=>
                 \E o \in A : \/ ~o.ok /\ h = o
                              \/ o.ok /\ h = [c |-> [o.c EXCEPT !.block = Append(@, u)], ok |-> TRUE]
    BY DEF AndThen, Fine
  <1>3. p \in AndThen(B, WriteFullBlock) <=>
                 \E o \in B : (~o.ok /\ p = o) \/ (o.ok /\ p \in WriteFullBlock(o.c))
    BY DEF AndThen
  <1>4. AESWriteOne(S, u) = AndThen(B, WriteFullBlock)
    BY DEF AESWriteOne
  <1> HIDE DEF A, B
  <1>5. ASSUME NEW o \in S, AESByte(o, u, p) PROVE p \in AESWriteOne(S, u)
    <2>1. CASE ~o.ok /\ p = o
      <3>1. p \in A
        BY <1>1, <2>1 DEF A
      <3>2. p \in B
        BY <1>2, <2>1, <3>1
      <3> QED
        BY <1>3, <1>4, <2>1, <3>2
    <2>2. ASSUME o.ok, NEW h \in WriteFullBlock(o.c), ~h.ok, p = h PROVE p \in AESWriteOne(S, u)
      <3>1. p \in A
        BY <1>1, <2>2 DEF A
      <3>2. p \in B
        BY <1>2, <2>2, <3>1
      <3> QED
        BY <1>3, <1>4, <2>2, <3>2
    <2>3. ASSUME o.ok, NEW h \in WriteFullBlock(o.c), h.ok,
                 p \in WriteFullBlock([h.c EXCEPT !.block = Append(@, u)])
          PROVE  p \in AESWriteOne(S, u)
      <3>1. h \in A
        BY <1>1, <2>3 DEF A
      <3> DEFINE d == [h.c EXCEPT !.block = Append(@, u)]
                 r == [c |-> d, ok |-> TRUE]
      <3>2. r \in B
        BY <1>2, <2>3, <3>1
      <3>3. r.ok /\ r.c = d /\ p \in WriteFullBlock(d)
        BY <2>3
      <3> HIDE DEF d, r
      <3>4. r.ok /\ p \in WriteFullBlock(r.c)
        BY <3>3
      <3> QED
        BY <1>3, <1>4, <3>2, <3>4
    <2> QED
      BY <1>5, <2>1, <2>2, <2>3 DEF AESByte
  <1>6. ASSUME p \in AESWriteOne(S, u) PROVE \E o \in S : AESByte(o, u, p)
    <2>1. PICK r \in B : (~r.ok /\ p = r) \/ (r.ok /\ p \in WriteFullBlock(r.c))
      BY <1>3, <1>4, <1>6
    <2>2. PICK h \in A : \/ ~h.ok /\ r = h
                         \/ h.ok /\ r = [c |-> [h.c EXCEPT !.block = Append(@, u)], ok |-> TRUE]
      BY <1>2, <2>1
    <2>3. PICK o \in S : (~o.ok /\ h = o) \/ (o.ok /\ h \in WriteFullBlock(o.c))
      BY <1>1, <2>2 DEF A
    <2>4. CASE ~h.ok /\ r = h
      BY <2>1, <2>3, <2>4 DEF AESByte
    <2>5. CASE h.ok /\ r = [c |-> [h.c EXCEPT !.block = Append(@, u)], ok |-> TRUE]
      <3>1. p \in WriteFullBlock([h.c EXCEPT !.block = Append(@, u)])
        BY <2>1, <2>5
      <3> QED
        BY <2>3, <2>5, <3>1 DEF AESByte
    <2> QED
      BY <2>2, <2>4, <2>5
  <1> QED
    BY <1>5, <1>6

(* What an AES stream promises for a Write.                                *)
AESPuts(c, o, data) == AESStep(c, o, data) /\ (o.ok => o.c.iv)

LEMMA AESPutsOneMore ==
    ASSUME NEW c \in Chains, NEW data \in Seq(Deflated), NEW o, AESPuts(c, o, data),
           NEW u \in Deflated, NEW p, AESByte(o, u, p)
    PROVE  AESPuts(c, p, data \o <<u>>)
  <1> DEFINE v == <<u>>
  <1>1. v \in Seq(Deflated) /\ << >> \in Seq(Deflated) /\ data \o << >> = data /\ << >> \o v = v
        /\ v \o << >> = v /\ data \o v \in Seq(Deflated)
    <2>1. v \in Seq(Deflated) /\ << >> \in Seq(Deflated)
      OBVIOUS
    <2> HIDE DEF v
    <2> QED
      BY <2>1, ConcatEmptySeq, Closed
  <1>2. o.c \in Chains /\ Sound(o.c)
    BY DEF AESPuts, AESStep, Puts, Outcomes
  <1> HIDE DEF v
  <1>3. CASE ~o.ok /\ p = o
    BY <1>1, <1>3, AESStepStops DEF AESPuts, v
  <1>4. ASSUME o.ok, NEW h \in WriteFullBlock(o.c), ~h.ok, p = h
        PROVE  AESPuts(c, p, data \o v)
    <2>1. AESStep(o.c, h, << >>)
      BY <1>2, AESFullBlock
    <2>2. AESStep(c, h, data \o << >>)
      BY <1>1, <1>4, <2>1, AESStepThen DEF AESPuts
    <2>3. AESStep(c, h, data \o v)
      BY <1>1, <1>4, <2>2, AESStepStops
    <2> QED
      BY <1>4, <2>3 DEF AESPuts
  <1>5. ASSUME o.ok, NEW h \in WriteFullBlock(o.c), h.ok,
               p \in WriteFullBlock([h.c EXCEPT !.block = Append(@, u)])
        PROVE  AESPuts(c, p, data \o v)
    <2>1. AESStep(o.c, h, << >>) /\ Len(h.c.block) < BlockSize
      BY <1>2, <1>5, AESFullBlock
    <2>2. h.c \in Chains /\ Sound(h.c) /\ h.c.iv
      BY <1>5, <2>1 DEF AESStep, Puts, Outcomes, AESPuts
    <2>3. AESStep(c, h, data)
      <3>1. AESStep(c, h, data \o << >>)
        BY <1>1, <1>5, <2>1, AESStepThen DEF AESPuts
      <3> QED
        BY <1>1, <3>1
    <2> DEFINE d == [h.c EXCEPT !.block = Append(@, u)]
               r == [c |-> d, ok |-> TRUE]
    <2>4. AESStep(h.c, r, v) /\ d \in Chains /\ Sound(d) /\ d.iv
      BY <2>1, <2>2, AESAdds DEF v
    <2>5. r.ok /\ r.c = d /\ p \in WriteFullBlock(d)
      BY <1>5
    <2> HIDE DEF d, r
    <2>6. AESStep(c, r, data \o v)
      BY <1>1, <1>5, <2>3, <2>4, AESStepThen
    <2>7. AESStep(d, p, << >>)
      BY <2>4, <2>5, AESFullBlock
    <2>8. AESStep(c, p, (data \o v) \o << >>)
      BY <1>1, <2>5, <2>6, <2>7, AESStepThen
    <2>9. (data \o v) \o << >> = data \o v
      BY <1>1, ConcatEmptySeq
    <2> QED
      BY <2>4, <2>7, <2>8, <2>9 DEF AESPuts, AESStep
  <1> QED
    BY <1>3, <1>4, <1>5 DEF AESByte, v


AESRuns(f, c, data) ==
    f = [n \in 0 .. Len(data) |->
            IF n = 0 THEN EnsureIVWritten(c) ELSE AESWriteOne(f[n - 1], data[n])]

(* The outcomes an AES stream can be in between two units. *)
AESFits == {o \in Fits : o.ok => o.c.iv}

LEMMA AESPutsFits ==
    ASSUME NEW c \in Chains, NEW data, NEW o, AESPuts(c, o, data)
    PROVE  o \in AESFits
  BY DEF AESPuts, AESStep, Puts, Fits, AESFits

LEMMA AESWriteFits ==
    ASSUME NEW S \in SUBSET AESFits, NEW u \in Deflated
    PROVE  AESWriteOne(S, u) \in SUBSET AESFits
  <1> SUFFICES ASSUME NEW p \in AESWriteOne(S, u) PROVE p \in AESFits
    OBVIOUS
  <1>1. PICK o \in S : AESByte(o, u, p)
    BY AESWriteOneIs
  <1>2. o.c \in Chains /\ Sound(o.c) /\ o \in AESFits
    BY DEF Fits, AESFits, Outcomes
  <1>3. CASE ~o.ok
    <2>1. p = o
      BY <1>1, <1>3 DEF AESByte
    <2> QED
      BY <1>2, <2>1
  <1>4. CASE o.ok
    <2> DEFINE r == [c |-> o.c, ok |-> TRUE]
    <2>1. AESStep(o.c, r, << >>)
      BY <1>2, AESStays
    <2>2. o = r
      BY <1>2, <1>4 DEF AESFits, Fits, Outcomes
    <2>3. AESPuts(o.c, o, << >>)
      BY <1>2, <2>1, <2>2 DEF AESPuts, AESFits
    <2>4. << >> \in Seq(Deflated)
      OBVIOUS
    <2>5. AESPuts(o.c, p, << >> \o <<u>>)
      BY <1>1, <1>2, <2>3, <2>4, AESPutsOneMore
    <2> QED
      BY <1>2, <2>5, AESPutsFits
  <1> QED
    BY <1>3, <1>4

LEMMA AESRunsExist ==
    ASSUME NEW c \in Chains, Sound(c), NEW data \in Seq(Deflated)
    PROVE  \E f : AESRuns(f, c, data)
  <1> DEFINE V == SUBSET AESFits
             one == [p \in V \X Deflated |-> AESWriteOne(p[1], p[2])]
             base == EnsureIVWritten(c)
  <1>1. base \in V
    <2> SUFFICES ASSUME NEW o \in base PROVE o \in AESFits
      OBVIOUS
    <2>1. AESPuts(c, o, << >>)
      BY AESEnsureIV DEF AESPuts
    <2> QED
      BY <2>1, AESPutsFits
  <1>2. one \in [V \X Deflated -> V]
    BY AESWriteFits
  <1>3. \A S \in V, u \in Deflated : one[<<S, u>>] = AESWriteOne(S, u)
    OBVIOUS
  <1> HIDE DEF V, one, base
  <1>4. PICK f : Loops(f, V, base, Deflated, data, one)
    BY <1>1, <1>2, UnitByUnit
  <1>5. Len(data) \in Nat /\ \A k \in 1 .. Len(data) : data[k] \in Deflated
    OBVIOUS
  <1>6. \A k \in 1 .. Len(data) : f[k - 1] \in V /\ data[k] \in Deflated
    BY <1>4, <1>5 DEF Loops
  <1>7. f[0] = base /\ \A k \in 1 .. Len(data) : f[k] = AESWriteOne(f[k - 1], data[k])
    BY <1>3, <1>4, <1>6 DEF Loops
  <1>8. \A k \in 0 .. Len(data) : k = 0 \/ k \in 1 .. Len(data)
    BY <1>5
  <1>9. AESRuns(f, c, data)
    BY <1>4, <1>7, <1>8 DEF Loops, AESRuns, base
  <1> QED
    BY <1>9

LEMMA AESWritePuts ==
    ASSUME NEW c \in Chains, Sound(c), NEW data \in Seq(Deflated), NEW o \in AESWrite(c, data)
    PROVE  AESPuts(c, o, data)
  <1> DEFINE f == CHOOSE g : AESRuns(g, c, data)
             n == Len(data)
  <1>1. AESRuns(f, c, data)
    BY AESRunsExist
  <1>2. o \in f[n]
    BY DEF AESWrite, AESRuns
  <1> HIDE DEF f
  <1>3. n \in Nat
    OBVIOUS
  <1> DEFINE T == {k \in 0 .. n : \A p \in f[k] : AESPuts(c, p, Prefix(data, k))}
  <1>4. 0 \in T
    <2>1. f[0] = EnsureIVWritten(c)
      BY <1>1, <1>3 DEF AESRuns
    <2>2. ASSUME NEW p \in f[0] PROVE AESPuts(c, p, << >>)
      BY <2>1, <2>2, AESEnsureIV DEF AESPuts
    <2>3. Prefix(data, 0) = << >>
      BY Whole
    <2> QED
      BY <1>3, <2>2, <2>3
  <1>5. ASSUME NEW k \in 0 .. n - 1, k \in T PROVE k + 1 \in T
    <2>1. f[k + 1] = AESWriteOne(f[k], data[k + 1])
      <3>1. k + 1 \in 0 .. n /\ k + 1 # 0 /\ (k + 1) - 1 = k
        BY <1>3
      <3> QED
        BY <1>1, <3>1 DEF AESRuns
    <2>2. /\ Prefix(data, k) \in Seq(Deflated) /\ data[k + 1] \in Deflated
          /\ Prefix(data, k + 1) = Prefix(data, k) \o <<data[k + 1]>>
      BY Grows
    <2>3. ASSUME NEW p \in f[k + 1] PROVE AESPuts(c, p, Prefix(data, k + 1))
      <3>1. PICK h \in f[k] : AESByte(h, data[k + 1], p)
        BY <2>1, <2>3, AESWriteOneIs
      <3>2. AESPuts(c, h, Prefix(data, k))
        BY <1>5
      <3> QED
        BY <2>2, <3>1, <3>2, AESPutsOneMore
    <2> QED
      BY <1>3, <2>3
  <1>6. n \in T
    <2> HIDE DEF T
    <2>1. n \in 0 .. n
      BY <1>3
    <2> QED
      BY <1>3, <1>4, <1>5, <2>1, InductionUpTo
  <1>7. Prefix(data, n) = data
    BY Whole
  <1> QED
    BY <1>2, <1>6, <1>7

(* The last block goes out; what was padded already stays as it is.        *)
LEMMA AESFlushEnds ==
    ASSUME NEW c \in Chains, Sound(c), NEW o \in AESFlush(c)
    PROVE  /\ Puts(c, o, << >>) /\ SameFlate(c, o.c) /\ Tells(c, o) /\ o.c.padded
           /\ c.padded => o.ok /\ o.c = c
           /\ o.ok /\ ~c.padded => \A pre \in Seq(Units), P \in Seq(Deflated) :
                                       AESHolds(c, pre, P) => AESEnds(o.c, pre, P)
  <1>1. CASE c.padded
    <2>1. o = [c |-> c, ok |-> TRUE]
      BY <1>1 DEF AESFlush, Fine
    <2>2. AESStep(c, o, << >>)
      BY <2>1, AESStays
    <2> QED
      BY <1>1, <2>1, <2>2 DEF AESStep
  <1>2. CASE ~c.padded
    <2> DEFINE b == [c EXCEPT !.padded = TRUE]
               S == EnsureIVWritten(b)
               A == AndThen(S, WriteFullBlock)
               Pad(d) == TargetWrite(d, <<Block(d.block)>>)
    <2>1. o \in AndThen(A, Pad)
      BY <1>2 DEF AESFlush
    <2>2. \A h : h \in A <=> \E p \in S : (~p.ok /\ h = p) \/ (p.ok /\ h \in WriteFullBlock(p.c))
      BY DEF AndThen
    <2>3. \E h \in A : (~h.ok /\ o = h) \/ (h.ok /\ o \in TargetWrite(h.c, <<Block(h.c.block)>>))
      BY <2>1 DEF AndThen
    <2>4. /\ b \in Chains /\ b.padded /\ b.bytes = c.bytes /\ b.buffer = c.buffer
          /\ b.temporary = c.temporary /\ b.held = c.held /\ b.iv = c.iv /\ b.block = c.block
          /\ b.faults = c.faults /\ SameFlate(c, b)
      BY DEF Chains, SameFlate
    <2> HIDE DEF b, S, A
    <2>5. Sound(b) /\ Out(b) = Out(c)
      BY <2>4 DEF Sound, Out, FileOf
    <2>6. PICK h \in A : (~h.ok /\ o = h) \/ (h.ok /\ o \in TargetWrite(h.c, <<Block(h.c.block)>>))
      BY <2>3
    <2>7. PICK p \in S : (~p.ok /\ h = p) \/ (p.ok /\ h \in WriteFullBlock(p.c))
      BY <2>2
    <2>8. AESStep(b, p, << >>) /\ (p.ok => p.c.iv)
      BY <2>4, <2>5, AESEnsureIV DEF S
    <2>9. << >> \in Seq(Deflated) /\ << >> \o << >> = << >> /\ << >> \in Seq(Units)
      BY ConcatEmptySeq
    <2>10. /\ AESStep(b, h, << >>)
           /\ h.ok => Len(h.c.block) < BlockSize /\ h.c.iv
      <3>1. CASE ~p.ok /\ h = p
        BY <2>8, <3>1
      <3>2. CASE p.ok /\ h \in WriteFullBlock(p.c)
        <4>1. p.c \in Chains /\ Sound(p.c)
          BY <2>8 DEF AESStep, Puts, Outcomes
        <4>2. AESStep(p.c, h, << >>) /\ (h.ok => Len(h.c.block) < BlockSize)
          BY <3>2, <4>1, AESFullBlock
        <4>3. AESStep(b, h, << >> \o << >>)
          BY <2>4, <2>8, <2>9, <3>2, <4>2, AESStepThen
        <4> QED
          BY <2>8, <2>9, <3>2, <4>2, <4>3 DEF AESStep
      <3> QED
        BY <2>7, <3>1, <3>2
    <2>11. h.c \in Chains /\ Sound(h.c) /\ h.c.padded /\ SameFlate(c, h.c)
           /\ Puts(b, h, << >>) /\ Tells(b, h)
      BY <2>4, <2>10 DEF AESStep, Puts, Outcomes, SameFlate
    <2>12. CASE ~h.ok /\ o = h
      <3>1. Puts(c, o, << >>)
        BY <2>4, <2>5, <2>11, <2>12 DEF Puts, Aside
      <3>2. Tells(c, o)
        BY <2>4, <2>11, <2>12 DEF Tells
      <3> QED
        BY <1>2, <2>11, <2>12, <3>1, <3>2
    <2>13. CASE h.ok /\ o \in TargetWrite(h.c, <<Block(h.c.block)>>)
      <3> DEFINE k == h.c.block
                 e == <<Block(k)>>
      <3>1. k \in Seq(Deflated)
        BY <2>11 DEF Chains
      <3>2. e \in Seq(Units) /\ Nums(e) = {}
        BY <3>1, BlockIs
      <3>3. TargetPuts(h.c, o, e)
        BY <2>11, <2>13, <3>2, TargetWritePuts
      <3> HIDE DEF e, k
      <3>4. Puts(h.c, o, << >>)
        BY <2>11, <3>2, <3>3, PutsUnnumbered DEF TargetPuts
      <3>5. Puts(b, o, << >>)
        <4>1. Puts(b, o, << >> \o << >>)
          BY <2>4, <2>9, <2>11, <3>4, PutsThen
        <4> QED
          BY <2>9, <4>1
      <3>6. Puts(c, o, << >>)
        BY <2>4, <2>5, <3>5 DEF Puts, Aside
      <3>7. /\ o.c \in Chains /\ SameFlate(c, o.c) /\ o.c.padded /\ Tells(h.c, o)
            /\ o.ok => Out(o.c) = Out(h.c) \o e
        BY <2>11, <3>3 DEF TargetPuts, Puts, Outcomes, SameFlate, SameCipher
      <3>8. Tells(c, o)
        <4>1. c.faults \in Nat /\ h.c.faults \in Nat /\ o.c.faults \in Nat
          BY <2>11, <3>7, OutIs
        <4>2. h.c.faults >= c.faults
          BY <2>4, <2>11 DEF Tells
        <4>3. o.c.faults >= h.c.faults /\ (o.c.faults = h.c.faults => o.ok)
          BY <3>7 DEF Tells
        <4>4. o.c.faults >= c.faults /\ (o.c.faults = c.faults => o.c.faults = h.c.faults)
          BY <4>1, <4>2, <4>3
        <4> QED
          BY <4>3, <4>4 DEF Tells
      <3>9. ASSUME o.ok, NEW pre \in Seq(Units), NEW P \in Seq(Deflated), AESHolds(c, pre, P)
            PROVE  AESEnds(o.c, pre, P)
        <4>1. AESHolds(b, pre, P)
          BY <2>4, <2>5, <3>9 DEF AESHolds, AESOf
        <4>2. P \o << >> = P
          BY ConcatEmptySeq
        <4>3. AESHolds(h.c, pre, P)
          BY <2>10, <2>13, <4>1, <4>2 DEF AESStep
        <4>4. PICK E \in Seq(Units) : Out(h.c) = pre \o E /\ AESOf(h.c, P, E)
          BY <4>3 DEF AESHolds
        <4>5. PICK B \in Seq(Seq(Deflated)) :
                 E = <<IV>> \o Blocks(B) /\ AllFull(B) /\ FlattenSeq(B) \o h.c.block = P
          BY <2>10, <2>13, <4>4 DEF AESOf
        <4> DEFINE C == B \o <<k>>
        <4>6. Blocks(C) = Blocks(B) \o e /\ Blocks(B) \in Seq(Units)
          BY <3>1, BlocksMore DEF e
        <4>7. FlattenSeq(C) = P
          <5>1. FlattenSeq(C) = FlattenSeq(B) \o k
            BY <3>1, FlattenSeqMore
          <5> QED
            BY <4>5, <5>1 DEF k
        <4> HIDE DEF C
        <4>8. Out(o.c) = pre \o (<<IV>> \o Blocks(C))
          <5>1. Out(o.c) = (pre \o E) \o e
            BY <3>7, <3>9, <4>4
          <5>2. Out(o.c) = pre \o (E \o e)
            BY <3>2, <5>1, RegroupUnits
          <5>3. E \o e = <<IV>> \o (Blocks(B) \o e)
            BY <3>2, <4>5, <4>6, IVIs, RegroupUnits
          <5> QED
            BY <4>6, <5>2, <5>3
        <4>9. Len(k) < BlockSize
          BY <2>10, <2>13 DEF k
        <4> QED
          BY <3>1, <4>5, <4>7, <4>8, <4>9 DEF AESEnds, C
      <3> QED
        BY <1>2, <3>6, <3>7, <3>8, <3>9
    <2> QED
      BY <2>6, <2>12, <2>13
  <1> QED
    BY <1>1, <1>2


-----------------------------------------------------------------------------
(***************************************************************************)
(* Whatever the encryption: the stream is in the middle of the units P, or *)
(* at their end.                                                           *)
(***************************************************************************)
Carries(c, pre, P) ==
    CASE setup.cipher = "none" -> Out(c) = pre \o P
      [] setup.cipher = "rc4"  -> RC4Holds(c, pre, P)
      [] setup.cipher = "aes"  -> AESHolds(c, pre, P)

Ends(c, pre, P) ==
    CASE setup.cipher = "none" -> Out(c) = pre \o P
      [] setup.cipher = "rc4"  -> RC4Holds(c, pre, P)
      [] setup.cipher = "aes"  -> AESEnds(c, pre, P)

(* A Flush has been through. *)
Finished(c) ==
    CASE setup.cipher = "none" -> Settled(c)
      [] setup.cipher = "rc4"  -> TRUE
      [] setup.cipher = "aes"  -> c.padded

SetupTyped == setup \in [compress : BOOLEAN, cipher : {"none", "rc4", "aes"}, direct : BOOLEAN]

(* An outcome that no failure of the device has touched, or that says it   *)
(* went well, unless an RC4 stream says so, which always does.             *)
Well(c, o) == o.c.faults = c.faults \/ (o.ok /\ setup.cipher # "rc4")

CipherPuts(c, o, data) ==
    /\ Puts(c, o, data) /\ SameFlate(c, o.c) /\ o.c.padded = c.padded
    /\ o.c.faults = c.faults => o.ok
    /\ Well(c, o) => \A pre \in Seq(Units), P \in Seq(Deflated) :
                         Carries(c, pre, P) => Carries(o.c, pre, P \o data)

LEMMA CipherWritePuts ==
    ASSUME SetupTyped, NEW c \in Chains, Sound(c), NEW data \in Seq(Deflated),
           NEW o \in CipherWrite(c, data)
    PROVE  CipherPuts(c, o, data)
  <1>1. data \in Seq(Units)
    BY Levels
  <1>2. CASE setup.cipher = "none"
    <2>1. o \in TargetWrite(c, data)
      BY <1>2 DEF CipherWrite
    <2>2. TargetPuts(c, o, data)
      BY <1>1, <2>1, TargetWritePuts
    <2>3. /\ Puts(c, o, data) /\ SameFlate(c, o.c) /\ o.c.padded = c.padded
          /\ o.c.faults = c.faults => o.ok
          /\ o.ok => Out(o.c) = Out(c) \o data
      BY <2>2 DEF TargetPuts, SameCipher, Tells
    <2>4. ASSUME o.ok, NEW pre \in Seq(Units), NEW P \in Seq(Deflated), Carries(c, pre, P)
          PROVE  Carries(o.c, pre, P \o data)
      <3>1. Out(c) = pre \o P
        BY <1>2, <2>4 DEF Carries
      <3>2. Out(o.c) = (pre \o P) \o data
        BY <2>3, <2>4, <3>1
      <3>3. P \in Seq(Units)
        BY Levels
      <3>4. Out(o.c) = pre \o (P \o data)
        BY <1>1, <3>2, <3>3, RegroupUnits
      <3> QED
        BY <1>2, <3>4 DEF Carries
    <2>5. Well(c, o) => o.ok
      BY <2>3 DEF Well
    <2> QED
      BY <2>3, <2>4, <2>5 DEF CipherPuts
  <1>3. CASE setup.cipher = "rc4"
    <2>1. o \in RC4Write(c, data)
      BY <1>3 DEF CipherWrite
    <2>2. RC4Puts(c, o, data)
      BY <2>1, RC4WritePuts
    <2>3. Well(c, o) => o.c.faults = c.faults
      BY <1>3 DEF Well
    <2>4. ASSUME o.c.faults = c.faults, NEW pre \in Seq(Units), NEW P \in Seq(Deflated), Carries(c, pre, P)
          PROVE  Carries(o.c, pre, P \o data)
      <3>1. RC4Holds(c, pre, P)
        BY <1>3, <2>4 DEF Carries
      <3>2. RC4Holds(o.c, pre, P \o data)
        BY <2>2, <2>4, <3>1 DEF RC4Puts
      <3> QED
        BY <1>3, <3>2 DEF Carries
    <2> QED
      BY <2>2, <2>3, <2>4 DEF CipherPuts, RC4Puts
  <1>4. CASE setup.cipher = "aes"
    <2>1. o \in AESWrite(c, data)
      BY <1>4 DEF CipherWrite
    <2>2. AESStep(c, o, data)
      BY <2>1, AESWritePuts DEF AESPuts
    <2>3. Well(c, o) => o.ok
      BY <2>2 DEF Well, AESStep, Tells
    <2>4. ASSUME o.ok, NEW pre \in Seq(Units), NEW P \in Seq(Deflated), Carries(c, pre, P)
          PROVE  Carries(o.c, pre, P \o data)
      <3>1. AESHolds(c, pre, P)
        BY <1>4, <2>4 DEF Carries
      <3>2. AESHolds(o.c, pre, P \o data)
        BY <2>2, <2>4, <3>1 DEF AESStep
      <3> QED
        BY <1>4, <3>2 DEF Carries
    <2> QED
      BY <2>2, <2>3, <2>4 DEF CipherPuts, AESStep, Tells
  <1> QED
    BY <1>2, <1>3, <1>4 DEF SetupTyped

LEMMA CipherFlushEnds ==
    ASSUME SetupTyped, NEW c \in Chains, Sound(c), NEW o \in CipherFlush(c)
    PROVE  /\ Puts(c, o, << >>) /\ SameFlate(c, o.c) /\ Tells(c, o)
           /\ o.ok => Finished(o.c)
           /\ Finished(c) => o.ok
           /\ \A pre \in Seq(Units), P \in Seq(Deflated) :
                 /\ o.ok /\ ~c.padded /\ Carries(c, pre, P) => Ends(o.c, pre, P)
                 /\ Finished(c) /\ Ends(c, pre, P) => Ends(o.c, pre, P)
  <1>1. CASE setup.cipher = "none"
    <2>1. o \in TargetFlush(c)
      BY <1>1 DEF CipherFlush
    <2>2. TargetPuts(c, o, << >>) /\ (o.ok => Settled(o.c)) /\ (Settled(c) => o.ok)
      BY <2>1, TargetFlushKeeps
    <2>3. o.ok => Out(o.c) = Out(c)
      BY <2>2, OutIs DEF TargetPuts
    <2> QED
      BY <1>1, <2>2, <2>3 DEF TargetPuts, Finished, Carries, Ends
  <1>2. CASE setup.cipher = "rc4"
    <2>1. o = [c |-> c, ok |-> TRUE]
      BY <1>2 DEF CipherFlush, Fine
    <2>2. AESStep(c, o, << >>)
      BY <2>1, AESStays
    <2> QED
      BY <1>2, <2>1, <2>2 DEF AESStep, Finished, Carries, Ends
  <1>3. CASE setup.cipher = "aes"
    <2>1. o \in AESFlush(c)
      BY <1>3 DEF CipherFlush
    <2>2. /\ Puts(c, o, << >>) /\ SameFlate(c, o.c) /\ Tells(c, o) /\ o.c.padded
          /\ c.padded => o.ok /\ o.c = c
          /\ o.ok /\ ~c.padded => \A pre \in Seq(Units), P \in Seq(Deflated) :
                                      AESHolds(c, pre, P) => AESEnds(o.c, pre, P)
      BY <2>1, AESFlushEnds
    <2> QED
      BY <1>3, <2>2 DEF Finished, Carries, Ends
  <1> QED
    BY <1>1, <1>2, <1>3 DEF SetupTyped


-----------------------------------------------------------------------------
(***************************************************************************)
(* The encoder above the encryption, which holds units back.               *)
(***************************************************************************)
LEMMA ZippedIs ==
    ASSUME NEW u \in Simple
    PROVE  /\ Zipped(u) \in Deflated
           /\ Numbered(Zipped(u)) => Numbered(u) /\ NumberOf(Zipped(u)) = NumberOf(u)
  <1> DEFINE v == <<u>>
             z == Zipped(u)
  <1>1. v \in Seq(Simple) /\ v[1] = u /\ "z" \in Kinds
    BY DEF Kinds
  <1>2. z = [kind |-> "z", n |-> 0, of |-> v]
    BY DEF Zipped
  <1> HIDE DEF v, z
  <1>3. z \in Deflated
    BY <1>1, <1>2 DEF Deflated
  <1>4. z.kind = "z" /\ z.of[1] = u
    BY <1>1, <1>2
  <1>5. Numbered(z) => u.kind = "raw"
    BY <1>4 DEF Numbered
  <1>6. u.kind = "raw" => Numbered(u) /\ NumberOf(u) = u.n /\ NumberOf(z) = u.n
    BY <1>4 DEF Numbered, NumberOf
  <1> QED
    BY <1>3, <1>5, <1>6 DEF z

LEMMA ZippedAllIs ==
    ASSUME NEW s \in Seq(Simple)
    PROVE  /\ ZippedAll(s) \in Seq(Deflated) /\ Len(ZippedAll(s)) = Len(s)
           /\ \A i \in 1 .. Len(s) : ZippedAll(s)[i] = Zipped(s[i])
           /\ Nums(ZippedAll(s)) \subseteq Nums(s)
           /\ Ascends(s) => Ascends(ZippedAll(s))
  <1> DEFINE z == ZippedAll(s)
  <1>1. Len(s) \in Nat /\ DOMAIN s = 1 .. Len(s) /\ \A i \in 1 .. Len(s) : s[i] \in Simple
    OBVIOUS
  <1>2. z = [i \in 1 .. Len(s) |-> Zipped(s[i])]
    BY DEF ZippedAll
  <1> HIDE DEF z
  <1>3. \A i \in 1 .. Len(s) : Zipped(s[i]) \in Deflated
    BY <1>1, ZippedIs
  <1>4. z \in Seq(Deflated) /\ Len(z) = Len(s) /\ \A i \in 1 .. Len(s) : z[i] = Zipped(s[i])
    BY <1>1, <1>2, <1>3
  <1>5. DOMAIN z = 1 .. Len(s)
    BY <1>2
  <1>6. \A i \in 1 .. Len(s) : Numbered(z[i]) => Numbered(s[i]) /\ NumberOf(z[i]) = NumberOf(s[i])
    BY <1>1, <1>4, ZippedIs
  <1>7. Nums(z) \subseteq Nums(s)
    BY <1>1, <1>5, <1>6 DEF Nums
  <1>8. Ascends(s) => Ascends(z)
    BY <1>1, <1>5, <1>6 DEF Ascends
  <1> QED
    BY <1>4, <1>7, <1>8 DEF z

LEMMA ZippedAllJoins ==
    ASSUME NEW a \in Seq(Simple), NEW b \in Seq(Simple)
    PROVE  ZippedAll(a \o b) = ZippedAll(a) \o ZippedAll(b)
  <1> DEFINE c == a \o b
             x == ZippedAll(a)
             y == ZippedAll(b)
             z == ZippedAll(c)
  <1>1. /\ c \in Seq(Simple) /\ Len(c) = Len(a) + Len(b)
        /\ \A i \in 1 .. Len(a) + Len(b) : c[i] = IF i <= Len(a) THEN a[i] ELSE b[i - Len(a)]
    BY ConcatProperties
  <1>2. Len(a) \in Nat /\ Len(b) \in Nat
    OBVIOUS
  <1> HIDE DEF c
  <1>3. /\ x \in Seq(Deflated) /\ Len(x) = Len(a) /\ (\A i \in 1 .. Len(a) : x[i] = Zipped(a[i]))
        /\ y \in Seq(Deflated) /\ Len(y) = Len(b) /\ (\A i \in 1 .. Len(b) : y[i] = Zipped(b[i]))
        /\ z \in Seq(Deflated) /\ Len(z) = Len(c) /\ (\A i \in 1 .. Len(c) : z[i] = Zipped(c[i]))
    BY <1>1, ZippedAllIs
  <1> HIDE DEF x, y, z
  <1>4. /\ x \o y \in Seq(Deflated) /\ Len(x \o y) = Len(a) + Len(b)
        /\ \A i \in 1 .. Len(a) + Len(b) : (x \o y)[i] = IF i <= Len(a) THEN x[i] ELSE y[i - Len(a)]
    <2>1. x \in Seq(Deflated) /\ y \in Seq(Deflated) /\ Len(x) = Len(a) /\ Len(y) = Len(b)
      BY <1>3
    <2>2. /\ x \o y \in Seq(Deflated) /\ Len(x \o y) = Len(x) + Len(y)
          /\ \A i \in 1 .. Len(x) + Len(y) : (x \o y)[i] = IF i <= Len(x) THEN x[i] ELSE y[i - Len(x)]
      BY <2>1, ConcatProperties
    <2> QED
      BY <2>1, <2>2
  <1>5. ASSUME NEW i \in 1 .. Len(a) + Len(b) PROVE z[i] = (x \o y)[i]
    <2>1. z[i] = Zipped(c[i])
      BY <1>1, <1>3
    <2>2. CASE i <= Len(a)
      BY <1>1, <1>2, <1>3, <1>4, <2>1, <2>2
    <2>3. CASE ~(i <= Len(a))
      <3>1. i - Len(a) \in 1 .. Len(b)
        BY <1>2, <2>3
      <3>2. c[i] = b[i - Len(a)] /\ (x \o y)[i] = y[i - Len(a)]
        BY <1>1, <1>4, <2>3
      <3> QED
        BY <1>3, <2>1, <3>1, <3>2
    <2> QED
      BY <2>2, <2>3
  <1>6. z = x \o y
    BY <1>1, <1>3, <1>4, <1>5, SeqEqual
  <1> QED
    BY <1>6 DEF x, y, z, c

LEMMA ZipEndIs ==
    /\ ZipEnd \in Deflated /\ <<ZipEnd>> \in Seq(Deflated)
    /\ Nums(<<ZipEnd>>) = {}
  <1>1. "zend" \in Kinds /\ << >> \in Seq(Simple)
    BY DEF Kinds
  <1>2. ZipEnd \in Deflated
    BY <1>1 DEF ZipEnd, Deflated
  <1>3. ZipEnd.kind = "zend"
    BY DEF ZipEnd
  <1>4. ~Numbered(ZipEnd)
    BY <1>3 DEF Numbered
  <1>5. Nums(<<ZipEnd>>) = {}
    BY <1>4, NumsOne
  <1>6. <<ZipEnd>> \in Seq(Deflated)
    BY <1>2
  <1> QED
    BY <1>2, <1>5, <1>6

(* Units that wait: what is written of g and data is a, and r waits.       *)
LEMMA OrderedWaits ==
    ASSUME NEW s \in Seq(Units), NEW g \in Seq(Units), NEW data \in Seq(Units),
           NEW a \in Seq(Units), NEW r \in Seq(Units), NEW t \in Seq(Units),
           a \o r = g \o data, Ordered(s, a, t)
    PROVE  /\ Ordered(s \o g, data, t \o r)
           /\ Ordered(s \o g, data, t)
  <1>1. t \o r \in Seq(Units) /\ s \o g \in Seq(Units)
    BY Closed
  <1>2. Ordered(t, r, t \o r)
    BY NumsJoin DEF Ordered
  <1>3. Ordered(s, g \o data, t \o r)
    <2>1. Ordered(s, a \o r, t \o r)
      BY <1>1, <1>2, OrderedThen
    <2> QED
      BY <2>1
  <1>4. Nums(s \o g) = Nums(s) \cup Nums(g) /\ Nums(g \o data) = Nums(g) \cup Nums(data)
        /\ Nums(t \o r) = Nums(t) \cup Nums(r)
    BY NumsJoin
  <1>5. (s \o g) \o data = s \o (g \o data)
    BY RegroupUnits, SMTT(30)
  <1>6. Ordered(s \o g, data, t \o r)
    BY <1>3, <1>4, <1>5 DEF Ordered
  <1>7. Ascends(t \o r) => Ascends(t)
    BY AscendsJoin
  <1>8. Ordered(s \o g, data, t)
    BY <1>4, <1>6, <1>7 DEF Ordered
  <1> QED
    BY <1>6, <1>8

LEMMA CarriesSame ==
    ASSUME NEW c, NEW d, Out(d) = Out(c), SameCipher(c, d), NEW pre, NEW P, Carries(c, pre, P)
    PROVE  Carries(d, pre, P)
  BY DEF Carries, RC4Holds, RC4Of, AESHolds, AESOf, SameCipher

(* The content so far, as the encoder and the encryption have it.          *)
FlateHolds(c, pre, content) ==
    IF setup.compress
    THEN /\ c.encoding
         /\ \E z \in Seq(Simple) :
               content = z \o c.pending /\ Carries(c, pre, ZippedAll(z))
    ELSE Carries(c, pre, content)

(* What every step of a stream keeps to. *)
Keeps(c, o) ==
    /\ o \in Outcomes /\ Sound(o.c) /\ Aside(c, o.c) /\ o.c.faults >= c.faults
    /\ o.c.faults = c.faults => o.ok
    /\ ~o.c.encoding => o.c.pending = << >>

ContentPuts(c, o, data) ==
    /\ Keeps(c, o) /\ o.c.padded = c.padded /\ (o.c.encoding => c.encoding)
    /\ Ordered(Out(c) \o c.pending, data, Out(o.c) \o o.c.pending)
    /\ Well(c, o) => \A pre \in Seq(Units), content \in Seq(Simple) :
                         FlateHolds(c, pre, content) => FlateHolds(o.c, pre, content \o data)


LEMMA CipherKeeps ==
    ASSUME NEW c, NEW o, NEW data, CipherPuts(c, o, data), ~c.encoding => c.pending = << >>
    PROVE  Keeps(c, o)
  BY DEF CipherPuts, Puts, Keeps, SameFlate

LEMMA PastEncoderPuts ==
    ASSUME SetupTyped, NEW c \in Chains, Sound(c), ~c.encoding, c.pending = << >>,
           NEW data \in Seq(Simple), NEW o \in CipherWrite(c, data)
    PROVE  ContentPuts(c, o, data)
  <1>1. data \in Seq(Deflated)
    BY Levels
  <1>2. CipherPuts(c, o, data)
    BY <1>1, CipherWritePuts
  <1>3. Keeps(c, o) /\ o.c.padded = c.padded /\ o.c.encoding = c.encoding /\ o.c.pending = << >>
    BY <1>2, CipherKeeps DEF CipherPuts, SameFlate
  <1>4. o.c \in Chains
    BY <1>3 DEF Keeps, Outcomes
  <1>5. Ordered(Out(c) \o c.pending, data, Out(o.c) \o o.c.pending)
    <2>1. Out(c) \o << >> = Out(c) /\ Out(o.c) \o << >> = Out(o.c)
      BY <1>4, OutIs
    <2> QED
      BY <1>2, <1>3, <2>1 DEF CipherPuts, Puts
  <1>6. ASSUME Well(c, o), NEW pre \in Seq(Units), NEW content \in Seq(Simple), FlateHolds(c, pre, content)
        PROVE  FlateHolds(o.c, pre, content \o data)
    <2>1. ~setup.compress /\ Carries(c, pre, content)
      BY <1>6 DEF FlateHolds
    <2>2. content \in Seq(Deflated)
      BY Levels
    <2>3. Carries(o.c, pre, content \o data)
      BY <1>2, <1>6, <2>1, <2>2 DEF CipherPuts
    <2> QED
      BY <2>1, <2>3 DEF FlateHolds
  <1> QED
    BY <1>3, <1>5, <1>6 DEF ContentPuts

(* The first n of the units that wait go out; the encoder gives up when it *)
(* is told that they did not.                                              *)
FlateByte(c, data, n, o) ==
    LET all == c.pending \o data
    IN  \E p \in CipherWrite([c EXCEPT !.pending = Rest(all, n)], ZippedAll(Prefix(all, n))) :
           o = IF p.ok THEN p ELSE [p EXCEPT !.c.encoding = FALSE, !.c.pending = << >>]

LEMMA FlateWriteIs ==
    ASSUME NEW c, c.encoding, NEW data, NEW o \in FlateWrite(c, data)
    PROVE  FlateByte(c, data, 0, o) \/ FlateByte(c, data, Len(c.pending \o data), o)
  BY DEF FlateWrite, FlateByte

LEMMA FlatePuts ==
    ASSUME SetupTyped, setup.compress, NEW c \in Chains, Sound(c), c.encoding,
           NEW data \in Seq(Simple), NEW n \in 0 .. Len(c.pending \o data), NEW o, FlateByte(c, data, n, o)
    PROVE  ContentPuts(c, o, data)
  <1> DEFINE all == c.pending \o data
             a == Prefix(all, n)
             r == Rest(all, n)
             z == ZippedAll(a)
             b == [c EXCEPT !.pending = r]
  <1>1. c.pending \in Seq(Simple) /\ all \in Seq(Simple)
    BY Closed DEF Chains
  <1>2. a \in Seq(Simple) /\ r \in Seq(Simple) /\ a \o r = all
    BY <1>1, Cut
  <1>3. PICK p \in CipherWrite(b, z) :
           o = IF p.ok THEN p ELSE [p EXCEPT !.c.encoding = FALSE, !.c.pending = << >>]
    BY DEF FlateByte
  <1> HIDE DEF a, r
  <1>4. z \in Seq(Deflated) /\ Nums(z) \subseteq Nums(a) /\ (Ascends(a) => Ascends(z))
    BY <1>2, ZippedAllIs
  <1>5. /\ b \in Chains /\ b.pending = r /\ b.bytes = c.bytes /\ b.buffer = c.buffer
        /\ b.temporary = c.temporary /\ b.held = c.held /\ b.block = c.block
        /\ b.padded = c.padded /\ b.encoding = c.encoding /\ b.faults = c.faults
        /\ SameCipher(c, b)
    BY <1>2 DEF Chains, SameCipher
  <1> HIDE DEF z, b, all
  <1>6. Sound(b) /\ Out(b) = Out(c)
    BY <1>5 DEF Sound, Out, FileOf
  <1>7. CipherPuts(b, p, z)
    BY <1>3, <1>4, <1>5, <1>6, CipherWritePuts
  <1>8. /\ p \in Outcomes /\ p.c \in Chains /\ Sound(p.c) /\ Aside(c, p.c) /\ p.c.faults >= c.faults
        /\ p.c.pending = r /\ p.c.encoding /\ p.c.padded = c.padded
        /\ p.c.faults = c.faults => p.ok
    BY <1>5, <1>7 DEF CipherPuts, Puts, Outcomes, SameFlate, Aside
  <1>9. Ordered(Out(c), a, Out(p.c))
    <2>1. Ordered(Out(c), z, Out(p.c))
      BY <1>6, <1>7 DEF CipherPuts, Puts
    <2>2. a \in Seq(Units) /\ z \in Seq(Units) /\ Out(c) \in Seq(Units)
      BY <1>2, <1>4, Levels, OutIs
    <2> QED
      BY <1>4, <2>1, <2>2, OrderedLike
  <1>10. /\ Ordered(Out(c) \o c.pending, data, Out(p.c) \o r)
         /\ Ordered(Out(c) \o c.pending, data, Out(p.c))
    <2>1. /\ a \in Seq(Units) /\ r \in Seq(Units) /\ data \in Seq(Units) /\ c.pending \in Seq(Units)
          /\ Out(c) \in Seq(Units) /\ Out(p.c) \in Seq(Units)
      BY <1>1, <1>2, <1>8, Levels, OutIs
    <2>2. a \o r = c.pending \o data
      BY <1>2 DEF all
    <2> QED
      BY <1>9, <2>1, <2>2, OrderedWaits
  <1>11. CASE p.ok
    <2>1. o = p
      BY <1>3, <1>11
    <2>2. ASSUME Well(c, o), NEW pre \in Seq(Units), NEW content \in Seq(Simple), FlateHolds(c, pre, content)
          PROVE  FlateHolds(o.c, pre, content \o data)
      <3>1. PICK y \in Seq(Simple) : content = y \o c.pending /\ Carries(c, pre, ZippedAll(y))
        BY <2>2 DEF FlateHolds
      <3> DEFINE x == ZippedAll(y)
      <3>2. x \in Seq(Deflated)
        BY ZippedAllIs
      <3> HIDE DEF x
      <3>3. Carries(b, pre, x)
        BY <1>5, <1>6, <3>1, CarriesSame DEF x
      <3>4. Well(b, p)
        BY <1>5, <2>1, <2>2 DEF Well
      <3>5. Carries(p.c, pre, x \o z)
        BY <1>7, <3>2, <3>3, <3>4, <2>2 DEF CipherPuts
      <3>6. x \o z = ZippedAll(y \o a) /\ y \o a \in Seq(Simple)
        BY <1>2, ZippedAllJoins, Closed DEF x, z
      <3>7. content \o data = (y \o a) \o r
        <4> DEFINE g == c.pending
                   v == y
                   k == data
        <4>1. /\ v \in Seq(Units) /\ a \in Seq(Units) /\ r \in Seq(Units)
              /\ g \in Seq(Units) /\ k \in Seq(Units)
          BY <1>1, <1>2, Levels
        <4>2. a \o r = g \o k
          BY <1>2 DEF all
        <4> HIDE DEF g, v, k
        <4>3. (v \o g) \o k = (v \o a) \o r
          <5> HIDE DEF all
          <5>1. v \in Seq(Units) /\ g \in Seq(Units) /\ k \in Seq(Units)
            BY <4>1
          <5>2. (v \o g) \o k = v \o (g \o k)
            BY <5>1, RegroupUnits
          <5>3. (v \o a) \o r = v \o (a \o r)
            BY <4>1, RegroupUnits, SMTT(30)
          <5> QED
            BY <4>2, <5>2, <5>3
        <4> QED
          BY <3>1, <4>3 DEF g, v, k
      <3> QED
        BY <1>8, <2>1, <3>5, <3>6, <3>7 DEF FlateHolds
    <2>3. Keeps(c, o) /\ o.c.padded = c.padded
      BY <1>8, <1>11, <2>1 DEF Keeps
    <2> QED
      BY <1>8, <1>10, <2>1, <2>2, <2>3 DEF ContentPuts
  <1>12. CASE ~p.ok
    <2> DEFINE d == [p.c EXCEPT !.encoding = FALSE, !.pending = << >>]
    <2>1. o.c = d /\ o.ok = p.ok /\ o = [c |-> d, ok |-> FALSE]
      BY <1>3, <1>8, <1>12 DEF Outcomes
    <2>2. << >> \in Seq(Simple)
      OBVIOUS
    <2>3. /\ d \in Chains /\ d.bytes = p.c.bytes /\ d.buffer = p.c.buffer /\ d.held = p.c.held
          /\ d.temporary = p.c.temporary /\ d.block = p.c.block /\ d.faults = p.c.faults
          /\ d.padded = p.c.padded /\ ~d.encoding /\ d.pending = << >>
      BY <1>8, <2>2 DEF Chains
    <2> HIDE DEF d
    <2>4. Sound(d) /\ Out(d) = Out(p.c) /\ Aside(c, d)
      BY <1>8, <2>3 DEF Sound, Out, FileOf, Aside
    <2>5. o \in Outcomes
      BY <2>1, <2>3 DEF Outcomes
    <2>6. o.c.faults # c.faults
      BY <1>8, <1>12, <2>1, <2>3
    <2>7. Keeps(c, o) /\ o.c.padded = c.padded /\ ~o.c.encoding
      BY <1>8, <2>1, <2>3, <2>4, <2>5, <2>6 DEF Keeps
    <2>8. Ordered(Out(c) \o c.pending, data, Out(o.c) \o o.c.pending)
      <3>1. Out(d) \o << >> = Out(d)
        BY <2>3, OutIs
      <3> QED
        BY <1>10, <2>1, <2>3, <2>4, <3>1
    <2>9. ~Well(c, o)
      BY <1>12, <2>1, <2>6 DEF Well
    <2> QED
      BY <2>7, <2>8, <2>9 DEF ContentPuts
  <1> QED
    BY <1>11, <1>12


LEMMA ContentWritePuts ==
    ASSUME SetupTyped, NEW c \in Chains, Sound(c), c.encoding => setup.compress,
           ~c.encoding => c.pending = << >>, NEW data \in Seq(Simple),
           NEW o \in IF setup.compress THEN FlateWrite(c, data) ELSE CipherWrite(c, data)
    PROVE  ContentPuts(c, o, data)
  <1>1. CASE c.encoding
    <2>1. o \in FlateWrite(c, data)
      BY <1>1
    <2>2. c.pending \o data \in Seq(Simple)
      BY Closed DEF Chains
    <2> DEFINE n == Len(c.pending \o data)
    <2>3. n \in Nat
      BY <2>2
    <2>4. 0 \in 0 .. n /\ n \in 0 .. n
      BY <2>3
    <2> QED
      BY <1>1, <2>1, <2>4, FlateWriteIs, FlatePuts
  <1>2. CASE ~c.encoding
    <2>1. o \in CipherWrite(c, data)
      BY <1>2 DEF FlateWrite
    <2> QED
      BY <1>2, <2>1, PastEncoderPuts
  <1> QED
    BY <1>1, <1>2

-----------------------------------------------------------------------------
(* The end of a stream: what waited goes out, and everything is flushed.   *)
Coded(content) ==
    IF setup.compress THEN ZippedAll(content) \o <<ZipEnd>> ELSE content

EndStep(c, o) ==
    /\ Keeps(c, o) /\ ~o.c.encoding
    /\ Ordered(Out(c) \o c.pending, << >>, Out(o.c))

Done(c, pre, content) ==
    /\ ~c.encoding /\ Finished(c)
    /\ Ends(c, pre, Coded(content))

LEMMA FinalizeEncodingPuts ==
    ASSUME SetupTyped, NEW c \in Chains, Sound(c), c.encoding => setup.compress,
           ~c.encoding => c.pending = << >>, NEW o \in FinalizeEncoding(c)
    PROVE  /\ EndStep(c, o) /\ o.c.padded = c.padded
           /\ ~c.encoding => o.ok /\ o.c = c
           /\ Well(c, o) /\ setup.compress =>
                 \A pre \in Seq(Units), content \in Seq(Simple) :
                     FlateHolds(c, pre, content) => Carries(o.c, pre, Coded(content))
  <1>1. CASE ~c.encoding
    <2>1. o = [c |-> c, ok |-> TRUE]
      BY <1>1 DEF FinalizeEncoding, Fine
    <2>2. AESStep(c, o, << >>)
      BY <2>1, AESStays
    <2>3. Out(c) \o << >> = Out(c)
      BY OutIs
    <2>4. o.c = c /\ o.ok
      BY <2>1
    <2>5. Keeps(c, o)
      BY <1>1, <2>2, <2>4 DEF AESStep, Puts, Keeps
    <2>6. EndStep(c, o)
      BY <1>1, <2>2, <2>3, <2>4, <2>5 DEF AESStep, Puts, EndStep
    <2> QED
      BY <1>1, <2>4, <2>6 DEF FlateHolds
  <1>2. CASE c.encoding
    <2> DEFINE g == c.pending
               z == ZippedAll(g)
               e == <<ZipEnd>>
               w == z \o e
               b == [c EXCEPT !.encoding = FALSE, !.pending = << >>]
    <2>1. g \in Seq(Simple) /\ << >> \in Seq(Simple)
      BY DEF Chains
    <2>2. z \in Seq(Deflated) /\ Nums(z) \subseteq Nums(g) /\ (Ascends(g) => Ascends(z))
      BY <2>1, ZippedAllIs
    <2>3. ZipEnd \in Deflated /\ e \in Seq(Deflated) /\ Nums(e) = {} /\ Ascends(e)
      BY ZipEndIs, NumsOne
    <2>4. o \in CipherWrite(b, Append(z, ZipEnd))
      BY <1>2 DEF FinalizeEncoding
    <2>5. /\ b \in Chains /\ b.pending = << >> /\ ~b.encoding /\ b.bytes = c.bytes
          /\ b.buffer = c.buffer /\ b.temporary = c.temporary /\ b.held = c.held
          /\ b.block = c.block /\ b.padded = c.padded /\ b.faults = c.faults
          /\ SameCipher(c, b)
      BY <2>1 DEF Chains, SameCipher
    <2> HIDE DEF z, e, b
    <2>6. Append(z, ZipEnd) = w
      BY <2>2, <2>3, AppendIsConcat DEF e
    <2>7. w \in Seq(Deflated) /\ Nums(w) \subseteq Nums(g) /\ (Ascends(g) => Ascends(w))
      <3>1. w \in Seq(Deflated)
        BY <2>2, <2>3, Closed
      <3>0. z \in Seq(Deflated) /\ e \in Seq(Deflated)
        BY <2>2, <2>3
      <3>2. Nums(w) = Nums(z) \cup Nums(e)
        BY <3>0, NumsJoin
      <3>3. Ascends(w) <=> Ascends(z) /\ Ascends(e) /\ Before(Nums(z), Nums(e))
        BY <3>0, AscendsJoin
      <3>4. Before(Nums(z), Nums(e))
        BY <2>3 DEF Before
      <3> QED
        BY <2>2, <2>3, <3>1, <3>2, <3>3, <3>4
    <2> HIDE DEF w
    <2>8. Sound(b) /\ Out(b) = Out(c)
      BY <2>5 DEF Sound, Out, FileOf
    <2>9. CipherPuts(b, o, w)
      BY <2>4, <2>5, <2>6, <2>7, <2>8, CipherWritePuts
    <2>10. /\ o \in Outcomes /\ Sound(o.c) /\ Aside(b, o.c) /\ o.c.faults >= b.faults
           /\ Ordered(Out(b), w, Out(o.c)) /\ SameFlate(b, o.c) /\ o.c.padded = b.padded
           /\ o.c.faults = b.faults => o.ok
      BY <2>9 DEF CipherPuts, Puts
    <2>11. Keeps(c, o) /\ ~o.c.encoding /\ o.c.padded = c.padded
      BY <2>5, <2>10 DEF Keeps, Aside, SameFlate
    <2>12. Ordered(Out(c) \o g, << >>, Out(o.c))
      <3>1. /\ g \in Seq(Units) /\ w \in Seq(Units) /\ Out(c) \in Seq(Units) /\ << >> \in Seq(Units)
        BY <2>1, <2>7, Levels, OutIs
      <3>2. Out(o.c) \in Seq(Units)
        BY <2>10, OutIs DEF Outcomes
      <3>3. Ordered(Out(c), g, Out(o.c))
        BY <2>7, <2>8, <2>10, <3>1, OrderedLike
      <3>4. g \o << >> = g \o << >>
        OBVIOUS
      <3> QED
        BY <3>1, <3>2, <3>3, <3>4, OrderedWaits
    <2>13. EndStep(c, o)
      BY <2>11, <2>12 DEF EndStep
    <2>14. ASSUME Well(c, o), NEW pre \in Seq(Units), NEW content \in Seq(Simple), FlateHolds(c, pre, content)
           PROVE  Carries(o.c, pre, Coded(content))
      <3>1. PICK y \in Seq(Simple) : content = y \o g /\ Carries(c, pre, ZippedAll(y))
        BY <1>2, <2>14 DEF FlateHolds
      <3> DEFINE x == ZippedAll(y)
      <3>2. x \in Seq(Deflated)
        BY ZippedAllIs
      <3>3. ZippedAll(y \o g) = x \o z
        BY <2>1, ZippedAllJoins DEF z
      <3> HIDE DEF x
      <3>4. Carries(b, pre, x)
        BY <2>5, <2>8, <3>1, CarriesSame DEF x
      <3>5. Well(b, o)
        BY <2>5, <2>14 DEF Well
      <3>6. Carries(o.c, pre, x \o w)
        BY <2>9, <3>2, <3>4, <3>5 DEF CipherPuts
      <3>7. x \o w = (x \o z) \o e
        <4>1. x \in Seq(Units) /\ z \in Seq(Units) /\ e \in Seq(Units)
          BY <2>2, <2>3, <3>2, Levels
        <4> QED
          BY <4>1, RegroupUnits DEF w
      <3>8. Coded(content) = (x \o z) \o e
        BY <1>2, <3>1, <3>3 DEF Coded, e
      <3> QED
        BY <3>6, <3>7, <3>8
    <2> QED
      BY <1>2, <2>11, <2>13, <2>14
  <1> QED
    BY <1>1, <1>2


(* One step of the end, and then another whatever the first one said.      *)
Both(p, n) == [n EXCEPT !.ok = @ /\ p.ok]

LEMMA BothIs ==
    ASSUME NEW p \in Outcomes, NEW n \in Outcomes
    PROVE  Both(p, n) \in Outcomes /\ Both(p, n).c = n.c /\ (Both(p, n).ok <=> n.ok /\ p.ok)
  BY DEF Both, Outcomes

LEMMA EndStepThen ==
    ASSUME NEW c \in Chains, NEW p, NEW n, EndStep(c, p), EndStep(p.c, n)
    PROVE  EndStep(c, Both(p, n))
  <1>1. p \in Outcomes /\ n \in Outcomes /\ p.c \in Chains /\ n.c \in Chains
    BY DEF EndStep, Keeps, Outcomes
  <1>2. Both(p, n) \in Outcomes /\ Both(p, n).c = n.c /\ (Both(p, n).ok <=> n.ok /\ p.ok)
    BY <1>1, BothIs
  <1>3. /\ c.faults \in Nat /\ p.c.faults \in Nat /\ n.c.faults \in Nat
        /\ Out(c) \in Seq(Units) /\ Out(p.c) \in Seq(Units) /\ Out(n.c) \in Seq(Units)
        /\ Out(p.c) \o << >> = Out(p.c)
    BY <1>1, OutIs
  <1>4. n.c.faults >= c.faults /\ (n.c.faults = c.faults => n.ok /\ p.ok)
    BY <1>3 DEF EndStep, Keeps
  <1>5. Aside(c, n.c)
    BY DEF EndStep, Keeps, Aside
  <1>6. Keeps(c, Both(p, n))
    BY <1>2, <1>4, <1>5 DEF EndStep, Keeps
  <1>7. Ordered(Out(c) \o c.pending, << >>, Out(n.c))
    <2>1. c.pending \in Seq(Units) /\ << >> \in Seq(Units)
      BY Levels DEF Chains
    <2>2. Out(c) \o c.pending \in Seq(Units)
      BY <1>3, <2>1, Closed
    <2>3. Ordered(Out(p.c), << >>, Out(n.c))
      BY <1>3 DEF EndStep, Keeps
    <2>4. << >> \o << >> = << >>
      BY ConcatEmptySeq
    <2>5. Ordered(Out(c) \o c.pending, << >>, Out(p.c))
      BY DEF EndStep
    <2>6. Ordered(Out(c) \o c.pending, << >> \o << >>, Out(n.c))
      BY <1>3, <2>1, <2>2, <2>3, <2>5, OrderedThen
    <2> QED
      BY <2>4, <2>6
  <1> QED
    BY <1>2, <1>6, <1>7 DEF EndStep

LEMMA EndStepIgnored ==
    ASSUME NEW c, NEW p, EndStep(c, p)
    PROVE  LET o == [p EXCEPT !.ok = TRUE]
           IN  EndStep(c, o) /\ o.c = p.c /\ o.ok
  <1> DEFINE o == [p EXCEPT !.ok = TRUE]
  <1>1. p \in Outcomes
    BY DEF EndStep, Keeps
  <1>2. o \in Outcomes /\ o.c = p.c /\ o.ok
    BY <1>1 DEF Outcomes
  <1> HIDE DEF o
  <1>3. EndStep(c, o)
    BY <1>2 DEF EndStep, Keeps
  <1> QED
    BY <1>2, <1>3 DEF o

LEMMA EndStepStays ==
    ASSUME NEW c \in Chains, Sound(c), ~c.encoding, c.pending = << >>
    PROVE  EndStep(c, [c |-> c, ok |-> TRUE])
  <1> DEFINE o == [c |-> c, ok |-> TRUE]
  <1>1. AESStep(c, o, << >>)
    BY AESStays
  <1>2. o.c = c /\ o.ok /\ Out(c) \o << >> = Out(c)
    BY OutIs
  <1> HIDE DEF o
  <1>3. EndStep(c, o)
    BY <1>1, <1>2 DEF AESStep, Puts, Keeps, EndStep
  <1> QED
    BY <1>3 DEF o

LEMMA CodedIs ==
    ASSUME NEW content \in Seq(Simple)
    PROVE  Coded(content) \in Seq(Deflated)
  <1>1. ZippedAll(content) \in Seq(Deflated) /\ <<ZipEnd>> \in Seq(Deflated)
    BY ZippedAllIs, ZipEndIs
  <1>2. ZippedAll(content) \o <<ZipEnd>> \in Seq(Deflated)
    BY <1>1, Closed
  <1> QED
    BY <1>2, Levels DEF Coded

(* An encryption stream below an encoder that ended is flushed.            *)
LEMMA CipherFlushIsEnd ==
    ASSUME SetupTyped, NEW c \in Chains, Sound(c), ~c.encoding, c.pending = << >>,
           NEW o \in CipherFlush(c)
    PROVE  /\ EndStep(c, o)
           /\ \A pre \in Seq(Units), content \in Seq(Simple) :
                 /\ o.ok /\ ~c.padded /\ Carries(c, pre, Coded(content)) => Done(o.c, pre, content)
                 /\ Done(c, pre, content) => o.ok /\ Done(o.c, pre, content)
  <1>1. /\ Puts(c, o, << >>) /\ SameFlate(c, o.c) /\ Tells(c, o)
        /\ o.ok => Finished(o.c)
        /\ Finished(c) => o.ok
    BY CipherFlushEnds
  <1>2. \A pre \in Seq(Units), P \in Seq(Deflated) :
                 /\ o.ok /\ ~c.padded /\ Carries(c, pre, P) => Ends(o.c, pre, P)
                 /\ Finished(c) /\ Ends(c, pre, P) => Ends(o.c, pre, P)
    BY CipherFlushEnds
  <1>3. ~o.c.encoding /\ o.c.pending = << >> /\ Out(c) \o << >> = Out(c)
    BY <1>1, OutIs DEF SameFlate
  <1>4. EndStep(c, o)
    BY <1>1, <1>3 DEF Puts, Tells, Keeps, EndStep
  <1>5. \A content \in Seq(Simple) : Coded(content) \in Seq(Deflated)
    BY CodedIs
  <1> QED
    BY <1>1, <1>2, <1>3, <1>4, <1>5 DEF Done

LEMMA FlateFlushEnds ==
    ASSUME SetupTyped, NEW c \in Chains, Sound(c), c.encoding => setup.compress,
           ~c.encoding => c.pending = << >>, NEW o \in FlateFlush(c)
    PROVE  /\ EndStep(c, o)
           /\ \A pre \in Seq(Units), content \in Seq(Simple) :
                 /\ Well(c, o) /\ ~c.padded /\ setup.compress /\ FlateHolds(c, pre, content)
                       => Done(o.c, pre, content)
                 /\ Done(c, pre, content) => o.ok /\ Done(o.c, pre, content)
  <1>1. PICK p \in FinalizeEncoding(c) : \E n \in CipherFlush(p.c) : o = [n EXCEPT !.ok = @ /\ p.ok]
    BY DEF FlateFlush, Regardless
  <1>2. PICK n \in CipherFlush(p.c) : o = Both(p, n)
    BY <1>1 DEF Both
  <1>3. /\ EndStep(c, p) /\ p.c.padded = c.padded
        /\ ~c.encoding => p.ok /\ p.c = c
        /\ Well(c, p) /\ setup.compress =>
              \A pre \in Seq(Units), content \in Seq(Simple) :
                  FlateHolds(c, pre, content) => Carries(p.c, pre, Coded(content))
    BY FinalizeEncodingPuts
  <1>4. p.c \in Chains /\ Sound(p.c) /\ ~p.c.encoding /\ p.c.pending = << >> /\ p \in Outcomes
    BY <1>3 DEF EndStep, Keeps, Outcomes
  <1>5. /\ EndStep(p.c, n)
        /\ \A pre \in Seq(Units), content \in Seq(Simple) :
              /\ n.ok /\ ~p.c.padded /\ Carries(p.c, pre, Coded(content)) => Done(n.c, pre, content)
              /\ Done(p.c, pre, content) => n.ok /\ Done(n.c, pre, content)
    BY <1>4, CipherFlushIsEnd
  <1>6. n \in Outcomes /\ n.c \in Chains
    BY <1>5 DEF EndStep, Keeps, Outcomes
  <1>7. o.c = n.c /\ (o.ok <=> n.ok /\ p.ok)
    BY <1>2, <1>4, <1>6, BothIs
  <1>8. EndStep(c, o)
    BY <1>2, <1>3, <1>5, EndStepThen
  <1>9. Well(c, o) => Well(c, p) /\ n.ok
    <2>1. c.faults \in Nat /\ p.c.faults \in Nat /\ n.c.faults \in Nat
      BY <1>4, <1>6, OutIs
    <2>2. p.c.faults >= c.faults /\ n.c.faults >= p.c.faults /\ (n.c.faults = p.c.faults => n.ok)
      BY <1>3, <1>5 DEF EndStep, Keeps
    <2>3. o.c.faults = c.faults => p.c.faults = c.faults /\ n.c.faults = p.c.faults
      BY <1>7, <2>1, <2>2
    <2> QED
      BY <1>7, <2>2, <2>3 DEF Well
  <1>10. ASSUME NEW pre \in Seq(Units), NEW content \in Seq(Simple),
                Well(c, o), ~c.padded, setup.compress, FlateHolds(c, pre, content)
         PROVE  Done(o.c, pre, content)
    BY <1>3, <1>5, <1>7, <1>9, <1>10
  <1>11. ASSUME NEW pre \in Seq(Units), NEW content \in Seq(Simple), Done(c, pre, content)
         PROVE  o.ok /\ Done(o.c, pre, content)
    <2>1. p.ok /\ p.c = c
      BY <1>3, <1>11 DEF Done
    <2> QED
      BY <1>5, <1>7, <1>11, <2>1
  <1> QED
    BY <1>8, <1>10, <1>11


DetachedFlush(d) == Ignored(FlateFlush(d))
DeletedFlush(d)  == Ignored(CipherFlush(d))
Encodes(c)  == IF setup.compress THEN Regardless(FlateFlush(c), DetachedFlush) ELSE Fine(c)
Encrypts(d) == Regardless(CipherFlush(d), DeletedFlush)

LEMMA FinalizeIs ==
    ASSUME NEW c, NEW o \in FinalizeStreamWrite(c)
    PROVE  IF setup.cipher = "none"
           THEN o \in Encodes(c)
           ELSE \E p \in Encodes(c) : \E n \in Encrypts(p.c) : o = Both(p, n)
  BY DEF FinalizeStreamWrite, Encodes, Encrypts, DetachedFlush, DeletedFlush, Regardless, Both

LEMMA EncodesEnds ==
    ASSUME SetupTyped, NEW c \in Chains, Sound(c), c.encoding => setup.compress,
           ~c.encoding => c.pending = << >>, NEW o \in Encodes(c)
    PROVE  /\ EndStep(c, o)
           /\ ~setup.compress => o.c = c /\ o.ok
           /\ setup.compress =>
                 \A pre \in Seq(Units), content \in Seq(Simple) :
                     Well(c, o) /\ ~c.padded /\ FlateHolds(c, pre, content) => Done(o.c, pre, content)
  <1>1. CASE ~setup.compress
    <2>1. o = [c |-> c, ok |-> TRUE]
      BY <1>1 DEF Encodes, Fine
    <2> QED
      BY <1>1, <2>1, EndStepStays
  <1>2. CASE setup.compress
    <2>1. PICK p \in FlateFlush(c) : \E n \in DetachedFlush(p.c) : o = Both(p, n)
      BY <1>2 DEF Encodes, Regardless, Both
    <2>2. PICK n \in DetachedFlush(p.c) : o = Both(p, n)
      BY <2>1
    <2>3. PICK h \in FlateFlush(p.c) : n = [h EXCEPT !.ok = TRUE]
      BY DEF DetachedFlush, Ignored
    <2>4. /\ EndStep(c, p)
          /\ \A pre \in Seq(Units), content \in Seq(Simple) :
                 Well(c, p) /\ ~c.padded /\ setup.compress /\ FlateHolds(c, pre, content)
                       => Done(p.c, pre, content)
      BY FlateFlushEnds
    <2>5. p.c \in Chains /\ Sound(p.c) /\ ~p.c.encoding /\ p.c.pending = << >> /\ p \in Outcomes
      BY <2>4 DEF EndStep, Keeps, Outcomes
    <2>6. /\ EndStep(p.c, h)
          /\ \A pre \in Seq(Units), content \in Seq(Simple) :
                 Done(p.c, pre, content) => Done(h.c, pre, content)
      BY <2>5, FlateFlushEnds
    <2>7. EndStep(p.c, n) /\ n.c = h.c /\ n.ok
      BY <2>3, <2>6, EndStepIgnored
    <2>8. EndStep(c, o) /\ n \in Outcomes
      BY <2>2, <2>4, <2>7, EndStepThen DEF EndStep, Keeps
    <2>9. o.c = h.c /\ (o.ok <=> p.ok)
      BY <2>2, <2>5, <2>7, <2>8, BothIs
    <2>10. Well(c, o) => Well(c, p)
      <3>1. c.faults \in Nat /\ p.c.faults \in Nat /\ h.c.faults \in Nat
        BY <2>5, <2>6, OutIs DEF EndStep, Keeps, Outcomes
      <3>2. p.c.faults >= c.faults /\ h.c.faults >= p.c.faults
        BY <2>4, <2>6 DEF EndStep, Keeps
      <3>3. h.c.faults = c.faults => p.c.faults = c.faults
        BY <3>1, <3>2
      <3> QED
        BY <2>9, <3>3 DEF Well
    <2> QED
      BY <1>2, <2>4, <2>6, <2>8, <2>9, <2>10
  <1> QED
    BY <1>1, <1>2

LEMMA EncryptsEnds ==
    ASSUME SetupTyped, NEW c \in Chains, Sound(c), ~c.encoding, c.pending = << >>,
           NEW o \in Encrypts(c)
    PROVE  /\ EndStep(c, o)
           /\ \A pre \in Seq(Units), content \in Seq(Simple) :
                 /\ Well(c, o) /\ ~c.padded /\ Carries(c, pre, Coded(content)) => Done(o.c, pre, content)
                 /\ Done(c, pre, content) => Done(o.c, pre, content)
  <1>1. PICK p \in CipherFlush(c) : \E n \in DeletedFlush(p.c) : o = Both(p, n)
    BY DEF Encrypts, Regardless, Both
  <1>2. PICK n \in DeletedFlush(p.c) : o = Both(p, n)
    BY <1>1
  <1>3. PICK h \in CipherFlush(p.c) : n = [h EXCEPT !.ok = TRUE]
    BY DEF DeletedFlush, Ignored
  <1>4. /\ EndStep(c, p)
        /\ \A pre \in Seq(Units), content \in Seq(Simple) :
              /\ p.ok /\ ~c.padded /\ Carries(c, pre, Coded(content)) => Done(p.c, pre, content)
              /\ Done(c, pre, content) => Done(p.c, pre, content)
    BY CipherFlushIsEnd
  <1>5. p.c \in Chains /\ Sound(p.c) /\ ~p.c.encoding /\ p.c.pending = << >> /\ p \in Outcomes
    BY <1>4 DEF EndStep, Keeps, Outcomes
  <1>6. /\ EndStep(p.c, h)
        /\ \A pre \in Seq(Units), content \in Seq(Simple) :
               Done(p.c, pre, content) => Done(h.c, pre, content)
    BY <1>5, CipherFlushIsEnd
  <1>7. EndStep(p.c, n) /\ n.c = h.c /\ n.ok
    BY <1>3, <1>6, EndStepIgnored
  <1>8. EndStep(c, o) /\ n \in Outcomes
    BY <1>2, <1>4, <1>7, EndStepThen DEF EndStep, Keeps
  <1>9. o.c = h.c /\ (o.ok <=> p.ok)
    BY <1>2, <1>5, <1>7, <1>8, BothIs
  <1>10. Well(c, o) => p.ok
    <2>1. c.faults \in Nat /\ p.c.faults \in Nat /\ h.c.faults \in Nat
      BY <1>5, <1>6, OutIs DEF EndStep, Keeps, Outcomes
    <2>2. /\ p.c.faults >= c.faults /\ h.c.faults >= p.c.faults
          /\ p.c.faults = c.faults => p.ok
      BY <1>4, <1>6 DEF EndStep, Keeps
    <2>3. h.c.faults = c.faults => p.c.faults = c.faults
      BY <2>1, <2>2
    <2> QED
      BY <1>9, <2>2, <2>3 DEF Well
  <1> QED
    BY <1>4, <1>6, <1>8, <1>9, <1>10

(* The stream ended: it is told that it did not, or all of its content is  *)
(* out, coded and encrypted.                                               *)
LEMMA FinalizeEnds ==
    ASSUME SetupTyped, NEW c \in Chains, Sound(c), c.encoding => setup.compress,
           ~c.encoding => c.pending = << >>, NEW o \in FinalizeStreamWrite(c)
    PROVE  /\ EndStep(c, o)
           /\ \A pre \in Seq(Units), content \in Seq(Simple) :
                 Well(c, o) /\ ~c.padded /\ FlateHolds(c, pre, content)
                       => Ends(o.c, pre, Coded(content))
  <1>1. CASE setup.cipher = "none"
    <2>1. o \in Encodes(c)
      BY <1>1, FinalizeIs
    <2>2. /\ EndStep(c, o)
          /\ ~setup.compress => o.c = c /\ o.ok
          /\ setup.compress =>
                \A pre \in Seq(Units), content \in Seq(Simple) :
                    Well(c, o) /\ ~c.padded /\ FlateHolds(c, pre, content) => Done(o.c, pre, content)
      BY <2>1, EncodesEnds
    <2>3. ASSUME ~setup.compress, NEW pre, NEW content, FlateHolds(c, pre, content)
          PROVE  Ends(c, pre, Coded(content))
      BY <1>1, <2>3 DEF FlateHolds, Coded, Carries, Ends
    <2> QED
      BY <2>2, <2>3 DEF Done
  <1>2. CASE setup.cipher # "none"
    <2>1. PICK p \in Encodes(c) : \E n \in Encrypts(p.c) : o = Both(p, n)
      BY <1>2, FinalizeIs
    <2>2. PICK n \in Encrypts(p.c) : o = Both(p, n)
      BY <2>1
    <2>3. /\ EndStep(c, p)
          /\ ~setup.compress => p.c = c /\ p.ok
          /\ setup.compress =>
                \A pre \in Seq(Units), content \in Seq(Simple) :
                    Well(c, p) /\ ~c.padded /\ FlateHolds(c, pre, content) => Done(p.c, pre, content)
      BY EncodesEnds
    <2>4. p.c \in Chains /\ Sound(p.c) /\ ~p.c.encoding /\ p.c.pending = << >> /\ p \in Outcomes
      BY <2>3 DEF EndStep, Keeps, Outcomes
    <2>5. /\ EndStep(p.c, n)
          /\ \A pre \in Seq(Units), content \in Seq(Simple) :
                /\ Well(p.c, n) /\ ~p.c.padded /\ Carries(p.c, pre, Coded(content)) => Done(n.c, pre, content)
                /\ Done(p.c, pre, content) => Done(n.c, pre, content)
      BY <2>4, EncryptsEnds
    <2>6. n \in Outcomes /\ n.c \in Chains
      BY <2>5 DEF EndStep, Keeps, Outcomes
    <2>7. EndStep(c, o) /\ o.c = n.c /\ (o.ok <=> n.ok /\ p.ok)
      BY <2>2, <2>3, <2>4, <2>5, <2>6, EndStepThen, BothIs
    <2>8. Well(c, o) => Well(c, p) /\ Well(p.c, n)
      <3>1. c.faults \in Nat /\ p.c.faults \in Nat /\ n.c.faults \in Nat
        BY <2>4, <2>6, OutIs
      <3>2. p.c.faults >= c.faults /\ n.c.faults >= p.c.faults
        BY <2>3, <2>5 DEF EndStep, Keeps
      <3>3. n.c.faults = c.faults => p.c.faults = c.faults /\ n.c.faults = p.c.faults
        BY <3>1, <3>2
      <3> QED
        BY <2>7, <3>3 DEF Well
    <2>9. ASSUME NEW pre \in Seq(Units), NEW content \in Seq(Simple),
                 Well(c, o), ~c.padded, FlateHolds(c, pre, content)
          PROVE  Done(n.c, pre, content)
      <3>1. CASE setup.compress
        BY <2>3, <2>5, <2>8, <2>9, <3>1
      <3>2. CASE ~setup.compress
        <4>1. p.c = c /\ Carries(c, pre, Coded(content))
          BY <2>3, <2>9, <3>2 DEF FlateHolds, Coded
        <4> QED
          BY <2>5, <2>8, <2>9, <4>1
      <3> QED
        BY <3>1, <3>2
    <2> QED
      BY <2>7, <2>9 DEF Done
  <1> QED
    BY <1>1, <1>2


-----------------------------------------------------------------------------
(***************************************************************************)
(* What a reader of the file makes of it.                                  *)
(***************************************************************************)
(* E is the plain units P, encrypted to their end. *)
ReadsAs(E, P) ==
    CASE setup.cipher = "none" -> E = P
      [] setup.cipher = "rc4"  -> Len(E) = Len(P) /\ \A k \in 1 .. Len(P) : E[k] = Keyed(k, P[k])
      [] setup.cipher = "aes"  ->
            \E B \in Seq(Seq(Deflated)), b \in Seq(Deflated) :
                /\ E = <<IV>> \o Blocks(B \o <<b>>)
                /\ AllFull(B) /\ Len(b) < BlockSize
                /\ FlattenSeq(B \o <<b>>) = P

LEMMA EndsReadAs ==
    ASSUME SetupTyped, NEW c, NEW pre \in Seq(Units), NEW P \in Seq(Deflated), Ends(c, pre, P)
    PROVE  \E E \in Seq(Units) : Out(c) = pre \o E /\ ReadsAs(E, P)
  <1>1. CASE setup.cipher = "none"
    <2>1. P \in Seq(Units) /\ Out(c) = pre \o P /\ ReadsAs(P, P)
      BY <1>1, Levels DEF Ends, ReadsAs
    <2> QED
      BY <2>1
  <1>2. CASE setup.cipher = "rc4"
    <2>1. PICK E \in Seq(Units) : Out(c) = pre \o E /\ RC4Of(c, P, E)
      BY <1>2 DEF Ends, RC4Holds
    <2>2. ReadsAs(E, P)
      BY <1>2, <2>1 DEF RC4Of, ReadsAs
    <2> QED
      BY <2>1, <2>2
  <1>3. CASE setup.cipher = "aes"
    <2>1. PICK B \in Seq(Seq(Deflated)), b \in Seq(Deflated) :
             /\ Out(c) = pre \o (<<IV>> \o Blocks(B \o <<b>>))
             /\ AllFull(B) /\ Len(b) < BlockSize
             /\ FlattenSeq(B \o <<b>>) = P
      BY <1>3 DEF Ends, AESEnds
    <2> DEFINE C == B \o <<b>>
               E == <<IV>> \o Blocks(C)
    <2>2. C \in Seq(Seq(Deflated))
      BY BlocksMore
    <2> HIDE DEF C
    <2>3. Blocks(C) \in Seq(Units)
      <3>1. << >> \in Seq(Deflated)
        OBVIOUS
      <3> QED
        BY <2>2, <3>1, BlocksMore
    <2>4. E \in Seq(Units)
      BY <2>3, IVIs, Closed
    <2>5. ReadsAs(E, P)
      BY <1>3, <2>1 DEF ReadsAs, C
    <2> HIDE DEF E
    <2>6. Out(c) = pre \o E
      BY <2>1 DEF E, C
    <2> QED
      BY <2>4, <2>5, <2>6
  <1> QED
    BY <1>1, <1>2, <1>3 DEF SetupTyped

LEMMA JoinsUnits ==
    ASSUME NEW a \in Seq(Units), NEW b \in Seq(Units)
    PROVE  /\ a \o b \in Seq(Units) /\ Len(a \o b) = Len(a) + Len(b)
           /\ \A i \in 1 .. Len(a) : (a \o b)[i] = a[i]
           /\ \A i \in 1 .. Len(b) : (a \o b)[Len(a) + i] = b[i]
  BY Joins

LEMMA DecryptsToContent ==
    ASSUME SetupTyped, NEW P \in Seq(Deflated), NEW E \in Seq(Units), ReadsAs(E, P)
    PROVE  Decrypted(E) = P
  <1>1. CASE setup.cipher = "none"
    BY <1>1 DEF ReadsAs, Decrypted
  <1>2. CASE setup.cipher = "rc4"
    <2>1. Len(E) = Len(P) /\ \A k \in 1 .. Len(P) : E[k] = Keyed(k, P[k])
      BY <1>2 DEF ReadsAs
    <2>2. DOMAIN E = 1 .. Len(P) /\ Len(P) \in Nat
      BY <2>1
    <2>3. ASSUME NEW k \in DOMAIN E PROVE E[k].kind = "rc4" /\ E[k].n = k /\ E[k].of[1] = P[k]
      <3>1. E[k] = [kind |-> "rc4", n |-> k, of |-> <<P[k]>>]
        BY <2>1, <2>2 DEF Keyed
      <3> QED
        BY <3>1
    <2> DEFINE D == [k \in DOMAIN E |-> E[k].of[1]]
    <2>4. D = [k \in 1 .. Len(P) |-> P[k]]
      BY <2>2, <2>3
    <2>5. P = [k \in 1 .. Len(P) |-> P[k]]
      OBVIOUS
    <2>6. Decrypted(E) = D
      BY <1>2, <2>3 DEF Decrypted
    <2> QED
      BY <2>4, <2>5, <2>6
  <1>3. CASE setup.cipher = "aes"
    <2>1. PICK B \in Seq(Seq(Deflated)), b \in Seq(Deflated) :
                /\ E = <<IV>> \o Blocks(B \o <<b>>)
                /\ AllFull(B) /\ Len(b) < BlockSize
                /\ FlattenSeq(B \o <<b>>) = P
      BY <1>3 DEF ReadsAs
    <2> DEFINE C == B \o <<b>>
               n == Len(B)
               F == Blocks(C)
               i == <<IV>>
    <2>2. /\ C \in Seq(Seq(Deflated)) /\ Len(C) = n + 1 /\ n \in Nat
          /\ (\A k \in 1 .. n : C[k] = B[k]) /\ C[n + 1] = b
      BY BlocksMore
    <2>3. E = i \o F /\ FlattenSeq(C) = P
      BY <2>1
    <2>4. i \in Seq(Units) /\ Len(i) = 1 /\ i[1] = IV
      BY IVIs
    <2>5. F = [k \in 1 .. n + 1 |-> Block(C[k])]
      BY <2>2 DEF Blocks
    <2> HIDE DEF C, F, i, n
    <2>6. F \in Seq(Units) /\ Len(F) = n + 1 /\ \A k \in 1 .. n + 1 : F[k] = Block(C[k])
      <3>1. << >> \in Seq(Deflated)
        OBVIOUS
      <3>2. F \in Seq(Units) /\ Len(F) = n + 1
        BY <2>2, <3>1, BlocksMore DEF F
      <3> QED
        BY <2>5, <3>2
    <2>7. /\ Len(E) = n + 2 /\ E[1] = IV
          /\ \A k \in 1 .. n + 1 : E[k + 1] = Block(C[k])
      <3>1. /\ Len(i \o F) = Len(i) + Len(F)
            /\ \A k \in 1 .. Len(i) : (i \o F)[k] = i[k]
            /\ \A k \in 1 .. Len(F) : (i \o F)[Len(i) + k] = F[k]
        BY <2>4, <2>6, JoinsUnits
      <3>2. /\ Len(E) = 1 + (n + 1) /\ E[1] = IV
            /\ \A k \in 1 .. n + 1 : E[1 + k] = F[k]
        BY <2>3, <2>4, <2>6, <3>1
      <3>3. \A k \in 1 .. n + 1 : k + 1 = 1 + k
        BY <2>2
      <3>4. 1 + (n + 1) = n + 2
        BY <2>2
      <3> QED
        BY <2>6, <3>2, <3>3, <3>4
    <2>8. \A k \in 1 .. n + 1 : C[k] \in Seq(Deflated)
      BY <2>2
    <2>9. \A k \in 1 .. n + 1 : /\ E[k + 1].kind = "block" /\ E[k + 1].n = Len(C[k])
                                /\ E[k + 1].of = C[k]
      <3> SUFFICES ASSUME NEW k \in 1 .. n + 1
                   PROVE  E[k + 1].kind = "block" /\ E[k + 1].n = Len(C[k]) /\ E[k + 1].of = C[k]
        OBVIOUS
      <3> DEFINE x == C[k]
      <3>1. x \in Seq(Deflated) /\ E[k + 1] = Block(x)
        BY <2>7, <2>8
      <3> HIDE DEF x
      <3>2. E[k + 1].kind = "block" /\ E[k + 1].n = Len(x) /\ E[k + 1].of = x
        BY <3>1, BlockIs
      <3> QED
        BY <3>2 DEF x
    <2>10. \A k \in 1 .. n + 1 : Len(C[k]) < BlockSize <=> k = n + 1
      <3> SUFFICES ASSUME NEW k \in 1 .. n + 1 PROVE Len(C[k]) < BlockSize <=> k = n + 1
        OBVIOUS
      <3>1. CASE k = n + 1
        BY <2>1, <2>2, <3>1
      <3>2. CASE k # n + 1
        <4>1. k \in 1 .. n
          BY <2>2, <3>2
        <4>2. Len(C[k]) = BlockSize
          BY <2>1, <2>2, <4>1 DEF AllFull, n
        <4> QED
          BY <3>2, <4>2, SizesAssumption
      <3> QED
        BY <3>1, <3>2
    <2>11. \A k \in 2 .. Len(E) : E[k].kind = "block" /\ (E[k].n < BlockSize <=> k = Len(E))
      <3> SUFFICES ASSUME NEW k \in 2 .. Len(E)
                   PROVE  E[k].kind = "block" /\ (E[k].n < BlockSize <=> k = Len(E))
        OBVIOUS
      <3>1. k - 1 \in 1 .. n + 1 /\ (k - 1) + 1 = k
        BY <2>2, <2>7
      <3>2. k - 1 = n + 1 <=> k = Len(E)
        BY <2>2, <2>7
      <3>3. E[k].kind = "block" /\ E[k].n = Len(C[k - 1])
        BY <2>9, <3>1
      <3>4. Len(C[k - 1]) < BlockSize <=> k - 1 = n + 1
        BY <2>10, <3>1
      <3> QED
        BY <3>2, <3>3, <3>4
    <2> DEFINE D == [k \in 1 .. Len(E) - 1 |-> E[k + 1].of]
    <2>12. Len(E) > 1 /\ Len(E) - 1 = n + 1
      BY <2>2, <2>7
    <2>13. D = C
      <3>1. D = [k \in 1 .. n + 1 |-> C[k]]
        BY <2>9, <2>12
      <3>2. C = [k \in 1 .. n + 1 |-> C[k]]
        BY <2>2
      <3> QED
        BY <3>1, <3>2
    <2>14. Decrypted(E) = FlattenSeq(D)
      BY <1>3, <2>7, <2>11, <2>12 DEF Decrypted
    <2> QED
      BY <2>3, <2>13, <2>14
  <1> QED
    BY <1>1, <1>2, <1>3 DEF SetupTyped

LEMMA InflatesToContent ==
    ASSUME NEW content \in Seq(Simple)
    PROVE  Inflated(Coded(content)) = content
  <1>1. CASE ~setup.compress
    BY <1>1 DEF Inflated, Coded
  <1>2. CASE setup.compress
    <2> DEFINE z == ZippedAll(content)
               e == <<ZipEnd>>
               P == z \o e
               n == Len(content)
    <2>1. /\ z \in Seq(Deflated) /\ Len(z) = n /\ n \in Nat
          /\ \A k \in 1 .. n : z[k] = Zipped(content[k])
      BY ZippedAllIs
    <2>2. e \in Seq(Deflated) /\ Len(e) = 1 /\ e[1] = ZipEnd
      BY ZipEndIs
    <2>3. Coded(content) = P
      BY <1>2 DEF Coded
    <2> HIDE DEF z, e
    <2>4. /\ P \in Seq(Deflated) /\ Len(P) = n + 1 /\ P[n + 1] = ZipEnd
          /\ \A k \in 1 .. n : P[k] = Zipped(content[k])
      <3>1. z \in Seq(Deflated) /\ e \in Seq(Deflated)
        BY <2>1, <2>2
      <3>2. /\ z \o e \in Seq(Deflated) /\ Len(z \o e) = Len(z) + Len(e)
            /\ \A k \in 1 .. Len(z) : (z \o e)[k] = z[k]
            /\ \A k \in 1 .. Len(e) : (z \o e)[Len(z) + k] = e[k]
        BY <3>1, Joins
      <3> QED
        BY <2>1, <2>2, <3>2
    <2> HIDE DEF P, n
    <2>5. P # << >> /\ Last(P) = ZipEnd
      BY <2>1, <2>4 DEF Last
    <2>6. ASSUME NEW k \in 1 .. Len(P) - 1
          PROVE  P[k].kind = "z" /\ P[k].of[1] = content[k]
      <3>1. k \in 1 .. n
        BY <2>1, <2>4
      <3>2. P[k] = [kind |-> "z", n |-> 0, of |-> <<content[k]>>]
        BY <2>4, <3>1 DEF Zipped
      <3> QED
        BY <3>2
    <2> DEFINE D == [k \in 1 .. Len(P) - 1 |-> P[k].of[1]]
    <2>7. D = [k \in 1 .. n |-> content[k]]
      <3>1. Len(P) - 1 = n
        BY <2>1, <2>4
      <3> QED
        BY <2>6, <3>1
    <2>8. content = [k \in 1 .. n |-> content[k]]
      BY DEF n
    <2>9. Inflated(P) = D
      BY <1>2, <2>5, <2>6 DEF Inflated
    <2> QED
      BY <2>3, <2>7, <2>8, <2>9
  <1> QED
    BY <1>1, <1>2

LEMMA Middle ==
    ASSUME NEW pre \in Seq(Units), NEW E \in Seq(Units), NEW post \in Seq(Units)
    PROVE  LET s == (pre \o E) \o post
           IN  /\ Len(pre) + Len(E) <= Len(s)
               /\ SubSeq(s, Len(pre) + 1, Len(pre) + Len(E)) = E
  <1> DEFINE a == pre \o E
             s == a \o post
             t == SubSeq(s, Len(pre) + 1, Len(pre) + Len(E))
  <1>1. Len(pre) \in Nat /\ Len(E) \in Nat /\ Len(post) \in Nat
    OBVIOUS
  <1>2. /\ a \in Seq(Units) /\ Len(a) = Len(pre) + Len(E)
        /\ \A k \in 1 .. Len(E) : a[Len(pre) + k] = E[k]
    BY Joins
  <1> HIDE DEF a
  <1>3. /\ s \in Seq(Units) /\ Len(s) = Len(a) + Len(post)
        /\ \A k \in 1 .. Len(a) : s[k] = a[k]
    BY <1>2, JoinsUnits
  <1> HIDE DEF s
  <1>4. Len(pre) + Len(E) <= Len(s)
    BY <1>1, <1>2, <1>3
  <1>5. t \in Seq(Units) /\ Len(t) = Len(E) /\ \A k \in 1 .. Len(E) : t[k] = s[Len(pre) + k]
    BY <1>1, <1>3, <1>4
  <1> HIDE DEF t
  <1>6. \A k \in 1 .. Len(E) : t[k] = E[k]
    <2> SUFFICES ASSUME NEW k \in 1 .. Len(E) PROVE t[k] = E[k]
      OBVIOUS
    <2>1. Len(pre) + k \in 1 .. Len(a)
      BY <1>1, <1>2
    <2> QED
      BY <1>2, <1>3, <1>5, <2>1
  <1>7. t = E
    BY <1>5, <1>6, SeqEqual
  <1> QED
    BY <1>4, <1>7 DEF t, s, a


-----------------------------------------------------------------------------
(***************************************************************************)
(* The inductive invariant: what a stream has of its content before it     *)
(* starts, while it is written, and once it has ended.                     *)
(***************************************************************************)
ContentOf(n) == [i \in 1 .. n |-> Raw(i)]

(* No failure so far, or all of them told. *)
GoodSoFar ==
    \/ chain.faults = 0
    \/ /\ ~short /\ setup.cipher # "rc4" /\ ~setup.direct
       /\ phase \in {"after", "closed"} => stream.ok
       /\ phase = "closed" => closing.flushed /\ closing.closed

InRange ==
    /\ setup \in [compress : Compressions, cipher : Ciphers, direct : Directs]
    /\ phase \in {"before", "stream", "after", "closed"}
    /\ chain \in Chains /\ Sound(chain)
    /\ given \in 0 .. MaxUnits
    /\ short \in BOOLEAN
    /\ stream \in [start : Nat, length : Int, ok : BOOLEAN]
    /\ closing \in [flushed : BOOLEAN, closed : BOOLEAN]
    /\ chain.encoding => setup.compress
    /\ ~chain.encoding => chain.pending = << >>

Fresh(c) ==
    /\ ~c.encoding /\ c.key = 0 /\ ~c.iv /\ c.block = << >>
    /\ ~c.padded /\ c.temporary = << >> /\ Nums(FileOf(c)) = {}

NothingYet == phase = "before" => given = 0 /\ Fresh(chain)

Gathers(c, from, content) ==
    \E pre \in Seq(Units) : Len(pre) = from /\ FlateHolds(c, pre, content)

OnItsWay ==
    phase = "stream" =>
        /\ ~chain.padded
        /\ setup.direct => Nums(FileOf(chain)) = {}
        /\ Ascends(Out(chain) \o chain.pending)
        /\ Nums(Out(chain) \o chain.pending) \subseteq 1 .. given
        /\ GoodSoFar => Gathers(chain, IF setup.direct THEN 0 ELSE stream.start, ContentOf(given))

HasIt(s, from, length, content) ==
    \E pre \in Seq(Units), E \in Seq(Units), post \in Seq(Units) :
        /\ s = (pre \o E) \o post /\ Len(pre) = from /\ Len(E) = length
        /\ ReadsAs(E, Coded(content))

InTheFile ==
    phase \in {"after", "closed"} =>
        /\ Ascends(FileOf(chain))
        /\ GoodSoFar => HasIt(FileOf(chain), stream.start, stream.length, ContentOf(given))

StreamsInv == InRange /\ NothingYet /\ OnItsWay /\ InTheFile

-----------------------------------------------------------------------------
LEMMA RawIs ==
    ASSUME NEW n \in Nat
    PROVE  Raw(n) \in Simple /\ Numbered(Raw(n)) /\ NumberOf(Raw(n)) = n
  <1> DEFINE u == Raw(n)
  <1>1. "raw" \in Kinds
    BY DEF Kinds
  <1>2. u.kind = "raw" /\ u.n = n /\ u = [kind |-> "raw", n |-> n, of |-> << >>]
    BY DEF Raw
  <1> HIDE DEF u
  <1>3. u \in Simple
    BY <1>1, <1>2 DEF Simple
  <1>4. Numbered(u) /\ NumberOf(u) = n
    BY <1>2 DEF Numbered, NumberOf
  <1> QED
    BY <1>3, <1>4 DEF u

LEMMA MoreContentIs ==
    ASSUME NEW k \in Nat, NEW n \in Nat
    PROVE  LET data == [i \in 1 .. n |-> Raw(k + i)]
           IN  /\ data \in Seq(Simple) /\ Len(data) = n
               /\ \A i \in 1 .. n : data[i] = Raw(k + i)
               /\ Ascends(data) /\ Nums(data) \subseteq k + 1 .. k + n
  <1> DEFINE data == [i \in 1 .. n |-> Raw(k + i)]
  <1>1. \A i \in 1 .. n : k + i \in Nat /\ k + i \in k + 1 .. k + n
    OBVIOUS
  <1>2. \A i \in 1 .. n : Raw(k + i) \in Simple /\ Numbered(Raw(k + i)) /\ NumberOf(Raw(k + i)) = k + i
    BY <1>1, RawIs
  <1>3. DOMAIN data = 1 .. n /\ \A i \in 1 .. n : data[i] = Raw(k + i)
    OBVIOUS
  <1>4. data \in Seq(Simple) /\ Len(data) = n
    BY <1>2
  <1> HIDE DEF data
  <1>5. Ascends(data)
    <2> SUFFICES ASSUME NEW i \in 1 .. n, NEW j \in 1 .. n, i < j
                 PROVE  NumberOf(data[i]) < NumberOf(data[j])
      BY <1>3 DEF Ascends
    <2>1. NumberOf(data[i]) = k + i /\ NumberOf(data[j]) = k + j
      BY <1>2, <1>3
    <2>2. k + i < k + j
      OBVIOUS
    <2> QED
      BY <2>1, <2>2
  <1>6. Nums(data) \subseteq k + 1 .. k + n
    BY <1>1, <1>2, <1>3 DEF Nums
  <1> QED
    BY <1>3, <1>4, <1>5, <1>6 DEF data

LEMMA ContentIs ==
    ASSUME NEW k \in Nat
    PROVE  /\ ContentOf(k) \in Seq(Simple) /\ Len(ContentOf(k)) = k
           /\ \A i \in 1 .. k : ContentOf(k)[i] = Raw(i)
  <1>1. \A i \in 1 .. k : Raw(i) \in Simple
    BY RawIs
  <1> QED
    BY <1>1 DEF ContentOf

LEMMA NoContent == ContentOf(0) = << >>
  <1>1. ContentOf(0) \in Seq(Simple) /\ Len(ContentOf(0)) = 0
    BY ContentIs
  <1> QED
    BY <1>1, EmptySeq

LEMMA ContentMore ==
    ASSUME NEW k \in Nat, NEW n \in Nat
    PROVE  ContentOf(k) \o [i \in 1 .. n |-> Raw(k + i)] = ContentOf(k + n)
  <1> DEFINE a == ContentOf(k)
             b == [i \in 1 .. n |-> Raw(k + i)]
             c == ContentOf(k + n)
  <1>1. a \in Seq(Simple) /\ Len(a) = k /\ \A i \in 1 .. k : a[i] = Raw(i)
    BY ContentIs
  <1>2. b \in Seq(Simple) /\ Len(b) = n /\ \A i \in 1 .. n : b[i] = Raw(k + i)
    BY MoreContentIs
  <1>3. c \in Seq(Simple) /\ Len(c) = k + n /\ \A i \in 1 .. k + n : c[i] = Raw(i)
    BY ContentIs
  <1> HIDE DEF a, b, c
  <1>4. /\ a \o b \in Seq(Simple) /\ Len(a \o b) = Len(a) + Len(b)
        /\ \A i \in 1 .. Len(a) + Len(b) : (a \o b)[i] = IF i <= Len(a) THEN a[i] ELSE b[i - Len(a)]
    <2>1. a \in Seq(Simple) /\ b \in Seq(Simple)
      BY <1>1, <1>2
    <2> QED
      BY <2>1, ConcatProperties
  <1>5. ASSUME NEW i \in 1 .. k + n PROVE (a \o b)[i] = c[i]
    <2>1. CASE i <= k
      BY <1>1, <1>2, <1>3, <1>4, <2>1
    <2>2. CASE ~(i <= k)
      <3>1. i - k \in 1 .. n /\ k + (i - k) = i
        BY <2>2
      <3>2. (a \o b)[i] = b[i - k]
        BY <1>1, <1>2, <1>4, <2>2
      <3>3. b[i - k] = Raw(k + (i - k))
        BY <1>2, <3>1
      <3> QED
        BY <1>3, <3>1, <3>2, <3>3
    <2> QED
      BY <2>1, <2>2
  <1>6. a \o b = c
    BY <1>1, <1>2, <1>3, <1>4, <1>5, SeqEqual
  <1> QED
    BY <1>6 DEF a, b, c

LEMMA PlainIs ==
    <<Plain>> \in Seq(Units) /\ Nums(<<Plain>>) = {}
  <1>1. "plain" \in Kinds /\ << >> \in Seq(Deflated)
    BY DEF Kinds
  <1>2. Plain \in Units
    BY <1>1 DEF Plain, Units
  <1>3. Plain.kind = "plain"
    BY DEF Plain
  <1>4. ~Numbered(Plain)
    BY <1>3 DEF Numbered
  <1>5. Nums(<<Plain>>) = {}
    BY <1>4, NumsOne
  <1>6. <<Plain>> \in Seq(Units)
    BY <1>2
  <1> QED
    BY <1>5, <1>6

LEMMA NoNumsAscend ==
    ASSUME NEW s, Nums(s) = {}
    PROVE  Ascends(s)
  BY DEF Nums, Ascends

(* Units without a number do not disturb the file. *)
LEMMA FileStaysOrdered ==
    ASSUME NEW c \in Chains, NEW d \in Seq(Units), Nums(d) = {},
           NEW t, IsPart(t, FileOf(c) \o d)
    PROVE  /\ t \in Seq(Units) /\ Nums(t) \subseteq Nums(FileOf(c))
           /\ Ascends(FileOf(c)) => Ascends(t)
  <1>1. FileOf(c) \in Seq(Units)
    BY OutIs
  <1>2. t \in Seq(Units) /\ Ordered(FileOf(c), d, t)
    BY <1>1, PartOrdered
  <1>3. Ascends(d) /\ Before(Nums(FileOf(c)), Nums(d))
    BY NoNumsAscend DEF Before
  <1>4. Ascends(FileOf(c)) => Ascends(FileOf(c) \o d)
    BY <1>1, <1>3, AscendsJoin
  <1> QED
    BY <1>2, <1>4 DEF Ordered

LEMMA SetupIsTyped ==
    ASSUME InRange
    PROVE  SetupTyped
  BY ConfigurationsAssumption DEF InRange, SetupTyped

(* Nothing encrypted yet: what is there is all that comes before.          *)
LEMMA CarriesNothing ==
    ASSUME SetupTyped, NEW c \in Chains, c.key = 0, ~c.iv, c.block = << >>
    PROVE  Carries(c, Out(c), << >>)
  <1>1. Out(c) = Out(c) \o << >> /\ << >> \in Seq(Units)
    BY OutIs
  <1>2. RC4Of(c, << >>, << >>)
    BY DEF RC4Of
  <1>3. AESOf(c, << >>, << >>)
    BY DEF AESOf
  <1> QED
    BY <1>1, <1>2, <1>3 DEF SetupTyped, Carries, RC4Holds, AESHolds


LEMMA StreamInitHolds == StreamInit => StreamsInv
  <1> SUFFICES ASSUME StreamInit PROVE StreamsInv
    OBVIOUS
  <1>1. << >> \in Seq(Units) /\ << >> \in Seq(Deflated) /\ << >> \in Seq(Simple) /\ Len(<< >>) = 0
        /\ << >> \o << >> = << >>
    BY ConcatEmptySeq
  <1>2. Idle \in Chains
    BY <1>1 DEF Idle, Chains
  <1>3. Sound(Idle)
    BY <1>1, SizesAssumption DEF Idle, Sound
  <1>4. Nums(FileOf(Idle)) = {}
    BY <1>1, NumsOne DEF Idle, FileOf
  <1>5. Fresh(Idle)
    BY <1>4 DEF Fresh, Idle
  <1>6. 0 \in 0 .. MaxUnits
    BY SizesAssumption
  <1>7. Idle.pending = << >> /\ ~Idle.encoding
    BY DEF Idle
  <1>8. InRange
    <2>1. /\ chain = Idle /\ given = 0 /\ short = FALSE /\ phase = "before"
          /\ setup \in [compress : Compressions, cipher : Ciphers, direct : Directs]
          /\ stream = [start |-> 0, length |-> 0, ok |-> FALSE]
          /\ closing = [flushed |-> FALSE, closed |-> FALSE]
      BY DEF StreamInit
    <2>2. stream \in [start : Nat, length : Int, ok : BOOLEAN]
      BY <2>1
    <2>3. closing \in [flushed : BOOLEAN, closed : BOOLEAN]
      BY <2>1
    <2> HIDE DEF Idle
    <2> QED
      BY <1>2, <1>3, <1>6, <1>7, <2>1, <2>2, <2>3 DEF InRange
  <1> QED
    BY <1>5, <1>8 DEF StreamInit, StreamsInv, NothingYet, OnItsWay, InTheFile

LEMMA HasItMore ==
    ASSUME NEW s, NEW d \in Seq(Units), NEW from, NEW length, NEW content,
           HasIt(s, from, length, content)
    PROVE  HasIt(s \o d, from, length, content)
  <1>1. PICK pre \in Seq(Units), E \in Seq(Units), post \in Seq(Units) :
        /\ s = (pre \o E) \o post /\ Len(pre) = from /\ Len(E) = length
        /\ ReadsAs(E, Coded(content))
    BY DEF HasIt
  <1> DEFINE a == pre \o E
             r == post \o d
  <1>2. a \in Seq(Units) /\ r \in Seq(Units)
    BY Closed
  <1>3. s \o d = a \o r
    <2> HIDE DEF a
    <2>1. (a \o post) \o d = a \o (post \o d)
      BY <1>2, RegroupUnits
    <2> QED
      BY <1>1, <2>1 DEF a
  <1> QED
    BY <1>1, <1>2, <1>3 DEF HasIt

LEMMA SameSetup ==
    ASSUME setup' = setup
    PROVE  /\ \A c : Out(c)' = Out(c)
           /\ \A c, from, content : Gathers(c, from, content)' <=> Gathers(c, from, content)
           /\ \A s, from, length, content :
                 HasIt(s, from, length, content)' <=> HasIt(s, from, length, content)
  <1>1. \A c : Out(c)' = Out(c)
    BY DEF Out
  <1>2. \A c, pre, P : Carries(c, pre, P)' <=> Carries(c, pre, P)
    BY DEF Carries, RC4Holds, AESHolds, Out
  <1>3. \A c, pre, content : FlateHolds(c, pre, content)' <=> FlateHolds(c, pre, content)
    BY <1>2 DEF FlateHolds
  <1>4. \A c, from, content : Gathers(c, from, content)' <=> Gathers(c, from, content)
    BY <1>3 DEF Gathers
  <1>5. \A s, from, length, content :
                 HasIt(s, from, length, content)' <=> HasIt(s, from, length, content)
    BY DEF HasIt, ReadsAs, Coded
  <1> QED
    BY <1>1, <1>4, <1>5

LEMMA StreamWriteAround ==
    ASSUME StreamsInv, WriteAround
    PROVE  StreamsInv'
  <1> DEFINE d == <<Plain>>
  <1>1. PICK o \in BufferedWrite(chain, d) : chain' = o.c /\ short' = (short \/ ~o.ok)
    BY DEF WriteAround
  <1>2. d \in Seq(Units) /\ Nums(d) = {}
    BY PlainIs
  <1> HIDE DEF d
  <1>3. phase \in {"before", "after"} /\ UNCHANGED <<setup, phase, given, stream, closing>>
    BY DEF WriteAround
  <1>4. InRange /\ chain \in Chains /\ Sound(chain) /\ short \in BOOLEAN
    BY DEF StreamsInv, InRange
  <1>5. WritesFile(chain, o, d)
    BY <1>1, <1>2, <1>4, BufferedWriteWrites
  <1>6. /\ o \in Outcomes /\ o.c \in Chains /\ o.ok \in BOOLEAN /\ Sound(o.c) /\ SameEncoders(chain, o.c)
        /\ o.c.faults >= chain.faults /\ (o.c.faults = chain.faults => o.ok)
        /\ o.ok => FileOf(o.c) = FileOf(chain) \o d
        /\ IsPart(FileOf(o.c), FileOf(chain) \o d)
    BY <1>5 DEF WritesFile, Tells, Outcomes
  <1>7. /\ Nums(FileOf(o.c)) \subseteq Nums(FileOf(chain))
        /\ Ascends(FileOf(chain)) => Ascends(FileOf(o.c))
    BY <1>2, <1>4, <1>6, FileStaysOrdered
  <1>8. InRange'
    BY <1>1, <1>3, <1>4, <1>6 DEF InRange, SameEncoders, Sound
  <1>9. NothingYet'
    <2> SUFFICES ASSUME phase = "before" PROVE given = 0 /\ Fresh(o.c)
      BY <1>1, <1>3 DEF NothingYet, Fresh, FileOf
    <2>1. given = 0 /\ Fresh(chain)
      BY DEF StreamsInv, NothingYet
    <2> QED
      BY <1>6, <1>7, <2>1 DEF Fresh, SameEncoders
  <1>10. OnItsWay'
    BY <1>3 DEF OnItsWay
  <1>11. InTheFile'
    <2> SUFFICES ASSUME phase \in {"after", "closed"}
                 PROVE  /\ Ascends(FileOf(o.c))
                        /\ GoodSoFar' => HasIt(FileOf(o.c), stream.start, stream.length, ContentOf(given))
      BY <1>1, <1>3, SameSetup DEF InTheFile, FileOf
    <2>1. /\ Ascends(FileOf(chain))
          /\ GoodSoFar => HasIt(FileOf(chain), stream.start, stream.length, ContentOf(given))
      BY DEF StreamsInv, InTheFile
    <2>2. ASSUME GoodSoFar' PROVE GoodSoFar /\ o.ok
      <3>1. chain.faults \in Nat /\ o.c.faults \in Nat
        BY <1>4, <1>6, OutIs
      <3>2. o.c.faults = 0 => chain.faults = 0 /\ o.ok
        BY <1>6, <3>1
      <3> QED
        BY <1>1, <1>3, <1>4, <1>6, <2>2, <3>2 DEF GoodSoFar
    <2> QED
      BY <1>2, <1>6, <1>7, <2>1, <2>2, HasItMore
  <1> QED
    BY <1>8, <1>9, <1>10, <1>11 DEF StreamsInv


LEMMA PositionIs ==
    ASSUME NEW c \in Chains
    PROVE  Position(c) = Len(FileOf(c)) /\ Position(c) \in Nat
  <1> DEFINE a == c.bytes
             b == c.buffer
  <1>1. a \in Seq(Units) /\ b \in Seq(Units)
    BY DEF Chains
  <1> HIDE DEF a, b
  <1>2. Len(a \o b) = Len(a) + Len(b) /\ Len(a) \in Nat /\ Len(b) \in Nat
    BY <1>1, ConcatProperties
  <1>3. Len(a) + Len(b) \in Nat
    BY <1>2
  <1>4. Position(c) = Len(a) + Len(b) /\ FileOf(c) = a \o b
    BY DEF Position, FileOf, a, b
  <1> QED
    BY <1>2, <1>3, <1>4

LEMMA StreamStart ==
    ASSUME StreamsInv, StartPDFStream
    PROVE  StreamsInv'
  <1> DEFINE d == [chain EXCEPT !.encoding = setup.compress]
  <1>1. /\ phase = "before" /\ phase' = "stream" /\ chain' = d
        /\ stream' = [stream EXCEPT !.start = Position(chain)]
        /\ UNCHANGED <<setup, given, short, closing>>
    BY DEF StartPDFStream
  <1>2. InRange /\ chain \in Chains /\ Sound(chain) /\ given = 0 /\ Fresh(chain) /\ SetupTyped
    BY <1>1, SetupIsTyped DEF StreamsInv, InRange, NothingYet
  <1>3. setup.compress \in BOOLEAN /\ setup.direct \in BOOLEAN
    BY <1>2 DEF SetupTyped
  <1>4. chain.pending = << >> /\ stream \in [start : Nat, length : Int, ok : BOOLEAN]
    BY <1>2 DEF InRange, Fresh
  <1>5. /\ d \in Chains /\ d.encoding = setup.compress /\ d.bytes = chain.bytes
        /\ d.buffer = chain.buffer /\ d.temporary = chain.temporary /\ d.held = chain.held
        /\ d.key = chain.key /\ d.iv = chain.iv /\ d.block = chain.block
        /\ d.padded = chain.padded /\ d.pending = chain.pending /\ d.faults = chain.faults
    BY <1>2, <1>3 DEF Chains
  <1> HIDE DEF d
  <1>6. Sound(d) /\ FileOf(d) = FileOf(chain)
    BY <1>2, <1>5 DEF Sound, FileOf
  <1>7. Position(chain) = Len(FileOf(chain)) /\ Position(chain) \in Nat
    BY <1>2, PositionIs
  <1>8. stream' \in [start : Nat, length : Int, ok : BOOLEAN] /\ stream'.start = Position(chain)
    BY <1>1, <1>4, <1>7
  <1>9. InRange'
    BY <1>1, <1>2, <1>4, <1>5, <1>6, <1>8 DEF InRange, Sound
  <1>10. Nums(Out(d)) = {} /\ Out(d) \in Seq(Units) /\ Out(d) \o << >> = Out(d)
    <2>1. Nums(<< >>) = {}
      BY NumsOne
    <2> QED
      BY <1>2, <1>5, <1>6, <2>1, OutIs DEF Out, Fresh
  <1>11. Gathers(d, IF setup.direct THEN 0 ELSE Position(chain), << >>)
    <2>1. Len(Out(d)) = IF setup.direct THEN 0 ELSE Position(chain)
      BY <1>2, <1>5, <1>6, <1>7 DEF Out, Fresh
    <2>2. Carries(d, Out(d), << >>)
      BY <1>2, <1>5, CarriesNothing DEF Fresh
    <2>3. FlateHolds(d, Out(d), << >>)
      <3>1. CASE ~setup.compress
        BY <2>2, <3>1 DEF FlateHolds
      <3>2. CASE setup.compress
        <4>1. << >> \in Seq(Simple) /\ << >> \o << >> = << >> /\ Len(<< >>) = 0
          BY ConcatEmptySeq
        <4>2. ZippedAll(<< >>) = << >>
          <5>1. ZippedAll(<< >>) \in Seq(Deflated) /\ Len(ZippedAll(<< >>)) = 0
            BY <4>1, ZippedAllIs
          <5> QED
            BY <5>1, EmptySeq
        <4> QED
          BY <1>4, <1>5, <2>2, <3>2, <4>1, <4>2 DEF FlateHolds
      <3> QED
        BY <3>1, <3>2
    <2> QED
      BY <1>10, <2>1, <2>3 DEF Gathers
  <1>12. OnItsWay'
    <2>1. ~d.padded /\ Nums(FileOf(d)) = {} /\ d.pending = << >>
      BY <1>2, <1>4, <1>5, <1>6 DEF Fresh
    <2>2. Ascends(Out(d))
      BY <1>10, NoNumsAscend
    <2>3. Out(chain)' = Out(d) /\ FileOf(chain)' = FileOf(d)
      BY <1>1 DEF Out, FileOf
    <2>4. Gathers(d, IF setup.direct THEN 0 ELSE Position(chain), ContentOf(0))
      BY <1>11, NoContent
    <2>5. Gathers(chain, IF setup.direct THEN 0 ELSE stream.start, ContentOf(given))'
      BY <1>1, <1>2, <1>8, <2>4, SameSetup
    <2> QED
      BY <1>1, <1>2, <1>10, <2>1, <2>2, <2>3, <2>5 DEF OnItsWay
  <1>13. NothingYet' /\ InTheFile'
    BY <1>1 DEF NothingYet, InTheFile
  <1> QED
    BY <1>9, <1>12, <1>13 DEF StreamsInv

LEMMA StreamWrite ==
    ASSUME StreamsInv, NEW n \in WriteSizes, Write(n)
    PROVE  StreamsInv'
  <1> DEFINE data == [i \in 1 .. n |-> Raw(given + i)]
             from == IF setup.direct THEN 0 ELSE stream.start
  <1>1. /\ phase = "stream" /\ given + n <= MaxUnits /\ given' = given + n
        /\ UNCHANGED <<setup, phase, stream, closing>>
    BY DEF Write
  <1>2. PICK o \in IF setup.compress THEN FlateWrite(chain, data) ELSE CipherWrite(chain, data) :
           chain' = o.c /\ short' = (short \/ ~o.ok)
    BY DEF Write
  <1>3. InRange /\ chain \in Chains /\ Sound(chain) /\ SetupTyped /\ short \in BOOLEAN
        /\ (chain.encoding => setup.compress) /\ (~chain.encoding => chain.pending = << >>)
    BY SetupIsTyped DEF StreamsInv, InRange
  <1>4. /\ ~chain.padded
        /\ setup.direct => Nums(FileOf(chain)) = {}
        /\ Ascends(Out(chain) \o chain.pending)
        /\ Nums(Out(chain) \o chain.pending) \subseteq 1 .. given
        /\ GoodSoFar => Gathers(chain, from, ContentOf(given))
    BY <1>1 DEF StreamsInv, OnItsWay
  <1>5. given \in Nat /\ n \in Nat /\ MaxUnits \in Nat
    BY <1>3, SizesAssumption DEF InRange
  <1>6. data \in Seq(Simple) /\ Ascends(data) /\ Nums(data) \subseteq given + 1 .. given + n
    BY <1>5, MoreContentIs
  <1>7. ContentOf(given) \o data = ContentOf(given + n) /\ ContentOf(given) \in Seq(Simple)
    BY <1>5, ContentMore, ContentIs
  <1> HIDE DEF data
  <1>8. ContentPuts(chain, o, data)
    BY <1>2, <1>3, <1>6, ContentWritePuts
  <1>9. /\ o \in Outcomes /\ o.c \in Chains /\ o.ok \in BOOLEAN /\ Sound(o.c) /\ Aside(chain, o.c)
        /\ o.c.faults >= chain.faults /\ (o.c.faults = chain.faults => o.ok)
        /\ (~o.c.encoding => o.c.pending = << >>) /\ (o.c.encoding => chain.encoding)
        /\ ~o.c.padded
        /\ Ordered(Out(chain) \o chain.pending, data, Out(o.c) \o o.c.pending)
    BY <1>4, <1>8 DEF ContentPuts, Keeps, Outcomes
  <1>10. InRange'
    <2>1. given' \in 0 .. MaxUnits
      BY <1>1, <1>5
    <2> QED
      BY <1>1, <1>2, <1>3, <1>9, <2>1 DEF InRange, Sound
  <1>11. /\ Ascends(Out(o.c) \o o.c.pending)
         /\ Nums(Out(o.c) \o o.c.pending) \subseteq 1 .. given + n
    <2> DEFINE s == Out(chain) \o chain.pending
    <2>1. s \in Seq(Units) /\ data \in Seq(Units)
      <3>1. Out(chain) \in Seq(Units) /\ chain.pending \in Seq(Units)
        BY <1>3, OutIs, Levels DEF Chains
      <3> QED
        BY <1>6, <3>1, Levels, Closed
    <2> HIDE DEF s
    <2>2. Ascends(s) /\ Nums(s) \subseteq 1 .. given
      BY <1>4 DEF s
    <2>3. Before(Nums(s), Nums(data))
      <3> SUFFICES ASSUME NEW x \in Nums(s), NEW y \in Nums(data) PROVE x < y
        BY DEF Before
      <3>1. x \in 1 .. given /\ y \in given + 1 .. given + n
        BY <1>6, <2>2
      <3> QED
        BY <1>5, <3>1
    <2>4. Ascends(s \o data)
      BY <1>6, <2>1, <2>2, <2>3, AscendsJoin
    <2>5. /\ Ascends(Out(o.c) \o o.c.pending)
          /\ Nums(Out(o.c) \o o.c.pending) \subseteq Nums(s) \cup Nums(data)
      BY <1>9, <2>4 DEF Ordered, s
    <2>6. 1 .. given \subseteq 1 .. given + n /\ given + 1 .. given + n \subseteq 1 .. given + n
      BY <1>5
    <2> QED
      BY <1>6, <2>2, <2>5, <2>6
  <1>12. setup.direct => FileOf(o.c) = FileOf(chain)
    BY <1>9 DEF Aside, FileOf
  <1>13. ASSUME GoodSoFar' PROVE GoodSoFar /\ Well(chain, o)
    <2>1. chain.faults \in Nat /\ o.c.faults \in Nat
      BY <1>3, <1>9, OutIs
    <2>2. o.c.faults = 0 => chain.faults = 0 /\ Well(chain, o)
      BY <1>9, <2>1 DEF Well
    <2>3. o.c.faults = 0 \/ (~short /\ o.ok /\ setup.cipher # "rc4" /\ ~setup.direct)
      BY <1>1, <1>2, <1>3, <1>9, <1>13 DEF GoodSoFar
    <2> QED
      BY <1>1, <2>2, <2>3 DEF GoodSoFar, Well
  <1>14. ASSUME GoodSoFar' PROVE Gathers(o.c, from, ContentOf(given + n))
    <2>1. PICK pre \in Seq(Units) : Len(pre) = from /\ FlateHolds(chain, pre, ContentOf(given))
      BY <1>4, <1>13, <1>14 DEF Gathers
    <2>2. FlateHolds(o.c, pre, ContentOf(given) \o data)
      BY <1>7, <1>8, <1>13, <1>14, <2>1 DEF ContentPuts
    <2> QED
      BY <1>7, <2>1, <2>2 DEF Gathers
  <1>15. OnItsWay'
    <2>1. Out(chain)' = Out(o.c) /\ FileOf(chain)' = FileOf(o.c)
      BY <1>1, <1>2 DEF Out, FileOf
    <2>2. GoodSoFar' => Gathers(chain, from, ContentOf(given))'
      BY <1>1, <1>2, <1>14, SameSetup
    <2> QED
      BY <1>1, <1>2, <1>4, <1>9, <1>11, <1>12, <2>1, <2>2 DEF OnItsWay
  <1>16. NothingYet' /\ InTheFile'
    BY <1>1 DEF NothingYet, InTheFile
  <1> QED
    BY <1>10, <1>15, <1>16 DEF StreamsInv


LEMMA StreamEnd ==
    ASSUME StreamsInv, EndPDFStream
    PROVE  StreamsInv'
  <1> DEFINE content == ContentOf(given)
             from == IF setup.direct THEN 0 ELSE stream.start
             s == Out(chain) \o chain.pending
  <1>1. phase = "stream" /\ phase' = "after" /\ UNCHANGED <<setup, given, short, closing>>
    BY DEF EndPDFStream
  <1>2. PICK o \in FinalizeStreamWrite(chain) :
          \/ /\ ~setup.direct
             /\ chain' = o.c
             /\ stream' = [stream EXCEPT !.length = Position(o.c) - stream.start, !.ok = o.ok]
          \/ /\ setup.direct
             /\ \E w \in BufferedWrite(o.c, o.c.temporary) : chain' = w.c
             /\ stream' = [start |-> Position(o.c), length |-> Len(o.c.temporary), ok |-> o.ok]
    BY DEF EndPDFStream
  <1>3. /\ InRange /\ chain \in Chains /\ Sound(chain) /\ SetupTyped /\ short \in BOOLEAN
        /\ (chain.encoding => setup.compress) /\ (~chain.encoding => chain.pending = << >>)
        /\ stream \in [start : Nat, length : Int, ok : BOOLEAN] /\ given \in Nat
    BY SetupIsTyped, SizesAssumption DEF StreamsInv, InRange
  <1>4. /\ ~chain.padded
        /\ setup.direct => Nums(FileOf(chain)) = {}
        /\ Ascends(s)
        /\ GoodSoFar => Gathers(chain, from, content)
    BY <1>1 DEF StreamsInv, OnItsWay
  <1>5. content \in Seq(Simple) /\ Coded(content) \in Seq(Deflated)
    BY <1>3, ContentIs, CodedIs
  <1> HIDE DEF content
  <1>6. /\ EndStep(chain, o)
        /\ \A pre \in Seq(Units), x \in Seq(Simple) :
              Well(chain, o) /\ ~chain.padded /\ FlateHolds(chain, pre, x)
                    => Ends(o.c, pre, Coded(x))
    BY <1>3, FinalizeEnds
  <1>7. /\ o \in Outcomes /\ o.c \in Chains /\ o.ok \in BOOLEAN /\ Sound(o.c) /\ Aside(chain, o.c)
        /\ o.c.faults >= chain.faults /\ (o.c.faults = chain.faults => o.ok)
        /\ ~o.c.encoding /\ o.c.pending = << >>
        /\ Ordered(s, << >>, Out(o.c))
    BY <1>6 DEF EndStep, Keeps, Outcomes
  <1>8. Ascends(Out(o.c)) /\ Out(o.c) \in Seq(Units)
    <2>1. s \in Seq(Units)
      <3>1. Out(chain) \in Seq(Units) /\ chain.pending \in Seq(Units)
        BY <1>3, OutIs, Levels DEF Chains
      <3> QED
        BY <3>1, Closed
    <2>2. s \o << >> = s
      BY <2>1, ConcatEmptySeq
    <2> QED
      BY <1>4, <1>7, <2>2, OutIs DEF Ordered
  <1>9. ASSUME GoodSoFar, Well(chain, o)
        PROVE  \E pre \in Seq(Units), E \in Seq(Units) :
                  /\ Len(pre) = from /\ Out(o.c) = pre \o E
                  /\ ReadsAs(E, Coded(content))
    <2>1. PICK pre \in Seq(Units) : Len(pre) = from /\ FlateHolds(chain, pre, content)
      BY <1>4, <1>9 DEF Gathers
    <2>2. Ends(o.c, pre, Coded(content))
      BY <1>4, <1>5, <1>6, <1>9, <2>1
    <2>3. \E E \in Seq(Units) : Out(o.c) = pre \o E /\ ReadsAs(E, Coded(content))
      BY <1>3, <1>5, <2>2, EndsReadAs
    <2> QED
      BY <2>1, <2>3
  <1>10. chain.faults \in Nat /\ o.c.faults \in Nat
    BY <1>3, <1>7, OutIs
  <1>11. o.c.faults = 0 => chain.faults = 0 /\ Well(chain, o)
    BY <1>7, <1>10 DEF Well
  <1>12. Position(o.c) = Len(FileOf(o.c)) /\ Position(o.c) \in Nat /\ FileOf(o.c) \in Seq(Units)
         /\ o.c.temporary \in Seq(Units)
    BY <1>7, PositionIs, OutIs
  <1>13. NothingYet' /\ OnItsWay'
    BY <1>1 DEF NothingYet, OnItsWay
  <1>14. CASE /\ ~setup.direct
              /\ chain' = o.c
              /\ stream' = [stream EXCEPT !.length = Position(o.c) - stream.start, !.ok = o.ok]
    <2> DEFINE length == Position(o.c) - stream.start
    <2>1. length \in Int
      BY <1>3, <1>12
    <2> HIDE DEF length
    <2>2. /\ stream' \in [start : Nat, length : Int, ok : BOOLEAN]
          /\ stream'.start = stream.start /\ stream'.length = length /\ stream'.ok = o.ok
      BY <1>3, <1>7, <1>14, <2>1 DEF length
    <2>3. InRange'
      BY <1>1, <1>3, <1>7, <1>14, <2>2 DEF InRange, Sound
    <2>4. Out(o.c) = FileOf(o.c)
      BY <1>14 DEF Out
    <2>5. ASSUME GoodSoFar' PROVE GoodSoFar /\ Well(chain, o)
      <3>1. o.c.faults = 0 \/ (~short /\ o.ok /\ setup.cipher # "rc4" /\ ~setup.direct)
        BY <1>1, <1>14, <2>2, <2>5 DEF GoodSoFar
      <3> QED
        BY <1>1, <1>11, <3>1 DEF GoodSoFar, Well
    <2>6. ASSUME GoodSoFar' PROVE HasIt(FileOf(o.c), stream.start, length, content)
      <3>1. PICK pre \in Seq(Units), E \in Seq(Units) :
               /\ Len(pre) = stream.start /\ FileOf(o.c) = pre \o E
               /\ ReadsAs(E, Coded(content))
        BY <1>9, <1>14, <2>4, <2>5, <2>6
      <3>2. Len(pre \o E) = Len(pre) + Len(E) /\ pre \o E \in Seq(Units) /\ Len(E) \in Nat
        BY JoinsUnits
      <3>3. length = Len(E)
        BY <1>3, <1>12, <3>1, <3>2 DEF length
      <3>4. FileOf(o.c) = (pre \o E) \o << >> /\ << >> \in Seq(Units)
        BY <3>1, <3>2, ConcatEmptySeq
      <3> QED
        BY <3>1, <3>3, <3>4 DEF HasIt
    <2>7. InTheFile'
      <3>1. FileOf(chain)' = FileOf(o.c)
        BY <1>14 DEF FileOf
      <3>2. GoodSoFar' => HasIt(FileOf(chain), stream.start, stream.length, ContentOf(given))'
        BY <1>1, <1>14, <2>2, <2>6, <3>1, SameSetup DEF content
      <3> QED
        BY <1>8, <2>4, <3>1, <3>2 DEF InTheFile
    <2> QED
      BY <1>13, <2>3, <2>7 DEF StreamsInv
  <1>15. CASE /\ setup.direct
              /\ \E w \in BufferedWrite(o.c, o.c.temporary) : chain' = w.c
              /\ stream' = [start |-> Position(o.c), length |-> Len(o.c.temporary), ok |-> o.ok]
    <2> DEFINE t == o.c.temporary
               f == FileOf(o.c)
    <2>1. PICK w \in BufferedWrite(o.c, t) : chain' = w.c
      BY <1>15
    <2>2. WritesFile(o.c, w, t)
      BY <1>7, <1>12, <2>1, BufferedWriteWrites
    <2>3. /\ w \in Outcomes /\ w.c \in Chains /\ Sound(w.c) /\ SameEncoders(o.c, w.c)
          /\ w.c.faults >= o.c.faults /\ (w.c.faults = o.c.faults => w.ok)
          /\ w.ok => FileOf(w.c) = f \o t
          /\ IsPart(FileOf(w.c), f \o t)
      BY <2>2 DEF WritesFile, Tells, Outcomes
    <2>4. /\ stream' \in [start : Nat, length : Int, ok : BOOLEAN]
          /\ stream'.start = Len(f) /\ stream'.length = Len(t)
      <3>1. Len(t) \in Int /\ Position(o.c) \in Nat
        BY <1>12
      <3> QED
        BY <1>7, <1>12, <1>15, <3>1
    <2>5. InRange'
      BY <1>1, <1>3, <1>7, <2>1, <2>3, <2>4 DEF InRange, Sound, SameEncoders
    <2>6. Out(o.c) = t /\ f = FileOf(chain)
      BY <1>7, <1>15 DEF Out, Aside, FileOf
    <2>7. t \in Seq(Units) /\ f \in Seq(Units)
      BY <1>12
    <2>8. Nums(f) = {} /\ Ascends(f) /\ Ascends(t)
      BY <1>4, <1>8, <1>15, <2>6, NoNumsAscend
    <2> HIDE DEF t, f
    <2>9. Ascends(FileOf(w.c))
      <3>1. Before(Nums(f), Nums(t))
        BY <2>8 DEF Before
      <3>2. Ascends(f \o t)
        BY <2>7, <2>8, <3>1, AscendsJoin
      <3> QED
        BY <2>3, <2>7, <3>2, PartOrdered DEF Ordered
    <2>10. ASSUME GoodSoFar' PROVE HasIt(FileOf(w.c), Len(f), Len(t), content)
      <3>1. w.c.faults = 0
        BY <1>1, <1>15, <2>1, <2>10 DEF GoodSoFar
      <3>2. w.c.faults \in Nat
        BY <2>3, OutIs
      <3>3. o.c.faults = 0 /\ w.ok
        BY <1>10, <2>3, <3>1, <3>2
      <3>4. GoodSoFar /\ Well(chain, o)
        BY <1>11, <3>3 DEF GoodSoFar
      <3>5. PICK pre \in Seq(Units), E \in Seq(Units) :
               Len(pre) = 0 /\ t = pre \o E /\ ReadsAs(E, Coded(content))
        BY <1>9, <1>15, <2>6, <3>4
      <3>6. t = E
        <4>1. pre = << >>
          BY <3>5, EmptySeq
        <4> QED
          BY <3>5, <4>1, ConcatEmptySeq
      <3>7. FileOf(w.c) = (f \o E) \o << >> /\ << >> \in Seq(Units)
        <4>1. f \o E \in Seq(Units)
          BY <2>7, Closed
        <4> QED
          BY <2>3, <3>3, <3>6, <4>1, ConcatEmptySeq
      <3> QED
        BY <2>7, <3>5, <3>6, <3>7 DEF HasIt
    <2>11. InTheFile'
      <3>1. FileOf(chain)' = FileOf(w.c)
        BY <2>1 DEF FileOf
      <3>2. GoodSoFar' => HasIt(FileOf(chain), stream.start, stream.length, ContentOf(given))'
        BY <1>1, <2>1, <2>4, <2>10, <3>1, SameSetup DEF content
      <3> QED
        BY <2>9, <3>1, <3>2 DEF InTheFile
    <2> QED
      BY <1>13, <2>5, <2>11 DEF StreamsInv
  <1> QED
    BY <1>2, <1>14, <1>15

LEMMA StreamClose ==
    ASSUME StreamsInv, CloseFile
    PROVE  StreamsInv'
  <1>1. phase = "after" /\ phase' = "closed" /\ UNCHANGED <<setup, given, short, stream>>
    BY DEF CloseFile
  <1>2. PICK f \in BufferedFlush(chain) : \E o \in FileClose(f.c) :
          chain' = o.c /\ closing' = [flushed |-> f.ok, closed |-> o.ok]
    BY DEF CloseFile
  <1>3. PICK o \in FileClose(f.c) : chain' = o.c /\ closing' = [flushed |-> f.ok, closed |-> o.ok]
    BY <1>2
  <1>4. InRange /\ chain \in Chains /\ Sound(chain)
    BY DEF StreamsInv, InRange
  <1>5. /\ Ascends(FileOf(chain))
        /\ GoodSoFar => HasIt(FileOf(chain), stream.start, stream.length, ContentOf(given))
    BY <1>1 DEF StreamsInv, InTheFile
  <1>6. WritesFile(chain, f, << >>) /\ f.c.buffer = << >>
    BY <1>4, BufferedFlushKeeps
  <1>7. /\ f \in Outcomes /\ f.c \in Chains /\ f.ok \in BOOLEAN /\ Sound(f.c) /\ SameEncoders(chain, f.c)
        /\ f.c.faults >= chain.faults /\ (f.c.faults = chain.faults => f.ok)
        /\ f.ok => FileOf(f.c) = FileOf(chain) \o << >>
        /\ IsPart(FileOf(f.c), FileOf(chain) \o << >>)
    BY <1>6 DEF WritesFile, Tells, Outcomes
  <1>8. /\ o \in Outcomes /\ Sound(o.c) /\ OnlyFile(f.c, o.c) /\ Tells(f.c, o)
        /\ Shorter(f.c, o.c) /\ (o.ok => o.c.bytes = f.c.bytes)
    BY <1>7, FileFlushLoses
  <1>9. /\ o.c \in Chains /\ o.ok \in BOOLEAN /\ SameEncoders(f.c, o.c) /\ o.c.buffer = << >>
        /\ o.c.faults >= f.c.faults /\ (o.c.faults = f.c.faults => o.ok)
    BY <1>6, <1>8 DEF OnlyFile, Tells, Outcomes
  <1>10. InRange'
    BY <1>1, <1>3, <1>4, <1>7, <1>8, <1>9 DEF InRange, Sound, SameEncoders
  <1>11. f.c.bytes \in Seq(Units) /\ o.c.bytes \in Seq(Units) /\ FileOf(chain) \o << >> = FileOf(chain)
         /\ FileOf(chain) \in Seq(Units) /\ << >> \in Seq(Units) /\ Nums(<< >>) = {}
    BY <1>4, <1>7, <1>9, OutIs, ConcatEmptySeq, NumsOne DEF Chains
  <1>12. FileOf(f.c) = f.c.bytes /\ FileOf(o.c) = o.c.bytes
    BY <1>6, <1>9, <1>11, ConcatEmptySeq DEF FileOf
  <1>13. Ascends(FileOf(o.c))
    <2>1. Ascends(f.c.bytes)
      BY <1>4, <1>5, <1>7, <1>11, <1>12, FileStaysOrdered
    <2>2. PICK k \in 0 .. Len(f.c.bytes) : o.c.bytes = Prefix(f.c.bytes, k)
      BY <1>8 DEF Shorter
    <2>3. IsPart(o.c.bytes, f.c.bytes)
      BY <1>11, <2>2, Cut
    <2>4. f.c.bytes \o << >> = f.c.bytes
      BY <1>11, ConcatEmptySeq
    <2>5. Ascends(o.c.bytes)
      <3> DEFINE a == f.c.bytes
                 b == o.c.bytes
                 e == << >>
      <3>1. a \in Seq(Units) /\ e \in Seq(Units) /\ IsPart(b, a \o e) /\ a \o e = a
        BY <1>11, <2>3, <2>4
      <3>2. Ascends(a)
        BY <2>1
      <3> HIDE DEF a, b, e
      <3>3. Ordered(a, e, b)
        BY <3>1, PartOrdered
      <3> QED
        BY <3>1, <3>2, <3>3 DEF Ordered, b
    <2> QED
      BY <1>12, <2>5
  <1>14. ASSUME GoodSoFar' PROVE GoodSoFar /\ FileOf(o.c) = FileOf(chain)
    <2>1. chain.faults \in Nat /\ f.c.faults \in Nat /\ o.c.faults \in Nat
      BY <1>4, <1>7, <1>9, OutIs
    <2>2. o.c.faults = 0 => chain.faults = 0 /\ f.ok /\ o.ok
      BY <1>7, <1>9, <2>1
    <2>3. \/ o.c.faults = 0
          \/ ~short /\ setup.cipher # "rc4" /\ ~setup.direct /\ stream.ok /\ f.ok /\ o.ok
      BY <1>1, <1>3, <1>14 DEF GoodSoFar
    <2>4. GoodSoFar /\ f.ok /\ o.ok
      BY <1>1, <2>2, <2>3 DEF GoodSoFar
    <2> QED
      BY <1>7, <1>8, <1>11, <1>12, <2>4
  <1>15. InTheFile'
    <2>1. FileOf(chain)' = FileOf(o.c)
      BY <1>3 DEF FileOf
    <2>2. GoodSoFar' => HasIt(FileOf(chain), stream.start, stream.length, ContentOf(given))'
      BY <1>1, <1>5, <1>14, <2>1, SameSetup
    <2> QED
      BY <1>13, <2>1, <2>2 DEF InTheFile
  <1>16. NothingYet' /\ OnItsWay'
    BY <1>1 DEF NothingYet, OnItsWay
  <1> QED
    BY <1>10, <1>15, <1>16 DEF StreamsInv


(* The invariant holds whatever the streams are set up to do, whatever     *)
(* sizes their buffers have, and whenever the device fails.                *)
THEOREM StreamsInvHolds == StreamSpec => []StreamsInv
  <1>1. StreamInit => StreamsInv
    BY StreamInitHolds
  <1>2. StreamsInv /\ [StreamNext]_streamVars => StreamsInv'
    <2> SUFFICES ASSUME StreamsInv, [StreamNext]_streamVars PROVE StreamsInv'
      OBVIOUS
    <2>1. CASE WriteAround
      BY <2>1, StreamWriteAround
    <2>2. CASE StartPDFStream
      BY <2>2, StreamStart
    <2>3. CASE \E n \in WriteSizes : Write(n)
      BY <2>3, StreamWrite
    <2>4. CASE EndPDFStream
      BY <2>4, StreamEnd
    <2>5. CASE CloseFile
      BY <2>5, StreamClose
    <2>6. CASE UNCHANGED streamVars
      <3>1. UNCHANGED <<setup, phase, chain, given, short, stream, closing>>
        BY <2>6 DEF streamVars
      <3>2. FileOf(chain)' = FileOf(chain) /\ Out(chain)' = Out(chain)
        BY <3>1 DEF FileOf, Out
      <3>3. GoodSoFar' <=> GoodSoFar
        BY <3>1 DEF GoodSoFar
      <3>4. InRange'
        BY <3>1 DEF StreamsInv, InRange, Sound
      <3>5. NothingYet'
        BY <3>1, <3>2 DEF StreamsInv, NothingYet, Fresh
      <3>6. Gathers(chain, IF setup.direct THEN 0 ELSE stream.start, ContentOf(given))'
               <=> Gathers(chain, IF setup.direct THEN 0 ELSE stream.start, ContentOf(given))
        BY <3>1, SameSetup
      <3>7. OnItsWay'
        BY <3>1, <3>2, <3>3, <3>6 DEF StreamsInv, OnItsWay
      <3>8. HasIt(FileOf(chain), stream.start, stream.length, ContentOf(given))'
               <=> HasIt(FileOf(chain), stream.start, stream.length, ContentOf(given))
        BY <3>1, <3>2, SameSetup
      <3>9. InTheFile'
        BY <3>1, <3>2, <3>3, <3>8 DEF StreamsInv, InTheFile
      <3> QED
        BY <3>4, <3>5, <3>7, <3>9 DEF StreamsInv
    <2> QED
      BY <2>1, <2>2, <2>3, <2>4, <2>5, <2>6 DEF StreamNext
  <1> QED
    BY <1>1, <1>2, PTL DEF StreamSpec

LEMMA HasItReads ==
    ASSUME SetupTyped, NEW k \in Nat, k = given,
           HasIt(FileOf(chain), stream.start, stream.length, ContentOf(k))
    PROVE  StreamReads
  <1> DEFINE content == ContentOf(k)
  <1>1. PICK pre \in Seq(Units), E \in Seq(Units), post \in Seq(Units) :
        /\ FileOf(chain) = (pre \o E) \o post /\ Len(pre) = stream.start /\ Len(E) = stream.length
        /\ ReadsAs(E, Coded(content))
    BY DEF HasIt
  <1>2. content \in Seq(Simple) /\ Coded(content) \in Seq(Deflated)
    BY ContentIs, CodedIs
  <1>3. content = [i \in 1 .. given |-> Raw(i)]
    BY DEF ContentOf
  <1> HIDE DEF content
  <1>4. Decrypted(E) = Coded(content) /\ Inflated(Coded(content)) = content
    BY <1>1, <1>2, DecryptsToContent, InflatesToContent
  <1>5. File = FileOf(chain)
    BY DEF File, FileOf
  <1>6. /\ Len(pre) + Len(E) <= Len((pre \o E) \o post)
        /\ SubSeq((pre \o E) \o post, Len(pre) + 1, Len(pre) + Len(E)) = E
    BY Middle
  <1>7. Section = E
    BY <1>1, <1>5, <1>6 DEF Section
  <1>8. stream.length >= 0
    <2>1. Len(E) \in Nat
      OBVIOUS
    <2> QED
      BY <1>1, <2>1
  <1> QED
    BY <1>1, <1>3, <1>4, <1>5, <1>6, <1>7, <1>8 DEF StreamReads

LEMMA StreamsInvReads ==
    ASSUME StreamsInv, phase \in {"after", "closed"}, GoodSoFar
    PROVE  StreamReads
  <1>1. SetupTyped /\ given \in Nat
    BY SetupIsTyped, SizesAssumption DEF StreamsInv, InRange
  <1>2. HasIt(FileOf(chain), stream.start, stream.length, ContentOf(given))
    BY DEF StreamsInv, InTheFile
  <1> QED
    BY <1>1, <1>2, HasItReads

LEMMA StreamsInvOrders ==
    ASSUME StreamsInv
    PROVE  InOrder
  <1>1. InRange /\ chain \in Chains /\ phase \in {"before", "stream", "after", "closed"}
    BY DEF StreamsInv, InRange
  <1>2. Ascends(FileOf(chain))
    <2>1. CASE phase = "before"
      BY <2>1, NoNumsAscend DEF StreamsInv, NothingYet, Fresh
    <2>2. CASE phase = "stream" /\ setup.direct
      BY <2>2, NoNumsAscend DEF StreamsInv, OnItsWay
    <2>3. CASE phase = "stream" /\ ~setup.direct
      <3>1. Ascends(Out(chain) \o chain.pending) /\ Out(chain) = FileOf(chain)
        BY <2>3 DEF StreamsInv, OnItsWay, Out
      <3>2. FileOf(chain) \in Seq(Units) /\ chain.pending \in Seq(Units)
        BY <1>1, OutIs, Levels DEF Chains
      <3> QED
        BY <3>1, <3>2, AscendsJoin
    <2>4. CASE phase \in {"after", "closed"}
      BY <2>4 DEF StreamsInv, InTheFile
    <2> QED
      BY <1>1, <2>1, <2>2, <2>3, <2>4
  <1> QED
    BY <1>2 DEF InOrder, Ascends, File, FileOf

(* Whatever the encoders: the content of a stream that was written to a    *)
(* device that works is what a reader finds between the positions that the *)
(* document records, and on any device the units that are in the file are  *)
(* there once and in their order (PDFStream.cpp:117-155).                  *)
THEOREM StreamsStayRight == StreamSpec => []StreamsAreRight
  <1>1. StreamsInv => StreamsAreRight
    <2> SUFFICES ASSUME StreamsInv PROVE StreamsAreRight
      OBVIOUS
    <2>1. InRange
      BY DEF StreamsInv
    <2>2. chain.held \in Nat /\ chain.faults \in Nat /\ MaxFaults \in Nat /\ CacheSize \in Nat
      BY <2>1, SizesAssumption DEF InRange, Chains
    <2>3. chain.held \in 0 .. CacheSize /\ chain.faults \in 0 .. MaxFaults + 1
      BY <2>1, <2>2 DEF InRange, Sound
    <2>4. StreamsTyped
      BY <2>1, <2>3 DEF InRange, Sound, StreamsTyped
    <2>5. WorkingDevice
      BY StreamsInvReads DEF WorkingDevice, GoodSoFar
    <2> QED
      BY <2>4, <2>5, StreamsInvOrders DEF StreamsAreRight
  <1> QED
    BY <1>1, StreamsInvHolds, PTL

(* On a device that fails, and perhaps works again: when no Write was      *)
(* short and the end of the stream, the Flush and the fclose all said that *)
(* they went well, the stream is there. RC4 streams and streams whose      *)
(* length is written first are not promised it.                            *)
THEOREM LossIsAlwaysTold == StreamSpec => []LossIsTold
  <1>1. StreamsInv => LossIsTold
    BY StreamsInvReads DEF LossIsTold, AllWell, GoodSoFar
  <1> QED
    BY <1>1, StreamsInvHolds, PTL
=============================================================================

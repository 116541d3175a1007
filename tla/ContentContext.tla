--------------------------- MODULE ContentContext ---------------------------
(***************************************************************************)
(* The text state of a page's content: AbstractContentContext with its     *)
(* GraphicStateStack, the font names of the page's ResourcesDictionary,    *)
(* and the viewer that will execute the operators written.                 *)
(*                                                                         *)
(* A content context keeps its own picture of the graphic state, so that   *)
(* it writes a Tf only when the font or the size placed last differs from  *)
(* the one that the text needs.  The picture is pushed and popped by q and *)
(* Q, and begins anew with every context of the page; the viewer's state   *)
(* is one for the whole page, whose content streams it reads one after the *)
(* other.  A used font has several font objects (one per representation),  *)
(* and which of them shows a text depends on the text.                     *)
(***************************************************************************)
EXTENDS Integers, Sequences, FiniteSets

CONSTANTS
    Fonts,        \* the used fonts of the document
    Sizes,        \* font sizes
    ObjectsOf,    \* [Fonts -> set of font objects]: those that may show a text
    UserNames,    \* names a program gives to font objects by itself, those of
                  \* the dictionary's own form (numbers here) among them
    Nothing,      \* NULL, "" and the initial size
    Balanced,     \* TRUE: the program pairs its q's and Q's in every context
    MaxDepth,     \* bound: graphic states in the stack
    MaxNames,     \* bound: names generated
    MaxGiven      \* bound: namings by the program

FontObjects == UNION {ObjectsOf[f] : f \in Fonts}

ASSUME ContentContextAssumption ==
    /\ Nothing \notin Sizes \cup Fonts \cup UserNames
    /\ Nothing \notin Nat
    /\ Balanced \in BOOLEAN
    /\ \A f, g \in Fonts : f # g => ObjectsOf[f] \cap ObjectsOf[g] = {}
    /\ MaxDepth \in Nat /\ MaxNames \in Nat /\ MaxGiven \in Nat

VARIABLES
    stack,       \* mGraphicStateStack of the context, the current state last
    viewer,      \* the viewer's graphic states after what was written so far
    fonts,       \* mFonts of the page's resources: font object -> name
    fontsCount,  \* mFontsCount
    shown,       \* one of the texts shown: object, its name then and size, and
                 \* the name and size that the viewer showed it in
    namings,     \* history: the object and name of each naming by the program
    failed       \* some call returned a failure

contentVars == <<stack, viewer, fonts, fontsCount, shown, namings, failed>>

Names == {Nothing} \cup UserNames \cup (1 .. MaxNames)

GraphicState == [font : Fonts \cup {Nothing}, size : Sizes \cup {Nothing},
                 placedName : Names, placedSize : Sizes \cup {Nothing}]

ViewerState == [name : Names, size : Sizes \cup {Nothing}]

Text == [object : FontObjects, asked : Names, size : Sizes \cup {Nothing},
         name : Names, viewedSize : Sizes \cup {Nothing}]

(***************************************************************************)
(* The names "FN" and a number are the number here; Nothing stands for the *)
(* empty name.                                                             *)
(***************************************************************************)
InitialState == [font |-> Nothing, size |-> Nothing,
                 placedName |-> Nothing, placedSize |-> Nothing]

Init ==
    /\ stack = <<InitialState>>
    /\ viewer = <<[name |-> Nothing, size |-> Nothing]>>
    /\ fonts = [o \in {} |-> Nothing]
    /\ fontsCount = 0
    /\ shown = Nothing
    /\ namings = {}
    /\ failed = FALSE

Current == stack[Len(stack)]
Viewed  == viewer[Len(viewer)]

WithCurrent(state) == [stack EXCEPT ![Len(stack)] = state]
WithViewed(state)  == [viewer EXCEPT ![Len(viewer)] = state]

(***************************************************************************)
(* Push copies the current state.  Pop refuses to leave the initial state, *)
(* and Q, which has written its operator before, drops that refusal: it    *)
(* returns the status of the stream.  A viewer ignores a Q too many, but   *)
(* one too many for this context may be one that the viewer can execute.   *)
(***************************************************************************)
Push(states) == Append(states, states[Len(states)])

Pop(states) == IF Len(states) = 1 THEN states ELSE SubSeq(states, 1, Len(states) - 1)

q ==
    /\ Len(stack) < MaxDepth /\ Len(viewer) < MaxDepth
    /\ stack' = Push(stack)
    /\ viewer' = Push(viewer)
    /\ UNCHANGED <<fonts, fontsCount, shown, namings, failed>>

(* Mutant: Q leaves the picture of the state alone. *)
QKeepsState ==
    /\ Balanced => Len(stack) > 1
    /\ viewer' = Pop(viewer)
    /\ UNCHANGED <<stack, fonts, fontsCount, shown, namings, failed>>

Q ==
    /\ Balanced => Len(stack) > 1
    /\ stack' = Pop(stack)
    /\ viewer' = Pop(viewer)
    /\ UNCHANGED <<fonts, fontsCount, shown, namings, failed>>

(***************************************************************************)
(* The font and size of the following texts are the context's own until a  *)
(* text is shown.  Tf sets both.                                           *)
(***************************************************************************)
SetCurrentFont(f) ==
    /\ stack' = WithCurrent([Current EXCEPT !.font = f])
    /\ UNCHANGED <<viewer, fonts, fontsCount, shown, namings, failed>>

SetCurrentFontSize(size) ==
    /\ stack' = WithCurrent([Current EXCEPT !.size = size])
    /\ UNCHANGED <<viewer, fonts, fontsCount, shown, namings, failed>>

Tf(f, size) ==
    /\ stack' = WithCurrent([Current EXCEPT !.font = f, !.size = size])
    /\ UNCHANGED <<viewer, fonts, fontsCount, shown, namings, failed>>

(***************************************************************************)
(* TfLow writes the operator and notes what it placed.                     *)
(***************************************************************************)
(* Mutant: the name and the size are noted in each other's place. *)
PlacedSwapped(name, size) ==
    WithCurrent([Current EXCEPT !.placedName = size, !.placedSize = name])

Placed(name, size) ==
    WithCurrent([Current EXCEPT !.placedName = name, !.placedSize = size])

TfLow(name, size) ==
    /\ stack' = Placed(name, size)
    /\ viewer' = WithViewed([Viewed EXCEPT !.name = name, !.size = size])
    /\ UNCHANGED <<fonts, fontsCount, shown, namings, failed>>

(***************************************************************************)
(* The names of font objects.  The dictionary names an object that has no  *)
(* name; a program may name an object at any time, also one that has a     *)
(* name, and with a name that another object has or will be generated.     *)
(***************************************************************************)
Named(o) == o \in DOMAIN fonts

(* Mutant: the object is looked up among other resources, and not found. *)
NameAlwaysNew(o) == fontsCount + 1

NameOf(o) == IF Named(o) THEN fonts[o] ELSE fontsCount + 1

WithName(o, name) == [p \in DOMAIN fonts \cup {o} |-> IF p = o THEN name ELSE fonts[p]]

(* Mutant: only reserved names are counted. *)
CountedReserved(o) == fontsCount

Counted(o) == IF Named(o) THEN fontsCount ELSE fontsCount + 1

AddFontMappingNamed(o, name) ==
    /\ fonts' = WithName(o, name)
    /\ namings' = namings \cup {<<o, name>>}
    /\ Cardinality(namings') <= MaxGiven
    /\ UNCHANGED <<stack, viewer, fontsCount, shown, failed>>

ReserveFontName ==
    /\ fontsCount < MaxNames
    /\ fontsCount' = fontsCount + 1
    /\ UNCHANGED <<stack, viewer, fonts, shown, namings, failed>>

(***************************************************************************)
(* Showing a text: the font is placed if the font or the size placed last  *)
(* is not the one needed, then the text is written.  Without a font Tj and *)
(* the TJ that takes strings fail, the TJ that takes glyphs does nothing;  *)
(* nothing is written for a text with no font object.  Which text shown    *)
(* stays in shown is left open, so that what holds of it holds of all.     *)
(***************************************************************************)
(* Mutant: only a change of the font places the font. *)
NeedsTfForFont(o) == Current.placedName # NameOf(o)

NeedsTf(o) == Current.placedName # NameOf(o) \/ Current.placedSize # Current.size

ViewedFor(o) ==
    IF NeedsTf(o) THEN [Viewed EXCEPT !.name = NameOf(o), !.size = Current.size]
                  ELSE Viewed

Show(o) ==
    /\ Named(o) \/ fontsCount < MaxNames
    /\ fonts' = WithName(o, NameOf(o))
    /\ fontsCount' = Counted(o)
    /\ stack' = IF NeedsTf(o) THEN Placed(NameOf(o), Current.size) ELSE stack
    /\ viewer' = WithViewed(ViewedFor(o))
    /\ shown' \in {shown,
                   [object |-> o, asked |-> NameOf(o), size |-> Current.size,
                    name |-> ViewedFor(o).name, viewedSize |-> ViewedFor(o).size]}
    /\ UNCHANGED <<namings, failed>>

NoFont ==
    /\ Current.font = Nothing
    /\ failed' = TRUE
    /\ UNCHANGED <<stack, viewer, fonts, fontsCount, shown, namings>>

Tj ==
    \/ NoFont
    \/ /\ Current.font # Nothing
       /\ \E o \in ObjectsOf[Current.font] : Show(o)

TJ ==
    \/ NoFont
    \/ /\ Current.font # Nothing
       /\ \E o \in ObjectsOf[Current.font] : Show(o)

(***************************************************************************)
(* Ending the context of a page and starting another on the same page: a   *)
(* new context knows nothing of what was placed.  (A paused context keeps  *)
(* its picture, and the viewer its state: nothing changes here.)           *)
(***************************************************************************)
EndAndStartPageContentContext ==
    /\ Balanced => Len(stack) = 1
    /\ stack' = <<InitialState>>
    /\ UNCHANGED <<viewer, fonts, fontsCount, shown, namings, failed>>

Next ==
    \/ q
    \/ Q
    \/ \E f \in Fonts : SetCurrentFont(f)
    \/ \E size \in Sizes : SetCurrentFontSize(size)
    \/ \E f \in Fonts, size \in Sizes : Tf(f, size)
    \/ \E name \in UserNames, size \in Sizes : TfLow(name, size)
    \/ \E o \in FontObjects, name \in UserNames : AddFontMappingNamed(o, name)
    \/ ReserveFontName
    \/ Tj
    \/ TJ
    \/ EndAndStartPageContentContext

Spec == Init /\ [][Next]_contentVars

-----------------------------------------------------------------------------
(***************************************************************************)
(* The types of the variables: the graphic states kept by a context, the   *)
(* viewer's, and the names of the page's resources.                        *)
(***************************************************************************)
TypeOK ==
    /\ stack \in Seq(GraphicState) /\ stack # <<>>
    /\ viewer \in Seq(ViewerState) /\ viewer # <<>>
    /\ fontsCount \in 0 .. MaxNames
    /\ DOMAIN fonts \subseteq FontObjects
    /\ fonts \in [DOMAIN fonts -> UserNames \cup 1 .. fontsCount]
    /\ shown = Nothing \/ (shown \in Text /\ shown.object \in DOMAIN fonts)
    /\ namings \subseteq FontObjects \X UserNames
    /\ failed \in BOOLEAN

(***************************************************************************)
(* Every text is shown in its font at its size: the name that the viewer   *)
(* has in effect is the one that the font object of the text had, across   *)
(* q, Q and contexts, although a Tf is left out whenever the context       *)
(* believes the font in place.                                             *)
(***************************************************************************)
ShownInItsFont ==
    shown # Nothing => shown.name = shown.asked /\ shown.viewedSize = shown.size

(***************************************************************************)
(* The names of the page's resources are read when the page is complete:   *)
(* the name that a text was shown under must mean its font object then,    *)
(* and no other.  It does, whatever was generated and reserved, unless the *)
(* program itself renamed the object, gave the name to another one, or had *)
(* given the object a name of the form that the dictionary generates.      *)
(***************************************************************************)
NamesDenoteOne ==
    shown # Nothing =>
      \A p \in DOMAIN fonts :
        \/ fonts[p] = shown.asked <=> p = shown.object
        \/ <<p, fonts[p]>> \in namings
        \/ /\ p # shown.object
           /\ shown.asked \in Nat /\ <<shown.object, shown.asked>> \in namings

(***************************************************************************)
(* What a context believes to be placed is placed: at every level of its   *)
(* stack the font and size noted are the viewer's at the same level,       *)
(* counted from the top.  It is why leaving out a Tf is right.             *)
(***************************************************************************)
PictureMatches ==
    /\ Len(stack) = Len(viewer)
    /\ \A i \in DOMAIN stack :
         stack[i].placedName # Nothing =>
           /\ viewer[i].name = stack[i].placedName
           /\ viewer[i].size = stack[i].placedSize

(***************************************************************************)
(* Q is documented to return a failure for unbalanced q's and Q's, so a    *)
(* program that saw no failure has every text in its font.                 *)
(***************************************************************************)
ImbalanceIsReported == failed \/ ShownInItsFont
=============================================================================

---------------------------- MODULE GlyphDrawing ----------------------------
(***************************************************************************)
(* Writing a text whose glyphs may be coloured: WriteText of               *)
(* AbstractContentContext and its three drawing contexts.                  *)
(*                                                                         *)
(* Plain glyphs are gathered and shown together (SimpleGlyphsDrawing-      *)
(* Context); a glyph with COLRv0 layers is shown layer by layer, each in   *)
(* its palette colour (LayeredGlyphsDrawingContext); a glyph with a COLRv1 *)
(* paint is drawn by walking the graph of its paints (PaintedGlyphs-       *)
(* DrawingContext), whose nodes clip, move, compose or fill.  The walk     *)
(* leaves its traces in a viewer's graphic state: what a fill shows        *)
(* depends on every operator before it that no Q undid.                    *)
(*                                                                         *)
(* The walk of the paints is recursive in the code; here todo is what is   *)
(* left to do, the innermost call first.  Space has one dimension, in      *)
(* which a glyph is an interval and a matrix a scale and a shift; a font   *)
(* size is counted in halves, an opacity in parts of Full; the stops of a  *)
(* gradient have one colour.                                               *)
(***************************************************************************)
EXTENDS Integers, Sequences, SequencesExt

CONSTANTS
    ColourFonts,  \* colour fonts: [root, layers : Glyphs -> .., paints : Paints -> form]
    Texts,        \* sequences of glyphs to write
    Width,        \* [Glyphs -> Nat]: advances
    Box,          \* [Glyphs -> [low, high]]: outlines, at half a unit of size
    FontSize,     \* the font size of the text's options, in halves
    Palette,      \* [0 .. size - 1 -> opacity]: the default palette
    TextColour,   \* 0xFFFF as a palette index: the colour of the text's options
    Opacity,      \* the opacity of the text's options
    NoOpacity,    \* NO_OPACITY_VALUE
    Full,         \* opacity 1
    Base,         \* the matrix in effect when the text is written
    Nothing

Identity == [scale |-> 1, shift |-> 0]

ASSUME GlyphDrawingAssumption ==
    /\ Full \in Nat \ {0} /\ NoOpacity > Full * Full
    /\ Opacity \in (0 .. Full) \cup {NoOpacity}
    /\ \A i \in DOMAIN Palette : i \in Nat /\ Palette[i] \in 0 .. Full
    /\ FontSize \in Nat \ {0}

VARIABLES
    font,      \* the colour font of the text
    text,      \* glyphsAndUnicode
    next,      \* the glyph that WriteText looks at
    x,         \* x of WriteText
    pending,   \* mText of the shared context
    startX,    \* mX of the shared context
    latest,    \* mLatestAdvance of the shared context
    todo,      \* the calls in progress, the innermost first
    ok,        \* the result of the paint executed last
    drawn,     \* mDrawnGlyphs
    matrices,  \* mGraphicStateMatrixStack
    bounds,    \* mBoundsStack
    ink,       \* the viewer's graphic states, the current one last
    marks      \* what the viewer shows, in order

textVars  == <<font, text>>
plainVars == <<next, x, pending, startX, latest>>
vars      == <<font, text, next, x, pending, startX, latest, todo, ok, drawn,
               matrices, bounds, ink, marks>>

Init ==
    /\ font \in ColourFonts
    /\ text \in Texts
    /\ next = 1
    /\ x = 0
    /\ pending = <<>> /\ startX = 0 /\ latest = 0
    /\ todo = <<>>
    /\ ok = TRUE
    /\ drawn = {} /\ matrices = <<>> /\ bounds = <<>>
    /\ ink = <<[opacity |-> Full, colour |-> Nothing, clip |-> <<>>, ctm |-> Base]>>
    /\ marks = <<>>

-----------------------------------------------------------------------------
(***************************************************************************)
(* The operators of a content stream, on the viewer's states.              *)
(***************************************************************************)
Ink == ink[Len(ink)]

(* Mutant: a Q undoes two q's. *)
RestoredTwice(states) == SubSeq(states, 1, Len(states) - 2)

Restored(states) == Front(states)

(* Multiply of PDFMatrix: this matrix first, then the other. *)
Multiply(m, right) == [scale |-> m.scale * right.scale,
                       shift |-> m.shift * right.scale + right.shift]

Saved(states)          == Append(states, states[Len(states)])
Changed(states, state) == [states EXCEPT ![Len(states)] = state]

(* SetOpacity: the special value leaves the opacity as it is. *)
SetOpacity(state, alpha) ==
    IF alpha = NoOpacity THEN state ELSE [state EXCEPT !.opacity = alpha]

SetupColor(state, alpha) == [SetOpacity(state, alpha) EXCEPT !.colour = TextColour]

(***************************************************************************)
(* Intervals: where a matrix puts one, and what two have in common; the    *)
(* outline of a glyph at a font size, and what is left of an area in the   *)
(* clips of a state.                                                       *)
(***************************************************************************)
Rectangle(area, m) == [low  |-> area.low * m.scale + m.shift,
                       high |-> area.high * m.scale + m.shift]

Meet(a, b) ==
    LET low  == Max({a.low, b.low})
        high == Min({a.high, b.high})
    IN  IF low < high THEN [low |-> low, high |-> high] ELSE [low |-> 0, high |-> 0]

Outline(glyph, size) == Rectangle(Box[glyph], [scale |-> size, shift |-> 0])

Extent(clip) == Rectangle(Outline(clip.glyph, FontSize), clip.ctm)

Within(clips, area) == FoldLeft(LAMBDA left, clip : Meet(left, Extent(clip)), area, clips)

Mark(what, state, opacity, pattern, area) ==
    [what |-> what, colour |-> state.colour, opacity |-> opacity,
     ctm |-> state.ctm, pattern |-> pattern, area |-> area]

(***************************************************************************)
(* The shared context: Flush shows the glyphs gathered, from mX on, in the *)
(* colour of the options.  Advances and states come out as a record.       *)
(***************************************************************************)
Advance(glyphs) == FoldLeft(LAMBDA total, g : total + Width[g], 0, glyphs)

PlainMark(state, from) ==
    Mark(<<from.glyph>>, [state EXCEPT !.ctm = Multiply([scale |-> 1, shift |-> from.x], state.ctm)],
         state.opacity, Nothing, Nothing)

PlainMarks(glyphs, from, state) ==
    [i \in 1 .. Len(glyphs) |->
        PlainMark(state, [glyph |-> glyphs[i], x |-> from + Advance(SubSeq(glyphs, 1, i - 1))])]

Shown == SetupColor(Ink, Opacity)

(* Mutant: nothing to flush leaves the advance of the last flush. *)
FlushedStale ==
    IF pending = <<>>
    THEN [latest |-> latest, ink |-> ink, marks |-> marks]
    ELSE [latest |-> Advance(pending),
          ink |-> Changed(ink, Shown),
          marks |-> marks \o PlainMarks(pending, startX, Shown)]

Flushed ==
    IF pending = <<>>
    THEN [latest |-> 0, ink |-> ink, marks |-> marks]
    ELSE [latest |-> Advance(pending),
          ink |-> Changed(ink, Shown),
          marks |-> marks \o PlainMarks(pending, startX, Shown)]

-----------------------------------------------------------------------------
(***************************************************************************)
(* WriteText looks at one glyph after the other.  A painted glyph is tried *)
(* first, then a layered one; both flush the plain glyphs before and start *)
(* them anew behind their own advance.                                     *)
(***************************************************************************)
Looking == todo = <<>> /\ next <= Len(text)
Glyph   == text[next]

Painted == font.root[Glyph] # Nothing
Layered == ~Painted /\ font.layers[Glyph] # <<>>

AddGlyphMapping ==
    /\ Looking
    /\ ~Painted /\ ~Layered
    /\ pending' = Append(pending, Glyph)
    /\ next' = next + 1
    /\ UNCHANGED <<textVars, x, startX, latest, todo, ok, drawn, matrices, bounds, ink, marks>>

(***************************************************************************)
(* The bounds of a glyph are measured by a function that takes whole font  *)
(* sizes only.                                                             *)
(***************************************************************************)
CalculateTextDimensions(glyph) == Outline(glyph, 2 * (FontSize \div 2))

(***************************************************************************)
(* Draw of a painted glyph notes its bounds, those of its plain outline,   *)
(* saves the state, moves to the glyph's place and executes its paint; the *)
(* state is restored whatever comes of it.  (The stacks are emptied at the *)
(* next glyph, and hold nothing that is used before.)                      *)
(***************************************************************************)
StartPainted ==
    /\ Looking
    /\ Painted
    /\ LET here == [scale |-> 1, shift |-> x + Flushed.latest]
           at   == Saved(Flushed.ink)
       IN  /\ x' = here.shift
           /\ ink' = Changed(at, [at[Len(at)] EXCEPT !.ctm = Multiply(here, @)])
           /\ matrices' = <<here>>
    /\ bounds' = <<CalculateTextDimensions(Glyph)>>
    /\ latest' = Flushed.latest
    /\ marks' = Flushed.marks
    /\ pending' = <<>>
    /\ drawn' = {Glyph}
    /\ todo' = <<[do |-> "paint", paint |-> font.root[Glyph]], [do |-> "endGlyph"]>>
    /\ UNCHANGED <<textVars, next, startX, ok>>

(* The glyph is finished: the shared context starts behind it. *)
EndPainted ==
    /\ todo # <<>> /\ Head(todo).do = "endGlyph"
    /\ ink' = Restored(ink)
    /\ matrices' = <<>> /\ drawn' = {} /\ bounds' = <<>>
    /\ x' = x + Width[Glyph]
    /\ startX' = x'
    /\ next' = next + 1
    /\ todo' = Tail(todo)
    /\ UNCHANGED <<textVars, pending, latest, ok, marks>>

(***************************************************************************)
(* Draw of a layered glyph: each layer is shown between a q and a Q.  A    *)
(* layer whose colour is not in the palette ends the drawing at once, and  *)
(* leaves the q without its Q.                                             *)
(***************************************************************************)
StartLayered ==
    /\ Looking
    /\ Layered
    /\ x' = x + Flushed.latest
    /\ latest' = Flushed.latest
    /\ ink' = Flushed.ink /\ marks' = Flushed.marks
    /\ pending' = <<>>
    /\ todo' = <<[do |-> "layer", colours |-> font.layers[Glyph]]>>
    /\ UNCHANGED <<textVars, next, startX, ok, drawn, matrices, bounds>>

LayerInk(colour) ==
    IF colour = TextColour
    THEN SetupColor(Ink, Opacity)
    ELSE [SetOpacity(Ink, Palette[colour]) EXCEPT !.colour = colour]

InPalette(colour) == colour = TextColour \/ colour \in DOMAIN Palette

(* What is shown with a state between a q and a Q leaves the states alone. *)
ShowLayer ==
    /\ todo # <<>> /\ Head(todo).do = "layer" /\ Head(todo).colours # <<>>
    /\ LET colour == Head(Head(todo).colours)
           at     == [glyph |-> Glyph, x |-> x]
       IN  \/ /\ InPalette(colour)
              /\ marks' = Append(marks, PlainMark(LayerInk(colour), at))
              /\ todo' = <<[do |-> "layer", colours |-> Tail(Head(todo).colours)]>>
              /\ UNCHANGED <<ink, ok>>
           \/ /\ ~InPalette(colour)
              /\ ink' = Saved(ink)
              /\ ok' = FALSE
              /\ todo' = <<[do |-> "layer", colours |-> <<>>]>>
              /\ UNCHANGED marks
    /\ UNCHANGED <<textVars, plainVars, drawn, matrices, bounds>>

EndLayered ==
    /\ todo # <<>> /\ Head(todo).do = "layer" /\ Head(todo).colours = <<>>
    /\ x' = x + Width[Glyph]
    /\ startX' = x'
    /\ next' = next + 1
    /\ todo' = <<>>
    /\ UNCHANGED <<textVars, pending, latest, ok, drawn, matrices, bounds, ink, marks>>

(* The last flush. *)
EndWriteText ==
    /\ todo = <<>> /\ next = Len(text) + 1
    /\ ink' = Flushed.ink /\ marks' = Flushed.marks
    /\ pending' = <<>>
    /\ next' = next + 1
    /\ UNCHANGED <<textVars, x, startX, latest, todo, ok, drawn, matrices, bounds>>

Written == next = Len(text) + 2

-----------------------------------------------------------------------------
(***************************************************************************)
(* The paints.  Executing one replaces it by what is left of it.           *)
(***************************************************************************)
Executing(kind) ==
    /\ todo # <<>> /\ Head(todo).do = "paint"
    /\ font.paints[Head(todo).paint].kind = kind

Form == font.paints[Head(todo).paint]

Paint(p) == [do |-> "paint", paint |-> p]

(* The Q to come, the colour glyph that it ends, if it ends one, and       *)
(* whether it ends a clip.                                                 *)
RestoreLater(glyph, clipped) == [do |-> "restore", glyph |-> glyph, clipped |-> clipped]

(***************************************************************************)
(* FillCurrentBounds fills the rectangle of the innermost bounds, which    *)
(* lies where the matrix in effect puts it, within the clips.              *)
(***************************************************************************)
(* Mutant: the bounds of the glyph, not of the innermost clip. *)
OutermostBounds == bounds[1]

CurrentBounds == bounds[Len(bounds)]

FilledArea == Within(Ink.clip, Rectangle(CurrentBounds, Ink.ctm))

(***************************************************************************)
(* ExecutePaintSolid.  The multiplier is divided as an integer: anything   *)
(* below 1 makes the fill invisible.                                       *)
(***************************************************************************)
Multiplier(alpha) == alpha \div Full

SolidInk(form) ==
    IF form.colour = TextColour
    THEN SetupColor(Ink, Opacity * Multiplier(form.alpha))
    ELSE [SetOpacity(Ink, Palette[form.colour] * Multiplier(form.alpha))
            EXCEPT !.colour = form.colour]

ExecutePaintSolid ==
    /\ Executing("solid")
    /\ todo' = Tail(todo)
    /\ \/ /\ InPalette(Form.colour)
          /\ ink' = Changed(ink, SolidInk(Form))
          /\ marks' = Append(marks, Mark(Ink.clip, SolidInk(Form), SolidInk(Form).opacity, Nothing, FilledArea))
          /\ ok' = TRUE
       \/ /\ ~InPalette(Form.colour)
          /\ ok' = FALSE
          /\ UNCHANGED <<ink, marks>>
    /\ UNCHANGED <<textVars, plainVars, drawn, matrices, bounds>>

(***************************************************************************)
(* The gradients write a shading pattern that extends over the innermost   *)
(* bounds and whose matrix maps it to the page, and fill these bounds with *)
(* it in the opacity of the state.  The opacity of a stop in               *)
(* the text's colour is that of the options times 255 in a byte: for the   *)
(* special value that is out of a byte's range, and the conversion gives   *)
(* either what the lowest byte holds, about nothing, or the largest byte.  *)
(***************************************************************************)
StopOpacities(colour) ==
    IF colour # TextColour THEN {Palette[colour]}
    ELSE IF Opacity = NoOpacity THEN {0, Full}
    ELSE {Opacity}

PatternInk == [Ink EXCEPT !.colour = Form.colour]

PatternArea == Rectangle(CurrentBounds, matrices[Len(matrices)])

ExecutePaintGradient ==
    /\ Executing("gradient")
    /\ todo' = Tail(todo)
    /\ \/ /\ InPalette(Form.colour)
          /\ ink' = Changed(ink, PatternInk)
          /\ \E stop \in StopOpacities(Form.colour) :
               marks' = Append(marks, Mark(Ink.clip, PatternInk,
                                           (Ink.opacity * stop * Form.alpha) \div (Full * Full),
                                           matrices[Len(matrices)],
                                           Meet(FilledArea, PatternArea)))
          /\ ok' = TRUE
       \/ /\ ~InPalette(Form.colour)
          /\ ok' = FALSE
          /\ UNCHANGED <<ink, marks>>
    /\ UNCHANGED <<textVars, plainVars, drawn, matrices, bounds>>

(***************************************************************************)
(* ExecutePaintGlyph clips to a glyph, notes its bounds, executes the      *)
(* paint inside, and restores the state before the clip.                   *)
(***************************************************************************)
ClipTo(glyph, ctm) == [glyph |-> glyph, ctm |-> ctm]

ExecutePaintGlyph ==
    /\ Executing("glyph")
    /\ ink' = Changed(Saved(ink), [Ink EXCEPT !.clip = Append(@, ClipTo(Form.glyph, Ink.ctm))])
    /\ matrices' = Saved(matrices)
    /\ bounds' = Append(bounds, CalculateTextDimensions(Form.glyph))
    /\ todo' = <<Paint(Form.paint), RestoreLater(Nothing, TRUE)>> \o Tail(todo)
    /\ UNCHANGED <<textVars, plainVars, ok, drawn, marks>>

(***************************************************************************)
(* ApplyTransformToPaint.  A transform carries its own shift; a scale has  *)
(* a centre, which the code puts in the place of the shift.                *)
(***************************************************************************)
(* Mutant: the matrices are multiplied the other way around. *)
ApplyTransformSwapped(m) ==
    /\ ink' = Changed(Saved(ink), [Ink EXCEPT !.ctm = Multiply(m, @)])
    /\ matrices' = Append(matrices, Multiply(matrices[Len(matrices)], m))
    /\ todo' = <<Paint(Form.paint), RestoreLater(Nothing, FALSE)>> \o Tail(todo)
    /\ UNCHANGED <<textVars, plainVars, ok, drawn, bounds, marks>>

ApplyTransformToPaint(m) ==
    /\ ink' = Changed(Saved(ink), [Ink EXCEPT !.ctm = Multiply(m, @)])
    /\ matrices' = Append(matrices, Multiply(m, matrices[Len(matrices)]))
    /\ todo' = <<Paint(Form.paint), RestoreLater(Nothing, FALSE)>> \o Tail(todo)
    /\ UNCHANGED <<textVars, plainVars, ok, drawn, bounds, marks>>

ExecutePaintTransform ==
    /\ Executing("transform")
    /\ ApplyTransformToPaint([scale |-> Form.scale, shift |-> Form.shift])

ExecutePaintScale ==
    /\ Executing("scale")
    /\ ApplyTransformToPaint([scale |-> Form.scale, shift |-> Form.centre])

(***************************************************************************)
(* ExecutePaintColrGlyph draws another colour glyph's paint in a saved     *)
(* state.  A glyph in the middle of whose drawing the code is, and one     *)
(* without a paint, are passed over with success.                          *)
(***************************************************************************)
Drawable(glyph) == glyph \notin drawn /\ font.root[glyph] # Nothing

ExecutePaintColrGlyph ==
    /\ Executing("colrGlyph")
    /\ \/ /\ Drawable(Form.glyph)
          /\ drawn' = drawn \cup {Form.glyph}
          /\ ink' = Saved(ink)
          /\ matrices' = Saved(matrices)
          /\ todo' = <<Paint(font.root[Form.glyph]), RestoreLater(Form.glyph, FALSE)>> \o Tail(todo)
          /\ UNCHANGED ok
       \/ /\ ~Drawable(Form.glyph)
          /\ ok' = TRUE
          /\ todo' = Tail(todo)
          /\ UNCHANGED <<drawn, ink, matrices>>
    /\ UNCHANGED <<textVars, plainVars, bounds, marks>>

(* Mutant: a paint that failed leaves its state behind. *)
RestoreOnSuccess ==
    /\ todo # <<>> /\ Head(todo).do = "restore"
    /\ ink' = IF ok THEN Restored(ink) ELSE ink
    /\ matrices' = Front(matrices)
    /\ bounds' = IF Head(todo).clipped THEN Front(bounds) ELSE bounds
    /\ drawn' = drawn \ {Head(todo).glyph}
    /\ todo' = Tail(todo)
    /\ UNCHANGED <<textVars, plainVars, ok, marks>>

(* The Q after the paint inside, whatever its result was. *)
Restore ==
    /\ todo # <<>> /\ Head(todo).do = "restore"
    /\ ink' = Restored(ink)
    /\ matrices' = Front(matrices)
    /\ bounds' = IF Head(todo).clipped THEN Front(bounds) ELSE bounds
    /\ drawn' = drawn \ {Head(todo).glyph}
    /\ todo' = Tail(todo)
    /\ UNCHANGED <<textVars, plainVars, ok, marks>>

(***************************************************************************)
(* ExecutePaintColrLayers executes paints while they succeed;              *)
(* ExecuetePaintComposite executes both of its paints, and succeeds when   *)
(* both do.                                                                *)
(***************************************************************************)
ExecutePaintColrLayers ==
    /\ Executing("layers")
    /\ todo' = <<[do |-> "layers", paints |-> Form.paints]>> \o Tail(todo)
    /\ ok' = TRUE
    /\ UNCHANGED <<textVars, plainVars, drawn, matrices, bounds, ink, marks>>

(* Mutant: the layers stop at a failure without leaving their loop. *)
NextLayerStuck ==
    /\ todo # <<>> /\ Head(todo).do = "layers"
    /\ LET rest == Head(todo).paints
       IN  todo' = IF rest = <<>> THEN Tail(todo)
                   ELSE IF ok
                   THEN <<Paint(Head(rest)), [do |-> "layers", paints |-> Tail(rest)]>> \o Tail(todo)
                   ELSE todo
    /\ UNCHANGED <<textVars, plainVars, ok, drawn, matrices, bounds, ink, marks>>

NextLayer ==
    /\ todo # <<>> /\ Head(todo).do = "layers"
    /\ LET rest == Head(todo).paints
       IN  todo' = IF ok /\ rest # <<>>
                   THEN <<Paint(Head(rest)), [do |-> "layers", paints |-> Tail(rest)]>> \o Tail(todo)
                   ELSE Tail(todo)
    /\ UNCHANGED <<textVars, plainVars, ok, drawn, matrices, bounds, ink, marks>>

ExecutePaintComposite ==
    /\ Executing("composite")
    /\ todo' = <<Paint(Form.backdrop), [do |-> "source", paint |-> Form.source]>> \o Tail(todo)
    /\ UNCHANGED <<textVars, plainVars, ok, drawn, matrices, bounds, ink, marks>>

SourcePaint ==
    /\ todo # <<>> /\ Head(todo).do = "source"
    /\ todo' = <<Paint(Head(todo).paint), [do |-> "both", first |-> ok]>> \o Tail(todo)
    /\ UNCHANGED <<textVars, plainVars, ok, drawn, matrices, bounds, ink, marks>>

BothPaints ==
    /\ todo # <<>> /\ Head(todo).do = "both"
    /\ ok' = (Head(todo).first /\ ok)
    /\ todo' = Tail(todo)
    /\ UNCHANGED <<textVars, plainVars, drawn, matrices, bounds, ink, marks>>

Next ==
    \/ AddGlyphMapping
    \/ StartPainted
    \/ EndPainted
    \/ StartLayered
    \/ ShowLayer
    \/ EndLayered
    \/ EndWriteText
    \/ ExecutePaintSolid
    \/ ExecutePaintGradient
    \/ ExecutePaintGlyph
    \/ ExecutePaintTransform
    \/ ExecutePaintScale
    \/ ExecutePaintColrGlyph
    \/ Restore
    \/ ExecutePaintColrLayers
    \/ NextLayer
    \/ ExecutePaintComposite
    \/ SourcePaint
    \/ BothPaints

(***************************************************************************)
(* WriteText is a call that runs to its end: it does not stop of itself.   *)
(***************************************************************************)
Spec == Init /\ [][Next]_vars /\ WF_vars(Next)

-----------------------------------------------------------------------------
(***************************************************************************)
(* What a paint means, apart from how it is drawn: the fills in order,     *)
(* each with the clips and the matrix of the paints above it, a colour     *)
(* with its own opacity, and nothing of the paints beside it.  A scale     *)
(* keeps its centre where it is, and a fill extends over all of its clips. *)
(***************************************************************************)
Inherited == IF Opacity = NoOpacity THEN Full ELSE Opacity

ColourOpacity(colour) == IF colour = TextColour THEN Inherited ELSE Palette[colour]

ClippedArea(clips) ==
    IF clips = <<>> THEN Nothing ELSE Within(clips, Extent(clips[1]))

Fill(form, above) ==
    <<[what |-> above.clip, colour |-> form.colour,
       opacity |-> (ColourOpacity(form.colour) * form.alpha) \div Full,
       ctm |-> above.ctm,
       pattern |-> IF form.kind = "gradient" THEN above.ctm ELSE Nothing,
       area |-> ClippedArea(above.clip)]>>

Moved(above, m) == [above EXCEPT !.ctm = Multiply(m, @)]

RECURSIVE Meaning(_, _, _)
Meaning(p, above, visited) ==
    LET form == font.paints[p]
    IN  CASE form.kind \in {"solid", "gradient"} -> Fill(form, above)
          [] form.kind = "glyph" ->
               Meaning(form.paint, [above EXCEPT !.clip = Append(@, ClipTo(form.glyph, above.ctm))],
                       visited)
          [] form.kind = "transform" ->
               Meaning(form.paint, Moved(above, [scale |-> form.scale, shift |-> form.shift]), visited)
          [] form.kind = "scale" ->
               Meaning(form.paint,
                       Moved(above, [scale |-> form.scale,
                                     shift |-> form.centre - form.scale * form.centre]),
                       visited)
          [] form.kind = "colrGlyph" ->
               IF form.glyph \in visited \/ font.root[form.glyph] = Nothing THEN <<>>
               ELSE Meaning(font.root[form.glyph], above, visited \cup {form.glyph})
          [] form.kind = "layers" ->
               FoldLeft(LAMBDA fills, child : fills \o Meaning(child, above, visited),
                        <<>>, form.paints)
          [] form.kind = "composite" ->
               Meaning(form.backdrop, above, visited) \o Meaning(form.source, above, visited)

GlyphMeaning(i) ==
    LET g     == text[i]
        above == [clip |-> <<>>,
                  ctm |-> Multiply([scale |-> 1, shift |-> Advance(SubSeq(text, 1, i - 1))], Base)]
        Plain(colour) == [what |-> <<g>>, colour |-> colour, opacity |-> ColourOpacity(colour),
                          ctm |-> above.ctm, pattern |-> Nothing, area |-> Nothing]
    IN  IF font.root[g] # Nothing THEN Meaning(font.root[g], above, {g})
        ELSE IF font.layers[g] # <<>>
             THEN [j \in DOMAIN font.layers[g] |-> Plain(font.layers[g][j])]
        ELSE <<Plain(TextColour)>>

TextMeaning == FlattenSeq([i \in 1 .. Len(text) |-> GlyphMeaning(i)])

-----------------------------------------------------------------------------
(* A font whose colours are all in the palette: what is not is refused. *)
ColoursKnown ==
    /\ \A p \in DOMAIN font.paints :
         font.paints[p].kind \in {"solid", "gradient"} => InPalette(font.paints[p].colour)
    /\ \A g \in DOMAIN font.layers :
         \A i \in DOMAIN font.layers[g] : InPalette(font.layers[g][i])

(***************************************************************************)
(* The types of the variables: the walk is somewhere in the text, and the  *)
(* viewer always has a state.                                              *)
(***************************************************************************)
TypeOK ==
    /\ next \in 1 .. Len(text) + 2
    /\ x \in Nat /\ startX \in Nat /\ latest \in Nat
    /\ ok \in BOOLEAN
    /\ ink # <<>>
    /\ Len(pending) <= Len(text)

(***************************************************************************)
(* A text written shows what it means: every glyph at its place, every     *)
(* fill of a coloured glyph in its clips, matrix, colour and opacity, and  *)
(* in the order of the paints; a gradient's pattern lies where its fill    *)
(* is.  The area painted is all of the clips where nothing moved the fill  *)
(* since the innermost one: the code fills the bounds of that clip's glyph *)
(* in the matrix of the fill.  A fill that was moved since, and one with   *)
(* no clip, which gets the bounds of the glyph's plain outline, may paint  *)
(* less.                                                                   *)
(***************************************************************************)
FilledInPlace(fill) == fill.what # <<>> /\ fill.what[Len(fill.what)].ctm = fill.ctm

DrawnAsMeant ==
    Written /\ ColoursKnown =>
      /\ Len(marks) = Len(TextMeaning)
      /\ \A i \in DOMAIN marks :
           LET meant == TextMeaning[i]
           IN  IF meant.area = Nothing \/ ~FilledInPlace(meant)
               THEN [marks[i] EXCEPT !.area = meant.area] = meant
               ELSE marks[i] = meant

(***************************************************************************)
(* "Now fill a path" is to paint the clip: the bounds of the clip's glyph  *)
(* were noted "so lower levels can fill to it".                            *)
(***************************************************************************)
FillsAreWhole == Written /\ ColoursKnown => marks = TextMeaning

(***************************************************************************)
(* No coloured glyph leaves anything behind: after it the viewer is back   *)
(* at the depth of its states where the text began, with no clip and the   *)
(* matrix of before, also when a colour was not found.                     *)
(***************************************************************************)
NothingLeaks ==
    todo = <<>> => Len(ink) = 1 /\ Ink.clip = <<>> /\ Ink.ctm = Base

(***************************************************************************)
(* While a paint is executed, the matrix that the code computes for the    *)
(* patterns is the viewer's.                                               *)
(***************************************************************************)
MatrixMatches == matrices # <<>> => matrices[Len(matrices)] = Ink.ctm

(***************************************************************************)
(* Writing a text comes to its end, also for a colour glyph that contains  *)
(* itself.                                                                 *)
(***************************************************************************)
WritingEnds == <>Written

(* The states of the viewer, of the code and of the text around agree:     *)
(* within a paint in the matrix, after a glyph in everything.              *)
GraphicsStateIsKept ==
    /\ TypeOK
    /\ NothingLeaks
    /\ MatrixMatches
=============================================================================

-------------------------- MODULE MCGlyphDrawing --------------------------
(***************************************************************************)
(* Colour fonts of five paints, of which one reaches only later ones,      *)
(* except through a colour glyph: paint 1 is the root of glyph G, paint 2  *)
(* that of S; L has two layers, P is plain; P and S clip, the plain outline *)
(* of G is empty.                                                          *)
(***************************************************************************)
EXTENDS GlyphDrawing

CONSTANTS G, S, L, P, Centre, Alpha

MCWidth   == [g \in {G, S, L, P} |-> IF g = G THEN 3 ELSE IF g = L THEN 2 ELSE 1]
MCBox     == [g \in {G, S, L, P} |->
                IF g = P THEN [low |-> 0, high |-> 3]
                ELSE IF g = S THEN [low |-> 1, high |-> 4]
                ELSE [low |-> 0, high |-> 0]]
MCPalette == [i \in 0 .. 1 |-> IF i = 0 THEN Full ELSE 2]
MCTexts   == {<<P, G, L>>, <<L, G, P>>}

Here       == [scale |-> 1, shift |-> 0]
Under      == [scale |-> 2, shift |-> 5]
Unknown    == 2

Solid(c)      == [kind |-> "solid", colour |-> c, alpha |-> Alpha]
Gradient(c)   == [kind |-> "gradient", colour |-> c, alpha |-> Full]
ClipBy(g, p)  == [kind |-> "glyph", glyph |-> g, paint |-> p]
Clip(p)       == ClipBy(P, p)
Transform(p)  == [kind |-> "transform", scale |-> 2, shift |-> 1, paint |-> p]
Scale(p)      == [kind |-> "scale", scale |-> 3, centre |-> Centre, paint |-> p]
Colr(g)       == [kind |-> "colrGlyph", glyph |-> g]
Layers(p, r)  == [kind |-> "layers", paints |-> <<p, r>>]
Composite(p, r) == [kind |-> "composite", backdrop |-> p, source |-> r]

FontsOf(first, second, third, fills, layers) ==
    {[root   |-> [g \in {G, S, L, P} |-> IF g = G THEN 1 ELSE IF g = S THEN 2 ELSE Nothing],
      layers |-> [g \in {G, S, L, P} |-> IF g = L THEN ls ELSE <<>>],
      paints |-> <<a, b, c, d, e>>]
        : ls \in layers, a \in first, b \in second, c \in third, d \in fills, e \in fills}

Known  == {Solid(TextColour), Solid(0), Solid(1), Gradient(0), Gradient(1)}
Roots  == {Layers(2, 3), Layers(3, 2), Composite(2, 3), Composite(3, 3), Scale(2), Clip(2), Colr(S)}
Middle == {Transform(3), Scale(3), ClipBy(S, 3), ClipBy(S, 4), Transform(5), Colr(S), Colr(G), Layers(3, 3)}
Leaves == {Clip(4), Clip(5), Transform(4), Colr(G)}

(* In a typical font every fill is in a clip or a move of its own. *)
Typical == FontsOf(Roots, Middle, Leaves, Known \cup {Solid(Unknown), Gradient(Unknown)}, {<<0, TextColour>>, <<1, 0>>})

(* Fills side by side. *)
Crowded == FontsOf({Composite(4, 5), Layers(4, 5)}, {Colr(S)}, {Colr(S)}, Known, {<<0, 1>>})

(* A fill moved after its clip, and one without a clip. *)
MovedFills == FontsOf({Clip(2)}, {Transform(3)}, {Solid(0), Gradient(0)}, {Solid(0)}, {<<0, 1>>})
Unclipped  == FontsOf({Transform(3)}, {Colr(S)}, {Solid(0), Gradient(0)}, {Solid(0)}, {<<0, 1>>})

(* Layers in a colour that the palette does not have. *)
BadLayers == FontsOf({Clip(4)}, {Colr(S)}, {Colr(S)}, Known, {<<0, Unknown>>})

(* Gradients in the colour of the text. *)
TextGradients == FontsOf({Clip(4)}, {Colr(S)}, {Colr(S)}, {Gradient(TextColour)}, {<<0, 1>>})
=============================================================================

----------------------------- MODULE WrittenFont -----------------------------
(***************************************************************************)
(* One font of a document: how AbstractWrittenFont and its CFF and         *)
(* TrueType versions give the glyphs of shown texts their codes, in a      *)
(* single byte ("ANSI") and in a CID representation, while the content is  *)
(* written; and the font objects that are written from the two             *)
(* representations when the document ends.  Texts are shown before the     *)
(* font objects exist: every code already in a content stream must mean    *)
(* its glyph in what is written last.                                      *)
(***************************************************************************)
EXTENDS Integers, SequencesExt

CONSTANTS
    Fonts,        \* kinds of font a document may use: records [kind, isCID, embedded, cmap]
    Texts,        \* what users show: sequences of strings, of which Tj passes one
    LastCode,     \* bound: the last code of one byte, 255 in the code
    Width,        \* the font's widths, by glyph
    WinAnsi,      \* WinAnsiEncoding::Encode: code by unicode value, where there is one
    Bullet,       \* the unicode value that TrueType fonts never encode in a byte
    StandardGlyph \* what a viewer shows for a code in WinAnsiEncoding, by code

ASSUME WrittenFontAssumption ==
    /\ \A f \in Fonts : f.kind \in {"truetype", "cff", "type1"}
    /\ LastCode \in Nat
    /\ DOMAIN StandardGlyph = 0..LastCode

Codes == 0..LastCode

VARIABLES
    font,   \* which font this is, chosen at the start
    ansi,   \* mANSIRepresentation
    cid,    \* mCIDRepresentation
    free,   \* mFreeList: the ranges of codes that a CFF font has not assigned
    count,  \* mAvailablePositionsCount
    lastID, \* object IDs allocated so far
    shown,  \* history: what the content streams show
    files   \* the font objects in the document, and the status of writing them

vars == <<font, ansi, cid, free, count, lastID, shown, files>>

Missing == [exists |-> FALSE, codes |-> <<>>, id |-> 0]
New == [Missing EXCEPT !.exists = TRUE]
isEmpty(rep) == DOMAIN rep.codes = {}
NotWritten == [status |-> "none", ids |-> {}]

Init ==
    /\ font \in Fonts
    /\ ansi = Missing /\ cid = Missing
    /\ free = <<[first |-> 1, last |-> LastCode]>> /\ count = LastCode
    /\ lastID = 0 /\ shown = {} /\ files = NotWritten

TrueType == font.kind = "truetype"
Renumbered == font.embedded /\ ~TrueType
-----------------------------------------------------------------------------
(***************************************************************************)
(* Codes of one byte in CFF and Type 1 fonts: the low byte of the unicode  *)
(* value if it is free, else the first free code.                          *)
(***************************************************************************)
Wanted(char) ==
    (IF char.unicodes # <<>> THEN Last(char.unicodes) ELSE char.glyph) % (LastCode + 1)

(* Mutant: a range is cut at the position instead of around it.            *)
CutAt(ranges, position) ==
    [i \in DOMAIN ranges |->
        IF position \in ranges[i].first..ranges[i].last
        THEN [ranges[i] EXCEPT !.first = position + 1] ELSE ranges[i]]

RemoveFromFreeList(ranges, position) ==
    LET Holds(r) == r.first <= position /\ position <= r.last
        i == SelectInSeq(ranges, Holds)
        Around(r) == (IF r.first < position THEN <<[r EXCEPT !.last = position - 1]>> ELSE <<>>)
                     \o (IF position < r.last THEN <<[r EXCEPT !.first = position + 1]>> ELSE <<>>)
    IN  IF i = 0 THEN ranges ELSE ReplaceFirstSubSeq(Around(ranges[i]), <<ranges[i]>>, ranges)

(* Mutant: .notdef gets no code of its own.                                *)
WithoutNotdef(codes) == codes

(* The code of .notdef is taken when the first glyph is encoded.           *)
WithNotdef(codes) == IF DOMAIN codes = {} THEN 0 :> 0 ELSE codes

CodeFor(codes, ranges, char) ==
    IF Wanted(char) \notin Range(codes) THEN Wanted(char) ELSE ranges[1].first

EncodeGlyph(rep, char) ==
    LET codes == WithNotdef(rep.codes)
        code == CodeFor(codes, rep.free, char)
    IN  IF char.glyph \in DOMAIN codes THEN [rep EXCEPT !.codes = codes]
        ELSE [codes |-> codes @@ (char.glyph :> code),
              free |-> RemoveFromFreeList(rep.free, code), count |-> rep.count - 1]

(* A glyph that a text repeats is counted each time.                       *)
NewIn(text) == Len(SelectSeq(text, LAMBDA char : char.glyph \notin DOMAIN ansi.codes))

HasEnoughSpaceForGlyphs(text) == NewIn(text) <= count

(***************************************************************************)
(* Codes of one byte in TrueType fonts: those of WinAnsiEncoding, from the *)
(* unicode values and whatever the glyphs are.                             *)
(***************************************************************************)
FontHasCmapsForWinAnsiEncoding == font.cmap

AddANSICandidates(text) ==
    /\ FontHasCmapsForWinAnsiEncoding
    /\ \A i \in DOMAIN text :
        /\ Len(text[i].unicodes) = 1
        /\ text[i].unicodes[1] \in DOMAIN WinAnsi \ {Bullet}

Candidate(char) == WinAnsi[char.unicodes[1]]

CanAddToANSI(text) ==
    IF TrueType THEN AddANSICandidates(text)
    ELSE ~font.isCID /\ HasEnoughSpaceForGlyphs(text)

AddToANSIRepresentation(rep, text) ==
    IF TrueType
    THEN [codes |-> FoldLeft(LAMBDA codes, char :
                         IF char.glyph \in DOMAIN codes THEN codes
                         ELSE codes @@ (char.glyph :> Candidate(char)),
                         WithNotdef(rep.codes), text),
          free |-> free, count |-> count]
    ELSE FoldLeft(EncodeGlyph, [codes |-> rep.codes, free |-> free, count |-> count], text)

(* The code of TrueType text is the candidate, known glyph or not.         *)
AnsiCode(codes, char) == IF TrueType THEN Candidate(char) ELSE codes[char.glyph]
-----------------------------------------------------------------------------
(***************************************************************************)
(* The CID representation: CIDs are glyph IDs, or places in the subset     *)
(* when the subset is renumbered.                                          *)
(***************************************************************************)
EncodeCIDGlyph(codes, glyph) == IF Renumbered THEN Cardinality(DOMAIN codes) ELSE glyph

AddToCIDRepresentation(codes, text) ==
    LET Include(known, glyph) ==
            IF glyph \in DOMAIN known THEN known
            ELSE known @@ (glyph :> EncodeCIDGlyph(known, glyph))
    IN  FoldLeft(LAMBDA known, char : Include(known, char.glyph), Include(codes, 0), text)

CanEncodeWithIncludedChars(rep, text) ==
    rep.exists /\ \A i \in DOMAIN text : text[i].glyph \in DOMAIN rep.codes

(***************************************************************************)
(* AppendGlyphs: what is included is shown as it is, CID first; CIDs once  *)
(* there are any; else codes of one byte if the text allows them.  An      *)
(* object ID is allocated when a representation first shows a text.        *)
(***************************************************************************)
Show(rep, multiByte, text, Code(_)) ==
    shown' = shown \cup {[id |-> rep.id, multiByte |-> multiByte, glyph |-> text[i].glyph,
                          code |-> Code(text[i])] : i \in DOMAIN text}

ShowIncluded(text) ==
    /\ LET rep == IF CanEncodeWithIncludedChars(cid, text) THEN cid ELSE ansi IN
        /\ CanEncodeWithIncludedChars(rep, text)
        /\ Show(rep, rep = cid, text, LAMBDA char : rep.codes[char.glyph])
    /\ UNCHANGED <<ansi, cid, free, count, lastID>>

Included(text) == \E rep \in {ansi, cid} : CanEncodeWithIncludedChars(rep, text)

(* Mutant: an ID for every text.                                           *)
WithNewID(rep, codes) == [exists |-> TRUE, codes |-> codes, id |-> lastID + 1]

WithID(rep, codes) == [exists |-> TRUE, codes |-> codes,
                       id |-> IF rep.id = 0 THEN lastID + 1 ELSE rep.id]

ShowInANSI(text) ==
    /\ ~Included(text) /\ ~cid.exists /\ CanAddToANSI(text)
    /\ LET added == AddToANSIRepresentation(ansi, text)
           rep == WithID(ansi, added.codes) IN
        /\ ansi' = rep /\ free' = added.free /\ count' = added.count
        /\ lastID' = IF ansi.id = 0 THEN lastID + 1 ELSE lastID
        /\ Show(rep, FALSE, text, LAMBDA char : AnsiCode(rep.codes, char))
    /\ UNCHANGED cid

(* Creating the CID representation leaves an ANSI one behind, possibly     *)
(* empty and without an ID.                                                *)
ShowInCID(text) ==
    /\ ~Included(text) /\ (cid.exists \/ ~CanAddToANSI(text))
    /\ ansi' = IF ansi.exists \/ cid.exists THEN ansi ELSE New
    /\ LET rep == WithID(cid, AddToCIDRepresentation(cid.codes, text)) IN
        /\ cid' = rep
        /\ lastID' = IF cid.id = 0 THEN lastID + 1 ELSE lastID
        /\ Show(rep, TRUE, text, LAMBDA char : rep.codes[char.glyph])
    /\ UNCHANGED <<free, count>>

AppendGlyphs(text) == ShowIncluded(text) \/ ShowInANSI(text) \/ ShowInCID(text)

(* Tj refuses a string without characters, TJ an array without strings.    *)
EncodeStringForShowing(text) == text # <<>> /\ AppendGlyphs(text)
EncodeStringsForShowing(strings) == strings # <<>> /\ AppendGlyphs(FlattenSeq(strings))
-----------------------------------------------------------------------------
(***************************************************************************)
(* The font objects.                                                       *)
(***************************************************************************)
(* Mutant: a representation is written when it has an ID and a glyph other *)
(* than .notdef.                                                           *)
WithGlyphs(rep) == rep.exists /\ DOMAIN rep.codes \ {0} # {} /\ rep.id # 0

Written(rep) == rep.exists /\ ~isEmpty(rep) /\ rep.id # 0

(* There are no CID fonts of Type 1.                                       *)
WriteFontDefinition ==
    /\ files' = [status |-> IF Written(cid) /\ font.kind = "type1" THEN "failed" ELSE "written",
                 ids |-> {rep.id : rep \in {r \in {ansi, cid} : Written(r)}}]
    /\ UNCHANGED <<font, ansi, cid, free, count, lastID, shown>>

(* CalculateCharacterEncodingArray: the glyphs in the order of their codes.*)
Entries(codes) == {[glyph |-> g, code |-> codes[g]] : g \in DOMAIN codes}
CharactersVector(codes) ==
    LET Below(e) == {d \in Entries(codes) : d.code < e.code}
    IN  [i \in 1..Cardinality(DOMAIN codes) |->
            CHOOSE e \in Entries(codes) : Cardinality(Below(e)) = i - 1]

(* Widths of an ANSI font: the entries are walked along with the codes, so *)
(* that none is met after two that share a code.                           *)
WidthsOf(codes) ==
    {e \in Entries(codes) : \A c, d \in Entries(codes) :
        c.code = d.code /\ c.code < e.code => c = d}

(* Differences of a CFF or Type 1 font: a number starts a run of names.    *)
(* Mutant: a run goes on across a gap of one code.                         *)
NextInRun(diffs, entry) == diffs # <<>> /\ Last(diffs).code + 2 >= entry.code

FollowsIn(diffs, entry) == diffs # <<>> /\ Last(diffs).code + 1 = entry.code

WriteEncodingDictionary(codes) ==
    LET differences == SelectSeq(CharactersVector(codes),
                                 LAMBDA e : StandardGlyph[e.code] # e.glyph)
        Next(runs, i) ==
            IF FollowsIn(SubSeq(differences, 1, i - 1), differences[i])
            THEN [runs EXCEPT ![Len(runs)].glyphs = Append(@, differences[i].glyph)]
            ELSE Append(runs, [first |-> differences[i].code, glyphs |-> <<differences[i].glyph>>])
    IN  FoldLeft(Next, <<>>, [i \in DOMAIN differences |-> i])

(* W of a CID font: runs of glyphs that are not as wide as .notdef, which  *)
(* DW stands for.                                                          *)
(* Mutant: a glyph of the default width does not end a run.                *)
GoesOn(run, entry) == TRUE

Consecutive(run, entry) == run.first + Len(run.widths) = entry.code

WriteWidths(codes) ==
    LET entries == CharactersVector(codes)
        wide == SelectSeq(entries, LAMBDA e : Width[e.glyph] # Width[entries[1].glyph])
        Next(runs, e) ==
            IF runs # <<>> /\ Consecutive(Last(runs), e)
            THEN [runs EXCEPT ![Len(runs)].widths = Append(@, Width[e.glyph])]
            ELSE Append(runs, [first |-> e.code, widths |-> <<Width[e.glyph]>>])
    IN  [DW |-> Width[entries[1].glyph], W |-> FoldLeft(Next, <<>>, wide)]

(* The embedded CFF program of a CID font holds its glyphs in the order of *)
(* their codes, with the codes as its charset.                             *)
WriteEmbeddedFont(codes) == [i \in 0..Cardinality(DOMAIN codes) - 1 |->
                                CharactersVector(codes)[i + 1].glyph]
-----------------------------------------------------------------------------
Next ==
    \/ /\ files = NotWritten /\ UNCHANGED <<font, files>>
       /\ \E strings \in Texts :
            \/ Len(strings) = 1 /\ EncodeStringForShowing(strings[1])
            \/ EncodeStringsForShowing(strings)
    \/ files = NotWritten /\ WriteFontDefinition

Spec == Init /\ [][Next]_vars
-----------------------------------------------------------------------------
(***************************************************************************)
(* What a viewer finds.                                                    *)
(***************************************************************************)
DifferenceAt(runs, code) ==
    {runs[i].glyphs[code - runs[i].first + 1] : i \in
        {j \in DOMAIN runs : code \in runs[j].first..runs[j].first + Len(runs[j].glyphs) - 1}}

AnsiGlyphs(code) ==
    LET diffs == IF TrueType THEN {} ELSE DifferenceAt(WriteEncodingDictionary(ansi.codes), code)
    IN  IF diffs # {} THEN diffs ELSE {StandardGlyph[code]}

CIDGlyphs(code) == IF Renumbered THEN {WriteEmbeddedFont(cid.codes)[code]} ELSE {code}

CIDWidths(code) ==
    LET written == WriteWidths(cid.codes)
        found == {written.W[i].widths[code - written.W[i].first + 1] : i \in
            {j \in DOMAIN written.W :
                code \in written.W[j].first..written.W[j].first + Len(written.W[j].widths) - 1}}
    IN  IF found # {} THEN found ELSE {written.DW}

Sized(codes, last) ==
    /\ 0 \in DOMAIN codes \/ DOMAIN codes = {}
    /\ \A g \in DOMAIN codes : codes[g] \in 0..last

(***************************************************************************)
(* Properties.                                                             *)
(***************************************************************************)
(* Both representations hold .notdef once they hold anything, single byte  *)
(* codes fit a byte, and as many codes are free as the count says, which   *)
(* is never below zero.                                                    *)
TypeOK ==
    /\ font \in Fonts
    /\ Sized(ansi.codes, LastCode) /\ Sized(cid.codes, 65535)
    /\ lastID \in 0..2 /\ {ansi.id, cid.id} \subseteq 0..lastID
    /\ count \in 0..LastCode
    /\ files.status \in {"none", "written", "failed"}

(* WrittenFontCFF keeps what is free three times: the ranges are in order, *)
(* apart and not empty, and hold exactly the codes no glyph has; the count *)
(* is their number; and two glyphs never share a code.                     *)
FreeListMatches ==
    ~TrueType =>
        LET holds == UNION {free[i].first..free[i].last : i \in DOMAIN free} IN
        /\ \A i \in DOMAIN free : free[i].first <= free[i].last
        /\ \A i \in 1..Len(free) - 1 : free[i].last < free[i + 1].first - 1
        /\ holds = Codes \ (Range(ansi.codes) \cup {0})
        /\ count = Cardinality(holds)
        /\ IsInjective(ansi.codes)

(* Whatever was shown since, a code in a content stream still means its    *)
(* glyph: through WinAnsiEncoding, the differences of the font or the      *)
(* order of the embedded program's glyphs.                                 *)
ShownDecodes ==
    \A s \in shown : (IF s.multiByte THEN CIDGlyphs(s.code) ELSE AnsiGlyphs(s.code)) = {s.glyph}

(* The width a viewer advances by after a shown code is that of the glyph: *)
(* an ANSI font's array and a CID font's runs give each code its own.      *)
ShownWidthsAreRight ==
    \A s \in shown :
        IF s.multiByte THEN CIDWidths(s.code) = {Width[s.glyph]}
        ELSE {e \in WidthsOf(ansi.codes) : e.code = s.code}
                = {[glyph |-> s.glyph, code |-> s.code]}

(* Every object ID that content refers to as a font is a font object of    *)
(* the document, whichever strings were shown.                             *)
FontIDsWritten ==
    files.status # "none" => /\ files.status = "written"
                             /\ files.ids = {ansi.id, cid.id} \ {0}

(* The one ID of a representation is kept: texts that are already in the   *)
(* content never see their font or its codes change.                       *)
CodesAreKept ==
    [][\A reps \in {<<ansi, ansi'>>, <<cid, cid'>>} :
          /\ reps[1].id # 0 => reps[2].id = reps[1].id
          /\ \A g \in DOMAIN reps[1].codes : /\ g \in DOMAIN reps[2].codes
                                             /\ reps[2].codes[g] = reps[1].codes[g]]_vars

(* What was shown reads as the glyphs it was made for, and is as wide.     *)
ShownIsRight ==
    /\ ShownDecodes
    /\ ShownWidthsAreRight

(* The codes of a font are kept without overlap, and each of its IDs       *)
(* becomes a font.                                                         *)
FontIsRight ==
    /\ TypeOK
    /\ FreeListMatches
    /\ FontIDsWritten
==============================================================================

---------------------------- MODULE MCWrittenFont ----------------------------
EXTENDS WrittenFont

(* Glyph 0 is .notdef; 1 A, 2 B, 3 hyphen, 4 alpha, 5 dagger, 6 florin.    *)
Char(g, u) == [glyph |-> g, unicodes |-> u]
A == Char(1, <<1>>)
B == Char(2, <<2>>)
Hyphen == Char(3, <<3>>)
SoftHyphen == Char(3, <<4>>)
Alpha == Char(4, <<9>>)
Dagger == Char(5, <<10>>)
Florin == Char(6, <<11>>)
BulletSign == Char(7, <<12>>)
Ligature == Char(8, <<1, 2>>)
NoGlyph == Char(0, <<9>>)
Unmapped == Char(9, <<>>)

MCWidth == [g \in 0..9 |-> IF g \in {0, 2} THEN 0 ELSE g % 3]
(* The excerpt of the table that matters here, florin included.            *)
MCWinAnsi == 1 :> 1 @@ 2 :> 2 @@ 3 :> 3 @@ 4 :> 4 @@ 10 :> 5 @@ 11 :> 5 @@ 12 :> 6
MCBullet == 12
(* Code 4 is the soft hyphen, shown by the font's hyphen.                  *)
MCStandardGlyph == [c \in Codes |-> CASE c <= 3 -> c [] c = 4 -> 3 [] c = 5 -> 5
                                       [] c = 6 -> 7 [] OTHER -> 0]

Font(k, i, e, c) == [kind |-> k, isCID |-> i, embedded |-> e, cmap |-> c]
Faces == {Font("truetype", FALSE, e, c) : e, c \in BOOLEAN}
         \cup {Font("cff", i, e, TRUE) : i, e \in BOOLEAN}
Type1 == {Font("type1", FALSE, TRUE, TRUE)}
AllFonts == Faces \cup Type1
CFFOnly == {Font("cff", FALSE, TRUE, TRUE)}
TrueTypeOnly == {Font("truetype", FALSE, TRUE, TRUE)}

MCTexts == {<<>>, << <<>> , <<A>> >>, << <<A, B>> >>, << <<Hyphen>>, <<A>> >>, << <<Alpha>> >>,
            << <<Dagger, A>> >>, << <<NoGlyph>> >>, << <<BulletSign>> >>, << <<Ligature>> >>, << <<Unmapped>>, <<B>> >>}
EmptyTexts == {<<>>, << <<>> >>, << <<A>> >>}
HyphenTexts == {<< <<Hyphen, SoftHyphen>> >>, << <<A>> >>}
FlorinTexts == {<< <<Florin>> >>, << <<A>> >>}
==============================================================================

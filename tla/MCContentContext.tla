-------------------------- MODULE MCContentContext --------------------------
(***************************************************************************)
(* Two fonts, the first with two representations, and a size besides the   *)
(* initial one.                                                            *)
(***************************************************************************)
EXTENDS ContentContext

CONSTANTS A, B, A1, A2, B1, F1

MCFonts     == {A, B}
MCObjectsOf == [f \in MCFonts |-> IF f = A THEN {A1, A2} ELSE {B1}]
MCSizes     == {12}
=============================================================================

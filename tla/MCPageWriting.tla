---------------------------- MODULE MCPageWriting ----------------------------
(***************************************************************************)
(* Instances of PageWriting: the values of a document.                     *)
(***************************************************************************)
EXTENDS PageWriting, TLC

CONSTANTS i1, i2, o1, a1, a2, a3

(* Addresses are alike, and so are images.                                 *)
Symmetry == Permutations({a1, a2, a3} \cap Addresses) \cup Permutations({i1, i2} \cap Images)
=============================================================================

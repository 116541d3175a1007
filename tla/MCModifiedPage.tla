--------------------------- MODULE MCModifiedPage ---------------------------
EXTENDS ModifiedPage, TLC

(* Two pages share an indirect dictionary, one inherits one whose name is  *)
(* what a number alone would give, and one has no resources and no         *)
(* contents.                                                               *)
MCPlace == "a" :> "indirect" @@ "b" :> "indirect" @@ "c" :> "inherited" @@ "d" :> "none"
MCSourceDict == "a" :> 1 @@ "b" :> 1 @@ "c" :> 2 @@ "d" :> 0
MCSourceDicts ==
    << << [name |-> <<66, 95, 48>>, object |-> -1], [name |-> <<65>>, object |-> -2] >>,
       << [name |-> <<95, 48>>, object |-> -3] >> >>
MCHasContents == [p \in Pages |-> p # "d"]
MCSourceAnnots == [p \in Pages |-> IF p = "a" THEN {"old"} ELSE {}]
Symmetry == Permutations(Handles) \cup Permutations(Links)
=============================================================================

----------------------------- MODULE MCPageTree -----------------------------
EXTENDS PageTree

NewFile == [objects |-> EmptyTree, next |-> 1, pages |-> None]

(* A catalog and a root with one page.                                     *)
FlatFile ==
    [objects |-> 1 :> OtherObject @@ 2 :> PagesObject(None, <<3>>, 1) @@ 3 :> PageObject(2),
     next |-> 4, pages |-> 2]

(* An uneven tree, its IDs out of order, with a null among the kids.       *)
NestedFile ==
    [objects |-> 1 :> PageObject(2) @@ 2 :> PagesObject(4, <<1>>, 1)
                 @@ 3 :> PageObject(4) @@ 4 :> PagesObject(None, <<3, 2, None>>, 3),
     next |-> 5, pages |-> 4]

MCOriginalFiles == {NewFile, FlatFile, NestedFile}
=============================================================================

--------------------------- MODULE MCXrefWriting ---------------------------
EXTENDS XrefWriting

NewFile == [headers |-> <<>>, xref |-> <<>>, asStream |-> FALSE]

(* Object 1 is in use, 2 is free, 3 is in an object stream.                *)
ModifiedFile ==
    [headers |-> << [id |-> 1, generation |-> 0] >>,
     xref |-> << [type |-> "Delete", position |-> 2, revision |-> MaxGeneration],
                 [type |-> "Existing", position |-> 1, revision |-> 0],
                 [type |-> "Delete", position |-> 0, revision |-> 1],
                 [type |-> "StreamObject", position |-> 1, revision |-> 0] >>,
     asStream |-> TRUE]

MCOriginalFiles == {NewFile, ModifiedFile}
=============================================================================

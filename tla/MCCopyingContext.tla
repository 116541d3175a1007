-------------------------- MODULE MCCopyingContext --------------------------
EXTENDS CopyingContext

MCObjects == 1 .. 3

Parsed == [o \in MCObjects |-> "parsed"]

(* Cycles with a self reference, a shared object behind a chain, a chain   *)
(* to a missing object, and an object that does not parse.                 *)
MCSources ==
    {[status |-> Parsed, refs |-> <<<<2, 1>>, <<3>>, <<1, 2>>>>],
     [status |-> Parsed, refs |-> <<<<2>>, <<>>, <<2, 1>>>>],
     [status |-> [Parsed EXCEPT ![3] = "missing"], refs |-> <<<<2>>, <<3, 1>>, <<>>>>],
     [status |-> [Parsed EXCEPT ![2] = "broken"], refs |-> <<<<3>>, <<1>>, <<2>>>>]}

MCRefLists == {<<3, 1>>, <<1, 2, 3>>}
=============================================================================

-------------------------- MODULE MCStreamWriting --------------------------
(***************************************************************************)
(* Every chain of encoders; a buffer that a write overflows and one that   *)
(* fills it exactly, blocks that are full, begun and empty at the end, a   *)
(* device that fails up to two times.                                      *)
(***************************************************************************)
EXTENDS StreamWriting
=============================================================================

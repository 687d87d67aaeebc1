------------------------------ MODULE MCEditor ------------------------------
(* A screen of two rows, four characters wide. *)
EXTENDS Editor

CONSTANTS x

MCFiles == {<<>>, <<x, NL>>}
=============================================================================

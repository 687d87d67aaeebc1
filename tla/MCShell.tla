------------------------------ MODULE MCShell ------------------------------
(* Four rows of three columns, lines of up to five characters. *)
EXTENDS Shell

CONSTANT x
=============================================================================

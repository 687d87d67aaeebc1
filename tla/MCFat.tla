------------------------------- MODULE MCFat -------------------------------
(* The file system on small disks.  u and v are clusters full of text. *)
EXTENDS Fat

CONSTANTS u, v

MCTexts == {<<>>, <<u>>, <<u, v>>}
=============================================================================

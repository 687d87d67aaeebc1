------------------------------- MODULE MCAta -------------------------------
(* A drive of four sectors, of which two are the partition. *)
EXTENDS Ata

CONSTANTS u, v
MCData == {u, v}
MCSectors == 0..3
=============================================================================

------------------------------- MODULE MCHeap -------------------------------
(* A heap of 104 bytes: up to six blocks of one word, of which the last   *)
(* ones lie in the 48 bytes kfree refuses.                                  *)
EXTENDS Heap

MCHeapStart == 4
MCHeapEnd == 108
MCSizes == {1, 18}
=============================================================================

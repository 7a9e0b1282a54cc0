------------------------------- MODULE MCHeap -------------------------------
(* sizeof(TCB), sizeof(context_t) and a size that is no multiple of a unit. *)
EXTENDS Heap

MCRequests == {12, 32, 64}
=============================================================================

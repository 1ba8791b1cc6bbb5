------------------------------- MODULE MCHeap -------------------------------
(* Small instances of Heap: room for four blocks of no bytes behind an     *)
(* array of four elements.                                                 *)
EXTENDS Heap, TLC

CONSTANTS c1, c2, c3

Callers == Permutations(Clients)
=============================================================================

------------------------------- MODULE MCHeap -------------------------------
(***************************************************************************)
(* The instances of the heap TLC checks.                                   *)
(***************************************************************************)
EXTENDS Heap, TLC

ClientSymmetry == Permutations(Clients)
=============================================================================

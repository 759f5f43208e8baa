----------------------------- MODULE MCMessage -----------------------------
(***************************************************************************)
(* The instance of the message queues TLC checks: two processes of the     *)
(* boot, one created later, and interchangeable nodes.                     *)
(***************************************************************************)
EXTENDS Message, TLC

NodeSymmetry == Permutations(Nodes)
=============================================================================

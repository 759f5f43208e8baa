---------------------------- MODULE MCInterrupts ----------------------------
(***************************************************************************)
(* The instance of the interrupt dispatch TLC checks: two interchangeable  *)
(* processes of ring 3 beside kernel_process and idle, the timer and one   *)
(* device.                                                                 *)
(***************************************************************************)
EXTENDS Interrupts, TLC

UserSymmetry == Permutations(Pids \ Boot)
=============================================================================

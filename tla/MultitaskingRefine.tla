------------------------- MODULE MultitaskingRefine -------------------------
(***************************************************************************)
(* Multitasking implements RoundRobin while its clock does not wrap: the   *)
(* linked list becomes the set of its elements, and status, sleep_timer    *)
(* and tick_count become the number of ticks a process still sleeps.       *)
(***************************************************************************)
EXTENDS Multitasking

TicksLeft ==
  [p \in Pids |-> IF status[p] = SLEEPING /\ sleep_timer[p] > tick_count
                  THEN sleep_timer[p] - tick_count ELSE 0]

Abstract == INSTANCE RoundRobin
  WITH alive <- ToSet(procs), running <- current,
       left <- TicksLeft, created <- num_proc

(* Every handler of int_handler and Syscall that touches the process list  *)
(* is a step of the abstract round robin: the list order, the status flags *)
(* and the comparison of absolute times in Schedule select exactly the     *)
(* process the abstract scheduler does.                                    *)
ImplementsRoundRobin == Abstract!RRSpec

=============================================================================

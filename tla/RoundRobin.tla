----------------------------- MODULE RoundRobin -----------------------------
(***************************************************************************)
(* What the scheduler of multitasking.c promises, without its linked list, *)
(* its status field and its absolute clock: the living processes form a    *)
(* set ordered by pid (newest first), and left[p] counts the timer ticks   *)
(* process p still wants to sleep.  Multitasking implements this           *)
(* specification as long as its clock does not wrap (MultitaskingRefine).  *)
(*                                                                         *)
(* Time is relative, so the model is finite without a horizon: it is where *)
(* liveness is checked.                                                    *)
(***************************************************************************)
EXTENDS Integers, FiniteSetsExt

CONSTANTS
  NULL,        \* no process runs
  MaxProc,     \* bound on the number of processes ever created
  SleepTimes   \* the arguments of set_timer

ASSUME RoundRobinAssumption ==
  /\ NULL \notin Nat
  /\ MaxProc \in Nat /\ MaxProc >= 3
  /\ SleepTimes \subseteq Nat

KernelPid  == 0
IdlePid    == 1
RamdiskPid == 2

AllPids == 0 .. MaxProc - 1

VARIABLES
  alive,    \* the pids in the process list
  running,  \* the pid of current_process
  left,     \* ticks until p wants the CPU; 0 if it wants it now
  created   \* number of processes created so far

rrvars == <<alive, running, left, created>>

RRInit ==
  /\ alive   = {KernelPid, IdlePid, RamdiskPid}
  /\ running = NULL
  /\ left    = [p \in AllPids |-> 0]
  /\ created = 3

(* Mutated form: the scan starts at the head of the list every time. *)
PickFromHead(a, r, l) ==
  LET ready == {p \in a \ {IdlePid} : l[p] = 0}
  IN  IF r = NULL THEN Max(a)
      ELSE IF ready = {} THEN IdlePid ELSE Max(ready)

(* The process that gets the CPU: the newest waiting one older than the    *)
(* running one, or the newest waiting one if the running one is the oldest *)
(* of all; idle if there is none.  With no running process it is the       *)
(* newest process, waiting or not.                                         *)
Pick(a, r, l) ==
  LET ready == {p \in a \ {IdlePid} : l[p] = 0 /\ (r = Min(a) \/ p < r)}
  IN  IF r = NULL THEN Max(a)
      ELSE IF ready = {} THEN IdlePid ELSE Max(ready)

Active == running \notin {NULL, IdlePid}

Tick ==
  /\ left'    = [p \in AllPids |-> IF left[p] > 0 THEN left[p] - 1 ELSE 0]
  /\ running' = Pick(alive, running, left')
  /\ UNCHANGED <<alive, created>>

Sleep(n) ==
  /\ Active
  /\ left'    = [left EXCEPT ![running] = n]
  /\ running' = Pick(alive, running, left')
  /\ UNCHANGED <<alive, created>>

Exit ==
  /\ Active
  /\ alive'   = alive \ {running}
  /\ left'    = [left EXCEPT ![running] = 0]
  /\ running' = Pick(alive', NULL, left')
  /\ UNCHANGED created

Spawn ==
  /\ Active
  /\ created < MaxProc
  /\ alive'   = alive \cup {created}
  /\ created' = created + 1
  /\ UNCHANGED <<running, left>>

RRNext ==
  \/ Tick
  \/ \E n \in SleepTimes : Sleep(n)
  \/ Exit
  \/ Spawn

RRSpec == RRInit /\ [][RRNext]_rrvars

(* The timer keeps firing: every process runs with the interrupt flag set  *)
(* (eflags 0x202) and user processes have no right to clear it.            *)
Fairness == WF_rrvars(Tick)

FairSpec == RRSpec /\ Fairness

-----------------------------------------------------------------------------

(* No process is starved: every process in the list, asleep or not, gets   *)
(* the CPU again or dies.  The scan of Schedule does not wrap and idle     *)
(* hands over to kernel_process only, so this rests on kernel_process      *)
(* waking up, and on a finite number of processes being created.           *)
NoStarvation ==
  \A p \in AllPids \ {IdlePid} : p \in alive ~> (running = p \/ p \notin alive)

=============================================================================

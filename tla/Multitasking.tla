---------------------------- MODULE Multitasking ----------------------------
(***************************************************************************)
(* The process list and the scheduler of the kernel                        *)
(* (hal.x86/multitasking.c), with the entries of int_handler (idt.c) and   *)
(* Syscall (syscall.c) that change them: the timer interrupt, set_timer,   *)
(* exit, launch_elf_program and the termination of a faulting process.     *)
(*                                                                         *)
(* The descriptors installed by InitInterruptDescriptors are interrupt     *)
(* gates, so a handler runs with interrupts off: each handler is one       *)
(* atomic action.  Between two handlers exactly one process owns the CPU.  *)
(*                                                                         *)
(* The singly linked list first_process ... next is the sequence procs;    *)
(* CreateUserProcess pushes at its head.  A pid is never used twice.       *)
(***************************************************************************)
EXTENDS Integers, SequencesExt

CONSTANTS
  NULL,        \* the null process pointer
  MaxProc,     \* bound on num_proc, the number of processes ever created
  TickMod,     \* tick_count is an unsigned long: arithmetic modulo 2^32
  MaxTick,     \* horizon of the clock; TickMod or more lets it wrap
  SleepTimes   \* the arguments of set_timer

ASSUME MultitaskingAssumption ==
  /\ NULL \notin Nat
  /\ MaxProc \in Nat /\ MaxProc >= 3
  /\ TickMod \in Nat \ {0}
  /\ MaxTick \in Nat
  /\ SleepTimes \subseteq Nat

Pids == 0 .. MaxProc - 1

(* The three processes InitMultitasking creates, in this order. *)
KERNEL  == 0
IDLE    == 1
RAMDISK == 2

ROOT_UID == 0

RUNNABLE == "PROCESS_RUNNABLE"
SLEEPING == "PROCESS_SLEEPING"
PAUSED   == "PROCESS_PAUSED"
FREED    == "FREED"             \* no process_t: not created yet, or kfree'd

VARIABLES
  procs,        \* first_process and the next pointers, head first
  current,      \* current_process
  num_proc,
  status,       \* process->status
  sleep_timer,  \* process->sleep_timer
  uid,          \* process->uid
  tick_count

vars == <<procs, current, num_proc, status, sleep_timer, uid, tick_count>>

(* InitMultitasking: kernel_process, idle and ramdisk_process are created, *)
(* idle is paused, and nothing runs until init() enables interrupts.       *)
InitMultitasking ==
  /\ procs       = <<RAMDISK, IDLE, KERNEL>>
  /\ num_proc    = 3
  /\ status      = [p \in Pids |-> IF p \in {KERNEL, RAMDISK} THEN RUNNABLE
                                   ELSE IF p = IDLE THEN PAUSED ELSE FREED]
  /\ sleep_timer = [p \in Pids |-> 0]
  /\ uid         = [p \in Pids |-> ROOT_UID]

Init ==
  /\ InitMultitasking
  /\ current    = NULL
  /\ tick_count = 0

-----------------------------------------------------------------------------

PosOf(list, p) == SelectInSeq(list, LAMBDA q : q = p)

(* The two tests of the loop of Schedule for the process p.  (Mutated      *)
(* form: the timer is not compared with the clock.)                        *)
ExpiredTooEarly(st, tm, now, p) == st[p] # RUNNABLE /\ tm[p] > 0

Expired(st, tm, now, p) == st[p] # RUNNABLE /\ tm[p] > 0 /\ tm[p] <= now

Ready(st, tm, now, p) == st[p] = RUNNABLE \/ Expired(st, tm, now, p)

(* Where the scan of Schedule starts: behind cur, or at the head of the    *)
(* list if cur is its last element.  (Mutated form: always at the head.)   *)
ScanStartAtHead(list, cur) == 1

ScanStart(list, cur) ==
  IF PosOf(list, cur) = Len(list) THEN 1 ELSE PosOf(list, cur) + 1

(* Mutated form: the last element of the list is not looked at. *)
NextProcessNotLast(list, cur, st, tm, now) ==
  IF cur = NULL
  THEN list[1]
  ELSE LET i == SelectInSubSeq(list, ScanStart(list, cur), Len(list) - 1,
                               LAMBDA p : Ready(st, tm, now, p))
       IN  IF i = 0 THEN IDLE ELSE list[i]

(* The process Schedule selects.  The scan runs to the end of the list and *)
(* does not wrap: it falls back to idle_process.  Without a current        *)
(* process the head of the list is taken as it is.                         *)
NextProcess(list, cur, st, tm, now) ==
  IF cur = NULL
  THEN list[1]
  ELSE LET i == SelectInSubSeq(list, ScanStart(list, cur), Len(list),
                               LAMBDA p : Ready(st, tm, now, p))
       IN  IF i = 0 THEN IDLE ELSE list[i]

(* Mutated form: the timer of a woken process stays armed. *)
ScheduleKeepTimer(list, cur, st, tm, now) ==
  LET p     == NextProcess(list, cur, st, tm, now)
      woken == cur # NULL /\ Expired(st, tm, now, p)
  IN  /\ current'     = p
      /\ status'      = IF woken THEN [st EXCEPT ![p] = RUNNABLE] ELSE st
      /\ sleep_timer' = tm

(* Schedule: select a process, wake it if its timer has expired, and make  *)
(* it the current one.  The arguments are the values of the variables when *)
(* the handler calls it.                                                   *)
Schedule(list, cur, st, tm, now) ==
  LET p     == NextProcess(list, cur, st, tm, now)
      woken == cur # NULL /\ Expired(st, tm, now, p)
  IN  /\ current'     = p
      /\ status'      = IF woken THEN [st EXCEPT ![p] = RUNNABLE] ELSE st
      /\ sleep_timer' = IF woken THEN [tm EXCEPT ![p] = 0] ELSE tm

(* Mutated forms: the process is freed but stays in the list; num_proc     *)
(* counts the living processes, so that pids come back.                    *)
KillWithoutUnlink ==
  /\ procs' = procs
  /\ Schedule(procs, NULL, [status EXCEPT ![current] = FREED],
              [sleep_timer EXCEPT ![current] = 0], tick_count)
  /\ UNCHANGED <<num_proc, uid, tick_count>>

KillReusingPids ==
  LET list == RemoveAt(procs, PosOf(procs, current))
  IN  /\ procs' = list
      /\ Schedule(list, NULL, [status EXCEPT ![current] = FREED],
                  [sleep_timer EXCEPT ![current] = 0], tick_count)
      /\ num_proc' = num_proc - 1
      /\ UNCHANGED <<uid, tick_count>>

(* KillCurrentProcess: unlink and free the current process, then schedule  *)
(* without a current one.                                                  *)
KillCurrentProcess ==
  LET list == RemoveAt(procs, PosOf(procs, current))
  IN  /\ procs' = list
      /\ Schedule(list, NULL, [status EXCEPT ![current] = FREED],
                  [sleep_timer EXCEPT ![current] = 0], tick_count)
      /\ UNCHANGED <<num_proc, uid, tick_count>>

-----------------------------------------------------------------------------

(* A process whose code can fault or execute int 0x30: the idle process is *)
(* an empty endless loop.                                                  *)
Executing == current \notin {NULL, IDLE}

(* IRQ 0: count the tick and schedule. *)
TimerInterrupt ==
  /\ tick_count < MaxTick
  /\ tick_count' = (tick_count + 1) % TickMod
  /\ Schedule(procs, current, status, sleep_timer, tick_count')
  /\ UNCHANGED <<procs, num_proc, uid>>

(* Syscall 2 (exit).  kernel_process and ramdisk_process never call it:    *)
(* they are endless loops.                                                 *)
SyscallExit ==
  /\ Executing
  /\ current \notin {KERNEL, RAMDISK}
  /\ KillCurrentProcess

(* An exception raised outside the kernel terminates the process, whatever *)
(* process it is.                                                          *)
ProcessException ==
  /\ Executing
  /\ KillCurrentProcess

(* Syscall 8 (set_timer). *)
SyscallSetTimer(n) ==
  /\ Executing
  /\ Schedule(procs, current, [status EXCEPT ![current] = SLEEPING],
              [sleep_timer EXCEPT ![current] = (tick_count + n) % TickMod],
              tick_count)
  /\ UNCHANGED <<procs, num_proc, uid, tick_count>>

(* CreateUserProcess: push a runnable process with the next pid at the     *)
(* head of the list.  It inherits the uid of the running process.          *)
CreateUserProcess ==
  /\ procs'       = <<num_proc>> \o procs
  /\ status'      = [status EXCEPT ![num_proc] = RUNNABLE]
  /\ sleep_timer' = [sleep_timer EXCEPT ![num_proc] = 0]
  /\ uid'         = [uid EXCEPT ![num_proc] = uid[current]]
  /\ num_proc'    = num_proc + 1
  /\ UNCHANGED <<current, tick_count>>

(* Syscall 9 (launch_elf_program) with a valid image.  With an invalid one *)
(* the handler leaves this state alone.                                    *)
SyscallLaunchElf ==
  /\ Executing
  /\ num_proc < MaxProc
  /\ CreateUserProcess

Next ==
  \/ TimerInterrupt
  \/ SyscallExit
  \/ ProcessException
  \/ \E n \in SleepTimes : SyscallSetTimer(n)
  \/ SyscallLaunchElf

Spec == Init /\ [][Next]_vars

-----------------------------------------------------------------------------

(* Type invariant of the scheduler state of multitasking.c. *)
TypeOK ==
  /\ procs \in Seq(Pids)
  /\ current \in Pids \cup {NULL}
  /\ num_proc \in 3 .. MaxProc
  /\ status \in [Pids -> {RUNNABLE, SLEEPING, PAUSED, FREED}]
  /\ sleep_timer \in [Pids -> 0 .. TickMod - 1]
  /\ uid \in [Pids -> Nat]
  /\ tick_count \in 0 .. TickMod - 1

(* The list is ordered by pid, the newest process at its head. *)
NewestFirst(list) == \A i, j \in 1 .. Len(list) : i < j => list[i] > list[j]

(* The linked list holds each living process once, newest first: unlinking *)
(* in KillProcess and pushing in CreateUserProcess never lose, duplicate   *)
(* or resurrect a process, so GetProcessByPid finds every living process   *)
(* and no freed one.                                                       *)
ListSound ==
  /\ NewestFirst(procs)
  /\ ToSet(procs) = {p \in Pids : status[p] # FREED}

(* current_process never dangles: whatever process was killed before, the  *)
(* current one is linked in the list and its process_t is not freed, so    *)
(* the search of KillProcess finds it before it reaches the end.           *)
CurrentListed ==
  current # NULL => Contains(procs, current) /\ status[current] # FREED

(* idle_process is never unlinked or scheduled by its status: the fallback *)
(* of Schedule always exists.                                              *)
IdleParked ==
  Contains(procs, IDLE) /\ status[IDLE] = PAUSED /\ sleep_timer[IDLE] = 0

(* Schedule leaves the CPU to idle_process only while kernel_process, the  *)
(* last element of the list, is asleep.  From idle only kernel_process is  *)
(* scanned, so this is what bounds how long idle can hold off the others.  *)
(* The exceptions are a dead kernel_process, and idle at the head of the   *)
(* list, where KillCurrentProcess takes it as it is.                       *)
IdleWaitsForKernel ==
  current = IDLE =>
    \/ status[KERNEL] = FREED
    \/ ~Ready(status, sleep_timer, tick_count, KERNEL)
    \/ procs[1] = IDLE

(* A sleeping process has an armed timer and every other process has none: *)
(* the test "sleep_timer > 0" of Schedule never strands a sleeper, not     *)
(* even after set_timer(0).  It needs a clock that does not wrap.          *)
SleepersArmed ==
  \A p \in Pids : status[p] = SLEEPING <=> sleep_timer[p] > 0

(* A sleeping process gets the CPU before its timer has expired only in    *)
(* the step that kills the running process (KillCurrentProcess takes the   *)
(* head of the list whatever its status).                                  *)
NoEarlyResume ==
  [][\A p \in Pids :
       /\ status[p] = SLEEPING /\ current # p /\ current' = p
       /\ procs' = procs
       => sleep_timer[p] <= tick_count' /\ status'[p] = RUNNABLE]_vars

=============================================================================

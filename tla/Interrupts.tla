----------------------------- MODULE Interrupts -----------------------------
(***************************************************************************)
(* int_handler (hal.x86/idt.c): interrupts, exceptions and system calls,   *)
(* with the table irqHandlers of the processes that registered a line, and *)
(* with the kernel stacks.  The queues are those of Mailbox.  Schedule may *)
(* choose any living process here: which one is the subject of             *)
(* Multitasking.                                                           *)
(*                                                                         *)
(* The processor pushes the registers of an interrupted process of ring 3  *)
(* at tss[1], and those of ring 0 on the stack it is using.  Schedule      *)
(* keeps the place in current_process->state, and int_handler sets tss[1]  *)
(* to the end of the frame it returns to.  A place is a pair: whose kernel *)
(* stack, and whether at its end or deeper.                                *)
(***************************************************************************)
EXTENDS Mailbox

CONSTANTS
  NULL,    \* the null process pointer, and the stack of init()
  KERNEL,  \* kernel_process, whose pid 0 also means "no handler"
  IDLE,    \* the idle process
  Lines    \* the interrupt vectors that devices raise

(* The vectors InitInterruptDescriptors installs: the exceptions, the      *)
(* interrupts of the two controllers, and the system call.  All are        *)
(* interrupt gates, so that handlers are not interrupted.                  *)
Gates == 0 .. 18 \cup 32 .. 48
TIMER == 32

(* NUM_HANDLERS: the first index behind the table irqHandlers.  It stands  *)
(* for all indices outside of the table, which are not checked.            *)
OUTSIDE == 48

ASSUME InterruptAssumption ==
  /\ NULL \notin Pids
  /\ KERNEL \in Boot /\ IDLE \in Boot
  /\ Lines \subseteq Gates \cap 32 .. 47 /\ TIMER \in Lines

VARIABLES
  current,      \* current_process
  irqHandlers,  \* the pid registered for a line; at OUTSIDE, what was written
                \* outside of the table, NULL for nothing
  state,        \* process->state: where the frame of a process is
  tss           \* tss[1]: the kernel stack the processor uses next

interruptVars == <<alive, unborn, graves, queue, sends, seen,
                   current, irqHandlers, state, tss>>

Top(p)  == [stack |-> p, at |-> "end"]
Deep(p) == [stack |-> p, at |-> "deeper"]

(* init() runs on the stack of the boot loader; CreateKernelProcess puts   *)
(* the first frame at the end of a new stack.                              *)
InterruptInit ==
  /\ MailboxInit
  /\ current     = NULL
  /\ irqHandlers = [n \in Lines \cup {OUTSIDE} |-> IF n = OUTSIDE THEN NULL ELSE KERNEL]
  /\ state       = [p \in Pids |-> Top(p)]
  /\ tss         = Top(NULL)

Ring3 == current \notin Boot \cup {NULL}

(* cpu_old: where the processor has pushed the registers. *)
Frame == IF Ring3 THEN tss ELSE Deep(current)

(* A process whose code can fault or execute int 0x30. *)
Executing == current \notin {NULL, IDLE}

-----------------------------------------------------------------------------

(* Schedule, and the assignment to tss[1] that follows it. *)
Schedule ==
  /\ state' = IF current = NULL THEN state ELSE [state EXCEPT ![current] = Frame]
  /\ current' \in alive
  /\ tss' = state'[current']

(* The message of an interrupt: from the process p that is running, to the *)
(* handler.  Without a living handler there is none.                       *)
SendInterrupt(n, p) ==
  LET handler == irqHandlers[n]
  IN  IF handler # KERNEL /\ handler \in alive
      THEN Send(p, handler)
      ELSE UNCHANGED mailboxVars

(* IRQ 0: the message is sent in the name of the process just scheduled. *)
TimerInterrupt ==
  /\ Schedule
  /\ SendInterrupt(TIMER, current')
  /\ UNCHANGED irqHandlers

(* Any other interrupt returns to the process it interrupted. *)
DeviceInterrupt(n) ==
  /\ n # TIMER
  /\ SendInterrupt(n, current)
  /\ UNCHANGED <<current, irqHandlers, state, tss>>

(* KillCurrentProcess, with and without (mutated form) the assignment to   *)
(* tss[1] that follows it.                                                 *)
KillKeepingStack ==
  /\ Exit(current)
  /\ current' \in alive'
  /\ UNCHANGED <<irqHandlers, state, tss>>

KillCurrentProcess ==
  /\ Exit(current)
  /\ current' \in alive'
  /\ tss' = state[current']
  /\ UNCHANGED <<irqHandlers, state>>

(* A vector below 32 raised by a process.  Nothing removes its pid from    *)
(* irqHandlers.                                                            *)
ProcessException ==
  /\ Executing
  /\ KillCurrentProcess

SyscallExit ==
  /\ Ring3
  /\ KillCurrentProcess

SyscallSetTimer ==
  /\ Executing
  /\ Schedule
  /\ UNCHANGED mailboxVars
  /\ UNCHANGED irqHandlers

(* The other system calls return to the caller. *)
Return ==
  /\ tss' = Frame
  /\ UNCHANGED <<current, state>>

(* send_message: without a receiver nothing is sent. *)
SyscallSend(r) ==
  /\ Executing
  /\ IF r \in alive THEN Send(current, r) ELSE UNCHANGED mailboxVars
  /\ Return
  /\ UNCHANGED irqHandlers

(* receive_message: without a message that suits, nothing is received. *)
SyscallReceive ==
  /\ Executing
  /\ \/ ReceiveAny(current)
     \/ \E who \in Pids : ReceiveFrom(current, who)
     \/ UNCHANGED mailboxVars
  /\ Return
  /\ UNCHANGED irqHandlers

(* launch_elf_program: CreateUserProcess puts the first frame at the end   *)
(* of a new stack.                                                         *)
SyscallLaunchElf(p) ==
  /\ Executing
  /\ Create(p)
  /\ Return
  /\ UNCHANGED irqHandlers

(* What is found at an index: outside of the table any word. *)
Found(n) == IF n = OUTSIDE THEN Pids ELSE {irqHandlers[n]}

(* register_irq.  All processes have the uid of root. *)
registerHandlerProcess(n) ==
  /\ Ring3
  /\ \E word \in Found(n) :
       irqHandlers' = IF word # KERNEL THEN irqHandlers
                      ELSE [irqHandlers EXCEPT ![n] = current]
  /\ Return
  /\ UNCHANGED mailboxVars

(* Mutated form: the caller is not compared with the registered process. *)
resetAnyHandler(n) ==
  /\ Ring3
  /\ irqHandlers' = [irqHandlers EXCEPT ![n] = KERNEL]
  /\ Return
  /\ UNCHANGED mailboxVars

resetHandlerProcess(n) ==
  /\ Ring3
  /\ \E word \in Found(n) :
       irqHandlers' = IF word = current THEN [irqHandlers EXCEPT ![n] = KERNEL] ELSE irqHandlers
  /\ Return
  /\ UNCHANGED mailboxVars

(* A word written outside of the table may be any variable of the kernel:  *)
(* the behaviour ends there.                                               *)
Intact == irqHandlers[OUTSIDE] = NULL

InterruptNext ==
  /\ Intact
  /\ \/ TimerInterrupt
     \/ \E n \in Lines : DeviceInterrupt(n)
     \/ ProcessException
     \/ SyscallExit
     \/ SyscallSetTimer
     \/ \E r \in Pids : SyscallSend(r)
     \/ SyscallReceive
     \/ \E p \in Pids : SyscallLaunchElf(p)
     \/ \E n \in Lines \cup {OUTSIDE} : registerHandlerProcess(n)
     \/ \E n \in Lines \cup {OUTSIDE} : resetHandlerProcess(n)

InterruptSpec == InterruptInit /\ [][InterruptNext]_interruptVars

-----------------------------------------------------------------------------

(* The kernel stacks are never confused: a process of ring 3 runs with     *)
(* tss[1] at the end of its own kernel stack, and the frame a process will *)
(* be resumed from lies on its own stack (at the end of it, for a process  *)
(* of ring 3), through any sequence of interrupts, system calls and deaths.*)
(* So no interrupt overwrites the frame of another process, and none is    *)
(* pushed onto the stack KillProcess has freed.                            *)
StacksOwned ==
  /\ current # NULL => current \in alive
  /\ Ring3 => tss = Top(current)
  /\ \A p \in alive : state[p] \in IF p \in Boot THEN {Top(p), Deep(p)} ELSE {Top(p)}

(* Only the process that registered a line releases it, and then first the *)
(* line becomes free: so the interrupts of a line never change their       *)
(* receiver behind its back, and the line of a dead process stays taken    *)
(* for ever (KillProcess does not call removeHandlerProcess).              *)
ReleasedByOwner ==
  [][\A n \in Lines :
       irqHandlers[n] # KERNEL /\ irqHandlers'[n] # irqHandlers[n]
         => irqHandlers[n] \in alive /\ irqHandlers[n] = current
            /\ irqHandlers'[n] = KERNEL]_interruptVars

=============================================================================

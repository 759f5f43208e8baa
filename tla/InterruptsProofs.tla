-------------------------- MODULE InterruptsProofs --------------------------
(***************************************************************************)
(* The kernel stacks, the table of interrupt handlers and the messages of  *)
(* int_handler, for any number of processes, lines and messages.           *)
(***************************************************************************)
EXTENDS Interrupts, MailboxProofs

Indices == Lines \cup {OUTSIDE}

Places == [stack : Pids \cup {NULL}, at : {"end", "deeper"}]

InterruptTypeOK ==
  /\ alive \subseteq Pids /\ unborn \subseteq Pids
  /\ current \in Pids \cup {NULL}
  /\ irqHandlers \in [Indices -> Pids \cup {NULL}]
  /\ state \in [Pids -> Places]
  /\ tss \in Places

(* A process that does not exist yet has its first frame at the end of its *)
(* stack, and is not one of the boot.                                      *)
UnbornFresh ==
  /\ unborn \cap (alive \cup Boot) = {}
  /\ \A p \in unborn : state[p] = Top(p)

(* StacksOwned needs to know what a new process starts with. *)
InterruptInv == InterruptTypeOK /\ StacksOwned /\ UnbornFresh

-----------------------------------------------------------------------------

(* The places of frames. *)
LEMMA PlaceTypes ==
  ASSUME NEW p \in Pids \cup {NULL} PROVE Top(p) \in Places /\ Deep(p) \in Places
  BY DEF Places, Top, Deep

(* Where the frame of a running process is pushed: on its own stack. *)
LEMMA FrameOwned ==
  ASSUME InterruptInv, current # NULL
  PROVE  /\ current \in alive /\ current \in Pids
         /\ Frame \in Places
         /\ Frame \in IF current \in Boot THEN {Top(current), Deep(current)}
                      ELSE {Top(current)}
<1>1. current \in alive /\ current \in Pids
  BY DEF InterruptInv, InterruptTypeOK, StacksOwned
<1>2. CASE current \in Boot
  BY <1>1, <1>2, PlaceTypes DEF Frame, Ring3
<1>3. CASE current \notin Boot
  <2>1. Ring3 /\ tss = Top(current)
    BY <1>1, <1>3 DEF Ring3, InterruptInv, StacksOwned
  <2> QED BY <2>1, <1>1, <1>3, PlaceTypes DEF Frame
<1> QED BY <1>1, <1>2, <1>3

(* The state after init() satisfies the invariant. *)
LEMMA InterruptInitInv == InterruptInit => InterruptInv
<1> SUFFICES ASSUME InterruptInit PROVE InterruptInv
  OBVIOUS
<1>1. /\ alive = Boot /\ unborn = Pids \ Boot /\ current = NULL
      /\ irqHandlers = [n \in Indices |-> IF n = OUTSIDE THEN NULL ELSE KERNEL]
      /\ state = [p \in Pids |-> Top(p)] /\ tss = Top(NULL)
  BY DEF InterruptInit, MailboxInit, Indices
<1>2. Boot \subseteq Pids /\ KERNEL \in Boot /\ NULL \notin Pids
  BY MailboxAssumption, InterruptAssumption
<1>3. InterruptTypeOK
  BY <1>1, <1>2, PlaceTypes DEF InterruptTypeOK
<1>4. StacksOwned /\ UnbornFresh
  BY <1>1, <1>2 DEF StacksOwned, UnbornFresh, Ring3
<1> QED BY <1>3, <1>4 DEF InterruptInv

(* Schedule resumes any living process with tss[1] at the end of the frame *)
(* the process was interrupted with.                                       *)
LEMMA ScheduleInv ==
  ASSUME InterruptInv, Schedule, alive' = alive, unborn' = unborn,
         irqHandlers' = irqHandlers
  PROVE  InterruptInv'
<1>1. alive \subseteq Pids /\ state \in [Pids -> Places] /\ NULL \notin Pids
  BY InterruptAssumption DEF InterruptInv, InterruptTypeOK
<1>2. current' \in alive /\ current' \in Pids /\ tss' = state'[current']
  BY <1>1 DEF Schedule
<1>3. /\ state' \in [Pids -> Places]
      /\ \A p \in Pids : p # current => state'[p] = state[p]
      /\ current # NULL => state'[current] = Frame
  <2>1. CASE current = NULL
    BY <2>1, <1>1 DEF Schedule
  <2>2. CASE current # NULL
    BY <2>2, <1>1, FrameOwned DEF Schedule
  <2> QED BY <2>1, <2>2
<1>4. \A p \in alive : state'[p] \in IF p \in Boot THEN {Top(p), Deep(p)} ELSE {Top(p)}
  <2> TAKE p \in alive
  <2>1. CASE p = current
    BY <2>1, <1>1, <1>3, FrameOwned
  <2>2. CASE p # current
    BY <2>2, <1>1, <1>3 DEF InterruptInv, StacksOwned
  <2> QED BY <2>1, <2>2
<1>5. InterruptTypeOK'
  BY <1>2, <1>3 DEF InterruptInv, InterruptTypeOK
<1>6. StacksOwned'
  <2>1. Ring3' => tss' = Top(current')
    BY <1>2, <1>4 DEF Ring3
  <2> QED BY <2>1, <1>1, <1>2, <1>4 DEF StacksOwned
<1>7. UnbornFresh'
  <2>1. ASSUME NEW p \in unborn PROVE p \in Pids /\ p # current
    BY FrameOwned, <1>1 DEF InterruptInv, InterruptTypeOK, UnbornFresh
  <2> QED BY <2>1, <1>3 DEF InterruptInv, UnbornFresh
<1> QED BY <1>5, <1>6, <1>7 DEF InterruptInv

(* A system call that returns to its caller. *)
LEMMA ReturnInv ==
  ASSUME InterruptInv, Executing, Return, alive' = alive, unborn' = unborn,
         irqHandlers' \in [Indices -> Pids \cup {NULL}]
  PROVE  InterruptInv'
<1>1. current # NULL /\ current' = current /\ state' = state /\ tss' = Frame
  BY DEF Executing, Return
<1>2. /\ current \in alive /\ current \in Pids /\ Frame \in Places
      /\ current \notin Boot => Frame = Top(current)
  BY <1>1, FrameOwned
<1>3. InterruptTypeOK'
  BY <1>1, <1>2 DEF InterruptInv, InterruptTypeOK
<1>4. StacksOwned' /\ UnbornFresh'
  BY <1>1, <1>2 DEF InterruptInv, StacksOwned, UnbornFresh, Ring3
<1> QED BY <1>3, <1>4 DEF InterruptInv

(* The death of the current process. *)
LEMMA KillInv ==
  ASSUME InterruptInv, KillCurrentProcess
  PROVE  InterruptInv'
<1>1. /\ current \in alive /\ alive' = alive \ {current} /\ unborn' = unborn
      /\ current' \in alive' /\ tss' = state[current']
      /\ irqHandlers' = irqHandlers /\ state' = state
  BY DEF KillCurrentProcess, Exit
<1>2. alive \subseteq Pids /\ NULL \notin Pids /\ state \in [Pids -> Places]
  BY InterruptAssumption DEF InterruptInv, InterruptTypeOK
<1>3. InterruptTypeOK'
  BY <1>1, <1>2 DEF InterruptInv, InterruptTypeOK
<1>4. StacksOwned' /\ UnbornFresh'
  BY <1>1, <1>2 DEF InterruptInv, StacksOwned, UnbornFresh, Ring3
<1> QED BY <1>3, <1>4 DEF InterruptInv

(* The birth of a process: its first frame is at the end of its own stack. *)
LEMMA LaunchInv ==
  ASSUME InterruptInv, NEW p \in Pids, SyscallLaunchElf(p)
  PROVE  InterruptInv'
<1>1. /\ p \in unborn /\ alive' = alive \cup {p} /\ unborn' = unborn \ {p}
      /\ irqHandlers' = irqHandlers
      /\ current' = current /\ state' = state /\ tss' = Frame
  BY DEF SyscallLaunchElf, Create, Return
<1>2. current # NULL
  BY DEF SyscallLaunchElf, Executing
<1>3. /\ current \in alive /\ current \in Pids /\ Frame \in Places
      /\ current \notin Boot => Frame = Top(current)
  BY <1>2, FrameOwned
<1>4. InterruptTypeOK'
  BY <1>1, <1>3 DEF InterruptInv, InterruptTypeOK
<1>5. p \notin Boot /\ state[p] = Top(p)
  BY <1>1 DEF InterruptInv, UnbornFresh
<1>6. StacksOwned'
  BY <1>1, <1>3, <1>5 DEF InterruptInv, StacksOwned, Ring3
<1>7. UnbornFresh'
  BY <1>1 DEF InterruptInv, UnbornFresh
<1> QED BY <1>4, <1>6, <1>7 DEF InterruptInv

-----------------------------------------------------------------------------

(* Messages leave the processes as they are. *)
LEMMA MessagesKeepProcesses ==
  /\ UNCHANGED mailboxVars => alive' = alive /\ unborn' = unborn
  /\ \A s, r : Send(s, r) => alive' = alive /\ unborn' = unborn
  /\ \A p : ReceiveAny(p) => alive' = alive /\ unborn' = unborn
  /\ \A p, who : ReceiveFrom(p, who) => alive' = alive /\ unborn' = unborn
  BY DEF mailboxVars, Send, ReceiveAny, ReceiveFrom, Take

(* A process of ring 3 can execute int 0x30. *)
LEMMA Ring3Executes == Ring3 => Executing
  BY InterruptAssumption DEF Ring3, Executing

(* Every interrupt, exception and system call keeps the invariant. *)
LEMMA InterruptNextInv ==
  InterruptInv /\ [InterruptNext]_interruptVars => InterruptInv'
<1> SUFFICES ASSUME InterruptInv, [InterruptNext]_interruptVars PROVE InterruptInv'
  OBVIOUS
<1>0. irqHandlers \in [Indices -> Pids \cup {NULL}] /\ KERNEL \in Pids /\ (Ring3 => current \in Pids)
  BY InterruptAssumption, MailboxAssumption DEF InterruptInv, InterruptTypeOK, Ring3
<1>1. CASE TimerInterrupt
  BY <1>1, ScheduleInv, MessagesKeepProcesses DEF TimerInterrupt, SendInterrupt
<1>2. ASSUME NEW n \in Lines, DeviceInterrupt(n) PROVE InterruptInv'
  <2>1. /\ alive' = alive /\ unborn' = unborn /\ current' = current
        /\ irqHandlers' = irqHandlers /\ state' = state /\ tss' = tss
    BY <1>2, MessagesKeepProcesses DEF DeviceInterrupt, SendInterrupt
  <2> QED BY <2>1 DEF InterruptInv, InterruptTypeOK, StacksOwned, UnbornFresh, Ring3
<1>3. CASE ProcessException
  BY <1>3, KillInv DEF ProcessException
<1>4. CASE SyscallExit
  BY <1>4, KillInv DEF SyscallExit
<1>5. CASE SyscallSetTimer
  BY <1>5, ScheduleInv, MessagesKeepProcesses DEF SyscallSetTimer
<1>6. ASSUME NEW r \in Pids, SyscallSend(r) PROVE InterruptInv'
  BY <1>6, <1>0, ReturnInv, MessagesKeepProcesses DEF SyscallSend
<1>7. CASE SyscallReceive
  BY <1>7, <1>0, ReturnInv, MessagesKeepProcesses DEF SyscallReceive
<1>8. ASSUME NEW p \in Pids, SyscallLaunchElf(p) PROVE InterruptInv'
  BY <1>8, LaunchInv
<1>9. ASSUME NEW n \in Indices, registerHandlerProcess(n) PROVE InterruptInv'
  <2>1. irqHandlers' \in [Indices -> Pids \cup {NULL}]
    BY <1>9, <1>0 DEF registerHandlerProcess
  <2> QED BY <2>1, <1>9, ReturnInv, Ring3Executes, MessagesKeepProcesses
          DEF registerHandlerProcess
<1>10. ASSUME NEW n \in Indices, resetHandlerProcess(n) PROVE InterruptInv'
  <2>1. irqHandlers' \in [Indices -> Pids \cup {NULL}]
    BY <1>10, <1>0 DEF resetHandlerProcess
  <2> QED BY <2>1, <1>10, ReturnInv, Ring3Executes, MessagesKeepProcesses
          DEF resetHandlerProcess
<1>11. CASE UNCHANGED interruptVars
  BY <1>11 DEF interruptVars, InterruptInv, InterruptTypeOK, StacksOwned, UnbornFresh, Ring3
<1> QED BY <1>1, <1>2, <1>3, <1>4, <1>5, <1>6, <1>7, <1>8, <1>9, <1>10, <1>11
        DEF InterruptNext, Indices

(* The inductive invariant holds in every reachable state. *)
THEOREM InterruptInvariant == InterruptSpec => []InterruptInv
  BY InterruptInitInv, InterruptNextInv, PTL DEF InterruptSpec

(* The kernel stacks are never confused, for any number of processes: no   *)
(* interrupt overwrites the frame of another process or uses a stack that  *)
(* KillProcess has freed.                                                  *)
THEOREM StacksAreOwned == InterruptSpec => []StacksOwned
<1>1. InterruptInv => StacksOwned
  BY DEF InterruptInv
<1> QED BY <1>1, InterruptInvariant, PTL

-----------------------------------------------------------------------------

(* What one step does to the table of handlers. *)
LEMMA StepReleases ==
  ASSUME InterruptInv, [InterruptNext]_interruptVars, NEW n \in Lines,
         irqHandlers[n] # KERNEL, irqHandlers'[n] # irqHandlers[n]
  PROVE  /\ irqHandlers[n] \in alive /\ irqHandlers[n] = current
         /\ irqHandlers'[n] = KERNEL
<1>0. irqHandlers \in [Indices -> Pids \cup {NULL}] /\ n \in Indices /\ n # OUTSIDE
  BY InterruptAssumption DEF InterruptInv, InterruptTypeOK, Indices, OUTSIDE
<1>1. irqHandlers' # irqHandlers
  OBVIOUS
<1>2. PICK m \in Indices : registerHandlerProcess(m) \/ resetHandlerProcess(m)
  BY <1>1 DEF InterruptNext, Indices, interruptVars, TimerInterrupt, DeviceInterrupt,
              ProcessException, SyscallExit, KillCurrentProcess, SyscallSetTimer,
              SyscallSend, SyscallReceive, SyscallLaunchElf
<1>3. CASE registerHandlerProcess(m)
  BY <1>0, <1>3 DEF registerHandlerProcess, Found
<1>4. CASE resetHandlerProcess(m)
  <2>1. irqHandlers[m] = current /\ m = n /\ irqHandlers'[n] = KERNEL
    BY <1>0, <1>4 DEF resetHandlerProcess, Found
  <2>2. current # NULL
    BY <1>4 DEF resetHandlerProcess, Ring3
  <2> QED BY <2>1, <2>2, FrameOwned
<1> QED BY <1>2, <1>3, <1>4

(* A line is released by the living process that registered it and by      *)
(* nobody else, for any number of processes and lines.                     *)
THEOREM OwnersRelease == InterruptSpec => ReleasedByOwner
<1>1. InterruptInv /\ [InterruptNext]_interruptVars
        => [\A n \in Lines :
              irqHandlers[n] # KERNEL /\ irqHandlers'[n] # irqHandlers[n]
                => irqHandlers[n] \in alive /\ irqHandlers[n] = current
                   /\ irqHandlers'[n] = KERNEL]_interruptVars
  BY StepReleases
<1> QED BY <1>1, InterruptInvariant, PTL DEF InterruptSpec, ReleasedByOwner

-----------------------------------------------------------------------------

(* Every interrupt, exception and system call is a step of the queues, or  *)
(* leaves them alone.                                                      *)
LEMMA StepUsesMailbox ==
  InterruptInv /\ [InterruptNext]_interruptVars => [MailboxNext]_mailboxVars
<1> SUFFICES ASSUME InterruptInv, [InterruptNext]_interruptVars
             PROVE  [MailboxNext]_mailboxVars
  OBVIOUS
<1>0. alive \subseteq Pids /\ irqHandlers \in [Indices -> Pids \cup {NULL}] /\ TIMER \in Lines
  BY InterruptAssumption DEF InterruptInv, InterruptTypeOK
<1>1. ASSUME NEW n \in Lines, NEW p, SendInterrupt(n, p) PROVE [MailboxNext]_mailboxVars
  BY <1>0, <1>1 DEF SendInterrupt, Send, MailboxNext
<1>2. CASE TimerInterrupt
  BY <1>0, <1>1, <1>2 DEF TimerInterrupt
<1>3. ASSUME NEW n \in Lines, DeviceInterrupt(n) PROVE [MailboxNext]_mailboxVars
  BY <1>1, <1>3 DEF DeviceInterrupt
<1>4. CASE KillCurrentProcess
  BY <1>0, <1>4 DEF KillCurrentProcess, Exit, MailboxNext
<1>5. ASSUME NEW r \in Pids, SyscallSend(r) PROVE [MailboxNext]_mailboxVars
  BY <1>0, <1>5 DEF SyscallSend, Send, MailboxNext
<1>6. CASE SyscallReceive
  BY <1>0, <1>6 DEF SyscallReceive, ReceiveAny, ReceiveFrom, MailboxNext
<1>7. ASSUME NEW p \in Pids, SyscallLaunchElf(p) PROVE [MailboxNext]_mailboxVars
  BY <1>7 DEF SyscallLaunchElf, MailboxNext
<1>8. CASE UNCHANGED mailboxVars
  BY <1>8
<1> QED BY <1>2, <1>3, <1>4, <1>5, <1>6, <1>7, <1>8
        DEF InterruptNext, interruptVars, mailboxVars, ProcessException, SyscallExit,
            SyscallSetTimer, registerHandlerProcess, resetHandlerProcess

(* int_handler implements the queues: whatever interrupts, faults, kills   *)
(* and launches do, the messages behave as Mailbox says.                   *)
THEOREM InterruptsUseMailbox == InterruptSpec => MailboxSpec
<1>1. InterruptInit => MailboxInit
  BY DEF InterruptInit
<1> QED BY <1>1, StepUsesMailbox, InterruptInvariant, PTL DEF InterruptSpec, MailboxSpec

(* So the messages of interrupts and those of processes arrive in order,   *)
(* also those sent in the name of the process just scheduled.              *)
THEOREM InterruptOrder == InterruptSpec => []SenderOrder
  BY InterruptsUseMailbox, OrderIsKept, PTL

=============================================================================

------------------------------ MODULE Servers ------------------------------
(***************************************************************************)
(* The two servers of the kernel and their clients: kernel_process         *)
(* (kernel-process.c), which launches the first programs from the RAM disk *)
(* and then keeps the registry of services, and ramdisk_process            *)
(* (ramdisk.c), which answers requests for files.  Both run with           *)
(* interrupts on: clients send and die between the receiving of a message  *)
(* and the sending of the answer.  What a server does with its own state   *)
(* in between commutes with the steps of the others and is one step with   *)
(* the receiving.                                                          *)
(*                                                                         *)
(* Queues are first in, first out (Mailbox); a message to a dead process   *)
(* is dropped.  Messages of pid 0, which kernel_process ignores, do not    *)
(* occur: it does not send to itself.                                      *)
(*                                                                         *)
(* claims and owed are history: the registrations asked for, and the       *)
(* number of answers a server has yet to send to a program.                *)
(***************************************************************************)
EXTENDS Ramdisk, FiniteSets

CONSTANTS
  KERNEL, RAMDISK,  \* the two servers
  Programs,         \* the programs kernel_process launches, by file name
  Archives,         \* the archives the boot loader may have loaded
  ServiceNames,     \* names services are registered under, none longer than
                    \* the field name of service_t (254 characters)
  FileRequests,     \* requests to ramdisk_process
  MaxAsks           \* bound on the number of requests

ASSUME ServersAssumption ==
  /\ \A a \in Archives : Loadable(a) /\ Len(a) # 0  \* an assertion of InitRamdisk
  /\ MaxAsks \in Nat
  /\ KERNEL # RAMDISK /\ {KERNEL, RAMDISK} \cap Programs = {}
  /\ NULL \notin Programs           \* no program has the pid 0
  /\ \A rq \in FileRequests :
       /\ rq.signal \in {"open", "stat", "read", "unknown"}
       /\ rq.signal = "read" => rq.offset \in Nat /\ rq.size \in Nat

VARIABLES
  archive,   \* the archive the boot loader has loaded
  memory,    \* the memory it lies in
  files,     \* the array files of ramdisk.c
  alive,     \* the programs that run
  inbox,     \* inbox[p]: the messages waiting for a server, and all the
             \* answers sent to a program: when it receives them has no
             \* influence on the servers
  services,  \* the list service_start, newest first
  kernel,    \* where kernel_process is, and its buffer msg
  ramdisk,   \* where ramdisk_process is, and its buffer msg
  asks,      \* number of requests sent so far
  claims, owed

diskVars == <<archive, memory, files>>

serverVars == <<diskVars, alive, inbox, services, kernel, ramdisk,
                asks, claims, owed>>

(* The requests to kernel_process: signals 1 and 2, and 3, which has no    *)
(* effect and no answer (like any unknown signal).                         *)
KernelRequests ==
  [signal : {"register", "get"}, name : ServiceNames] \cup {[signal |-> "remove"]}

NoAnswer(rq) == rq.signal \in {"remove", "unknown"}

ServersInit ==
  /\ archive \in Archives
  /\ memory   = Memory(archive)
  /\ files    = add_files_to_list(memory)
  /\ alive    = {}
  /\ inbox    = [p \in Programs \cup {KERNEL, RAMDISK} |-> <<>>]
  /\ services = <<>>
  /\ kernel   = [at |-> "launch", msg |-> NULL]
  /\ ramdisk  = [at |-> "mount", msg |-> NULL]
  /\ asks     = 0
  /\ claims   = {}
  /\ owed     = [server \in {KERNEL, RAMDISK} |-> [c \in Programs |-> 0]]

-----------------------------------------------------------------------------
(* The programs, which may send any request and die at any moment.         *)

(* Whether a service asked for is already asked to be registered. *)
Known(rq) == rq.signal = "get" /\ \E c \in Programs : <<rq.name, c>> \in claims

Ask(c, server, rq) ==
  /\ c \in alive
  /\ asks < MaxAsks
  /\ asks' = asks + 1
  /\ inbox' = [inbox EXCEPT ![server] =
                 Append(@, [sender |-> c, rq |-> rq, known |-> Known(rq)])]
  /\ claims' = IF rq.signal = "register" THEN claims \cup {<<rq.name, c>>} ELSE claims
  /\ owed' = IF NoAnswer(rq) THEN owed ELSE [owed EXCEPT ![server][c] = @ + 1]
  /\ UNCHANGED <<diskVars, alive, services, kernel, ramdisk>>

Die(c) ==
  /\ c \in alive
  /\ alive' = alive \ {c}
  /\ UNCHANGED <<diskVars, inbox, services, kernel, ramdisk, asks, claims, owed>>

(* send_message of a server to the sender of its message. *)
Reply(server, msg) ==
  IF msg.sender \in alive
  THEN /\ inbox' = [inbox EXCEPT ![msg.sender] =
                      Append(@, [server |-> server, rq |-> msg.rq,
                                 known |-> msg.known, answer |-> msg.answer])]
       /\ owed' = [owed EXCEPT ![server][msg.sender] = @ - 1]
  ELSE UNCHANGED <<inbox, owed>>

Answered(msg, answer) ==
  [sender |-> msg.sender, rq |-> msg.rq, known |-> msg.known, answer |-> answer]

-----------------------------------------------------------------------------
(* kernel_process. *)

(* Launch the programs.  Without the file the address is 0, where no image *)
(* is, and nothing is launched.                                            *)
KernelLaunch ==
  /\ kernel.at = "launch"
  /\ alive' = {c \in Programs : RamDiskFileContent(memory, files, <<".", c>>) # 0}
  /\ kernel' = [kernel EXCEPT !.at = "receive"]
  /\ UNCHANGED <<diskVars, inbox, services, ramdisk, asks, claims, owed>>

(* The message received, if it is a request of that kind. *)
KernelReceives(signal) ==
  /\ kernel.at = "receive"
  /\ inbox[KERNEL] # <<>>
  /\ Head(inbox[KERNEL]).rq.signal = signal
  /\ inbox' = [inbox EXCEPT ![KERNEL] = Tail(@)]

(* The service pid of a name: that of its newest registration, or 0. *)
ServicePid(name) ==
  LET i == SelectInSeq(services, LAMBDA s : s.name = name)
  IN  IF i = 0 THEN NULL ELSE services[i].pid

(* Mutated form: the new service is not linked to the list. *)
KernelRegisterAlone ==
  LET msg == Head(inbox[KERNEL])
  IN  /\ KernelReceives("register")
      /\ services' = <<[pid |-> msg.sender, name |-> msg.rq.name]>>
      /\ kernel' = [at |-> "reply", msg |-> Answered(msg, OK)]
      /\ UNCHANGED <<diskVars, alive, ramdisk, asks, claims, owed>>

KernelRegister ==
  LET msg == Head(inbox[KERNEL])
  IN  /\ KernelReceives("register")
      /\ services' = <<[pid |-> msg.sender, name |-> msg.rq.name]>> \o services
      /\ kernel' = [at |-> "reply", msg |-> Answered(msg, OK)]
      /\ UNCHANGED <<diskVars, alive, ramdisk, asks, claims, owed>>

KernelGet ==
  LET msg == Head(inbox[KERNEL])
      pid == ServicePid(msg.rq.name)
  IN  /\ KernelReceives("get")
      /\ kernel' = [at |-> "reply", msg |-> Answered(msg, [sig |-> "PID", pid |-> pid])]
      /\ UNCHANGED <<diskVars, alive, services, ramdisk, asks, claims, owed>>

KernelRemove ==
  /\ KernelReceives("remove")
  /\ UNCHANGED <<diskVars, alive, services, kernel, ramdisk, asks, claims, owed>>

KernelReply ==
  /\ kernel.at = "reply"
  /\ Reply(KERNEL, kernel.msg)
  /\ kernel' = [at |-> "receive", msg |-> NULL]
  /\ UNCHANGED <<diskVars, alive, services, ramdisk, asks, claims>>

KernelProcess ==
  KernelLaunch \/ KernelRegister \/ KernelGet \/ KernelRemove \/ KernelReply

-----------------------------------------------------------------------------
(* ramdisk_process. *)

(* vfs_mount_ramdisk, a function of the C library: if it fails the process *)
(* sleeps for ever.                                                        *)
RamdiskMount ==
  /\ ramdisk.at = "mount"
  /\ \E next \in {"receive", "asleep"} : ramdisk' = [ramdisk EXCEPT !.at = next]
  /\ UNCHANGED <<diskVars, alive, inbox, services, kernel, asks, claims, owed>>

(* Receive a request and work out the answer.  An unknown signal has none. *)
RamdiskReceive ==
  LET msg == Head(inbox[RAMDISK])
      answer == AnswerTo(memory, files, msg.rq)
  IN  /\ ramdisk.at = "receive"
      /\ inbox[RAMDISK] # <<>>
      /\ inbox' = [inbox EXCEPT ![RAMDISK] = Tail(@)]
      /\ ramdisk' = IF NoAnswer(msg.rq) THEN ramdisk
                    ELSE [at |-> "reply", msg |-> Answered(msg, answer)]
      /\ UNCHANGED <<diskVars, alive, services, kernel, asks, claims, owed>>

(* Mutated form: after an answer that nobody gets, the loop is left. *)
RamdiskReplyOnce ==
  /\ ramdisk.at = "reply"
  /\ Reply(RAMDISK, ramdisk.msg)
  /\ ramdisk' = [at  |-> IF ramdisk.msg.sender \in alive THEN "receive" ELSE "left",
                 msg |-> NULL]
  /\ UNCHANGED <<diskVars, alive, services, kernel, asks, claims>>

RamdiskReply ==
  /\ ramdisk.at = "reply"
  /\ Reply(RAMDISK, ramdisk.msg)
  /\ ramdisk' = [at |-> "receive", msg |-> NULL]
  /\ UNCHANGED <<diskVars, alive, services, kernel, asks, claims>>

RamdiskProcess ==
  RamdiskMount \/ RamdiskReceive \/ RamdiskReply

-----------------------------------------------------------------------------

ServersNext ==
  \/ \E c \in Programs : \E rq \in KernelRequests : Ask(c, KERNEL, rq)
  \/ \E c \in Programs : \E rq \in FileRequests : Ask(c, RAMDISK, rq)
  \/ \E c \in Programs : Die(c)
  \/ KernelProcess
  \/ RamdiskProcess

(* Both servers get the CPU again and again (NoStarvation of RoundRobin).  *)
ServersSpec ==
  /\ ServersInit
  /\ [][ServersNext]_serverVars
  /\ WF_serverVars(KernelProcess)
  /\ WF_serverVars(RamdiskProcess)

-----------------------------------------------------------------------------

AnswersFrom(server) ==
  {m \in UNION {ToSet(inbox[c]) : c \in Programs} : m.server = server}

(* A service that somebody asked to register before a client asks for it   *)
(* is found, and the answer is a process that registered that name: the    *)
(* order of the queue and the list of kernel_process lose no registration, *)
(* whoever registers, dies or asks in between.                             *)
LookupsFind ==
  \A m \in AnswersFrom(KERNEL) :
    m.rq.signal = "get" =>
      /\ m.answer.pid # NULL => <<m.rq.name, m.answer.pid>> \in claims
      /\ m.known => m.answer.pid # NULL

(* What an answer to a request has to be, from the archive alone. *)
TrueAnswer(a, rq, answer) ==
  LET i    == FileIndex(a, <<".">> \o rq.path)
      size == a[i].size
      n    == IF rq.size < size THEN rq.size ELSE size
  IN  /\ rq.signal = "open" => (answer = OK <=> i # 0 /\ rq.mode = "RO")
      /\ rq.signal = "stat" /\ i = 0 => answer = FAIL
      /\ rq.signal = "stat" /\ i # 0 => answer = [sig |-> "SIGNAL_OK", st_size |-> size]
      /\ rq.signal = "read" /\ i = 0 => answer = FAIL
      /\ rq.signal = "read" /\ i # 0 /\ rq.offset <= size =>
           answer = IF rq.offset + n > size THEN FAIL
                    ELSE [sig  |-> "STREAM", size |-> n,
                          from |-> HeaderAt(a, i) + BLOCK + rq.offset]

(* What the daemon answers is true of the archive as tar has written it,   *)
(* although it was found by walking over it and its sizes by reading octal *)
(* digits: OPEN and STAT succeed for the files of the archive, with their  *)
(* size, and READ streams bytes of that file, from the offset on, unless   *)
(* they would not all lie in it.  An offset behind the end of the file,    *)
(* where the sum of the code may wrap, is excepted.                        *)
AnswersTrue == \A m \in AnswersFrom(RAMDISK) : TrueAnswer(archive, m.rq, m.answer)

(* Every request that has an answer gets it: a living program never waits  *)
(* for ever, unless the RAM disk could not be mounted.                     *)
EveryRequestAnswered ==
  \A c \in Programs :
    /\ owed[KERNEL][c] > 0 ~> owed[KERNEL][c] = 0 \/ c \notin alive
    /\ owed[RAMDISK][c] > 0 ~> owed[RAMDISK][c] = 0 \/ c \notin alive
                                 \/ ramdisk.at = "asleep"

=============================================================================

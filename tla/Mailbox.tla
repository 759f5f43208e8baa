------------------------------ MODULE Mailbox ------------------------------
(***************************************************************************)
(* What the message passing of message.c promises: every process has a     *)
(* queue; send_message appends to the queue of the receiver, and           *)
(* receive_message removes the oldest message, or the oldest one of a      *)
(* given sender.  Message shows that the linked lists implement this.      *)
(* What a dead process has not received goes to nobody, or to the one      *)
(* process that is created in its place in memory.                         *)
(*                                                                         *)
(* A message carries the number of the send_message call that created it,  *)
(* and seen records the last number a receiver got from each sender; both  *)
(* are history that the kernel does not keep.                              *)
(***************************************************************************)
EXTENDS Integers, SequencesExt

CONSTANTS
  Pids,      \* pids of the processes that ever exist
  Boot,      \* pids of the processes that exist from the start
  MaxSends   \* bound on the number of messages ever sent

ASSUME MailboxAssumption ==
  /\ Boot \subseteq Pids
  /\ MaxSends \in Nat

VARIABLES
  alive,   \* pids of the living processes
  unborn,  \* pids that have not been used yet
  graves,  \* dead processes whose memory has not been used again
  queue,   \* queue[p]: the messages p has not received yet, oldest first
  sends,   \* number of messages sent so far
  seen     \* seen[r][s]: number of the last message of s that r received

mailboxVars == <<alive, unborn, graves, queue, sends, seen>>

Messages == [no : Nat, sender : Pids]

MailboxInit ==
  /\ alive  = Boot
  /\ unborn = Pids \ Boot
  /\ graves = {}
  /\ queue  = [p \in Pids |-> <<>>]
  /\ sends  = 0
  /\ seen   = [r \in Pids |-> [s \in Pids |-> 0]]

(* send_message, or the message of an interrupt (s is the process that was *)
(* running).  Without a receiver nothing happens.                          *)
Send(s, r) ==
  /\ s \in alive /\ r \in alive
  /\ sends < MaxSends
  /\ queue' = [queue EXCEPT ![r] = Append(@, [no |-> sends + 1, sender |-> s])]
  /\ sends' = sends + 1
  /\ UNCHANGED <<alive, unborn, graves, seen>>

Take(p, i) ==
  /\ queue' = [queue EXCEPT ![p] = RemoveAt(@, i)]
  /\ seen'  = [seen EXCEPT ![p][queue[p][i].sender] = queue[p][i].no]
  /\ UNCHANGED <<alive, unborn, graves, sends>>

(* receive_message(&msg, MESSAGE_ANY). *)
ReceiveAny(p) ==
  /\ p \in alive
  /\ queue[p] # <<>>
  /\ Take(p, 1)

(* Mutated form: the newest message of the sender instead of the oldest. *)
ReceiveNewest(p, who) ==
  /\ p \in alive
  /\ \E i \in 1 .. Len(queue[p]) :
       /\ queue[p][i].sender = who
       /\ \A j \in i + 1 .. Len(queue[p]) : queue[p][j].sender # who
       /\ Take(p, i)

(* receive_message(&msg, who). *)
ReceiveFrom(p, who) ==
  /\ p \in alive
  /\ \E i \in 1 .. Len(queue[p]) :
       /\ queue[p][i].sender = who
       /\ \A j \in 1 .. i - 1 : queue[p][j].sender # who
       /\ Take(p, i)

Create(p) ==
  /\ p \in unborn
  /\ alive'  = alive \cup {p}
  /\ unborn' = unborn \ {p}
  /\ \/ UNCHANGED <<graves, queue>>
     \/ \E d \in graves :
          /\ graves' = graves \ {d}
          /\ queue'  = [queue EXCEPT ![p] = queue[d], ![d] = <<>>]
  /\ UNCHANGED <<sends, seen>>

Exit(p) ==
  /\ p \in alive
  /\ alive'  = alive \ {p}
  /\ graves' = graves \cup {p}
  /\ UNCHANGED <<unborn, queue, sends, seen>>

MailboxNext ==
  \/ \E s, r \in Pids : Send(s, r)
  \/ \E p \in Pids : ReceiveAny(p)
  \/ \E p, who \in Pids : ReceiveFrom(p, who)
  \/ \E p \in Pids : Create(p)
  \/ \E p \in Pids : Exit(p)

MailboxSpec == MailboxInit /\ [][MailboxNext]_mailboxVars

-----------------------------------------------------------------------------

(* Type invariant of the message queues. *)
MailboxTypeOK ==
  /\ alive \subseteq Pids
  /\ unborn \subseteq Pids /\ graves \subseteq Pids
  /\ queue \in [Pids -> Seq(Messages)]
  /\ sends \in Nat
  /\ seen \in [Pids -> [Pids -> Nat]]

(* Messages between two processes arrive in the order they were sent, none *)
(* twice and none skipped, however a receiver mixes receiving from anyone  *)
(* with receiving from one sender: what waits in a queue is newer than     *)
(* anything received from its sender, and in the order of sending.         *)
SenderOrder ==
  \A r \in Pids : \A i \in 1 .. Len(queue[r]) :
    /\ queue[r][i].no > seen[r][queue[r][i].sender]
    /\ \A j \in 1 .. i - 1 : queue[r][j].no < queue[r][i].no

=============================================================================

------------------------------ MODULE Message ------------------------------
(***************************************************************************)
(* The message queues of the processes as the kernel keeps them            *)
(* (hal.x86/message.c): a doubly linked list of nodes on the heap, headed  *)
(* by process->messages, with the creation and the killing of a process as *)
(* far as they touch it (hal.x86/multitasking.c).                          *)
(*                                                                         *)
(* CreateUserProcess clears num_messages but not first, and                *)
(* KillProcess frees the process_t but not the nodes of its list.  A new   *)
(* process_t lies in memory that was never used (zero), where a dead one   *)
(* was, whose list is then found in it again, or in any other freed block  *)
(* (the buffer of ParseElf), where first is a wild pointer.                *)
(*                                                                         *)
(* A write through NULL (node->prev->next with a single node) goes to      *)
(* page 0, which is mapped, and is ignored.  last is left out: it is       *)
(* written but never read.  Message numbers and seen are history, as in    *)
(* Mailbox.                                                                *)
(***************************************************************************)
EXTENDS Integers, FiniteSets

CONSTANTS
  NULL,      \* the null pointer
  WILD,      \* a pointer to no node
  Pids,      \* pids of the processes that ever exist
  Boot,      \* pids of the processes that exist from the start
  Nodes,     \* the heap blocks for a struct MESSAGE_NODE
  MaxSends   \* bound on the number of messages ever sent

ASSUME MessageAssumption ==
  /\ NULL \notin Nodes /\ WILD \notin Nodes /\ NULL # WILD
  /\ IsFiniteSet(Nodes)
  /\ Boot \subseteq Pids
  /\ MaxSends \in Nat

VARIABLES
  alive,   \* pids in the process list
  unborn,  \* pids not handed out yet
  graves,  \* dead processes whose process_t has not been reused
  first, num,        \* process->messages
  used,    \* the nodes that are allocated
  next, prev, msg,   \* the fields of a node, NULL for a free one: ksend_message
                     \* writes all of them
  sends, seen,
  broken   \* the kernel has followed a wild pointer

messageVars == <<alive, unborn, graves, first, num, used, next, prev, msg,
                 sends, seen, broken>>

Blank == [no |-> 0, sender |-> NULL]

MessageInit ==
  /\ alive  = Boot
  /\ unborn = Pids \ Boot
  /\ graves = {}
  /\ first  = [p \in Pids |-> NULL]
  /\ num    = [p \in Pids |-> 0]
  /\ used   = {}
  /\ next   = [n \in Nodes |-> NULL]
  /\ prev   = [n \in Nodes |-> NULL]
  /\ msg    = [n \in Nodes |-> Blank]
  /\ sends  = 0
  /\ seen   = [r \in Pids |-> [s \in Pids |-> 0]]
  /\ broken = FALSE

(* The nodes one passes walking from node n along next, as far as the list *)
(* can reach: path[k] is the k-th node, NULL behind the end.               *)
PathFrom(n) ==
  LET path[k \in 0 .. Cardinality(Nodes)] ==
        IF k = 0 THEN n
        ELSE IF path[k - 1] = NULL THEN NULL ELSE next[path[k - 1]]
  IN  path

Start(p) == IF first[p] = WILD THEN NULL ELSE first[p]

ListOf(p) ==
  LET path == PathFrom(Start(p))
      len  == Cardinality({k \in DOMAIN path : path[k] # NULL})
  IN  [k \in 1 .. len |-> path[k - 1]]

NodesOf(p) == {ListOf(p)[k] : k \in DOMAIN ListOf(p)}

(* The assignment "pointer->field = value": nothing happens through NULL. *)
Store(field, pointer, value) ==
  IF pointer = NULL THEN field ELSE [field EXCEPT ![pointer] = value]

-----------------------------------------------------------------------------

(* Mutated form: the new node is linked in front of the list. *)
ksend_message_front(s, r) ==
  /\ s \in alive /\ r \in alive
  /\ first[r] # WILD
  /\ sends < MaxSends
  /\ \E n \in Nodes \ used :
       /\ used'  = used \cup {n}
       /\ first' = [first EXCEPT ![r] = n]
       /\ next'  = [next EXCEPT ![n] = first[r]]
       /\ prev'  = Store([prev EXCEPT ![n] = NULL], first[r], n)
       /\ msg'   = [msg EXCEPT ![n] = [no |-> sends + 1, sender |-> s]]
  /\ num'   = [num EXCEPT ![r] = @ + 1]
  /\ sends' = sends + 1
  /\ UNCHANGED <<alive, unborn, graves, seen, broken>>

(* ksend_message: walk to the end of the list of the receiver and link a   *)
(* new node there.  The sender of an interrupt's message is the running    *)
(* process.                                                                *)
ksend_message(s, r) ==
  /\ s \in alive /\ r \in alive
  /\ first[r] # WILD
  /\ sends < MaxSends
  /\ \E n \in Nodes \ used :
       LET list == ListOf(r)
           tail == IF list = <<>> THEN NULL ELSE list[Cardinality(DOMAIN list)]
       IN  /\ used'  = used \cup {n}
           /\ first' = IF first[r] = NULL THEN [first EXCEPT ![r] = n] ELSE first
           /\ next'  = [Store(next, tail, n) EXCEPT ![n] = NULL]
           /\ prev'  = [prev EXCEPT ![n] = tail]
           /\ msg'   = [msg EXCEPT ![n] = [no |-> sends + 1, sender |-> s]]
  /\ num'   = [num EXCEPT ![r] = @ + 1]
  /\ sends' = sends + 1
  /\ UNCHANGED <<alive, unborn, graves, seen, broken>>

(* The same for a receiver whose first is wild: walking the list faults or *)
(* ends in an arbitrary place, which is written to.                        *)
ksend_message_wild(s, r) ==
  /\ s \in alive /\ r \in alive
  /\ first[r] = WILD
  /\ broken' = TRUE
  /\ UNCHANGED <<alive, unborn, graves, first, num, used, next, prev, msg,
                 sends, seen>>

(* Mutated form: the node is freed but still counted. *)
DeliverUncounted(p, n) ==
  /\ seen' = [seen EXCEPT ![p][msg[n].sender] = msg[n].no]
  /\ used' = used \ {n}
  /\ num'  = num
  /\ msg'  = [msg EXCEPT ![n] = Blank]
  /\ UNCHANGED <<alive, unborn, graves, sends, broken>>

(* The end of kreceive_message: copy the message out, free the node. *)
Deliver(p, n) ==
  /\ seen' = [seen EXCEPT ![p][msg[n].sender] = msg[n].no]
  /\ used' = used \ {n}
  /\ num'  = [num EXCEPT ![p] = @ - 1]
  /\ msg'  = [msg EXCEPT ![n] = Blank]
  /\ UNCHANGED <<alive, unborn, graves, sends, broken>>

(* Mutated form: num_messages is not looked at. *)
ReceiveAnyUnchecked(p) ==
  LET n == first[p]
  IN  /\ p \in alive
      /\ n \notin {NULL, WILD}
      /\ prev'  = [Store(prev, next[n], NULL) EXCEPT ![n] = NULL]
      /\ next'  = [next EXCEPT ![n] = NULL]
      /\ first' = [first EXCEPT ![p] = next[n]]
      /\ Deliver(p, n)

(* kreceive_message with MESSAGE_ANY. *)
ReceiveAny(p) ==
  LET n == first[p]
  IN  /\ p \in alive
      /\ n # NULL /\ num[p] # 0
      /\ prev'  = [Store(prev, next[n], NULL) EXCEPT ![n] = NULL]
      /\ next'  = [next EXCEPT ![n] = NULL]
      /\ first' = [first EXCEPT ![p] = next[n]]
      /\ Deliver(p, n)

(* Mutated form: the predecessor is not linked to the successor. *)
ReceiveFromNoRelink(p, who) ==
  /\ p \in alive
  /\ first[p] # NULL /\ num[p] # 0
  /\ \E k \in DOMAIN ListOf(p) :
       LET n == ListOf(p)[k]
       IN  /\ msg[n].sender = who
           /\ \A j \in 1 .. k - 1 : msg[ListOf(p)[j]].sender # who
           /\ first' = IF prev[n] = NULL THEN [first EXCEPT ![p] = next[n]] ELSE first
           /\ prev'  = [Store(prev, next[n], prev[n]) EXCEPT ![n] = NULL]
           /\ next'  = [next EXCEPT ![n] = NULL]
           /\ Deliver(p, n)

(* kreceive_message from one sender: find its oldest message and unlink    *)
(* the node.                                                               *)
ReceiveFrom(p, who) ==
  /\ p \in alive
  /\ first[p] # NULL /\ num[p] # 0
  /\ \E k \in DOMAIN ListOf(p) :
       LET n == ListOf(p)[k]
       IN  /\ msg[n].sender = who
           /\ \A j \in 1 .. k - 1 : msg[ListOf(p)[j]].sender # who
           /\ first' = IF prev[n] = NULL THEN [first EXCEPT ![p] = next[n]] ELSE first
           /\ prev'  = [Store(prev, next[n], prev[n]) EXCEPT ![n] = NULL]
           /\ next'  = [Store(next, prev[n], next[n]) EXCEPT ![n] = NULL]
           /\ Deliver(p, n)

(* CreateUserProcess: first is what the heap block holds. *)
CreateUserProcess(p) ==
  /\ p \in unborn
  /\ alive'  = alive \cup {p}
  /\ unborn' = unborn \ {p}
  /\ num'    = [num EXCEPT ![p] = 0]
  /\ \/ UNCHANGED <<graves, first>>
     \/ \E d \in graves :
          /\ graves' = graves \ {d}
          /\ first'  = [first EXCEPT ![p] = first[d]]
     \/ /\ first' = [first EXCEPT ![p] = WILD]
        /\ UNCHANGED graves
  /\ UNCHANGED <<used, next, prev, msg, sends, seen, broken>>

(* KillProcess: the nodes are not freed. *)
KillProcess(p) ==
  /\ p \in alive
  /\ alive'  = alive \ {p}
  /\ graves' = graves \cup {p}
  /\ UNCHANGED <<unborn, first, num, used, next, prev, msg, sends, seen, broken>>

MessageNext ==
  /\ ~broken
  /\ \/ \E s, r \in Pids : ksend_message(s, r)
     \/ \E s, r \in Pids : ksend_message_wild(s, r)
     \/ \E p \in Pids : ReceiveAny(p)
     \/ \E p, who \in Pids : ReceiveFrom(p, who)
     \/ \E p \in Pids : CreateUserProcess(p)
     \/ \E p \in Pids : KillProcess(p)

MessageSpec == MessageInit /\ [][MessageNext]_messageVars

-----------------------------------------------------------------------------

(* Type invariant of the message lists: num_messages is never negative.    *)
MessageTypeOK ==
  /\ alive \subseteq Pids /\ unborn \subseteq Pids /\ graves \subseteq Pids
  /\ first \in [Pids -> Nodes \cup {NULL, WILD}]
  /\ num \in [Pids -> Nat]
  /\ used \subseteq Nodes
  /\ next \in [Nodes -> Nodes \cup {NULL}]
  /\ prev \in [Nodes -> Nodes \cup {NULL}]
  /\ msg \in [Nodes -> [no : Nat, sender : Pids \cup {NULL}]]
  /\ sends \in Nat

(* The lists are intact whatever is received in which order: they end,     *)
(* hold allocated nodes only (so no freed node is ever walked), share no   *)
(* node, and prev is the inverse of next.  The allocated nodes are exactly *)
(* those of the lists, counting the lists of dead processes: nothing but   *)
(* the death of a process leaks a node.                                    *)
ListsIntact ==
  LET owners == alive \cup graves
  IN  /\ \A p \in owners :
           /\ PathFrom(Start(p))[Cardinality(Nodes)] = NULL
           /\ \A k \in DOMAIN ListOf(p) :
                prev[ListOf(p)[k]] = IF k = 1 THEN NULL ELSE ListOf(p)[k - 1]
      /\ \A p, q \in owners : p # q => NodesOf(p) \cap NodesOf(q) = {}
      /\ used = UNION {NodesOf(p) : p \in owners}

(* num_messages counts the list, so that a process told that there is no   *)
(* message really has none.  A process that takes over the list of a dead  *)
(* one may have more messages than the count says, but never fewer.        *)
CountAgrees ==
  \A p \in alive : /\ num[p] <= Cardinality(NodesOf(p))
                   /\ p \in Boot => num[p] = Cardinality(NodesOf(p))

QueueOf(p) == IF p \in alive \cup graves
              THEN [k \in DOMAIN ListOf(p) |-> msg[ListOf(p)[k]]] ELSE <<>>

Queues == INSTANCE Mailbox WITH queue <- [p \in Pids |-> QueueOf(p)]

(* The linked lists implement the queues of Mailbox: every message sent to *)
(* a living process is received once, in order, by that process or by the  *)
(* one that takes its place after its death.                               *)
ImplementsMailbox == Queues!MailboxSpec

=============================================================================

----------------------------- MODULE HeapPreempt -----------------------------
(***************************************************************************)
(* The kernel heap with a caller that can be interrupted.  Handlers call   *)
(* kmalloc with interrupts off, but kernel_process is a ring 0 process     *)
(* with the interrupt flag set that calls kmalloc itself to register a     *)
(* service (kernel-process.c): the timer can take the CPU away between any *)
(* two statements of heap.c, and a handler on behalf of another process    *)
(* then works on the same list.                                            *)
(*                                                                         *)
(* kernel_process executes kmalloc and kcreateBlock one statement per      *)
(* action, in source order; a handler's call is one action.  The headers   *)
(* are words of memory here: a node whose fields are not written yet is    *)
(* reachable as soon as its parent points to it.                           *)
(***************************************************************************)
EXTENDS Integers

CONSTANTS
  NULL,                  \* the null pointer
  HEAP_START, HEAP_END,  \* the region reserved for the heap
  HEADERSIZE,            \* sizeof(node_t)
  ServiceSize,           \* sizeof(service_t), what kernel_process asks for
  HandlerSizes           \* sizes the handlers ask for

Addr == HEAP_START .. HEAP_END - 1

VARIABLES
  mem,     \* the node_t at an address: magic (is it MAGIC?), free, size, next
  pc,      \* the statement of kmalloc kernel_process executes next
  node,    \* its local variables node and last
  last,
  given,   \* pointers to headers returned to handlers
  failed   \* "assert(node->magic == MAGIC)" failed

preemptVars == <<mem, pc, node, last, given, failed>>

(* Memory that never was a header does not hold MAGIC. *)
Raw == [magic |-> FALSE, free |-> FALSE, size |-> 0, next |-> NULL]

PreemptInit ==
  /\ mem    = [a \in Addr |-> IF a = HEAP_START
                              THEN [Raw EXCEPT !.magic = TRUE, !.free = TRUE]
                              ELSE Raw]
  /\ pc     = "outside"
  /\ node   = NULL
  /\ last   = NULL
  /\ given  = {}
  /\ failed = FALSE

NextBlock(a) == a + HEADERSIZE + mem[a].size

Suits(a, size) == mem[a].size >= size /\ mem[a].free

-----------------------------------------------------------------------------
(* kernel_process inside kmalloc(sizeof(service_t)).                       *)

KernelCall ==
  /\ pc = "outside"
  /\ pc' = "test" /\ node' = HEAP_START /\ last' = HEAP_START
  /\ UNCHANGED <<mem, given, failed>>

(* One turn of the loop: the assertion, then the test of the node. *)
KernelTest ==
  /\ pc = "test"
  /\ failed' = ~mem[node].magic
  /\ IF Suits(node, ServiceSize)
     THEN pc' = "take" /\ UNCHANGED <<node, last>>
     ELSE /\ last' = node
          /\ node' = mem[node].next
          /\ pc' = IF mem[node].next = NULL THEN "link" ELSE "test"
  /\ UNCHANGED <<mem, given>>

KernelTake ==
  /\ pc = "take"
  /\ mem' = [mem EXCEPT ![node].free = FALSE]
  /\ pc' = "outside"
  /\ UNCHANGED <<node, last, given, failed>>

(* kcreateBlock: the new node is linked before its fields are written. *)
KernelLink ==
  /\ pc = "link"
  /\ NextBlock(last) < HEAP_END
  /\ mem' = [mem EXCEPT ![last].next = NextBlock(last)]
  /\ node' = NextBlock(last)
  /\ pc' = "size"
  /\ UNCHANGED <<last, given, failed>>

KernelFill ==
  /\ \/ /\ pc = "size"  /\ pc' = "next"
        /\ mem' = [mem EXCEPT ![node].size = ServiceSize]
     \/ /\ pc = "next"  /\ pc' = "free"
        /\ mem' = [mem EXCEPT ![node].next = NULL]
     \/ /\ pc = "free"  /\ pc' = "magic"
        /\ mem' = [mem EXCEPT ![node].free = TRUE]
     \/ /\ pc = "magic" /\ pc' = "take"
        /\ mem' = [mem EXCEPT ![node].magic = TRUE]
  /\ UNCHANGED <<node, last, given, failed>>

-----------------------------------------------------------------------------
(* Handlers, which run while kernel_process is interrupted.                *)

(* Where the loop of kmalloc stops: at a node without MAGIC, at a node     *)
(* that suits, or at the last node of the list.                            *)
RECURSIVE Walk(_, _)
Walk(a, size) ==
  IF ~mem[a].magic \/ Suits(a, size) \/ mem[a].next = NULL
  THEN a ELSE Walk(mem[a].next, size)

HandlerKmalloc(size) ==
  LET a == Walk(HEAP_START, size)
      b == NextBlock(a)
  IN  \/ /\ ~mem[a].magic
         /\ failed' = TRUE
         /\ UNCHANGED <<mem, given>>
      \/ /\ mem[a].magic /\ Suits(a, size)
         /\ mem' = [mem EXCEPT ![a].free = FALSE]
         /\ given' = given \cup {a}
         /\ UNCHANGED failed
      \/ /\ mem[a].magic /\ ~Suits(a, size) /\ b < HEAP_END
         /\ mem' = [mem EXCEPT ![a].next = b,
                               ![b] = [magic |-> TRUE, free |-> FALSE,
                                       size |-> size, next |-> NULL]]
         /\ given' = given \cup {b}
         /\ UNCHANGED failed

HandlerKfree(a) ==
  /\ failed' = ~mem[a].magic
  /\ mem' = [mem EXCEPT ![a].free = TRUE]
  /\ given' = given \ {a}

Handler ==
  /\ \/ \E size \in HandlerSizes : HandlerKmalloc(size)
     \/ \E a \in given : HandlerKfree(a)
  /\ UNCHANGED <<pc, node, last>>

PreemptNext ==
  /\ ~failed
  /\ KernelCall \/ KernelTest \/ KernelTake \/ KernelLink \/ KernelFill \/ Handler

PreemptSpec == PreemptInit /\ [][PreemptNext]_preemptVars

-----------------------------------------------------------------------------

(* "assert(node->magic == MAGIC)": whoever walks or frees a block of the   *)
(* list finds a header whose fields have been written.                     *)
MagicAssertHolds == ~failed

=============================================================================

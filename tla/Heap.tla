-------------------------------- MODULE Heap --------------------------------
(***************************************************************************)
(* The kernel heap (hal.x86/heap.c): a list of blocks, each a header of    *)
(* HEADERSIZE bytes followed by its memory.  Blocks are created at the end *)
(* of the list, never split, merged or returned; kmalloc takes the first   *)
(* free block that is large enough.                                        *)
(*                                                                         *)
(* The list is the sequence blocks.  Clients of the heap are the kernel    *)
(* structures that hold one allocation each (a stack, a process_t, a       *)
(* message node, ...); a client frees only what it holds.  Handlers run    *)
(* with interrupts off and the boot code before they are enabled, so each  *)
(* call is one action here; HeapPreempt drops this for kernel_process.     *)
(***************************************************************************)
EXTENDS Integers, SequencesExt

CONSTANTS
  NULL,                  \* the null pointer
  HEAP_START, HEAP_END,  \* the region reserved for the heap
  HEADERSIZE,            \* sizeof(node_t)
  Clients,               \* holders of one allocation each
  Sizes,                 \* sizes the clients ask for
  SegmentSizes           \* program->fsize of the segments ParseElf copies

ASSUME HeapAssumption ==
  /\ NULL \notin Nat
  /\ HEAP_START \in Nat /\ HEAP_END \in Nat /\ HEAP_START < HEAP_END
  /\ HEADERSIZE \in Nat \ {0}
  /\ Sizes \subseteq Nat \ {0}
  /\ SegmentSizes \subseteq Nat

VARIABLES
  blocks,    \* root and the next pointers: sequence of block headers
  held,      \* held[c]: the pointer and size client c got from kmalloc
  panicked   \* an assertion failed: panic() never returns

heapVars == <<blocks, held, panicked>>

Nothing == [addr |-> NULL, size |-> 0]

BLOCK_START(b) == b.addr + HEADERSIZE

(* Mutated form: the header of the block is forgotten. *)
NextBlockNoHeader(b) == b.addr + b.size

NEXT_BLOCK(b) == BLOCK_START(b) + b.size

(* Mutated form: the last block that fits instead of the first one. *)
LastFit(bs, size) == SelectLastInSeq(bs, LAMBDA b : b.size >= size /\ b.free)

(* The index of the node the loop of kmalloc stops at, 0 for none. *)
FirstFit(bs, size) == SelectInSeq(bs, LAMBDA b : b.size >= size /\ b.free)

(* Mutated form: a header may start at the very end of the heap. *)
kcreateBlockAtEnd(bs, size) ==
  LET a == NEXT_BLOCK(Last(bs))
  IN  IF a <= HEAP_END
      THEN [list |-> Append(bs, [addr |-> a, size |-> size, free |-> FALSE]),
            ptr  |-> a + HEADERSIZE]
      ELSE [list |-> bs, ptr |-> NULL]

(* kcreateBlock, and the "free = 0" of its caller: only the start of the   *)
(* new header is checked against the end of the heap.  The result NULL     *)
(* stands for the failed assertion.                                        *)
kcreateBlock(bs, size) ==
  LET a == NEXT_BLOCK(Last(bs))
  IN  IF a < HEAP_END
      THEN [list |-> Append(bs, [addr |-> a, size |-> size, free |-> FALSE]),
            ptr  |-> a + HEADERSIZE]
      ELSE [list |-> bs, ptr |-> NULL]

(* kmalloc: the list afterwards and the pointer it returns. *)
kmalloc(bs, size) ==
  LET i == FirstFit(bs, size)
  IN  IF i # 0
      THEN [list |-> [bs EXCEPT ![i] = [@ EXCEPT !.free = FALSE]],
            ptr  |-> BLOCK_START(bs[i])]
      ELSE kcreateBlock(bs, size)

(* kfree: HEADER_START(ptr) becomes free; ptr is known to be a block. *)
kfree(bs, ptr) ==
  [i \in 1 .. Len(bs) |->
     IF BLOCK_START(bs[i]) = ptr THEN [bs[i] EXCEPT !.free = TRUE] ELSE bs[i]]

(* The assertions of kfree: a pointer below HEAP_END behind a header that  *)
(* carries the magic number.                                               *)
KfreeAsserts(bs, ptr) ==
  ptr < HEAP_END /\ \E i \in 1 .. Len(bs) : BLOCK_START(bs[i]) = ptr

kinit_heap == <<[addr |-> HEAP_START, size |-> 0, free |-> TRUE]>>

HeapInit ==
  /\ blocks   = kinit_heap
  /\ held     = [c \in Clients |-> Nothing]
  /\ panicked = FALSE

-----------------------------------------------------------------------------

Panic == panicked' = TRUE /\ UNCHANGED <<blocks, held>>

(* A client allocates memory and keeps it. *)
Allocate(c, size) ==
  LET m == kmalloc(blocks, size)
  IN  /\ ~panicked
      /\ held[c] = Nothing
      /\ \/ /\ m.ptr # NULL
            /\ blocks' = m.list
            /\ held' = [held EXCEPT ![c] = [addr |-> m.ptr, size |-> size]]
            /\ UNCHANGED panicked
         \/ /\ m.ptr = NULL
            /\ Panic

(* A client gives its memory back. *)
Release(c) ==
  /\ ~panicked
  /\ held[c] # Nothing
  /\ \/ /\ KfreeAsserts(blocks, held[c].addr)
        /\ blocks' = kfree(blocks, held[c].addr)
        /\ held' = [held EXCEPT ![c] = Nothing]
        /\ UNCHANGED panicked
     \/ /\ ~KfreeAsserts(blocks, held[c].addr)
        /\ Panic

(* Mutated form: ParseElf keeps its buffer. *)
ParseElfBufferLeak(size) ==
  LET m == kmalloc(blocks, size)
  IN  /\ ~panicked
      /\ \/ /\ m.ptr # NULL
            /\ blocks' = m.list
            /\ UNCHANGED <<held, panicked>>
         \/ /\ m.ptr = NULL
            /\ Panic

(* ParseElf copies a segment through a buffer that it allocates and frees  *)
(* inside one handler.  A segment without file contents (fsize 0) asks for *)
(* no memory at all.                                                       *)
ParseElfBuffer(size) ==
  LET m  == kmalloc(blocks, size)
      ok == m.ptr # NULL /\ KfreeAsserts(m.list, m.ptr)
  IN  /\ ~panicked
      /\ \/ /\ ok
            /\ blocks' = kfree(m.list, m.ptr)
            /\ UNCHANGED <<held, panicked>>
         \/ /\ ~ok
            /\ Panic

HeapNext ==
  \/ \E c \in Clients, size \in Sizes : Allocate(c, size)
  \/ \E c \in Clients : Release(c)
  \/ \E size \in SegmentSizes : ParseElfBuffer(size)

HeapSpec == HeapInit /\ [][HeapNext]_heapVars

-----------------------------------------------------------------------------

(* Type invariant of heap.c: every header of the list starts in the heap.  *)
HeapTypeOK ==
  /\ blocks \in Seq([addr : HEAP_START .. HEAP_END - 1, size : Nat, free : BOOLEAN])
  /\ held \in [Clients -> [addr : Nat, size : Nat] \cup {Nothing}]
  /\ panicked \in BOOLEAN

(* The bytes a client may write. *)
Bytes(c) == IF held[c] = Nothing THEN {}
            ELSE held[c].addr .. held[c].addr + held[c].size - 1

HeaderBytes(b) == b.addr .. b.addr + HEADERSIZE - 1

(* What the clients of kmalloc rely on: two allocations never share a      *)
(* byte, and no client can reach the header of any block, so the list and  *)
(* its magic numbers survive whatever the clients store.                   *)
AllocationsDisjoint ==
  /\ \A c, d \in Clients : c # d => Bytes(c) \cap Bytes(d) = {}
  /\ \A c \in Clients : \A i \in 1 .. Len(blocks) :
       Bytes(c) \cap HeaderBytes(blocks[i]) = {}

(* kcreateBlock returns NULL for size 0 and kmalloc writes through it.     *)
(* ParseElf may ask for 0 bytes: the root block, of size 0, must be free   *)
(* then.                                                                   *)
ZeroSizeFits == FirstFit(blocks, 0) # 0

(* selfTest of init.c, in any state of the heap and for any two sizes:     *)
(* memory allocated, freed and allocated again in the same order comes     *)
(* back at the same addresses.                                             *)
SelfTestPasses ==
  \A s1, s2 \in Sizes :
    LET m1 == kmalloc(blocks, s1)
        m2 == kmalloc(m1.list, s2)
        f  == kfree(kfree(m2.list, m1.ptr), m2.ptr)
        m3 == kmalloc(f, s1)
        m4 == kmalloc(m3.list, s2)
    IN  m1.ptr # NULL /\ m2.ptr # NULL => m3.ptr = m1.ptr /\ m4.ptr = m2.ptr

(* "assert((uintptr_t) addr < HEAP_END)" of kfree holds for every pointer  *)
(* kmalloc returned.                                                       *)
HeldBelowHeapEnd ==
  \A c \in Clients : held[c] # Nothing => held[c].addr < HEAP_END

=============================================================================

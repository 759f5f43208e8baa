------------------------------- MODULE Memory -------------------------------
(***************************************************************************)
(* Physical pages (hal.x86/pmm.c) and address spaces (hal.x86/vmm.c), with *)
(* the system calls that use them: launch_elf_program, sbrk and the death  *)
(* of a process.  All of them run with interrupts off.                     *)
(*                                                                         *)
(* An address is a page number; the bitmap is the set of the used pages.   *)
(* From low to high: the kernel, the page pool (contexts, page directories *)
(* and page tables), the heap, and from HEAP_END on the frames of user     *)
(* memory.  Only the contents of pool pages are modelled: a page is        *)
(* Entries words, a word is 0 or the page number an entry points to.  The  *)
(* flags of an entry are read in one place, destroy_context; there it is   *)
(* chosen which of them the CPU has set since (accessed, dirty).           *)
(* free_memory and total_memory are only printed.                          *)
(*                                                                         *)
(* The kernel works at addresses that are mapped to themselves, by page    *)
(* tables that all contexts share.  The code can free them and map over    *)
(* them (KernelTablesKept, KernelMapKept).  It then no longer works on the *)
(* pages the model says it does, so there the behaviour ends.              *)
(***************************************************************************)
EXTENDS Integers, SequencesExt

CONSTANTS
  NULL,
  NumPages,        \* pages of the bitmap
  PAGEPOOL_START, PAGEPOOL_END, HEAP_END,
  Entries,         \* words of a page directory or page table
  Shift,           \* how far one byte moves a page number up: 2^8
  PageFlags,       \* what the accessed and dirty bits add to it: {0, 2, 6}
  Late, LateTouched,  \* how many words late a page table is read through
                   \* its entry with the flags: 2, and if accessed 10
  KernelTouched,   \* page tables the boot has used, as InitVmm numbers them
  Modules,         \* pages of the multiboot structures and modules, which the
                   \* boot loader puts right behind the kernel
  Procs, Boot,     \* processes that ever exist, and those of the boot
  Images,          \* images: a sequence of segments [at, pages]
  UserPool,        \* USERSPACE_PAGEPOOL
  PageUnits,       \* units of sbrk in a page
  SbrkSizes        \* arguments of sbrk, in units

ASSUME MemoryAssumption ==
  /\ NumPages \in Nat /\ PAGEPOOL_START \in Nat /\ PAGEPOOL_END \in Nat /\ HEAP_END \in Nat
  /\ 0 < PAGEPOOL_START /\ PAGEPOOL_START < PAGEPOOL_END
  /\ PAGEPOOL_END < HEAP_END /\ HEAP_END < NumPages
  /\ Modules \subseteq 0 .. PAGEPOOL_END - 1
  /\ Boot \subseteq Procs /\ IsFiniteSet(Boot)
  /\ Entries \in Nat \ {0} /\ PageUnits \in Nat \ {0}
  /\ UserPool \in Nat /\ UserPool < Entries * Entries
  /\ SbrkSizes \subseteq Nat \ {0}
  /\ Shift \in Nat /\ PageFlags \subseteq Nat
  /\ Late \in 0 .. Entries /\ LateTouched \in 0 .. Entries

(* Page tables of the kernel's part of the address space, which all        *)
(* contexts share, and of the rest: images and the user heap lie there.    *)
KernelSlots == 0 .. HEAP_END \div Entries
UserSlots   == (HEAP_END \div Entries) + 1 .. Entries - 1

ASSUME LayoutAssumption ==
  /\ KernelTouched \subseteq KernelSlots /\ 0 \in KernelTouched
  /\ UserPool \div Entries \in UserSlots
  /\ \A image \in Images :
       /\ image \in Seq([at : Nat, pages : Nat])
       /\ \A k \in 1 .. Len(image) : /\ image[k].at \div Entries \in UserSlots
                                     /\ image[k].at + image[k].pages <= UserPool

VARIABLES
  used,        \* the pages whose bit is set
  mem,         \* contents of the pool pages
  context,     \* process->context, NULL for no process
  sbrk_state,  \* process->sbrk_state
  unborn,      \* processes not created yet
  lost,        \* contexts of failed launches, which nobody frees
  panic,       \* the assertion that failed, "none" before
  wrapped      \* history: processes whose heap has reached the last page of
               \* the address space or run over its end

memoryVars == <<used, mem, context, sbrk_state, unborn, lost, panic, wrapped>>

PoolPages == PAGEPOOL_START .. PAGEPOOL_END - 1
Slots     == 0 .. Entries - 1
Zeroed    == [i \in Slots |-> 0]
Frames    == HEAP_END .. NumPages - 1

(* Pages and units of the address space: addresses are modulo 2^32. *)
VirtualPages == Entries * Entries
VirtualUnits == VirtualPages * PageUnits

-----------------------------------------------------------------------------
(* pmm.c *)

(* The bitmap InitPmm leaves behind.  It is cleared first, so the free     *)
(* pages of the memory map change nothing; then the kernel, the multiboot  *)
(* structures and modules, the heap and the interrupt vectors are marked.  *)
InitPmm == (0 .. PAGEPOOL_START - 1) \cup Modules \cup (PAGEPOOL_END .. HEAP_END - 1)

(* pmm_alloc: the first page from start on whose bit is clear. *)
pmm_alloc(u, start, end) ==
  LET clear == {i \in start .. end - 1 : i \notin u}
  IN  IF clear = {} THEN NULL ELSE Min(clear)

pmm_alloc_start(u, start) == pmm_alloc(u, start, NumPages)

-----------------------------------------------------------------------------
(* vmm.c: operators from a state [used, mem, panic] to a state. *)

AllocPool(s) == pmm_alloc(s.used, PAGEPOOL_START, PAGEPOOL_END)

Fail(s, why) ==
  [used |-> s.used, mem |-> s.mem, panic |-> IF s.panic = "none" THEN why ELSE s.panic]

(* create_context: the new context is the page the first call returns. *)
create_context(s) ==
  LET c == AllocPool(s)
      d == pmm_alloc(s.used \cup {c}, PAGEPOOL_START, PAGEPOOL_END)
  IN  IF s.panic # "none" \/ c = NULL \/ d = NULL
      THEN Fail(s, "pool")
      ELSE [used  |-> s.used \cup {c, d},
            mem   |-> [s.mem EXCEPT ![c][0] = d, ![d] = Zeroed],
            panic |-> "none"]

(* CreateUsermodeContext: the page tables of the kernel are shared. *)
CreateUsermodeContext(s, kernel) ==
  LET t == create_context(s)
      d == t.mem[AllocPool(s)][0]
  IN  IF t.panic # "none" THEN t
      ELSE [used |-> t.used, mem |-> [t.mem EXCEPT ![d] = t.mem[t.mem[kernel][0]]],
            panic |-> "none"]

(* map_page: enter the mapping, in a new page table if there is none yet. *)
map_page(s, c, virt, phys) ==
  LET d     == s.mem[c][0]
      slot  == virt \div Entries
      old   == s.mem[d][slot]
      table == IF old # 0 THEN old ELSE AllocPool(s)
      words == IF old # 0 THEN s.mem[old] ELSE Zeroed
  IN  IF s.panic # "none" \/ table = NULL
      THEN Fail(s, "pool")
      ELSE [used  |-> s.used \cup {table},
            mem   |-> [s.mem EXCEPT ![d][slot] = table,
                                    ![table] = [words EXCEPT ![virt % Entries] = phys]],
            panic |-> "none"]

(* map_range with identical addresses from page 0 on. *)
map_range(s, c, n) ==
  LET mapped[k \in 0 .. n] ==
        IF k = 0 THEN s ELSE map_page(mapped[k - 1], c, k - 1, k - 1)
  IN  mapped[n]

(* InitVmm: the loops of map_range run one page too far. *)
InitVmm(s) == map_range(create_context(s), AllocPool(s), HEAP_END + 1)

(* One round of the loop of vmm_alloc. *)
AllocPage(s, c, virt) ==
  LET f == pmm_alloc_start(s.used, HEAP_END)
  IN  IF s.panic # "none" \/ f = NULL THEN Fail(s, "frames")
      ELSE map_page([used |-> s.used \cup {f}, mem |-> s.mem, panic |-> "none"],
                    c, virt, f)

(* vmm_alloc: n pages of user memory from page virt on. *)
vmm_alloc(s, c, virt, n) ==
  LET mapped[k \in 0 .. n] ==
        IF k = 0 THEN s ELSE AllocPage(mapped[k - 1], c, (virt + k - 1) % VirtualPages)
  IN  mapped[n]

(* ParseElf: memory for each segment of the image. *)
ParseElf(s, c, image) ==
  LET loaded[k \in 0 .. Len(image)] ==
        IF k = 0 THEN s
        ELSE vmm_alloc(loaded[k - 1], c, image[k].at, image[k].pages)
  IN  loaded[Len(image)]

(* The entries of the page directory that differ from the kernel's.  The   *)
(* accessed bits are compared too; touched are the entries where the CPU   *)
(* has set it.                                                             *)
OwnSlots(m, c, kernel, touched) ==
  {i \in Slots : /\ m[m[c][0]][i] # 0
                 /\ \/ m[m[c][0]][i] # m[m[kernel][0]][i]
                    \/ i \in touched <=> i \notin KernelTouched}

(* The words destroy_context reads as the page table in slot i.  Its       *)
(* address still carries the flags (7, or 39 if accessed), so all is read  *)
(* late, at the end from the next page.                                    *)
Misread(m, c, i, touched) ==
  LET t    == m[m[c][0]][i]
      late == IF i \in touched THEN LateTouched ELSE Late
  IN  {IF k < Entries THEN <<t, k>> ELSE <<t + 1, k - Entries>> : k \in late .. late + Entries - 1}

(* Read three bytes early, the page number of an entry comes out shifted   *)
(* up by a byte, with the accessed and dirty bits f below.                 *)
Shifted(m, w, f) == (m[w[1]][w[2]] * Shift + f) % NumPages

(* The words that may come out as a page behind the heap, and those that   *)
(* nothing is known about.                                                 *)
Entry(m, w) ==
  /\ w[1] \in PoolPages \ Modules /\ m[w[1]][w[2]] # 0
  /\ \E f \in PageFlags : Shifted(m, w, f) \in Frames

Unknown(w) == w[1] \notin PoolPages \ Modules

(* Mutated form: the entries are not compared with HEAP_END. *)
GarbledAll(m, flags) == {Shifted(m, w, flags[w]) : w \in DOMAIN flags}

(* The pages that are freed for these words. *)
Garbled(m, flags) == {Shifted(m, w, flags[w]) : w \in DOMAIN flags} \cap Frames

(* Mutated form: the page tables are not freed. *)
destroy_contextKeepTables(s, c, own, freed) ==
  [used |-> s.used \ (freed \cup {s.mem[c][0], c}), mem |-> s.mem, panic |-> s.panic]

(* destroy_context: what is read from the page tables, the tables, the     *)
(* directory and the context are freed.                                    *)
destroy_context(s, c, own, freed) ==
  LET d == s.mem[c][0]
  IN  [used  |-> s.used \ (freed \cup {s.mem[d][i] : i \in own} \cup {d, c}),
       mem   |-> s.mem,
       panic |-> s.panic]

-----------------------------------------------------------------------------

(* The first context that is created. *)
kernel_context == pmm_alloc(InitPmm, PAGEPOOL_START, PAGEPOOL_END)

(* The context of a process InitMultitasking creates. *)
BootProcess(b, p) ==
  [state   |-> CreateUsermodeContext(b.state, kernel_context),
   context |-> [b.context EXCEPT ![p] = AllocPool(b.state)]]

(* What init() leaves behind: the context of the kernel, and one for each  *)
(* process InitMultitasking creates.                                       *)
Booted ==
  LET boot  == SetToSeq(Boot)
      start == [used |-> InitPmm, mem |-> [p \in PoolPages |-> Zeroed], panic |-> "none"]
      booted[k \in 0 .. Len(boot)] ==
        IF k = 0 THEN [state |-> InitVmm(start), context |-> [p \in Procs |-> NULL]]
        ELSE BootProcess(booted[k - 1], boot[k])
  IN  booted[Len(boot)]

MemoryInit ==
  /\ used       = Booted.state.used
  /\ mem        = Booted.state.mem
  /\ panic      = Booted.state.panic
  /\ context    = Booted.context
  /\ sbrk_state = [p \in Procs |-> 0]
  /\ unborn     = Procs \ Boot
  /\ lost       = {}
  /\ wrapped    = {}

Alive == {p \in Procs : context[p] # NULL}

Now == [used |-> used, mem |-> mem, panic |-> panic]

Become(s) == used' = s.used /\ mem' = s.mem /\ panic' = s.panic

(* The pool pages a page directory leads to, with itself and its context. *)
Reachable(c) == {c, mem[c][0]} \cup ({mem[mem[c][0]][i] : i \in Slots} \ {0})

KernelPages == Reachable(kernel_context)

(* The pool pages only the context c leads to. *)
PoolPagesOf(c) == {c, mem[c][0]} \cup (Reachable(c) \ KernelPages)

(* What page v of the address space of c is mapped to, 0 for nothing. *)
Translate(c, v) ==
  LET table == mem[mem[c][0]][v \div Entries]
  IN  IF table = 0 THEN 0 ELSE mem[table][v % Entries]

(* "assert(context != kernel_context);" (vmm.c): the death of a process    *)
(* does not give back what belongs to the kernel.  The page tables in      *)
(* kernel_context stay in use.                                             *)
KernelTablesKept == KernelPages \subseteq used

(* "Userspace heap ab 1GB" (vmm.h): the kernel's part of the address space *)
(* is not given to user memory.  The pages up to HEAP_END stay mapped to   *)
(* themselves, and the shared page tables map nothing else.                *)
KernelMapKept ==
  \A v \in 0 .. VirtualPages - 1 : v \div Entries \in KernelSlots =>
    Translate(kernel_context, v) = IF v <= HEAP_END THEN v ELSE 0

Running == panic = "none" /\ KernelTablesKept /\ KernelMapKept

(* launch_elf_program: a context, the segments of the image (ParseElf) and *)
(* a process.                                                              *)
SyscallLaunchElf(p, image) ==
  LET c == AllocPool(Now)
      s == ParseElf(CreateUsermodeContext(Now, kernel_context), c, image)
  IN  /\ Running /\ Alive # {}
      /\ p \in unborn
      /\ Become(s)
      /\ \/ /\ s.panic = "none"
            /\ unborn'     = unborn \ {p}
            /\ context'    = [context EXCEPT ![p] = c]
            /\ sbrk_state' = [sbrk_state EXCEPT ![p] = 0]
         \/ /\ s.panic # "none"
            /\ UNCHANGED <<unborn, context, sbrk_state>>
      /\ UNCHANGED <<lost, wrapped>>

(* The same with a damaged image: ParseElf returns NULL. *)
SyscallLaunchDamaged ==
  LET s == CreateUsermodeContext(Now, kernel_context)
  IN  /\ Running /\ Alive # {}
      /\ Become(s)
      /\ lost' = IF s.panic = "none" THEN lost \cup {AllocPool(Now)} ELSE lost
      /\ UNCHANGED <<context, sbrk_state, unborn, wrapped>>

(* The rounds of the loop of vmm_alloc from address a on.  None when the   *)
(* end has wrapped; no end when it lies in the last page of all, whose     *)
(* next page is 0: there are not as many frames as that.                   *)
Rounds(a, end) ==
  IF end <= a THEN 0
  ELSE IF end > VirtualUnits - PageUnits THEN NumPages
  ELSE (end - a + PageUnits - 1) \div PageUnits

(* Mutated form: the break is not moved. *)
NextBreakStuck(state, size) == state

NextBreak(state, size) == (state + size) % VirtualUnits

(* sbrk: the size is not rounded, and map_page asserts that the address it *)
(* is given is the start of a page, with the first frame already taken.    *)
(* The boot processes do not call it.                                      *)
SyscallSbrk(p, size) ==
  LET a == (UserPool * PageUnits + sbrk_state[p]) % VirtualUnits
      n == Rounds(a, (a + size) % VirtualUnits)
      f == pmm_alloc_start(used, HEAP_END)
      s == IF n = 0 THEN Now
           ELSE IF a % PageUnits = 0
           THEN vmm_alloc(Now, context[p], a \div PageUnits, n)
           ELSE IF f = NULL THEN Fail(Now, "frames")
           ELSE [used |-> used \cup {f}, mem |-> mem, panic |-> "alignment"]
  IN  /\ Running
      /\ p \in Alive \ Boot
      /\ Become(s)
      /\ sbrk_state' = IF s.panic = "none"
                       THEN [sbrk_state EXCEPT ![p] = NextBreak(@, size)] ELSE sbrk_state
      /\ wrapped' = IF a + size > VirtualUnits - PageUnits THEN wrapped \cup {p} ELSE wrapped
      /\ UNCHANGED <<context, unborn, lost>>

(* The entries of the page directory of p that the CPU may have marked as  *)
(* accessed.  The first page table, of the kernel's code, always is; those *)
(* of the boot are in a context that is copied later.                      *)
Touchable(p) ==
  {touched \in SUBSET {i \in Slots : mem[mem[context[p]][0]][i] # 0} :
     0 \in touched /\ (p \notin Boot => KernelTouched \subseteq touched)}

(* KillProcess. *)
KillProcess(p) ==
  /\ Running
  /\ p \in Alive
  /\ \E touched \in Touchable(p) :
       LET c     == context[p]
           own   == OwnSlots(mem, c, kernel_context, touched)
           words == UNION {Misread(mem, c, i, touched) : i \in own}
       IN  \E flags \in [{w \in words : Entry(mem, w)} -> PageFlags],
              other \in SUBSET (IF \E w \in words : Unknown(w) THEN Frames ELSE {}) :
             Become(destroy_context(Now, c, own, Garbled(mem, flags) \cup other))
  /\ context' = [context EXCEPT ![p] = NULL]
  /\ UNCHANGED <<sbrk_state, unborn, lost, wrapped>>

MemoryNext ==
  \/ \E p \in Procs, image \in Images : SyscallLaunchElf(p, image)
  \/ SyscallLaunchDamaged
  \/ \E p \in Procs, size \in SbrkSizes : SyscallSbrk(p, size)
  \/ \E p \in Procs : KillProcess(p)

MemorySpec == MemoryInit /\ [][MemoryNext]_memoryVars

-----------------------------------------------------------------------------

AddressSpace(c) == [v \in 0 .. VirtualPages - 1 |-> Translate(c, v)]

(* The frames a process has in its own part of the address space. *)
FramesOf(p) ==
  {AddressSpace(context[p])[v] : v \in HEAP_END + 1 .. VirtualPages - 1} \ {0}

(* The page pool is accounted for as long as the kernel has its page       *)
(* tables: the pages in use are exactly those of the modules, of the       *)
(* kernel, of the living processes and of failed launches, and no page has *)
(* two owners.  Whatever destroy_context reads through the misaligned      *)
(* pointer, a death that leaves the kernel its tables gives back all pool  *)
(* pages of the process and no other.                                      *)
PoolOwned ==
  Running =>
    LET owners == {context[p] : p \in Alive} \cup lost
        boot   == KernelPages \cup (Modules \cap PoolPages)
    IN  /\ used \cap PoolPages = boot \cup UNION {PoolPagesOf(c) : c \in owners}
        /\ \A c \in owners : PoolPagesOf(c) \cap boot = {}
        /\ \A c, e \in owners : c # e => PoolPagesOf(c) \cap PoolPagesOf(e) = {}

(* Pages of the kernel, the modules and the heap stay marked for ever: no  *)
(* process gets them as user memory or as a page table.                    *)
ReservedStay == InitPmm \subseteq used

(* As long as the kernel has its page tables, no step of the system        *)
(* changes the address space of a living process except by adding pages:   *)
(* page tables that are freed or reused for one process are never those of *)
(* another.  Only the sbrk of a process whose heap has run over the end of *)
(* the address space maps over what it has itself, its image.              *)
AddressSpacesStable ==
  [][Running' =>
       \A p \in Alive :
         /\ context'[p] = context[p]
         /\ p \in wrapped' => ~ \E size \in SbrkSizes : SyscallSbrk(p, size)
         => \A v \in 0 .. VirtualPages - 1 :
              Translate(context[p], v) # 0 => Translate(context[p], v)' = Translate(context[p], v)
    ]_memoryVars

(* "Sucht eine freie Seite im Speicher" (pmm.c): a page handed out as user *)
(* memory is not in use, so no two living processes share a frame.         *)
FramesDisjoint ==
  panic = "none" => \A p, q \in Alive : p # q => FramesOf(p) \cap FramesOf(q) = {}

=============================================================================

---------------------------- MODULE MemoryProofs ----------------------------
(***************************************************************************)
(* The page pool is accounted for and address spaces do not disturb each   *)
(* other, for any number of pages, processes and images.                   *)
(*                                                                         *)
(* The operators of Memory change a state [used, mem, panic] in several    *)
(* steps; what holds after each of them is stated of the bitmap u and the  *)
(* contents m of the pool.                                                 *)
(***************************************************************************)
EXTENDS Memory, TLAPS, WellFoundedInduction, SequenceTheorems, FiniteSetTheorems

Contents == [PoolPages -> [Slots -> Nat]]

Panics == {"none", "pool", "frames", "alignment"}

States == [used : SUBSET Nat, mem : Contents, panic : Panics]

(* The slots of the page directory whose page tables belong to context c. *)
SlotsOf(c) == IF c = kernel_context THEN KernelSlots ELSE UserSlots

Dir(m, c) == m[c][0]

Table(m, c, i) == m[m[c][0]][i]

(* Pool page n belongs to context c: the context itself, its page          *)
(* directory or one of its own page tables.                                *)
InTree(m, c, n) ==
  \/ n = c
  \/ n = Dir(m, c)
  \/ n # 0 /\ \E i \in SlotsOf(c) : Table(m, c, i) = n

(* The pages of a context are different pages of the pool. *)
Shape(m, c) ==
  /\ c \in PoolPages /\ Dir(m, c) \in PoolPages /\ Dir(m, c) # c
  /\ \A i \in SlotsOf(c) : Table(m, c, i) # 0 =>
       Table(m, c, i) \in PoolPages /\ Table(m, c, i) # c /\ Table(m, c, i) # Dir(m, c)
  /\ \A i, j \in SlotsOf(c) :
       Table(m, c, i) = Table(m, c, j) /\ Table(m, c, i) # 0 => i = j

(* The kernel uses its own slots only, and all contexts have its tables    *)
(* there.                                                                  *)
Shared(m, C) ==
  /\ \A i \in UserSlots : Table(m, kernel_context, i) = 0
  /\ \A c \in C : \A i \in KernelSlots : Table(m, c, i) = Table(m, kernel_context, i)

(* C is the set of contexts besides that of the kernel. *)
All(C) == C \cup {kernel_context}

PoolInv(u, m, C) ==
  /\ m \in Contents
  /\ kernel_context \notin C
  /\ \A c \in All(C) : Shape(m, c)
  /\ Shared(m, C)
  /\ \A c \in All(C) : \A n \in PoolPages : InTree(m, c, n) => n \in u /\ n \notin Modules
  /\ \A c, e \in All(C) : \A n \in PoolPages : InTree(m, c, n) /\ InTree(m, e, n) => c = e
  /\ \A n \in PoolPages : n \in u => n \in Modules \/ \E c \in All(C) : InTree(m, c, n)

(* Pages that are reserved at boot stay so also when an assertion fails. *)
StateOK(s, C) ==
  /\ s \in States
  /\ InitPmm \subseteq s.used
  /\ s.panic = "none" => PoolInv(s.used, s.mem, C)

Owners == {context[p] : p \in Alive} \cup lost

(* What page v of the address space of c is mapped to. *)
Trans(m, c, v) ==
  IF m[m[c][0]][v \div Entries] = 0 THEN 0 ELSE m[m[m[c][0]][v \div Entries]][v % Entries]

VirtPages == 0 .. Entries * Entries - 1

PagesOf(size) == (size + PageUnits - 1) \div PageUnits

(* Behind the user heap of a process nothing is mapped yet, as long as the *)
(* heap has not reached the end of the address space.                      *)
HeapEnds ==
  \A p \in (Alive \ Boot) \ wrapped :
    /\ UserPool * PageUnits + sbrk_state[p] <= VirtualUnits - PageUnits
    /\ \A v \in VirtPages :
         v >= UserPool + PagesOf(sbrk_state[p]) => Trans(mem, context[p], v) = 0

(* No two processes have the same context. *)
ContextsApart ==
  /\ \A p, q \in Alive : context[p] = context[q] => p = q
  /\ \A p \in Alive : context[p] \notin lost
  /\ Alive \cap unborn = {}

(* What holds as long as the kernel has its page tables. *)
Sound ==
  /\ StateOK(Now, Owners)
  /\ DOMAIN context = Procs
  /\ Boot \cap unborn = {}
  /\ sbrk_state \in [Procs -> Nat]
  /\ panic = "none" => ContextsApart /\ HeapEnds

MemoryInv ==
  /\ Now \in States
  /\ InitPmm \subseteq used
  /\ KernelTablesKept => Sound

-----------------------------------------------------------------------------
(* The layout of memory and the allocator of pool pages.                   *)

LEMMA Layout ==
  /\ PoolPages \subseteq Nat /\ 0 \notin PoolPages
  /\ 0 \in Slots /\ Slots \subseteq Nat
  /\ KernelSlots \subseteq Slots /\ UserSlots \subseteq Slots
  /\ \A i \in Slots : i \in KernelSlots <=> i \notin UserSlots
  /\ PoolPages \cap InitPmm = PoolPages \cap Modules
  /\ \A n \in InitPmm : n < HEAP_END
<1>1. HEAP_END \div Entries \in Nat
  BY MemoryAssumption
<1>2. (HEAP_END \div Entries) + 1 <= Entries - 1
  BY <1>1, MemoryAssumption, LayoutAssumption DEF UserSlots
<1>3. KernelSlots \subseteq Slots /\ UserSlots \subseteq Slots /\ 0 \in Slots /\ Slots \subseteq Nat
  BY <1>1, <1>2, MemoryAssumption DEF KernelSlots, UserSlots, Slots
<1>4. \A i \in Slots : i \in KernelSlots <=> i \notin UserSlots
  BY <1>1, <1>2, MemoryAssumption DEF KernelSlots, UserSlots, Slots
<1>5. PoolPages \subseteq Nat /\ 0 \notin PoolPages
  BY MemoryAssumption DEF PoolPages
<1>6. PoolPages \cap InitPmm = PoolPages \cap Modules /\ \A n \in InitPmm : n < HEAP_END
  BY MemoryAssumption DEF PoolPages, InitPmm
<1> QED BY <1>3, <1>4, <1>5, <1>6

LEMMA LeastElement ==
  ASSUME NEW S \in SUBSET Nat, S # {}
  PROVE  \E x \in S : \A y \in S : x <= y
<1>1. PICK x \in S : \A y \in S : ~(<<y, x>> \in OpToRel(<, Nat))
  BY NatLessThanWellFounded, WFMin, Zenon
<1>2. \A y \in S : x <= y
  <2>1. SUFFICES ASSUME NEW y \in S, ~(x <= y) PROVE FALSE
    OBVIOUS
  <2>2. y \in Nat /\ x \in Nat /\ y < x
    BY <2>1
  <2>3. <<y, x>> \in OpToRel(<, Nat)
    BY <2>2 DEF OpToRel
  <2> QED BY <2>3, <1>1
<1> QED BY <1>2

(* pmm_alloc returns a page whose bit is clear. *)
LEMMA AllocFacts ==
  ASSUME NEW u, NEW start \in Nat, NEW end \in Nat, pmm_alloc(u, start, end) # NULL
  PROVE  pmm_alloc(u, start, end) \in start .. end - 1 /\ pmm_alloc(u, start, end) \notin u
<1> DEFINE clear == {i \in start .. end - 1 : i \notin u}
<1>1. pmm_alloc(u, start, end) = IF clear = {} THEN NULL ELSE Min(clear)
  BY Zenon DEF pmm_alloc
<1>2. clear # {} /\ clear \in SUBSET Nat
  BY <1>1
<1> HIDE DEF clear
<1>3. \E x \in clear : \A y \in clear : x <= y
  BY <1>2, LeastElement
<1>4. Min(clear) \in clear
  BY <1>3, Zenon DEF Min
<1> QED BY <1>1, <1>2, <1>4 DEF clear

LEMMA PoolPageIsFree ==
  ASSUME NEW s, AllocPool(s) # NULL
  PROVE  AllocPool(s) \in PoolPages /\ AllocPool(s) \notin s.used
<1>1. AllocPool(s) = pmm_alloc(s.used, PAGEPOOL_START, PAGEPOOL_END)
  BY DEF AllocPool
<1>2. PAGEPOOL_START \in Nat /\ PAGEPOOL_END \in Nat
  BY MemoryAssumption
<1> QED BY <1>1, <1>2, AllocFacts DEF PoolPages

LEMMA FrameIsFree ==
  ASSUME NEW u, pmm_alloc_start(u, HEAP_END) # NULL
  PROVE  /\ pmm_alloc_start(u, HEAP_END) \in HEAP_END .. NumPages - 1
         /\ pmm_alloc_start(u, HEAP_END) \notin u
<1>1. pmm_alloc_start(u, HEAP_END) = pmm_alloc(u, HEAP_END, NumPages)
  BY DEF pmm_alloc_start
<1>2. HEAP_END \in Nat /\ NumPages \in Nat
  BY MemoryAssumption
<1> QED BY <1>1, <1>2, AllocFacts

-----------------------------------------------------------------------------
(* Steps on the bitmap and the contents of the pool.                       *)

(* Nothing changes in the contexts and page directories. *)
LEMMA SameTrees ==
  ASSUME NEW m, NEW m2, NEW c, m2[c] = m[c], m2[Dir(m, c)] = m[Dir(m, c)]
  PROVE  /\ Dir(m2, c) = Dir(m, c)
         /\ \A i \in Slots : Table(m2, c, i) = Table(m, c, i)
         /\ \A n : InTree(m2, c, n) <=> InTree(m, c, n)
         /\ Shape(m, c) => Shape(m2, c)
<1>1. Dir(m2, c) = Dir(m, c)
  BY DEF Dir
<1>2. \A i : Table(m2, c, i) = Table(m, c, i)
  BY <1>1 DEF Table, Dir
<1>3. \A n : InTree(m2, c, n) <=> InTree(m, c, n)
  BY <1>1, <1>2 DEF InTree
<1>4. Shape(m, c) => Shape(m2, c)
  BY <1>1, <1>2 DEF Shape
<1> QED BY <1>1, <1>2, <1>3, <1>4

(* A frame of user memory is taken. *)
LEMMA FrameStep ==
  ASSUME NEW u, NEW m, NEW C, PoolInv(u, m, C), NEW f \in HEAP_END .. NumPages - 1
  PROVE  PoolInv(u \cup {f}, m, C)
<1>1. f \notin PoolPages
  BY MemoryAssumption DEF PoolPages
<1> QED BY <1>1 DEF PoolInv

(* The context and directory of a context are no page tables. *)
LEMMA TableIsNoDir ==
  ASSUME NEW u, NEW m, NEW C, PoolInv(u, m, C), NEW c \in All(C), NEW e \in All(C),
         NEW i \in SlotsOf(c), Table(m, c, i) # 0
  PROVE  /\ Table(m, c, i) \in PoolPages
         /\ e # Table(m, c, i) /\ Dir(m, e) # Table(m, c, i)
<1> DEFINE t == Table(m, c, i)
<1>1. Shape(m, c) /\ Shape(m, e)
  BY DEF PoolInv
<1>2. t \in PoolPages /\ t # c /\ t # Dir(m, c)
  BY <1>1 DEF Shape
<1>3. InTree(m, c, t) /\ InTree(m, e, e) /\ InTree(m, e, Dir(m, e))
  BY DEF InTree
<1>4. InTree(m, e, t) => c = e
  BY <1>2, <1>3 DEF PoolInv
<1> HIDE DEF t
<1>5. e # t /\ Dir(m, e) # t
  BY <1>2, <1>3, <1>4
<1> QED BY <1>2, <1>5 DEF t

(* An entry is written into a page table that is already there. *)
LEMMA EntryStep ==
  ASSUME NEW u, NEW m, NEW C, PoolInv(u, m, C), NEW c \in All(C), NEW i \in SlotsOf(c),
         Table(m, c, i) # 0, NEW m2 \in Contents,
         \A n \in PoolPages : n # Table(m, c, i) => m2[n] = m[n]
  PROVE  PoolInv(u, m2, C)
<1>1. ASSUME NEW e \in All(C)
      PROVE  m2[e] = m[e] /\ m2[Dir(m, e)] = m[Dir(m, e)] /\ Shape(m, e)
  <2>1. e # Table(m, c, i) /\ Dir(m, e) # Table(m, c, i)
    BY TableIsNoDir
  <2>2. Shape(m, e)
    BY DEF PoolInv
  <2> QED BY <2>1, <2>2 DEF Shape
<1>2. ASSUME NEW e \in All(C)
      PROVE  /\ \A k \in Slots : Table(m2, e, k) = Table(m, e, k)
             /\ \A n : InTree(m2, e, n) <=> InTree(m, e, n)
             /\ Shape(m2, e)
  BY <1>1, SameTrees
<1>3. Shared(m2, C)
  BY <1>2, Layout DEF PoolInv, Shared, All
<1> QED BY <1>2, <1>3 DEF PoolInv

(* A new page table t is entered into the directory of c. *)
LEMMA TableStep ==
  ASSUME NEW u, NEW m, NEW C, PoolInv(u, m, C), NEW c \in All(C), NEW i \in SlotsOf(c),
         c = kernel_context => C = {},
         Table(m, c, i) = 0, NEW t \in PoolPages, t \notin u, InitPmm \subseteq u,
         NEW m2 \in Contents,
         \A n \in PoolPages : n # t /\ n # Dir(m, c) => m2[n] = m[n],
         \A k \in Slots : m2[Dir(m, c)][k] = IF k = i THEN t ELSE Table(m, c, k)
  PROVE  PoolInv(u \cup {t}, m2, C)
<1>1. \A e \in All(C) : Shape(m, e) /\ InTree(m, e, e) /\ InTree(m, e, Dir(m, e))
  BY DEF PoolInv, InTree
<1>2. \A e \in All(C) : e \in PoolPages /\ e \in u /\ Dir(m, e) \in PoolPages /\ Dir(m, e) \in u
  BY <1>1 DEF PoolInv, Shape
<1>3. \A e \in All(C) : e # Dir(m, c) /\ (Dir(m, e) = Dir(m, c) => e = c)
  <2>1. ASSUME NEW e \in All(C) PROVE e # Dir(m, c) /\ (Dir(m, e) = Dir(m, c) => e = c)
    <3>1. \A n \in PoolPages : InTree(m, c, n) /\ InTree(m, e, n) => c = e
      BY DEF PoolInv
    <3>2. c # Dir(m, c)
      BY <1>1 DEF Shape
    <3> QED BY <3>1, <3>2, <1>1, <1>2
  <2> QED BY <2>1
<1>4. ASSUME NEW e \in All(C), e # c
      PROVE  /\ \A k \in Slots : Table(m2, e, k) = Table(m, e, k)
             /\ \A n : InTree(m2, e, n) <=> InTree(m, e, n)
             /\ Shape(m2, e)
  <2>1. m2[e] = m[e] /\ m2[Dir(m, e)] = m[Dir(m, e)]
    BY <1>2, <1>3, <1>4
  <2> QED BY <2>1, <1>1, SameTrees
<1>5. SlotsOf(c) \subseteq Slots /\ i \in Slots
  BY Layout DEF SlotsOf
<1>6. m2[c] = m[c] /\ Dir(m2, c) = Dir(m, c)
  BY <1>2, <1>3 DEF Dir
<1>7. \A k \in Slots : Table(m2, c, k) = IF k = i THEN t ELSE Table(m, c, k)
  BY <1>6 DEF Table, Dir
<1>8. t # 0 /\ t # c /\ t # Dir(m, c) /\ t \notin Modules
  <2>1. t \notin Modules
    BY Layout
  <2> QED BY <2>1, <1>2, Layout
<1>9. \A k \in SlotsOf(c) : Table(m, c, k) # 0 => Table(m, c, k) # t
  <2>1. ASSUME NEW k \in SlotsOf(c), Table(m, c, k) # 0 PROVE Table(m, c, k) # t
    <3>1. InTree(m, c, Table(m, c, k))
      BY <2>1 DEF InTree
    <3>2. Table(m, c, k) \in PoolPages
      BY <2>1, <1>1 DEF Shape
    <3> QED BY <3>1, <3>2 DEF PoolInv
  <2> QED BY <2>1
<1>10. \A n : InTree(m2, c, n) <=> InTree(m, c, n) \/ n = t
  <2>1. ASSUME NEW n PROVE InTree(m2, c, n) => InTree(m, c, n) \/ n = t
    BY <1>5, <1>6, <1>7 DEF InTree
  <2>2. InTree(m2, c, t)
    BY <1>5, <1>7, <1>8 DEF InTree
  <2>3. ASSUME NEW n, InTree(m, c, n) PROVE InTree(m2, c, n)
    <3>1. CASE n = c \/ n = Dir(m, c)
      BY <3>1, <1>6 DEF InTree
    <3>2. CASE n # 0 /\ \E k \in SlotsOf(c) : Table(m, c, k) = n
      BY <3>2, <1>5, <1>7 DEF InTree
    <3> QED BY <3>1, <3>2, <2>3 DEF InTree
  <2> QED BY <2>1, <2>2, <2>3
<1>11. Shape(m2, c)
  <2>1. c \in PoolPages /\ Dir(m2, c) \in PoolPages /\ Dir(m2, c) # c
    BY <1>1, <1>6 DEF Shape
  <2>2. ASSUME NEW k \in SlotsOf(c), Table(m2, c, k) # 0
        PROVE  Table(m2, c, k) \in PoolPages /\ Table(m2, c, k) # c /\ Table(m2, c, k) # Dir(m2, c)
    <3>1. CASE k = i
      BY <3>1, <1>5, <1>6, <1>7, <1>8
    <3>2. CASE k # i
      BY <3>2, <2>2, <1>1, <1>5, <1>6, <1>7 DEF Shape
    <3> QED BY <3>1, <3>2
  <2>3. ASSUME NEW k \in SlotsOf(c), NEW j \in SlotsOf(c),
               Table(m2, c, k) = Table(m2, c, j), Table(m2, c, k) # 0
        PROVE  k = j
    BY <2>3, <1>1, <1>5, <1>7, <1>9 DEF Shape
  <2> QED BY <2>1, <2>2, <2>3 DEF Shape
<1>12. Shared(m2, C)
  <2>1. CASE c = kernel_context
    <3>1. \A k \in UserSlots : k # i /\ k \in Slots
      BY <2>1, Layout DEF SlotsOf
    <3> QED BY <3>1, <2>1, <1>7 DEF PoolInv, Shared
  <2>2. CASE c # kernel_context
    <3>1. \A k \in KernelSlots : k # i /\ k \in Slots
      BY <2>2, <1>5, Layout DEF SlotsOf
    <3>2. \A k \in Slots : Table(m2, kernel_context, k) = Table(m, kernel_context, k)
      BY <2>2, <1>4 DEF All
    <3>3. \A e \in C : \A k \in KernelSlots : Table(m2, e, k) = Table(m, e, k)
      BY <3>1, <1>4, <1>7 DEF All
    <3>4. Shared(m, C) /\ UserSlots \subseteq Slots
      BY Layout DEF PoolInv
    <3> QED BY <3>1, <3>2, <3>3, <3>4 DEF Shared
  <2> QED BY <2>1, <2>2
<1>13. \A e \in All(C) : InTree(m, e, t) => FALSE
  BY DEF PoolInv
<1>14. \A e \in All(C) : \A n \in PoolPages : InTree(m2, e, n) => n \in u \cup {t} /\ n \notin Modules
  BY <1>4, <1>8, <1>10 DEF PoolInv
<1>15. \A e, g \in All(C) : \A n \in PoolPages : InTree(m2, e, n) /\ InTree(m2, g, n) => e = g
  BY <1>4, <1>10, <1>13 DEF PoolInv
<1>16. \A n \in PoolPages : n \in u \cup {t} => n \in Modules \/ \E e \in All(C) : InTree(m2, e, n)
  BY <1>4, <1>10 DEF PoolInv
<1>17. \A e \in All(C) : Shape(m2, e)
  BY <1>4, <1>11
<1> QED BY <1>12, <1>14, <1>15, <1>16, <1>17 DEF PoolInv

(* A new context c with the directory d, a copy of the kernel's. *)
LEMMA ContextStep ==
  ASSUME NEW u, NEW m, NEW C, PoolInv(u, m, C), InitPmm \subseteq u,
         NEW c \in PoolPages, c \notin u, NEW d \in PoolPages, d \notin u, c # d,
         NEW m2 \in Contents,
         \A n \in PoolPages : n # c /\ n # d => m2[n] = m[n],
         m2[c][0] = d, m2[d] = m[Dir(m, kernel_context)]
  PROVE  c \notin All(C) /\ PoolInv(u \cup {c, d}, m2, C \cup {c})
<1>1. \A e \in All(C) : Shape(m, e) /\ InTree(m, e, e) /\ InTree(m, e, Dir(m, e))
  BY DEF PoolInv, InTree
<1>2. \A e \in All(C) : e \in PoolPages /\ e \in u /\ Dir(m, e) \in PoolPages /\ Dir(m, e) \in u
  BY <1>1 DEF PoolInv, Shape
<1>3. ASSUME NEW e \in All(C)
      PROVE  /\ e # c
             /\ \A k \in Slots : Table(m2, e, k) = Table(m, e, k)
             /\ \A n : InTree(m2, e, n) <=> InTree(m, e, n)
             /\ Shape(m2, e)
  <2>1. m2[e] = m[e] /\ m2[Dir(m, e)] = m[Dir(m, e)]
    BY <1>2
  <2> QED BY <2>1, <1>1, <1>2, SameTrees
<1>4. Dir(m2, c) = d /\ c # kernel_context
  BY <1>2 DEF Dir, All
<1>5. \A k \in Slots : Table(m2, c, k) = Table(m, kernel_context, k)
  BY <1>4 DEF Table, Dir
<1>6. SlotsOf(c) = UserSlots /\ \A k \in UserSlots : k \in Slots /\ Table(m2, c, k) = 0
  BY <1>4, <1>5, Layout DEF SlotsOf, PoolInv, Shared
<1>7. \A n : InTree(m2, c, n) <=> n = c \/ n = d
  BY <1>4, <1>6 DEF InTree
<1>8. Shape(m2, c)
  BY <1>4, <1>6 DEF Shape
<1>9. c \notin Modules /\ d \notin Modules
  BY Layout
<1>10. All(C \cup {c}) = All(C) \cup {c} /\ kernel_context \in All(C)
  BY DEF All
<1>11. Shared(m2, C \cup {c})
  <2>1. \A k \in Slots : Table(m2, kernel_context, k) = Table(m, kernel_context, k)
    BY <1>3, <1>10
  <2>2. Shared(m, C) /\ UserSlots \subseteq Slots /\ KernelSlots \subseteq Slots
    BY Layout DEF PoolInv
  <2>3. \A e \in C : \A k \in KernelSlots : Table(m2, e, k) = Table(m2, kernel_context, k)
    BY <2>1, <2>2, <1>3 DEF Shared, All
  <2>4. \A k \in KernelSlots : Table(m2, c, k) = Table(m2, kernel_context, k)
    BY <2>1, <2>2, <1>5
  <2> QED BY <2>1, <2>2, <2>3, <2>4 DEF Shared
<1>12. \A e \in All(C) : ~InTree(m, e, c) /\ ~InTree(m, e, d)
  BY DEF PoolInv
<1>13. \A e \in All(C) \cup {c} : \A n \in PoolPages :
         InTree(m2, e, n) => n \in u \cup {c, d} /\ n \notin Modules
  BY <1>3, <1>7, <1>9 DEF PoolInv
<1>14. \A e, g \in All(C) \cup {c} : \A n \in PoolPages :
         InTree(m2, e, n) /\ InTree(m2, g, n) => e = g
  BY <1>3, <1>7, <1>12 DEF PoolInv
<1>15. \A n \in PoolPages : n \in u \cup {c, d} =>
         n \in Modules \/ \E e \in All(C) \cup {c} : InTree(m2, e, n)
  BY <1>3, <1>7 DEF PoolInv
<1>16. kernel_context \notin C \cup {c}
  BY <1>4 DEF PoolInv
<1>17. c \notin All(C)
  BY <1>3
<1>18. \A e \in All(C \cup {c}) : Shape(m2, e)
  BY <1>3, <1>8, <1>10
<1>19. PoolInv(u \cup {c, d}, m2, C \cup {c})
  BY <1>10, <1>11, <1>13, <1>14, <1>15, <1>16, <1>18 DEF PoolInv
<1> QED BY <1>17, <1>19

(* The context c is destroyed, with frames X. *)
LEMMA DestroyStep ==
  ASSUME NEW u, NEW m, NEW C, PoolInv(u, m, C), NEW c \in C, NEW X,
         X \cap PoolPages = {}
  PROVE  PoolInv(u \ (X \cup {n \in PoolPages : InTree(m, c, n)}), m, C \ {c})
<1> DEFINE u2 == u \ (X \cup {n \in PoolPages : InTree(m, c, n)})
<1>1. c # kernel_context /\ All(C \ {c}) = All(C) \ {c} /\ c \in All(C)
  BY DEF PoolInv, All
<1>2. \A n \in PoolPages : n \in u2 <=> n \in u /\ ~InTree(m, c, n)
  OBVIOUS
<1> HIDE DEF u2
<1>3. \A e \in All(C \ {c}) : \A n \in PoolPages : InTree(m, e, n) => n \in u2 /\ n \notin Modules
  BY <1>1, <1>2 DEF PoolInv
<1>4. \A n \in PoolPages : n \in u2 => n \in Modules \/ \E e \in All(C \ {c}) : InTree(m, e, n)
  BY <1>1, <1>2 DEF PoolInv
<1>5. Shared(m, C \ {c})
  BY DEF PoolInv, Shared
<1>6. PoolInv(u2, m, C \ {c})
  BY <1>1, <1>3, <1>4, <1>5 DEF PoolInv
<1> QED BY <1>6 DEF u2

-----------------------------------------------------------------------------
(* The operators of vmm.c.                                                 *)

LEMMA FailFacts ==
  ASSUME NEW s \in States, NEW why \in {"pool", "frames"}
  PROVE  /\ Fail(s, why) \in States
         /\ Fail(s, why).used = s.used /\ Fail(s, why).mem = s.mem
         /\ Fail(s, why).panic # "none"
<1> DEFINE w == IF s.panic = "none" THEN why ELSE s.panic
<1>1. w \in Panics /\ w # "none"
  <2>1. why \in Panics /\ why # "none"
    <3>1. why = "pool" \/ why = "frames"
      BY Zenon
    <3> QED BY <3>1 DEF Panics
  <2>2. s.panic \in Panics
    BY DEF States
  <2>3. CASE s.panic = "none"
    BY <2>1, <2>3, Zenon
  <2>4. CASE s.panic # "none"
    BY <2>2, <2>4, Zenon
  <2> QED BY <2>3, <2>4, Zenon
<1>2. s.used \in SUBSET Nat /\ s.mem \in Contents
  BY DEF States
<1>3. Fail(s, why) = [used |-> s.used, mem |-> s.mem, panic |-> w]
  BY Zenon DEF Fail
<1> HIDE DEF w
<1> QED BY <1>1, <1>2, <1>3 DEF States

LEMMA StateFields ==
  ASSUME NEW s \in States
  PROVE  s.used \in SUBSET Nat /\ s.mem \in Contents /\ s.panic \in Panics
BY DEF States

(* What map_page does to the pool when it succeeds. *)
Mapped(m, m2, c, i, t, k, phys) ==
  /\ m2 \in Contents
  /\ \A n \in PoolPages : n # t /\ n # Dir(m, c) => m2[n] = m[n]
  /\ \A j \in Slots : m2[Dir(m, c)][j] = IF j = i THEN t ELSE Table(m, c, j)
  /\ \A j \in Slots : m2[t][j] = IF j = k THEN phys
                                 ELSE IF Table(m, c, i) # 0 THEN m[t][j] ELSE 0

LEMMA MapPageResult ==
  ASSUME NEW s \in States, NEW c \in PoolPages, Dir(s.mem, c) \in PoolPages,
         NEW virt \in Nat, virt \div Entries \in Slots, NEW phys \in Nat,
         Table(s.mem, c, virt \div Entries) # 0 =>
           /\ Table(s.mem, c, virt \div Entries) \in PoolPages
           /\ Table(s.mem, c, virt \div Entries) # Dir(s.mem, c),
         s.panic = "none", Dir(s.mem, c) \in s.used,
         map_page(s, c, virt, phys).panic = "none"
  PROVE  \E t \in PoolPages :
           /\ Table(s.mem, c, virt \div Entries) # 0 => t = Table(s.mem, c, virt \div Entries)
           /\ Table(s.mem, c, virt \div Entries) = 0 => t \notin s.used
           /\ map_page(s, c, virt, phys) \in States
           /\ map_page(s, c, virt, phys).used = s.used \cup {t}
           /\ Mapped(s.mem, map_page(s, c, virt, phys).mem, c, virt \div Entries, t,
                     virt % Entries, phys)
<1> DEFINE m == s.mem
           d == m[c][0]
           i == virt \div Entries
           k == virt % Entries
           old == m[d][i]
           t == IF old # 0 THEN old ELSE AllocPool(s)
           b == IF old # 0 THEN m[old] ELSE Zeroed
           m2 == [m EXCEPT ![d][i] = t, ![t] = [b EXCEPT ![k] = phys]]
           r == map_page(s, c, virt, phys)
<1>1. r = IF s.panic # "none" \/ t = NULL THEN Fail(s, "pool")
          ELSE [used |-> s.used \cup {t}, mem |-> m2, panic |-> "none"]
  BY Zenon DEF map_page
<1>2. t # NULL
  <2>1. Fail(s, "pool").panic # "none"
    BY FailFacts
  <2> QED BY <2>1, <1>1, Zenon
<1>3. k \in Slots /\ m \in Contents /\ d = Dir(m, c) /\ old = Table(m, c, i)
  BY MemoryAssumption, StateFields DEF Slots, Dir, Table
<1>4. t \in PoolPages /\ t # d /\ (old = 0 => t \notin s.used)
  BY <1>2, <1>3, PoolPageIsFree
<1>5. r = [used |-> s.used \cup {t}, mem |-> m2, panic |-> "none"]
  BY <1>1, <1>2, Zenon
<1>6. d \in PoolPages /\ i \in Slots /\ t \in Nat /\ m[d] \in [Slots -> Nat] /\ m[t] \in [Slots -> Nat]
  BY <1>3, <1>4, Layout DEF Contents
<1>7. b \in [Slots -> Nat] /\ \A j \in Slots : b[j] = IF old # 0 THEN m[t][j] ELSE 0
  <2>1. Zeroed \in [Slots -> Nat] /\ \A j \in Slots : Zeroed[j] = 0
    BY DEF Zeroed
  <2> QED BY <2>1, <1>6
<1> HIDE DEF d, i, k, t, m, old, b
<1>8. m2 \in Contents /\ \A n \in PoolPages : n # d /\ n # t => m2[n] = m[n]
  BY <1>3, <1>6, <1>7 DEF Contents
<1>9. \A j \in Slots : m2[d][j] = IF j = i THEN t ELSE m[d][j]
  BY <1>3, <1>4, <1>6 DEF Contents
<1>10. \A j \in Slots : m2[t][j] = IF j = k THEN phys ELSE b[j]
  BY <1>3, <1>4, <1>7 DEF Contents
<1> HIDE DEF m2
<1>11. Mapped(m, m2, c, i, t, k, phys)
  <2>1. \A j \in Slots : m2[t][j] = IF j = k THEN phys ELSE IF old # 0 THEN m[t][j] ELSE 0
    BY <1>7, <1>10
  <2>2. \A j : m[d][j] = Table(m, c, j)
    BY DEF Table, d
  <2> QED BY <2>1, <2>2, <1>3, <1>8, <1>9 DEF Mapped
<1>12. r \in States /\ r.used = s.used \cup {t} /\ r.mem = m2
  BY <1>5, <1>6, <1>8, StateFields DEF States
<1> QED BY <1>3, <1>4, <1>11, <1>12 DEF m, i, k, t, old

(* A page number is a slot of the directory and a slot of a page table. *)
LEMMA PageParts ==
  /\ \A v \in VirtPages : v \in Nat /\ v \div Entries \in Slots /\ v % Entries \in Slots
  /\ \A v, w \in Nat : v \div Entries = w \div Entries /\ v % Entries = w % Entries => v = w
<1>0. Entries \in Nat /\ Entries > 0
  BY MemoryAssumption
<1>1. \A v \in Nat : /\ v = Entries * (v \div Entries) + (v % Entries)
                     /\ v % Entries \in 0 .. Entries - 1 /\ v \div Entries \in Nat
  BY <1>0
<1>2. ASSUME NEW v \in VirtPages PROVE v \in Nat /\ v \div Entries \in Slots
  <2>1. v \in Nat /\ v < Entries * Entries
    BY <1>0, <1>2 DEF VirtPages
  <2>2. v \div Entries < Entries
    <3>1. SUFFICES ASSUME v \div Entries >= Entries PROVE FALSE
      BY <2>1, <1>0, <1>1
    <3>2. Entries * (v \div Entries) >= Entries * Entries
      BY <3>1, <2>1, <1>0, <1>1
    <3> QED BY <3>2, <2>1, <1>0, <1>1
  <2> QED BY <2>1, <2>2, <1>0, <1>1 DEF Slots
<1>3. \A v \in VirtPages : v % Entries \in Slots
  BY <1>1, <1>2 DEF Slots
<1>4. ASSUME NEW v \in Nat, NEW w \in Nat,
             v \div Entries = w \div Entries, v % Entries = w % Entries
      PROVE  v = w
  <2>1. /\ v = Entries * (v \div Entries) + (v % Entries)
        /\ w = Entries * (w \div Entries) + (w % Entries)
    BY <1>1
  <2> QED BY <2>1, <1>4, Zenon
<1> QED BY <1>2, <1>3, <1>4

(* A page table a context leads to is one of its own or of the kernel. *)
LEMMA AnyTable ==
  ASSUME NEW u, NEW m, NEW C, PoolInv(u, m, C), NEW e \in All(C), NEW j \in Slots,
         Table(m, e, j) # 0
  PROVE  \E g \in All(C) :
           /\ j \in SlotsOf(g) /\ Table(m, g, j) = Table(m, e, j)
           /\ (g = e \/ g = kernel_context)
           /\ Table(m, e, j) \in PoolPages /\ Table(m, e, j) \in u
           /\ InTree(m, g, Table(m, e, j))
           /\ \A h \in All(C) : Table(m, e, j) # h /\ Table(m, e, j) # Dir(m, h)
<1>0. kernel_context \in All(C) /\ kernel_context \notin C /\ Shared(m, C)
  BY DEF All, PoolInv
<1>1. \E g \in All(C) : /\ j \in SlotsOf(g) /\ Table(m, g, j) = Table(m, e, j)
                        /\ (g = e \/ g = kernel_context)
  <2>1. CASE j \in SlotsOf(e)
    BY <2>1
  <2>2. CASE j \notin SlotsOf(e)
    <3>1. CASE e = kernel_context
      BY <3>1, <2>2, <1>0, Layout DEF SlotsOf, Shared
    <3>2. CASE e # kernel_context
      <4>1. e \in C /\ j \in KernelSlots
        BY <3>2, <2>2, Layout DEF SlotsOf, All
      <4>2. Table(m, e, j) = Table(m, kernel_context, j)
        BY <4>1, <1>0 DEF Shared
      <4>3. j \in SlotsOf(kernel_context)
        BY <4>1 DEF SlotsOf
      <4> QED BY <4>2, <4>3, <1>0
    <3> QED BY <3>1, <3>2
  <2> QED BY <2>1, <2>2
<1>2. PICK g \in All(C) : /\ j \in SlotsOf(g) /\ Table(m, g, j) = Table(m, e, j)
                          /\ (g = e \/ g = kernel_context)
  BY <1>1
<1> DEFINE t == Table(m, g, j)
<1>3. t \in PoolPages /\ \A h \in All(C) : h # t /\ Dir(m, h) # t
  BY <1>2, TableIsNoDir
<1>4. InTree(m, g, t)
  BY <1>2 DEF InTree
<1>5. t \in u
  BY <1>3, <1>4 DEF PoolInv
<1> QED BY <1>2, <1>3, <1>4, <1>5

(* map_page changes nothing but the mapping of one page in one address     *)
(* space.                                                                  *)
LEMMA TransStep ==
  ASSUME NEW u, NEW m, NEW C, PoolInv(u, m, C), NEW c \in C,
         NEW virt \in Nat, virt \div Entries \in UserSlots, NEW phys \in Nat,
         NEW t \in PoolPages, NEW m2,
         Table(m, c, virt \div Entries) # 0 => t = Table(m, c, virt \div Entries),
         Table(m, c, virt \div Entries) = 0 => t \notin u,
         Mapped(m, m2, c, virt \div Entries, t, virt % Entries, phys)
  PROVE  \A e \in All(C) : \A v \in VirtPages :
           Trans(m2, e, v) = IF e = c /\ v = virt THEN phys ELSE Trans(m, e, v)
<1> DEFINE i == virt \div Entries
           k == virt % Entries
<1>0. c \in All(C) /\ c # kernel_context /\ SlotsOf(c) = UserSlots /\ i \in Slots /\ t # 0
  BY Layout DEF All, PoolInv, SlotsOf
<1>1. \A e \in All(C) : Shape(m, e) /\ InTree(m, e, e) /\ InTree(m, e, Dir(m, e))
  BY DEF PoolInv, InTree
<1>2. \A e \in All(C) : e \in PoolPages /\ e \in u /\ Dir(m, e) \in PoolPages /\ Dir(m, e) \in u
  BY <1>1 DEF PoolInv, Shape
<1>3. \A e \in All(C) : e # Dir(m, c) /\ (Dir(m, e) = Dir(m, c) => e = c)
  <2>1. ASSUME NEW e \in All(C) PROVE e # Dir(m, c) /\ (Dir(m, e) = Dir(m, c) => e = c)
    <3>1. \A n \in PoolPages : InTree(m, c, n) /\ InTree(m, e, n) => c = e
      BY <1>0 DEF PoolInv
    <3>2. c # Dir(m, c)
      BY <1>0, <1>1 DEF Shape
    <3> QED BY <3>1, <3>2, <1>0, <1>1, <1>2
  <2> QED BY <2>1
<1>4. \A e \in All(C) : e # t /\ Dir(m, e) # t
  <2>1. CASE Table(m, c, i) # 0
    BY <2>1, <1>0, TableIsNoDir
  <2>2. CASE Table(m, c, i) = 0
    BY <2>2, <1>2
  <2> QED BY <2>1, <2>2
<1>5. \A e \in All(C) : m2[e] = m[e] /\ Dir(m2, e) = Dir(m, e)
  BY <1>2, <1>3, <1>4 DEF Mapped, Dir
<1>6. \A e \in All(C) : \A j \in Slots :
        Table(m2, e, j) = IF e = c /\ j = i THEN t ELSE Table(m, e, j)
  <2>1. ASSUME NEW e \in All(C), NEW j \in Slots, e # c PROVE Table(m2, e, j) = Table(m, e, j)
    <3>1. m2[Dir(m, e)] = m[Dir(m, e)]
      BY <2>1, <1>2, <1>3, <1>4 DEF Mapped
    <3> QED BY <3>1, <1>5 DEF Table, Dir
  <2>2. ASSUME NEW j \in Slots PROVE Table(m2, c, j) = IF j = i THEN t ELSE Table(m, c, j)
    BY <1>0, <1>5 DEF Mapped, Table, Dir
  <2> QED BY <2>1, <2>2
<1>7. ASSUME NEW e \in All(C), NEW j \in Slots, Table(m, e, j) # 0, e # c \/ j # i
      PROVE  m2[Table(m, e, j)] = m[Table(m, e, j)]
  <2>1. PICK g \in All(C) :
           /\ j \in SlotsOf(g) /\ Table(m, g, j) = Table(m, e, j)
           /\ (g = e \/ g = kernel_context)
           /\ Table(m, e, j) \in PoolPages /\ Table(m, e, j) \in u
           /\ InTree(m, g, Table(m, e, j))
           /\ \A h \in All(C) : Table(m, e, j) # h /\ Table(m, e, j) # Dir(m, h)
    BY <1>7, AnyTable
  <2>2. Table(m, e, j) # t
    <3>1. SUFFICES ASSUME Table(m, e, j) = t PROVE FALSE
      OBVIOUS
    <3>2. t = Table(m, c, i)
      BY <3>1, <2>1
    <3>3. InTree(m, c, t)
      BY <3>2, <1>0 DEF InTree
    <3>4. g = c
      BY <3>1, <3>3, <2>1, <1>0 DEF PoolInv
    <3>5. e = c
      BY <3>4, <2>1, <1>0
    <3>6. i = j
      BY <3>1, <3>2, <3>4, <2>1, <1>0, <1>1 DEF Shape
    <3> QED BY <3>5, <3>6, <1>7
  <2> QED BY <2>1, <2>2, <1>0 DEF Mapped
<1>8. ASSUME NEW e \in All(C), NEW v \in VirtPages
      PROVE  Trans(m2, e, v) = IF e = c /\ v = virt THEN phys ELSE Trans(m, e, v)
  <2> DEFINE j == v \div Entries
             l == v % Entries
  <2>1. j \in Slots /\ l \in Slots /\ v \in Nat
    BY PageParts
  <2>2. /\ Trans(m, e, v) = IF Table(m, e, j) = 0 THEN 0 ELSE m[Table(m, e, j)][l]
        /\ Trans(m2, e, v) = IF Table(m2, e, j) = 0 THEN 0 ELSE m2[Table(m2, e, j)][l]
    BY DEF Trans, Table
  <2> HIDE DEF j, l
  <2>3. CASE e # c \/ j # i
    <3>1. Table(m2, e, j) = Table(m, e, j)
      BY <2>1, <2>3, <1>6
    <3>2. Table(m, e, j) # 0 => m2[Table(m, e, j)] = m[Table(m, e, j)]
      BY <2>1, <2>3, <1>7
    <3>3. ~(e = c /\ v = virt)
      BY <2>3 DEF j
    <3>4. Trans(m2, e, v) = Trans(m, e, v)
      BY <3>1, <3>2, <2>2
    <3> QED BY <3>3, <3>4
  <2>4. CASE e = c /\ j = i
    <3>1. Trans(m2, e, v) = m2[t][l]
      BY <2>1, <2>2, <2>4, <1>0, <1>6
    <3>2. m2[t][l] = IF l = k THEN phys ELSE IF Table(m, c, i) # 0 THEN m[t][l] ELSE 0
      BY <2>1 DEF Mapped
    <3>3. v = virt <=> l = k
      BY <2>1, <2>4, PageParts DEF j, l
    <3>4. Trans(m, e, v) = IF Table(m, c, i) # 0 THEN m[t][l] ELSE 0
      BY <2>2, <2>4
    <3> QED BY <3>1, <3>2, <3>3, <3>4, <2>4
  <2> QED BY <2>3, <2>4
<1> QED BY <1>8

(* Nothing but n pages from page lo on of the address space of c has been  *)
(* mapped anew.                                                            *)
OnlyMapped(m, m2, C, c, lo, n) ==
  \A e \in All(C) : \A v \in VirtPages :
    ~(e = c /\ lo <= v /\ v < lo + n) => Trans(m2, e, v) = Trans(m, e, v)

LEMMA MapPageOK ==
  ASSUME NEW C, NEW s, StateOK(s, C), NEW c, s.panic = "none" => c \in All(C),
         c = kernel_context => C = {},
         NEW virt \in Nat, virt \div Entries \in SlotsOf(c), NEW phys \in Nat
  PROVE  LET r == map_page(s, c, virt, phys)
         IN  /\ StateOK(r, C)
             /\ r.panic = "none" =>
                  /\ s.panic = "none"
                  /\ c # kernel_context => OnlyMapped(s.mem, r.mem, C, c, virt, 1)
<1> DEFINE i == virt \div Entries
           r == map_page(s, c, virt, phys)
<1> HIDE DEF r
<1> SUFFICES /\ StateOK(r, C)
             /\ r.panic = "none" =>
                  /\ s.panic = "none"
                  /\ c # kernel_context => OnlyMapped(s.mem, r.mem, C, c, virt, 1)
  BY Zenon DEF r
<1>0. s \in States /\ InitPmm \subseteq s.used /\ Fail(s, "pool") \in States
      /\ Fail(s, "pool").used = s.used /\ Fail(s, "pool").panic # "none"
  BY FailFacts DEF StateOK
<1> DEFINE table == IF s.mem[s.mem[c][0]][i] # 0 THEN s.mem[s.mem[c][0]][i] ELSE AllocPool(s)
<1>1. /\ s.panic # "none" \/ table = NULL => r = Fail(s, "pool")
      /\ s.panic = "none" /\ table # NULL => r.panic = "none"
  <2>1. \E x, y : r = IF s.panic # "none" \/ table = NULL THEN Fail(s, "pool")
                      ELSE [used |-> x, mem |-> y, panic |-> "none"]
    BY Zenon DEF map_page, r
  <2> HIDE DEF table
  <2> QED BY <2>1
<1> HIDE DEF table
<1>2. CASE r.panic # "none"
  <2>1. r = Fail(s, "pool")
    BY <1>1, <1>2
  <2> QED BY <2>1, <1>0, <1>2 DEF StateOK
<1>3. CASE r.panic = "none"
  <2>1. s.panic = "none"
    BY <1>0, <1>1, <1>3
  <2>2. PoolInv(s.used, s.mem, C) /\ c \in All(C) /\ i \in Slots /\ i \in SlotsOf(c)
    BY <2>1, Layout DEF StateOK, SlotsOf
  <2>3. Shape(s.mem, c) /\ InTree(s.mem, c, Dir(s.mem, c))
    BY <2>2 DEF PoolInv, InTree
  <2>4. /\ c \in PoolPages /\ Dir(s.mem, c) \in PoolPages /\ Dir(s.mem, c) \in s.used
        /\ Table(s.mem, c, i) # 0 => /\ Table(s.mem, c, i) \in PoolPages
                                     /\ Table(s.mem, c, i) # Dir(s.mem, c)
    BY <2>2, <2>3 DEF PoolInv, Shape
  <2>5. PICK t \in PoolPages :
           /\ Table(s.mem, c, i) # 0 => t = Table(s.mem, c, i)
           /\ Table(s.mem, c, i) = 0 => t \notin s.used
           /\ r \in States
           /\ r.used = s.used \cup {t}
           /\ Mapped(s.mem, r.mem, c, i, t, virt % Entries, phys)
    BY <2>1, <2>2, <2>4, <1>0, <1>3, MapPageResult DEF r
  <2>6. PoolInv(r.used, r.mem, C)
    <3>1. CASE Table(s.mem, c, i) # 0
      <4>1. InTree(s.mem, c, t)
        BY <3>1, <2>2, <2>5 DEF InTree
      <4>2. r.used = s.used
        BY <4>1, <2>2, <2>5 DEF PoolInv
      <4>3. \A n \in PoolPages : n # t => r.mem[n] = s.mem[n]
        <5>1. ASSUME NEW j \in Slots PROVE r.mem[Dir(s.mem, c)][j] = s.mem[Dir(s.mem, c)][j]
          BY <3>1, <2>5 DEF Mapped, Table, Dir
        <5>2. r.mem[Dir(s.mem, c)] = s.mem[Dir(s.mem, c)]
          <6>1. r.mem[Dir(s.mem, c)] \in [Slots -> Nat] /\ s.mem[Dir(s.mem, c)] \in [Slots -> Nat]
            BY <2>4, <2>5, <1>0, StateFields DEF Contents
          <6> QED BY <5>1, <6>1
        <5> QED BY <5>2, <2>5 DEF Mapped
      <4>4. r.mem \in Contents
        BY <2>5 DEF Mapped
      <4> QED BY <4>2, <4>3, <4>4, <3>1, <2>2, <2>5, EntryStep
    <3>2. CASE Table(s.mem, c, i) = 0
      <4>1. r.mem \in Contents /\ t \notin s.used
        BY <3>2, <2>5 DEF Mapped
      <4>2. /\ \A n \in PoolPages : n # t /\ n # Dir(s.mem, c) => r.mem[n] = s.mem[n]
            /\ \A k \in Slots : r.mem[Dir(s.mem, c)][k] = IF k = i THEN t ELSE Table(s.mem, c, k)
        BY <2>5 DEF Mapped
      <4> QED BY <4>1, <4>2, <3>2, <2>2, <2>5, <1>0, TableStep
    <3> QED BY <3>1, <3>2
  <2>7. StateOK(r, C)
    BY <2>5, <2>6, <1>0 DEF StateOK
  <2>8. ASSUME c # kernel_context PROVE OnlyMapped(s.mem, r.mem, C, c, virt, 1)
    <3>1. c \in C /\ i \in UserSlots
      BY <2>2, <2>8 DEF All, SlotsOf
    <3>2. \A e \in All(C) : \A v \in VirtPages :
            Trans(r.mem, e, v) = IF e = c /\ v = virt THEN phys ELSE Trans(s.mem, e, v)
      BY <3>1, <2>2, <2>5, TransStep
    <3>3. virt <= virt /\ virt < virt + 1
      OBVIOUS
    <3> QED BY <3>2, <3>3 DEF OnlyMapped
  <2> QED BY <2>1, <2>7, <2>8
<1> QED BY <1>2, <1>3

(* One page of user memory. *)
LEMMA AllocPageOK ==
  ASSUME NEW C, NEW s, StateOK(s, C), NEW c, s.panic = "none" => c \in C,
         NEW virt \in Nat, virt \div Entries \in UserSlots
  PROVE  /\ StateOK(AllocPage(s, c, virt), C)
         /\ AllocPage(s, c, virt).panic = "none" =>
              s.panic = "none" /\ OnlyMapped(s.mem, AllocPage(s, c, virt).mem, C, c, virt, 1)
<1> DEFINE f == pmm_alloc_start(s.used, HEAP_END)
           x == [used |-> s.used \cup {f}, mem |-> s.mem, panic |-> "none"]
           r == AllocPage(s, c, virt)
<1>1. r = IF s.panic # "none" \/ f = NULL THEN Fail(s, "frames") ELSE map_page(x, c, virt, f)
  BY Zenon DEF AllocPage
<1>2. s \in States /\ InitPmm \subseteq s.used /\ Fail(s, "frames") \in States
      /\ Fail(s, "frames").used = s.used /\ Fail(s, "frames").panic # "none"
  BY FailFacts DEF StateOK
<1>3. CASE s.panic # "none" \/ f = NULL
  <2>1. r = Fail(s, "frames")
    BY <1>1, <1>3, Zenon
  <2> HIDE DEF r
  <2>2. StateOK(r, C) /\ r.panic # "none"
    BY <2>1, <1>2 DEF StateOK
  <2> QED BY <2>2 DEF r
<1>4. CASE s.panic = "none" /\ f # NULL
  <2>1. r = map_page(x, c, virt, f)
    BY <1>1, <1>4, Zenon
  <2>2. f \in HEAP_END .. NumPages - 1 /\ f \in Nat
    BY <1>4, FrameIsFree, MemoryAssumption
  <2> HIDE DEF f
  <2>3. StateOK(x, C)
    <3>1. PoolInv(s.used \cup {f}, s.mem, C)
      BY <2>2, <1>4, FrameStep DEF StateOK
    <3>2. x \in States
      BY <2>2, <1>2, StateFields DEF States, Panics
    <3> QED BY <3>1, <3>2, <1>2 DEF StateOK
  <2>4. c \in All(C) /\ c # kernel_context /\ virt \div Entries \in SlotsOf(c)
    BY <1>4 DEF All, SlotsOf, StateOK, PoolInv
  <2>5. x.mem = s.mem
    OBVIOUS
  <2> HIDE DEF x
  <2>6. /\ StateOK(map_page(x, c, virt, f), C)
        /\ map_page(x, c, virt, f).panic = "none" =>
             OnlyMapped(x.mem, map_page(x, c, virt, f).mem, C, c, virt, 1)
    BY <2>2, <2>3, <2>4, MapPageOK
  <2> QED BY <2>1, <2>5, <2>6, <1>4
<1> QED BY <1>3, <1>4

LEMMA DivMonotonic ==
  ASSUME NEW w \in Nat, NEW v \in Nat, w <= v
  PROVE  w \div Entries \in Nat /\ v \div Entries \in Nat /\ w \div Entries <= v \div Entries
<1> DEFINE a == w \div Entries
           b == v \div Entries
           k == v % Entries
           l == w % Entries
<1>0. Entries \in Nat /\ Entries > 0
  BY MemoryAssumption
<1>1. /\ v = Entries * b + k /\ k \in 0 .. Entries - 1
      /\ w = Entries * a + l /\ l \in 0 .. Entries - 1
      /\ a \in Nat /\ b \in Nat
  BY <1>0
<1> HIDE DEF a, b, k, l
<1>2. a <= b
  <2>1. SUFFICES ASSUME b + 1 <= a PROVE FALSE
    BY <1>1
  <2> DEFINE x == Entries * b
             y == Entries * a
             z == Entries * (b + 1)
  <2>2. x \in Nat /\ y \in Nat /\ z <= y /\ z = x + Entries
    BY <2>1, <1>0, <1>1
  <2>3. v = x + k /\ w = y + l
    BY <1>1
  <2> HIDE DEF x, y, z
  <2> QED BY <2>2, <2>3, <1>0, <1>1
<1> QED BY <1>1, <1>2 DEF a, b

(* Pages behind a page of the user's part are in the user's part, those    *)
(* before the end of the heap in the kernel's.                             *)
LEMMA UserPart ==
  ASSUME NEW w \in Nat, w \div Entries \in UserSlots, NEW v \in VirtPages, w <= v
  PROVE  v \div Entries \in UserSlots
<1>0. v \in Nat /\ v \div Entries \in Slots
  BY PageParts
<1>1. w \div Entries <= v \div Entries /\ v \div Entries \in Nat /\ w \div Entries \in Nat
  BY <1>0, DivMonotonic
<1>2. HEAP_END \div Entries \in Nat
  BY MemoryAssumption
<1> QED BY <1>0, <1>1, <1>2 DEF UserSlots, Slots

LEMMA KernelPart ==
  ASSUME NEW v \in Nat, v <= HEAP_END
  PROVE  v \div Entries \in KernelSlots
<1>1. HEAP_END \in Nat
  BY MemoryAssumption
<1>2. v \div Entries \in Nat /\ HEAP_END \div Entries \in Nat /\ v \div Entries <= HEAP_END \div Entries
  BY <1>1, DivMonotonic
<1> QED BY <1>2 DEF KernelSlots

LEMMA InVirtPages ==
  /\ VirtualPages \in Nat \ {0} /\ VirtPages = 0 .. VirtualPages - 1
  /\ \A w \in VirtPages : w % VirtualPages = w
  /\ \A w \in Nat : w % VirtualPages \in VirtPages
<1>1. VirtualPages \in Nat \ {0} /\ VirtPages = 0 .. VirtualPages - 1
  BY MemoryAssumption DEF VirtualPages, VirtPages
<1> QED BY <1>1

(* The loop of vmm_alloc, round by round. *)
AllocRounds(g, s, c, virt, n) ==
  /\ vmm_alloc(s, c, virt, n) = g[n]
  /\ g[0] = s
  /\ \A k \in 1 .. n : g[k] = AllocPage(g[k - 1], c, (virt + k - 1) % VirtualPages)

LEMMA VmmAllocRounds ==
  ASSUME NEW s, NEW c, NEW virt, NEW n \in Nat
  PROVE  \E g : AllocRounds(g, s, c, virt, n)
<1> DEFINE Rec(f, x) ==
             f = [k \in 0 .. x |-> IF k = 0 THEN s ELSE AllocPage(f[k - 1], c, (virt + k - 1) % VirtualPages)]
           Missing == {x \in 0 .. n : ~ \E f : Rec(f, x)}
<1>1. Missing = {}
  <2>1. SUFFICES ASSUME Missing # {} PROVE FALSE
    OBVIOUS
  <2>2. Missing \in SUBSET Nat
    OBVIOUS
  <2>3. PICK x \in Missing : \A y \in Missing : x <= y
    <3> HIDE DEF Missing
    <3> QED BY <2>1, <2>2, LeastElement
  <2>4. x # 0
    <3>1. SUFFICES ASSUME x = 0 PROVE \E f : Rec(f, x)
      OBVIOUS
    <3>2. Rec([k \in 0 .. 0 |-> s], 0)
      OBVIOUS
    <3> QED BY <3>1, <3>2
  <2>5. x - 1 \in 0 .. n /\ x - 1 \notin Missing /\ x \in Nat
    BY <2>3, <2>4
  <2>6. PICK f : Rec(f, x - 1)
    BY <2>5
  <2>7. \A k \in 0 .. x - 1 : f[k] = IF k = 0 THEN s ELSE AllocPage(f[k - 1], c, (virt + k - 1) % VirtualPages)
    BY <2>6
  <2> DEFINE h == [k \in 0 .. x |-> IF k = x THEN AllocPage(f[x - 1], c, (virt + x - 1) % VirtualPages) ELSE f[k]]
  <2>8. ASSUME NEW k \in 0 .. x
        PROVE  h[k] = IF k = 0 THEN s ELSE AllocPage(h[k - 1], c, (virt + k - 1) % VirtualPages)
    <3>1. CASE k = x
      <4>1. h[k] = AllocPage(f[x - 1], c, (virt + x - 1) % VirtualPages) /\ h[x - 1] = f[x - 1]
        BY <3>1, <2>4, <2>5
      <4> QED BY <4>1, <3>1, <2>4
    <3>2. CASE k # x
      <4>1. k \in 0 .. x - 1 /\ h[k] = f[k]
        BY <3>2, <2>5
      <4>2. k # 0 => h[k - 1] = f[k - 1]
        BY <4>1, <2>5
      <4> QED BY <4>1, <4>2, <2>7
    <3> QED BY <3>1, <3>2
  <2>9. Rec(h, x)
    <3>1. h = [k \in 0 .. x |-> h[k]]
      OBVIOUS
    <3> HIDE DEF h
    <3> QED BY <3>1, <2>8
  <2>10. \E ff : Rec(ff, x)
    <3> HIDE DEF h
    <3> QED BY <2>9
  <2> QED BY <2>3, <2>10
<1>2. \E f : Rec(f, n)
  BY <1>1
<1> DEFINE g == CHOOSE f : Rec(f, n)
<1>3. Rec(g, n)
  BY <1>2, Zenon
<1>4. vmm_alloc(s, c, virt, n) = g[n]
  BY Zenon DEF vmm_alloc
<1> HIDE DEF g
<1>5. \A k \in 0 .. n : g[k] = IF k = 0 THEN s ELSE AllocPage(g[k - 1], c, (virt + k - 1) % VirtualPages)
  BY <1>3
<1>6. g[0] = s /\ \A k \in 1 .. n : g[k] = AllocPage(g[k - 1], c, (virt + k - 1) % VirtualPages)
  BY <1>5
<1> QED BY <1>4, <1>6 DEF AllocRounds

LEMMA VmmAllocOK ==
  ASSUME NEW C, NEW s, StateOK(s, C), NEW c, s.panic = "none" => c \in C,
         NEW virt \in Nat, virt \div Entries \in UserSlots,
         NEW n \in Nat, virt + n <= Entries * Entries
  PROVE  LET r == vmm_alloc(s, c, virt, n)
         IN  /\ StateOK(r, C)
             /\ r.panic = "none" =>
                  s.panic = "none" /\ OnlyMapped(s.mem, r.mem, C, c, virt, n)
<1>0. PICK g : AllocRounds(g, s, c, virt, n)
  BY VmmAllocRounds, Zenon
<1>1. /\ vmm_alloc(s, c, virt, n) = g[n]
      /\ g[0] = s
      /\ \A k \in 1 .. n : g[k] = AllocPage(g[k - 1], c, (virt + k - 1) % VirtualPages)
  BY <1>0 DEF AllocRounds
<1> DEFINE Good(k) == /\ StateOK(g[k], C)
                      /\ g[k].panic = "none" =>
                           s.panic = "none" /\ OnlyMapped(s.mem, g[k].mem, C, c, virt, k)
           Bad == {k \in 0 .. n : ~Good(k)}
<1>2. Bad = {}
  <2>1. SUFFICES ASSUME Bad # {} PROVE FALSE
    OBVIOUS
  <2>2. Bad \in SUBSET Nat
    OBVIOUS
  <2>3. PICK k \in Bad : \A y \in Bad : k <= y
    <3> HIDE DEF Bad
    <3> QED BY <2>1, <2>2, LeastElement
  <2>4. k # 0
    <3>1. Good(0)
      BY <1>1 DEF OnlyMapped
    <3> QED BY <3>1, <2>3
  <2>5. k \in 1 .. n /\ k - 1 \in 0 .. n /\ k - 1 \notin Bad
    BY <2>3, <2>4
  <2>6. Good(k - 1)
    BY <2>5
  <2> DEFINE w == virt + k - 1
  <2>7. w \in VirtPages /\ virt <= w /\ w \in Nat
    BY <2>5, MemoryAssumption DEF VirtPages
  <2>8. w \div Entries \in UserSlots
    <3> HIDE DEF w
    <3> QED BY <2>7, UserPart
  <2>9. g[k] = AllocPage(g[k - 1], c, w)
    <3>1. w % VirtualPages = w
      <4> HIDE DEF w
      <4> QED BY <2>7, InVirtPages
    <3> QED BY <3>1, <2>5, <1>1
  <2>10. g[k - 1].panic = "none" => c \in C
    BY <2>6
  <2> HIDE DEF w
  <2>11. /\ StateOK(g[k], C)
         /\ g[k].panic = "none" =>
              g[k - 1].panic = "none" /\ OnlyMapped(g[k - 1].mem, g[k].mem, C, c, w, 1)
    <3> DEFINE a == g[k - 1]
    <3>1. StateOK(a, C) /\ (a.panic = "none" => c \in C) /\ g[k] = AllocPage(a, c, w)
      BY <2>6, <2>9, <2>10
    <3> HIDE DEF a
    <3>2. /\ StateOK(AllocPage(a, c, w), C)
          /\ AllocPage(a, c, w).panic = "none" =>
               a.panic = "none" /\ OnlyMapped(a.mem, AllocPage(a, c, w).mem, C, c, w, 1)
      BY <3>1, <2>7, <2>8, AllocPageOK, Zenon
    <3> QED BY <3>1, <3>2, Zenon DEF a
  <2>12. ASSUME g[k].panic = "none"
         PROVE  s.panic = "none" /\ OnlyMapped(s.mem, g[k].mem, C, c, virt, k)
    <3>1. s.panic = "none" /\ OnlyMapped(s.mem, g[k - 1].mem, C, c, virt, k - 1)
      BY <2>6, <2>11, <2>12
    <3>2. OnlyMapped(g[k - 1].mem, g[k].mem, C, c, w, 1)
      BY <2>11, <2>12
    <3>3. ASSUME NEW e \in All(C), NEW v \in VirtPages, ~(e = c /\ virt <= v /\ v < virt + k)
          PROVE  Trans(g[k].mem, e, v) = Trans(s.mem, e, v)
      <4>1. ~(e = c /\ virt <= v /\ v < virt + (k - 1)) /\ ~(e = c /\ w <= v /\ v < w + 1)
        BY <3>3, <2>5, PageParts DEF w
      <4> QED BY <4>1, <3>1, <3>2 DEF OnlyMapped
    <3> QED BY <3>1, <3>3 DEF OnlyMapped
  <2>13. Good(k)
    BY <2>11, <2>12
  <2> QED BY <2>3, <2>13
<1>3. Good(n)
  BY <1>2
<1> QED BY <1>1, <1>3, Zenon

(* All of the kernel's page tables are there. *)
Complete(m) ==
  \A i \in KernelSlots : \E v \in VirtPages :
    v \div Entries = i /\ Trans(m, kernel_context, v) # 0

(* The user's part of the address spaces other than that of c is as it was. *)
OthersKept(m, m2, C, c) ==
  \A e \in All(C) \ {c} : \A v \in VirtPages :
    v \div Entries \in UserSlots => Trans(m2, e, v) = Trans(m, e, v)

(* A page in the kernel's part is mapped, in a page table that all         *)
(* contexts share: no page of the pool changes its owner by that.          *)
LEMMA SharedPageOK ==
  ASSUME NEW C, NEW s, StateOK(s, C), s.panic = "none", Complete(s.mem), NEW c \in C,
         NEW virt \in VirtPages, virt \div Entries \in KernelSlots, NEW phys \in Nat \ {0}
  PROVE  LET r == map_page(s, c, virt, phys)
         IN  /\ StateOK(r, C)
             /\ r.panic = "none" => Complete(r.mem) /\ OthersKept(s.mem, r.mem, C, c)
<1> DEFINE i == virt \div Entries
           m == s.mem
           K == kernel_context
           t == Table(m, K, i)
           r == map_page(s, c, virt, phys)
<1> HIDE DEF r
<1> SUFFICES /\ StateOK(r, C)
             /\ r.panic = "none" => Complete(r.mem) /\ OthersKept(m, r.mem, C, c)
  BY Zenon DEF r
<1>1. /\ PoolInv(s.used, m, C) /\ s \in States /\ InitPmm \subseteq s.used
      /\ virt \in Nat /\ i \in Slots /\ i \in SlotsOf(K) /\ SlotsOf(K) = KernelSlots
      /\ K \in All(C) /\ c \in All(C) /\ K # c
  BY PageParts DEF StateOK, SlotsOf, All, PoolInv
<1>2. t # 0
  <2>1. PICK v \in VirtPages : v \div Entries = i /\ Trans(m, K, v) # 0
    BY DEF Complete
  <2> QED BY <2>1 DEF Trans, Table
<1>3. Table(m, c, i) = t
  BY <1>1 DEF PoolInv, Shared
<1>4. t \in PoolPages /\ \A e \in All(C) : e # t /\ Dir(m, e) # t
  BY <1>1, <1>2, TableIsNoDir
<1>5. CASE r.panic # "none"
  <2>1. \E x, y, z : r = IF z THEN Fail(s, "pool")
                         ELSE [used |-> x, mem |-> y, panic |-> "none"]
    BY Zenon DEF map_page, r
  <2>2. r = Fail(s, "pool")
    BY <2>1, <1>5
  <2> QED BY <2>2, <1>1, <1>5, FailFacts DEF StateOK
<1>6. CASE r.panic = "none"
  <2>1. /\ c \in PoolPages /\ Dir(m, c) \in PoolPages /\ Dir(m, c) \in s.used
    <3>1. Shape(m, c) /\ InTree(m, c, Dir(m, c))
      BY <1>1 DEF PoolInv, InTree
    <3> QED BY <3>1, <1>1 DEF Shape, PoolInv
  <2>2. /\ r \in States /\ r.used = s.used \cup {t}
        /\ Mapped(m, r.mem, c, i, t, virt % Entries, phys)
    <3>1. PICK x \in PoolPages :
             /\ Table(m, c, i) # 0 => x = Table(m, c, i)
             /\ r \in States
             /\ r.used = s.used \cup {x}
             /\ Mapped(m, r.mem, c, i, x, virt % Entries, phys)
      BY <2>1, <1>1, <1>3, <1>4, <1>6, MapPageResult DEF r
    <3> QED BY <3>1, <1>2, <1>3
  <2>3. r.used = s.used
    <3>1. InTree(m, K, t)
      BY <1>1, <1>2 DEF InTree
    <3> QED BY <3>1, <2>2, <1>1, <1>4 DEF PoolInv
  <2>4. r.mem \in Contents /\ \A n \in PoolPages : n # t => r.mem[n] = m[n]
    <3>1. ASSUME NEW j \in Slots PROVE r.mem[Dir(m, c)][j] = m[Dir(m, c)][j]
      BY <2>2, <1>3 DEF Mapped, Table, Dir
    <3>2. r.mem[Dir(m, c)] = m[Dir(m, c)]
      <4>1. r.mem[Dir(m, c)] \in [Slots -> Nat] /\ m[Dir(m, c)] \in [Slots -> Nat]
        BY <2>1, <2>2, <1>1, StateFields DEF Contents
      <4> QED BY <3>1, <4>1
    <3> QED BY <3>2, <2>2 DEF Mapped
  <2>5. PoolInv(r.used, r.mem, C)
    BY <2>3, <2>4, <1>1, <1>2, EntryStep
  <2>6. \A e \in All(C) : \A j \in Slots : Table(r.mem, e, j) = Table(m, e, j)
    <3>1. ASSUME NEW e \in All(C) PROVE \A j \in Slots : Table(r.mem, e, j) = Table(m, e, j)
      <4>1. e \in PoolPages /\ Dir(m, e) \in PoolPages
        BY <1>1 DEF PoolInv, Shape
      <4>2. r.mem[e] = m[e] /\ r.mem[Dir(m, e)] = m[Dir(m, e)]
        BY <4>1, <2>4, <1>4
      <4> QED BY <4>2, SameTrees
    <3> QED BY <3>1
  <2>7. ASSUME NEW e \in All(C), NEW j \in Slots, Table(m, e, j) # 0, j # i
        PROVE  r.mem[Table(m, e, j)] = m[Table(m, e, j)]
    <3>1. PICK g \in All(C) :
             /\ j \in SlotsOf(g) /\ Table(m, g, j) = Table(m, e, j)
             /\ (g = e \/ g = kernel_context)
             /\ Table(m, e, j) \in PoolPages /\ Table(m, e, j) \in s.used
             /\ InTree(m, g, Table(m, e, j))
             /\ \A h \in All(C) : Table(m, e, j) # h /\ Table(m, e, j) # Dir(m, h)
      BY <2>7, <1>1, AnyTable
    <3>2. Table(m, e, j) # t
      <4>1. SUFFICES ASSUME Table(m, e, j) = t PROVE FALSE
        OBVIOUS
      <4>2. InTree(m, K, t)
        BY <1>1, <1>2 DEF InTree
      <4>3. g = K
        BY <4>1, <4>2, <3>1, <1>1, <1>4 DEF PoolInv
      <4>4. Shape(m, K)
        BY <1>1 DEF PoolInv
      <4>5. i = j
        BY <4>1, <4>3, <4>4, <3>1, <1>1, <1>2 DEF Shape
      <4> QED BY <4>5, <2>7
    <3> QED BY <3>1, <3>2, <2>4
  <2>8. ASSUME NEW e \in All(C), NEW v \in VirtPages, v \div Entries # i
        PROVE  Trans(r.mem, e, v) = Trans(m, e, v)
    <3>1. v \div Entries \in Slots
      BY PageParts
    <3> QED BY <3>1, <2>6, <2>7, <2>8 DEF Trans, Table
  <2>9. OthersKept(m, r.mem, C, c)
    <3>1. i \notin UserSlots
      BY <1>1, Layout
    <3> QED BY <3>1, <2>8 DEF OthersKept
  <2>10. Complete(r.mem)
    <3>1. ASSUME NEW j \in KernelSlots
          PROVE  \E v \in VirtPages : v \div Entries = j /\ Trans(r.mem, K, v) # 0
      <4>1. CASE j = i
        <5>1. Table(r.mem, K, i) = t /\ virt % Entries \in Slots
          BY <2>6, <1>1, PageParts
        <5>2. r.mem[t][virt % Entries] = phys
          BY <5>1, <2>2 DEF Mapped
        <5>3. Trans(r.mem, K, virt) = phys
          BY <5>1, <5>2, <1>2 DEF Trans, Table
        <5> QED BY <4>1, <5>3
      <4>2. CASE j # i
        <5>1. PICK v \in VirtPages : v \div Entries = j /\ Trans(m, K, v) # 0
          BY DEF Complete
        <5>2. Trans(r.mem, K, v) = Trans(m, K, v)
          BY <5>1, <4>2, <2>8, <1>1
        <5> QED BY <5>1, <5>2
      <4> QED BY <4>1, <4>2
    <3> QED BY <3>1 DEF Complete
  <2>11. StateOK(r, C)
    BY <2>2, <2>3, <2>5, <1>1 DEF StateOK
  <2> QED BY <2>9, <2>10, <2>11
<1> QED BY <1>5, <1>6

(* One page of user memory, anywhere in the address space. *)
LEMMA AllocAnyOK ==
  ASSUME NEW C, NEW s, StateOK(s, C), NEW c,
         s.panic = "none" => c \in C /\ Complete(s.mem), NEW virt \in VirtPages
  PROVE  LET r == AllocPage(s, c, virt)
         IN  /\ StateOK(r, C)
             /\ r.panic = "none" =>
                  s.panic = "none" /\ Complete(r.mem) /\ OthersKept(s.mem, r.mem, C, c)
<1> DEFINE f == pmm_alloc_start(s.used, HEAP_END)
           x == [used |-> s.used \cup {f}, mem |-> s.mem, panic |-> "none"]
           r == AllocPage(s, c, virt)
<1> SUFFICES /\ StateOK(r, C)
             /\ r.panic = "none" =>
                  s.panic = "none" /\ Complete(r.mem) /\ OthersKept(s.mem, r.mem, C, c)
  BY Zenon
<1>1. r = IF s.panic # "none" \/ f = NULL THEN Fail(s, "frames") ELSE map_page(x, c, virt, f)
  BY Zenon DEF AllocPage
<1>2. s \in States /\ InitPmm \subseteq s.used /\ Fail(s, "frames") \in States
      /\ Fail(s, "frames").used = s.used /\ Fail(s, "frames").panic # "none"
  BY FailFacts DEF StateOK
<1>3. virt \in Nat /\ virt \div Entries \in Slots
  BY PageParts
<1>4. CASE s.panic # "none" \/ f = NULL
  <2>1. r = Fail(s, "frames")
    BY <1>1, <1>4, Zenon
  <2> HIDE DEF r
  <2> QED BY <2>1, <1>2 DEF StateOK
<1>5. CASE virt \div Entries \in UserSlots /\ s.panic = "none"
  <2>1. /\ StateOK(r, C)
        /\ r.panic = "none" => OnlyMapped(s.mem, r.mem, C, c, virt, 1)
    BY <1>3, <1>5, AllocPageOK, Zenon
  <2> HIDE DEF r
  <2>2. ASSUME r.panic = "none" PROVE Complete(r.mem) /\ OthersKept(s.mem, r.mem, C, c)
    <3>1. OnlyMapped(s.mem, r.mem, C, c, virt, 1) /\ c \in C /\ kernel_context \notin C
          /\ Complete(s.mem)
      BY <2>1, <2>2, <1>5 DEF StateOK, PoolInv
    <3>2. \A v \in VirtPages : Trans(r.mem, kernel_context, v) = Trans(s.mem, kernel_context, v)
      BY <3>1 DEF OnlyMapped, All
    <3>3. Complete(r.mem)
      BY <3>1, <3>2 DEF Complete
    <3>4. OthersKept(s.mem, r.mem, C, c)
      BY <3>1 DEF OnlyMapped, OthersKept
    <3> QED BY <3>3, <3>4
  <2> QED BY <2>1, <2>2, <1>5
<1>6. CASE virt \div Entries \in KernelSlots /\ s.panic = "none" /\ f # NULL
  <2>1. r = map_page(x, c, virt, f)
    BY <1>1, <1>6, Zenon
  <2>2. f \in HEAP_END .. NumPages - 1 /\ f \in Nat \ {0}
    BY <1>6, FrameIsFree, MemoryAssumption
  <2> HIDE DEF f, r
  <2>3. StateOK(x, C) /\ x.panic = "none" /\ x.mem = s.mem
    <3>1. PoolInv(s.used \cup {f}, s.mem, C)
      BY <2>2, <1>6, FrameStep DEF StateOK
    <3>2. x \in States
      BY <2>2, <1>2, StateFields DEF States, Panics
    <3> QED BY <3>1, <3>2, <1>2 DEF StateOK
  <2> HIDE DEF x
  <2>4. c \in C /\ Complete(x.mem)
    BY <2>3, <1>6
  <2>5. /\ StateOK(map_page(x, c, virt, f), C)
        /\ map_page(x, c, virt, f).panic = "none" =>
             /\ Complete(map_page(x, c, virt, f).mem)
             /\ OthersKept(x.mem, map_page(x, c, virt, f).mem, C, c)
    BY <2>2, <2>3, <2>4, <1>6, SharedPageOK, Zenon
  <2> QED BY <2>1, <2>3, <2>5, <1>6
<1> QED BY <1>3, <1>4, <1>5, <1>6, Layout

(* vmm_alloc with an address that may run over the end of the address      *)
(* space into the kernel's part.                                           *)
LEMMA VmmAllocAny ==
  ASSUME NEW C, NEW s, StateOK(s, C), NEW c, s.panic = "none" => c \in C /\ Complete(s.mem),
         NEW virt \in Nat, NEW n \in Nat
  PROVE  LET r == vmm_alloc(s, c, virt, n)
         IN  StateOK(r, C) /\ (r.panic = "none" => OthersKept(s.mem, r.mem, C, c))
<1>0. PICK g : AllocRounds(g, s, c, virt, n)
  BY VmmAllocRounds, Zenon
<1>1. /\ vmm_alloc(s, c, virt, n) = g[n]
      /\ g[0] = s
      /\ \A k \in 1 .. n : g[k] = AllocPage(g[k - 1], c, (virt + k - 1) % VirtualPages)
  BY <1>0 DEF AllocRounds
<1> DEFINE Good(k) == /\ StateOK(g[k], C)
                      /\ g[k].panic = "none" =>
                           /\ s.panic = "none" /\ Complete(g[k].mem)
                           /\ OthersKept(s.mem, g[k].mem, C, c)
           Bad == {k \in 0 .. n : ~Good(k)}
<1>2. Bad = {}
  <2>1. SUFFICES ASSUME Bad # {} PROVE FALSE
    OBVIOUS
  <2>2. Bad \in SUBSET Nat
    OBVIOUS
  <2>3. PICK k \in Bad : \A y \in Bad : k <= y
    <3> HIDE DEF Bad
    <3> QED BY <2>1, <2>2, LeastElement
  <2>4. k # 0
    <3>1. Good(0)
      BY <1>1 DEF OthersKept
    <3> QED BY <3>1, <2>3
  <2>5. k \in 1 .. n /\ k - 1 \in 0 .. n /\ k - 1 \notin Bad
    BY <2>3, <2>4
  <2>6. Good(k - 1)
    BY <2>5
  <2> DEFINE w == (virt + k - 1) % VirtualPages
             a == g[k - 1]
  <2>7. w \in VirtPages
    <3>1. virt + k - 1 \in Nat
      BY <2>5
    <3> QED BY <3>1, InVirtPages
  <2>8. /\ g[k] = AllocPage(a, c, w) /\ StateOK(a, C)
        /\ a.panic = "none" => /\ s.panic = "none" /\ c \in C /\ Complete(a.mem)
                               /\ OthersKept(s.mem, a.mem, C, c)
    BY <2>5, <2>6, <1>1
  <2> HIDE DEF w, a
  <2>9. /\ StateOK(AllocPage(a, c, w), C)
        /\ AllocPage(a, c, w).panic = "none" =>
             /\ a.panic = "none" /\ Complete(AllocPage(a, c, w).mem)
             /\ OthersKept(a.mem, AllocPage(a, c, w).mem, C, c)
    BY <2>7, <2>8, AllocAnyOK, Zenon
  <2>10. \A y : OthersKept(s.mem, a.mem, C, c) /\ OthersKept(a.mem, y, C, c)
                  => OthersKept(s.mem, y, C, c)
    BY DEF OthersKept
  <2>11. Good(k)
    BY <2>8, <2>9, <2>10
  <2> QED BY <2>3, <2>11
<1>3. Good(n)
  BY <1>2
<1> QED BY <1>1, <1>3, Zenon

(* The loop of ParseElf over the segments. *)
LoadRounds(g, s, c, image) ==
  /\ ParseElf(s, c, image) = g[Len(image)]
  /\ g[0] = s
  /\ \A k \in 1 .. Len(image) :
       g[k] = vmm_alloc(g[k - 1], c, image[k].at, image[k].pages)

LEMMA ParseElfRounds ==
  ASSUME NEW s, NEW c, NEW image, Len(image) \in Nat
  PROVE  \E g : LoadRounds(g, s, c, image)
<1> DEFINE n == Len(image)
           Rec(f, x) ==
             f = [k \in 0 .. x |-> IF k = 0 THEN s
                                   ELSE vmm_alloc(f[k - 1], c, image[k].at, image[k].pages)]
           Missing == {x \in 0 .. n : ~ \E f : Rec(f, x)}
<1> HIDE DEF n
<1>0. n \in Nat
  BY DEF n
<1>1. Missing = {}
  <2>1. SUFFICES ASSUME Missing # {} PROVE FALSE
    OBVIOUS
  <2>2. Missing \in SUBSET Nat
    BY <1>0
  <2>3. PICK x \in Missing : \A y \in Missing : x <= y
    <3> HIDE DEF Missing
    <3> QED BY <2>1, <2>2, LeastElement
  <2>4. x # 0
    <3>1. SUFFICES ASSUME x = 0 PROVE \E f : Rec(f, x)
      OBVIOUS
    <3>2. Rec([k \in 0 .. 0 |-> s], 0)
      OBVIOUS
    <3> QED BY <3>1, <3>2
  <2>5. x - 1 \in 0 .. n /\ x - 1 \notin Missing /\ x \in Nat
    <3>1. x \in 0 .. n
      OBVIOUS
    <3> HIDE DEF Missing
    <3> QED BY <3>1, <2>3, <2>4, <1>0
  <2>6. PICK f : Rec(f, x - 1)
    BY <2>5
  <2>7. \A k \in 0 .. x - 1 :
          f[k] = IF k = 0 THEN s ELSE vmm_alloc(f[k - 1], c, image[k].at, image[k].pages)
    BY <2>6
  <2> DEFINE h == [k \in 0 .. x |->
                     IF k = x THEN vmm_alloc(f[x - 1], c, image[x].at, image[x].pages) ELSE f[k]]
  <2>8. ASSUME NEW k \in 0 .. x
        PROVE  h[k] = IF k = 0 THEN s ELSE vmm_alloc(h[k - 1], c, image[k].at, image[k].pages)
    <3>1. CASE k = x
      <4>1. /\ h[k] = vmm_alloc(f[x - 1], c, image[x].at, image[x].pages)
            /\ h[x - 1] = f[x - 1]
        BY <3>1, <2>4, <2>5
      <4> QED BY <4>1, <3>1, <2>4
    <3>2. CASE k # x
      <4>1. k \in 0 .. x - 1 /\ h[k] = f[k]
        BY <3>2, <2>5
      <4>2. k # 0 => h[k - 1] = f[k - 1]
        BY <4>1, <2>5
      <4> QED BY <4>1, <4>2, <2>7
    <3> QED BY <3>1, <3>2
  <2>9. Rec(h, x)
    <3>1. h = [k \in 0 .. x |-> h[k]]
      OBVIOUS
    <3> HIDE DEF h
    <3> QED BY <3>1, <2>8
  <2>10. \E ff : Rec(ff, x)
    <3> HIDE DEF h
    <3> QED BY <2>9
  <2> QED BY <2>3, <2>10
<1>2. \E f : Rec(f, n)
  BY <1>0, <1>1
<1> DEFINE g == CHOOSE f : Rec(f, n)
<1>3. Rec(g, n)
  BY <1>2, Zenon
<1>4. ParseElf(s, c, image) = g[n]
  BY Zenon DEF ParseElf, n
<1> HIDE DEF g
<1>5. \A k \in 0 .. n :
        g[k] = IF k = 0 THEN s ELSE vmm_alloc(g[k - 1], c, image[k].at, image[k].pages)
  BY <1>3
<1>6. g[0] = s /\ \A k \in 1 .. n :
                    g[k] = vmm_alloc(g[k - 1], c, image[k].at, image[k].pages)
  BY <1>0, <1>5
<1> QED BY <1>4, <1>6 DEF LoadRounds, n

LEMMA ParseElfOK ==
  ASSUME NEW C, NEW s, StateOK(s, C), NEW c, s.panic = "none" => c \in C,
         NEW image \in Images
  PROVE  LET r == ParseElf(s, c, image)
         IN  /\ StateOK(r, C)
             /\ r.panic = "none" =>
                  s.panic = "none" /\ OnlyMapped(s.mem, r.mem, C, c, 0, UserPool)
<1>0. /\ Len(image) \in Nat /\ image \in Seq([at : Nat, pages : Nat])
      /\ \A k \in 1 .. Len(image) :
           /\ image[k].at \in Nat /\ image[k].pages \in Nat
           /\ image[k].at \div Entries \in UserSlots
           /\ image[k].at + image[k].pages <= UserPool
  <2>1. image \in Seq([at : Nat, pages : Nat])
    BY LayoutAssumption
  <2> DEFINE S == [at : Nat, pages : Nat]
  <2>2. Len(image) \in Nat /\ \A k \in 1 .. Len(image) : image[k] \in S
    <3>1. image \in Seq(S)
      BY <2>1
    <3> HIDE DEF S
    <3> QED BY <3>1
  <2>3. \A k \in 1 .. Len(image) : image[k].at \in Nat /\ image[k].pages \in Nat
    BY <2>2
  <2>4. \A k \in 1 .. Len(image) : /\ image[k].at \div Entries \in UserSlots
                                   /\ image[k].at + image[k].pages <= UserPool
    BY LayoutAssumption
  <2> QED BY <2>1, <2>2, <2>3, <2>4
<1>1. PICK g : LoadRounds(g, s, c, image)
  BY <1>0, ParseElfRounds, Zenon
<1> DEFINE n == Len(image)
           Good(k) == /\ StateOK(g[k], C)
                      /\ g[k].panic = "none" =>
                           s.panic = "none" /\ OnlyMapped(s.mem, g[k].mem, C, c, 0, UserPool)
           Bad == {k \in 0 .. n : ~Good(k)}
<1>2. /\ ParseElf(s, c, image) = g[n]
      /\ g[0] = s
      /\ \A k \in 1 .. n : g[k] = vmm_alloc(g[k - 1], c, image[k].at, image[k].pages)
  BY <1>1 DEF LoadRounds
<1>3. Bad = {}
  <2>1. SUFFICES ASSUME Bad # {} PROVE FALSE
    OBVIOUS
  <2>2. Bad \in SUBSET Nat
    BY <1>0
  <2>3. PICK k \in Bad : \A y \in Bad : k <= y
    <3> HIDE DEF Bad
    <3> QED BY <2>1, <2>2, LeastElement
  <2>4. k # 0
    <3>1. Good(0)
      BY <1>2 DEF OnlyMapped
    <3> QED BY <3>1, <2>3
  <2>5. k \in 1 .. n /\ k - 1 \in 0 .. n /\ k - 1 \notin Bad
    BY <2>3, <2>4, <1>0
  <2> DEFINE a == g[k - 1]
             lo == image[k].at
             m == image[k].pages
  <2>6. /\ StateOK(a, C)
        /\ a.panic = "none" =>
             s.panic = "none" /\ OnlyMapped(s.mem, a.mem, C, c, 0, UserPool)
    BY <2>5
  <2>7. /\ lo \in Nat /\ m \in Nat /\ lo \div Entries \in UserSlots /\ lo + m <= UserPool
        /\ lo + m <= Entries * Entries
    <3>1. lo \in Nat /\ m \in Nat /\ lo \div Entries \in UserSlots /\ lo + m <= UserPool
      BY <2>5, <1>0
    <3> HIDE DEF lo, m
    <3> DEFINE x == Entries * Entries
    <3>2. UserPool \in Nat /\ x \in Nat /\ UserPool < x
      BY MemoryAssumption
    <3> HIDE DEF x
    <3>3. lo + m <= x
      BY <3>1, <3>2
    <3> QED BY <3>1, <3>3 DEF x
  <2>8. g[k] = vmm_alloc(a, c, lo, m) /\ (a.panic = "none" => c \in C)
    BY <2>5, <2>6, <1>2
  <2> HIDE DEF a, lo, m
  <2>9. /\ StateOK(vmm_alloc(a, c, lo, m), C)
        /\ vmm_alloc(a, c, lo, m).panic = "none" =>
             a.panic = "none" /\ OnlyMapped(a.mem, vmm_alloc(a, c, lo, m).mem, C, c, lo, m)
    BY <2>6, <2>7, <2>8, VmmAllocOK, Zenon
  <2>10. ASSUME g[k].panic = "none"
         PROVE  s.panic = "none" /\ OnlyMapped(s.mem, g[k].mem, C, c, 0, UserPool)
    <3>1. s.panic = "none" /\ OnlyMapped(s.mem, a.mem, C, c, 0, UserPool)
          /\ OnlyMapped(a.mem, g[k].mem, C, c, lo, m)
      BY <2>6, <2>8, <2>9, <2>10
    <3>2. ASSUME NEW e \in All(C), NEW v \in VirtPages, ~(e = c /\ 0 <= v /\ v < 0 + UserPool)
          PROVE  Trans(g[k].mem, e, v) = Trans(s.mem, e, v)
      <4>0. v \in Nat /\ lo \in Nat /\ m \in Nat /\ lo + m <= UserPool /\ UserPool \in Nat
        BY <2>7, PageParts, MemoryAssumption
      <4>1. ~(e = c /\ lo <= v /\ v < lo + m)
        BY <3>2, <4>0
      <4> QED BY <4>1, <3>1, <3>2 DEF OnlyMapped
    <3> QED BY <3>1, <3>2 DEF OnlyMapped
  <2>11. Good(k)
    BY <2>8, <2>9, <2>10
  <2> QED BY <2>3, <2>11
<1>4. Good(n)
  BY <1>0, <1>3
<1> QED BY <1>2, <1>4, Zenon

-----------------------------------------------------------------------------
(* New contexts.                                                           *)

(* create_context takes two free pages: the context c and its empty page   *)
(* directory d.                                                            *)
Created(s, r, c, d) ==
  /\ s.panic = "none" /\ r.panic = "none" /\ r \in States
  /\ c # NULL /\ c \in PoolPages /\ c \notin s.used
  /\ d \in PoolPages /\ d \notin s.used /\ d # c
  /\ r.used = s.used \cup {c, d}
  /\ r.mem[c][0] = d /\ r.mem[d] = Zeroed
  /\ \A n \in PoolPages : n # c /\ n # d => r.mem[n] = s.mem[n]

LEMMA CreateContextResult ==
  ASSUME NEW s \in States
  PROVE  \/ create_context(s) = Fail(s, "pool")
         \/ \E d : Created(s, create_context(s), AllocPool(s), d)
<1> DEFINE c == AllocPool(s)
           d == pmm_alloc(s.used \cup {c}, PAGEPOOL_START, PAGEPOOL_END)
           m2 == [s.mem EXCEPT ![c][0] = d, ![d] = Zeroed]
           r == create_context(s)
<1>1. r = IF s.panic # "none" \/ c = NULL \/ d = NULL THEN Fail(s, "pool")
          ELSE [used |-> s.used \cup {c, d}, mem |-> m2, panic |-> "none"]
  BY Zenon DEF create_context
<1>2. CASE s.panic # "none" \/ c = NULL \/ d = NULL
  BY <1>1, <1>2, Zenon
<1>3. CASE s.panic = "none" /\ c # NULL /\ d # NULL
  <2>1. r = [used |-> s.used \cup {c, d}, mem |-> m2, panic |-> "none"]
    BY <1>1, <1>3, Zenon
  <2>2. c \in PoolPages /\ c \notin s.used
    BY <1>3, PoolPageIsFree
  <2>3. d \in PoolPages /\ d \notin s.used /\ d # c
    <3>1. PAGEPOOL_START \in Nat /\ PAGEPOOL_END \in Nat
      BY MemoryAssumption
    <3>2. d \in PAGEPOOL_START .. PAGEPOOL_END - 1 /\ d \notin s.used \cup {c}
      <4> HIDE DEF c
      <4> QED BY <3>1, <1>3, AllocFacts
    <3> QED BY <3>2 DEF PoolPages
  <2> HIDE DEF c, d
  <2>4. s.mem \in Contents /\ s.used \in SUBSET Nat /\ 0 \in Slots /\ d \in Nat /\ c \in Nat
    BY <2>2, <2>3, StateFields, Layout
  <2>5. Zeroed \in [Slots -> Nat]
    BY DEF Zeroed
  <2>6. /\ m2 \in Contents /\ m2[c][0] = d /\ m2[d] = Zeroed
        /\ \A n \in PoolPages : n # c /\ n # d => m2[n] = s.mem[n]
    BY <2>2, <2>3, <2>4, <2>5 DEF Contents
  <2> HIDE DEF m2
  <2>7. r \in States /\ r.used = s.used \cup {c, d} /\ r.mem = m2 /\ r.panic = "none"
    BY <2>1, <2>4, <2>6 DEF States, Panics
  <2> HIDE DEF r
  <2>8. Created(s, r, c, d)
    BY <1>3, <2>2, <2>3, <2>6, <2>7 DEF Created
  <2> QED BY <2>8 DEF r, c
<1> QED BY <1>2, <1>3

(* The context of a process: it has the page tables of the kernel and      *)
(* nothing else.                                                           *)
LEMMA UsermodeContextOK ==
  ASSUME NEW C, NEW s, StateOK(s, C)
  PROVE  LET r == CreateUsermodeContext(s, kernel_context)
             c == AllocPool(s)
         IN  /\ StateOK(r, C \cup {c})
             /\ r.panic = "none" =>
                  /\ s.panic = "none" /\ c # NULL /\ c \notin All(C)
                  /\ \A e \in All(C) : \A v \in VirtPages : Trans(r.mem, e, v) = Trans(s.mem, e, v)
                  /\ \A v \in VirtPages : v \div Entries \in UserSlots => Trans(r.mem, c, v) = 0
<1> DEFINE r == CreateUsermodeContext(s, kernel_context)
           c == AllocPool(s)
           t == create_context(s)
           kd == t.mem[kernel_context][0]
           m2 == [t.mem EXCEPT ![t.mem[c][0]] = t.mem[kd]]
<1> SUFFICES
      /\ StateOK(r, C \cup {c})
      /\ r.panic = "none" =>
           /\ s.panic = "none" /\ c # NULL /\ c \notin All(C)
           /\ \A e \in All(C) : \A v \in VirtPages : Trans(r.mem, e, v) = Trans(s.mem, e, v)
           /\ \A v \in VirtPages : v \div Entries \in UserSlots => Trans(r.mem, c, v) = 0
  BY Zenon
<1>1. r = IF t.panic # "none" THEN t ELSE [used |-> t.used, mem |-> m2, panic |-> "none"]
  BY Zenon DEF CreateUsermodeContext
<1>2. s \in States /\ InitPmm \subseteq s.used /\ Fail(s, "pool") \in States
      /\ Fail(s, "pool").used = s.used /\ Fail(s, "pool").panic # "none"
  BY FailFacts DEF StateOK
<1>3. t = Fail(s, "pool") \/ \E d : Created(s, t, c, d)
  BY <1>2, CreateContextResult
<1> HIDE DEF t, c, r
<1>4. CASE t = Fail(s, "pool")
  <2>1. r = t
    BY <1>1, <1>2, <1>4
  <2> QED BY <2>1, <1>2, <1>4 DEF StateOK
<1>5. CASE \E d : Created(s, t, c, d)
  <2>1. PICK d : Created(s, t, c, d)
    BY <1>5
  <2>2. PoolInv(s.used, s.mem, C)
    BY <2>1 DEF StateOK, Created
  <2>3. kernel_context \in All(C) /\ Shape(s.mem, kernel_context)
    BY <2>2 DEF PoolInv, All
  <2>4. /\ kernel_context \in PoolPages /\ kernel_context \in s.used
        /\ Dir(s.mem, kernel_context) \in PoolPages /\ Dir(s.mem, kernel_context) \in s.used
    <3>1. InTree(s.mem, kernel_context, kernel_context)
          /\ InTree(s.mem, kernel_context, Dir(s.mem, kernel_context))
      BY DEF InTree
    <3> QED BY <3>1, <2>2, <2>3 DEF PoolInv, Shape
  <2>5. kd = Dir(s.mem, kernel_context) /\ t.mem[kd] = s.mem[kd]
    BY <2>1, <2>4 DEF Created, Dir
  <2>6. t.mem \in Contents /\ t.used \in SUBSET Nat /\ kd \in PoolPages
    BY <2>1, <2>4, <2>5, StateFields DEF Created
  <2> HIDE DEF kd
  <2>7. t.mem[c][0] = d /\ c \in PoolPages /\ d \in PoolPages /\ d # c
    BY <2>1 DEF Created
  <2>8. /\ m2 \in Contents /\ m2[c][0] = d /\ m2[d] = s.mem[Dir(s.mem, kernel_context)]
        /\ \A n \in PoolPages : n # c /\ n # d => m2[n] = s.mem[n]
    <3>1. m2 \in Contents
      BY <2>6, <2>7 DEF Contents
    <3>2. m2[c] = t.mem[c] /\ m2[d] = t.mem[kd]
      BY <2>6, <2>7 DEF Contents
    <3>3. \A n \in PoolPages : n # d => m2[n] = t.mem[n]
      BY <2>6, <2>7 DEF Contents
    <3> HIDE DEF m2
    <3> QED BY <3>1, <3>2, <3>3, <2>1, <2>5, <2>7 DEF Created
  <2> HIDE DEF m2
  <2>9. r = [used |-> s.used \cup {c, d}, mem |-> m2, panic |-> "none"]
    BY <1>1, <2>1 DEF Created
  <2>10. r \in States /\ r.used = s.used \cup {c, d} /\ r.mem = m2 /\ r.panic = "none"
    <3>1. s.used \cup {c, d} \in SUBSET Nat
      BY <2>7, <1>2, StateFields, Layout
    <3> QED BY <3>1, <2>8, <2>9 DEF States, Panics
  <2>11. c \notin s.used /\ d \notin s.used /\ c # NULL /\ s.panic = "none"
    BY <2>1 DEF Created
  <2>12. c \notin All(C) /\ PoolInv(r.used, r.mem, C \cup {c})
    <3> DEFINE u == s.used
               m == s.mem
    <3>1. /\ PoolInv(u, m, C) /\ InitPmm \subseteq u /\ c \notin u /\ d \notin u /\ c # d
          /\ \A n \in PoolPages : n # c /\ n # d => m2[n] = m[n]
          /\ m2[c][0] = d /\ m2[d] = m[Dir(m, kernel_context)]
      BY <2>2, <2>7, <2>8, <2>11, <1>2
    <3> HIDE DEF u, m
    <3>2. c \notin All(C) /\ PoolInv(u \cup {c, d}, m2, C \cup {c})
      BY <3>1, <2>7, <2>8, ContextStep, Zenon
    <3> QED BY <3>2, <2>10 DEF u
  <2>13. StateOK(r, C \cup {c})
    BY <2>10, <2>12, <1>2 DEF StateOK
  <2>14. ASSUME NEW e \in All(C), NEW v \in VirtPages
         PROVE  Trans(m2, e, v) = Trans(s.mem, e, v)
    <3> DEFINE j == v \div Entries
               l == v % Entries
    <3>0. j \in Slots /\ l \in Slots
      BY PageParts
    <3>1. /\ Trans(s.mem, e, v) = IF Table(s.mem, e, j) = 0 THEN 0 ELSE s.mem[Table(s.mem, e, j)][l]
          /\ Trans(m2, e, v) = IF Table(m2, e, j) = 0 THEN 0 ELSE m2[Table(m2, e, j)][l]
      BY DEF Trans, Table
    <3> HIDE DEF j, l
    <3>2. InTree(s.mem, e, e) /\ InTree(s.mem, e, Dir(s.mem, e)) /\ Shape(s.mem, e)
      BY <2>2 DEF InTree, PoolInv
    <3>3. e \in PoolPages /\ e \in s.used /\ Dir(s.mem, e) \in PoolPages /\ Dir(s.mem, e) \in s.used
      BY <3>2, <2>2 DEF PoolInv, Shape
    <3>4. m2[e] = s.mem[e] /\ m2[Dir(s.mem, e)] = s.mem[Dir(s.mem, e)]
      BY <3>3, <2>8, <2>11
    <3>5. Table(m2, e, j) = Table(s.mem, e, j)
      BY <3>4 DEF Table, Dir
    <3>6. CASE Table(s.mem, e, j) = 0
      BY <3>1, <3>5, <3>6
    <3>7. CASE Table(s.mem, e, j) # 0
      <4>1. Table(s.mem, e, j) \in PoolPages /\ Table(s.mem, e, j) \in s.used
        BY <3>0, <3>7, <2>2, AnyTable
      <4>2. m2[Table(s.mem, e, j)] = s.mem[Table(s.mem, e, j)]
        BY <4>1, <2>8, <2>11
      <4> QED BY <4>2, <3>1, <3>5
    <3> QED BY <3>6, <3>7
  <2>15. ASSUME NEW v \in VirtPages, v \div Entries \in UserSlots PROVE Trans(m2, c, v) = 0
    <3>1. m2[m2[c][0]][v \div Entries] = Table(s.mem, kernel_context, v \div Entries)
      BY <2>8 DEF Table, Dir
    <3>2. Table(s.mem, kernel_context, v \div Entries) = 0
      BY <2>15, <2>2 DEF PoolInv, Shared
    <3> QED BY <3>1, <3>2 DEF Trans
  <2> QED BY <2>10, <2>11, <2>12, <2>13, <2>14, <2>15
<1> QED BY <1>3, <1>4, <1>5

-----------------------------------------------------------------------------
(* The context of the kernel.                                              *)

Start == [used |-> InitPmm, mem |-> [p \in PoolPages |-> Zeroed], panic |-> "none"]

(* The first context: nothing is mapped in it. *)
LEMMA FirstContextOK ==
  /\ AllocPool(Start) = kernel_context
  /\ StateOK(create_context(Start), {})
<1> DEFINE r == create_context(Start)
           m == r.mem
<1>1. Zeroed \in [Slots -> Nat] /\ \A i \in Slots : Zeroed[i] = 0
  BY DEF Zeroed
<1>2. Start.used = InitPmm /\ Start.panic = "none" /\ Start \in States
  <2>1. InitPmm \in SUBSET Nat
    BY MemoryAssumption DEF InitPmm
  <2>2. [p \in PoolPages |-> Zeroed] \in Contents
    BY <1>1 DEF Contents
  <2> QED BY <2>1, <2>2 DEF Start, States, Panics
<1>3. AllocPool(Start) = kernel_context
  BY <1>2 DEF AllocPool, kernel_context
<1>4. Fail(Start, "pool") \in States /\ Fail(Start, "pool").used = InitPmm
      /\ Fail(Start, "pool").panic # "none"
  BY <1>2, FailFacts
<1>5. r = Fail(Start, "pool") \/ \E d : Created(Start, r, kernel_context, d)
  BY <1>2, <1>3, CreateContextResult
<1> HIDE DEF r
<1>6. CASE r = Fail(Start, "pool")
  BY <1>3, <1>4, <1>6 DEF StateOK, r
<1>7. CASE \E d : Created(Start, r, kernel_context, d)
  <2> DEFINE c == kernel_context
  <2>1. PICK d : Created(Start, r, c, d)
    BY <1>7
  <2> HIDE DEF c
  <2>2. /\ r \in States /\ c # NULL /\ c \in PoolPages /\ c \notin InitPmm
        /\ d \in PoolPages /\ d \notin InitPmm /\ d # c
        /\ r.used = InitPmm \cup {c, d} /\ Dir(m, c) = d /\ m[d] = Zeroed
    BY <2>1, <1>2 DEF Created, Dir
  <2>3. m \in Contents
    BY <2>2, StateFields
  <2> HIDE DEF m
  <2>4. SlotsOf(c) \subseteq Slots /\ \A i \in Slots : Table(m, c, i) = 0
    BY <2>2, <1>1, Layout DEF Table, Dir, SlotsOf
  <2>5. \A n : InTree(m, c, n) <=> n = c \/ n = d
    BY <2>2, <2>4 DEF InTree
  <2>6. Shape(m, c)
    BY <2>2, <2>4 DEF Shape
  <2>7. Shared(m, {}) /\ All({}) = {c}
    BY <2>4, Layout DEF Shared, All, c
  <2>8. PoolInv(r.used, m, {})
    <3>1. \A n \in PoolPages : n \in InitPmm => n \in Modules
      BY Layout
    <3>2. c \notin Modules /\ d \notin Modules
      BY <2>2, Layout
    <3> QED BY <3>1, <3>2, <2>2, <2>3, <2>5, <2>6, <2>7 DEF PoolInv
  <2>9. InitPmm \subseteq r.used
    BY <2>2
  <2> QED BY <2>2, <2>8, <2>9, <1>3 DEF StateOK, r, m, c
<1> QED BY <1>5, <1>6, <1>7

(* The loop of map_range, round by round. *)
RangeRounds(g, s, c, n) ==
  /\ map_range(s, c, n) = g[n]
  /\ g[0] = s
  /\ \A k \in 1 .. n : g[k] = map_page(g[k - 1], c, k - 1, k - 1)

LEMMA MapRangeRounds ==
  ASSUME NEW s, NEW c, NEW n \in Nat
  PROVE  \E g : RangeRounds(g, s, c, n)
<1> DEFINE Rec(f, x) ==
             f = [k \in 0 .. x |-> IF k = 0 THEN s ELSE map_page(f[k - 1], c, k - 1, k - 1)]
           Missing == {x \in 0 .. n : ~ \E f : Rec(f, x)}
<1>1. Missing = {}
  <2>1. SUFFICES ASSUME Missing # {} PROVE FALSE
    OBVIOUS
  <2>2. Missing \in SUBSET Nat
    OBVIOUS
  <2>3. PICK x \in Missing : \A y \in Missing : x <= y
    <3> HIDE DEF Missing
    <3> QED BY <2>1, <2>2, LeastElement
  <2>4. x # 0
    <3>1. SUFFICES ASSUME x = 0 PROVE \E f : Rec(f, x)
      OBVIOUS
    <3>2. Rec([k \in 0 .. 0 |-> s], 0)
      OBVIOUS
    <3> QED BY <3>1, <3>2
  <2>5. x - 1 \in 0 .. n /\ x - 1 \notin Missing /\ x \in Nat
    <3>1. x \in 0 .. n
      OBVIOUS
    <3> HIDE DEF Missing
    <3> QED BY <3>1, <2>3, <2>4
  <2>6. PICK f : Rec(f, x - 1)
    BY <2>5
  <2>7. \A k \in 0 .. x - 1 : f[k] = IF k = 0 THEN s ELSE map_page(f[k - 1], c, k - 1, k - 1)
    BY <2>6
  <2> DEFINE h == [k \in 0 .. x |-> IF k = x THEN map_page(f[x - 1], c, x - 1, x - 1) ELSE f[k]]
  <2>8. ASSUME NEW k \in 0 .. x
        PROVE  h[k] = IF k = 0 THEN s ELSE map_page(h[k - 1], c, k - 1, k - 1)
    <3>1. CASE k = x
      <4>1. h[k] = map_page(f[x - 1], c, x - 1, x - 1) /\ h[x - 1] = f[x - 1]
        BY <3>1, <2>4, <2>5
      <4> QED BY <4>1, <3>1, <2>4
    <3>2. CASE k # x
      <4>1. k \in 0 .. x - 1 /\ h[k] = f[k]
        BY <3>2, <2>5
      <4>2. k # 0 => h[k - 1] = f[k - 1]
        BY <4>1, <2>5
      <4> QED BY <4>1, <4>2, <2>7
    <3> QED BY <3>1, <3>2
  <2>9. Rec(h, x)
    <3>1. h = [k \in 0 .. x |-> h[k]]
      OBVIOUS
    <3> HIDE DEF h
    <3> QED BY <3>1, <2>8
  <2>10. \E ff : Rec(ff, x)
    <3> HIDE DEF h
    <3> QED BY <2>9
  <2> QED BY <2>3, <2>10
<1>2. \E f : Rec(f, n)
  BY <1>1
<1> DEFINE g == CHOOSE f : Rec(f, n)
<1>3. Rec(g, n)
  BY <1>2, Zenon
<1>4. map_range(s, c, n) = g[n]
  BY Zenon DEF map_range
<1> HIDE DEF g
<1>5. \A k \in 0 .. n : g[k] = IF k = 0 THEN s ELSE map_page(g[k - 1], c, k - 1, k - 1)
  BY <1>3
<1>6. g[0] = s /\ \A k \in 1 .. n : g[k] = map_page(g[k - 1], c, k - 1, k - 1)
  BY <1>5
<1> QED BY <1>4, <1>6 DEF RangeRounds

(* InitVmm maps the kernel, the pool and the heap in the kernel's part of  *)
(* the address space.                                                      *)
LEMMA InitVmmOK ==
  StateOK(InitVmm(Start), {})
<1> DEFINE s == create_context(Start)
           c == kernel_context
           n == HEAP_END + 1
<1>0. n \in Nat /\ HEAP_END \in Nat
  BY MemoryAssumption
<1>1. InitVmm(Start) = map_range(s, c, n)
  BY FirstContextOK DEF InitVmm
<1>2. StateOK(s, {})
  BY FirstContextOK
<1> HIDE DEF s, n
<1>3. PICK g : RangeRounds(g, s, c, n)
  BY <1>0, MapRangeRounds, Zenon
<1>4. /\ map_range(s, c, n) = g[n]
      /\ g[0] = s
      /\ \A k \in 1 .. n : g[k] = map_page(g[k - 1], c, k - 1, k - 1)
  BY <1>3 DEF RangeRounds
<1> DEFINE Good(k) == StateOK(g[k], {})
           Bad == {k \in 0 .. n : ~Good(k)}
<1>5. Bad = {}
  <2>1. SUFFICES ASSUME Bad # {} PROVE FALSE
    OBVIOUS
  <2>2. Bad \in SUBSET Nat
    BY <1>0
  <2>3. PICK k \in Bad : \A y \in Bad : k <= y
    <3> HIDE DEF Bad
    <3> QED BY <2>1, <2>2, LeastElement
  <2>4. k # 0
    BY <1>2, <1>4
  <2>5. k \in 1 .. n /\ k - 1 \in 0 .. n /\ k - 1 \notin Bad
    <3>1. k \in 0 .. n
      OBVIOUS
    <3> HIDE DEF Bad
    <3> QED BY <3>1, <2>3, <2>4, <1>0
  <2> DEFINE a == g[k - 1]
             v == k - 1
  <2>6. Good(k - 1)
    BY <2>5
  <2>7. g[k] = map_page(a, c, v, v)
    BY <2>5, <1>4
  <2>8. v \in Nat /\ v <= HEAP_END
    BY <2>5, <1>0 DEF n
  <2> HIDE DEF v
  <2>9. v \div Entries \in SlotsOf(c)
    BY <2>8, KernelPart DEF SlotsOf
  <2>10. StateOK(a, {}) /\ c \in All({}) /\ c = kernel_context
    BY <2>6 DEF All
  <2> HIDE DEF a, c
  <2>11. StateOK(map_page(a, c, v, v), {})
    BY <2>8, <2>9, <2>10, MapPageOK, Zenon
  <2>12. Good(k)
    BY <2>6, <2>7, <2>11 DEF a
  <2> QED BY <2>3, <2>12
<1>6. Good(n)
  BY <1>0, <1>5
<1> QED BY <1>1, <1>4, <1>6

-----------------------------------------------------------------------------
(* The processes of the boot.                                              *)

LEMMA BootSequence ==
  /\ Len(SetToSeq(Boot)) \in Nat
  /\ \A k \in 1 .. Len(SetToSeq(Boot)) : SetToSeq(Boot)[k] \in Boot
  /\ \A j, k \in 1 .. Len(SetToSeq(Boot)) : SetToSeq(Boot)[j] = SetToSeq(Boot)[k] => j = k
<1> DEFINE n == Cardinality(Boot)
           q == SetToSeq(Boot)
<1>1. n \in Nat /\ ExistsBijection(1 .. n, Boot)
  BY MemoryAssumption, FS_CardinalityType, Zenon
<1>2. q = CHOOSE f \in [1 .. n -> Boot] : IsInjective(f)
  BY Zenon DEF SetToSeq
<1> HIDE DEF n, q
<1>3. \E f \in [1 .. n -> Boot] : IsInjective(f)
  BY <1>1, Zenon DEF ExistsBijection, Bijection, Injection
<1>4. q \in [1 .. n -> Boot] /\ IsInjective(q)
  BY <1>2, <1>3, Zenon
<1>5. Len(q) = n
  BY <1>1, <1>4
<1>6. \A k \in 1 .. n : q[k] \in Boot
  BY <1>4
<1>7. \A j, k \in 1 .. n : q[j] = q[k] => j = k
  BY <1>4 DEF IsInjective
<1> QED BY <1>1, <1>5, <1>6, <1>7 DEF q

(* The loop of Booted, round by round. *)
BootRounds(g, boot) ==
  /\ Booted = g[Len(boot)]
  /\ g[0] = [state |-> InitVmm(Start), context |-> [p \in Procs |-> NULL]]
  /\ \A k \in 1 .. Len(boot) : g[k] = BootProcess(g[k - 1], boot[k])

LEMMA BootedRounds ==
  \E g : BootRounds(g, SetToSeq(Boot))
<1> DEFINE boot == SetToSeq(Boot)
           n == Len(boot)
           s == [state |-> InitVmm(Start), context |-> [p \in Procs |-> NULL]]
           Rec(f, x) == f = [k \in 0 .. x |-> IF k = 0 THEN s ELSE BootProcess(f[k - 1], boot[k])]
           Missing == {x \in 0 .. n : ~ \E f : Rec(f, x)}
<1>0. n \in Nat
  BY BootSequence
<1> HIDE DEF n, boot, s
<1>1. Missing = {}
  <2>1. SUFFICES ASSUME Missing # {} PROVE FALSE
    OBVIOUS
  <2>2. Missing \in SUBSET Nat
    BY <1>0
  <2>3. PICK x \in Missing : \A y \in Missing : x <= y
    <3> HIDE DEF Missing
    <3> QED BY <2>1, <2>2, LeastElement
  <2>4. x # 0
    <3>1. SUFFICES ASSUME x = 0 PROVE \E f : Rec(f, x)
      OBVIOUS
    <3>2. Rec([k \in 0 .. 0 |-> s], 0)
      OBVIOUS
    <3> QED BY <3>1, <3>2
  <2>5. x - 1 \in 0 .. n /\ x - 1 \notin Missing /\ x \in Nat
    <3>1. x \in 0 .. n
      OBVIOUS
    <3> HIDE DEF Missing
    <3> QED BY <3>1, <2>3, <2>4, <1>0
  <2>6. PICK f : Rec(f, x - 1)
    BY <2>5
  <2>7. \A k \in 0 .. x - 1 : f[k] = IF k = 0 THEN s ELSE BootProcess(f[k - 1], boot[k])
    BY <2>6
  <2> DEFINE h == [k \in 0 .. x |-> IF k = x THEN BootProcess(f[x - 1], boot[x]) ELSE f[k]]
  <2>8. ASSUME NEW k \in 0 .. x
        PROVE  h[k] = IF k = 0 THEN s ELSE BootProcess(h[k - 1], boot[k])
    <3>1. CASE k = x
      <4>1. h[k] = BootProcess(f[x - 1], boot[x]) /\ h[x - 1] = f[x - 1]
        BY <3>1, <2>4, <2>5
      <4> QED BY <4>1, <3>1, <2>4
    <3>2. CASE k # x
      <4>1. k \in 0 .. x - 1 /\ h[k] = f[k]
        BY <3>2, <2>5
      <4>2. k # 0 => h[k - 1] = f[k - 1]
        BY <4>1, <2>5
      <4> QED BY <4>1, <4>2, <2>7
    <3> QED BY <3>1, <3>2
  <2>9. Rec(h, x)
    <3>1. h = [k \in 0 .. x |-> h[k]]
      OBVIOUS
    <3> HIDE DEF h
    <3> QED BY <3>1, <2>8
  <2>10. \E ff : Rec(ff, x)
    <3> HIDE DEF h
    <3> QED BY <2>9
  <2> QED BY <2>3, <2>10
<1>2. \E f : Rec(f, n)
  BY <1>0, <1>1
<1> DEFINE g == CHOOSE f : Rec(f, n)
<1>3. Rec(g, n)
  BY <1>2, Zenon
<1>4. Booted = g[n]
  BY Zenon DEF Booted, Start, n, boot, s
<1> HIDE DEF g
<1>5. \A k \in 0 .. n : g[k] = IF k = 0 THEN s ELSE BootProcess(g[k - 1], boot[k])
  BY <1>3
<1>6. g[0] = s /\ \A k \in 1 .. n : g[k] = BootProcess(g[k - 1], boot[k])
  BY <1>0, <1>5
<1>7. BootRounds(g, boot)
  BY <1>4, <1>6 DEF BootRounds, n, s
<1> QED BY <1>7 DEF boot

(* The contexts processes have. *)
Held(ctx) == {ctx[p] : p \in {q \in Procs : ctx[q] # NULL}}

LEMMA BootedOK ==
  /\ StateOK(Booted.state, Held(Booted.context))
  /\ DOMAIN Booted.context = Procs
  /\ \A p \in Procs : Booted.context[p] # NULL => p \in Boot
  /\ Booted.state.panic = "none" =>
       \A p, q \in Procs : Booted.context[p] # NULL /\ Booted.context[p] = Booted.context[q] => p = q
<1> DEFINE boot == SetToSeq(Boot)
           n == Len(boot)
<1>0. /\ n \in Nat /\ \A k \in 1 .. n : boot[k] \in Boot
      /\ \A j, k \in 1 .. n : boot[j] = boot[k] => j = k
  BY BootSequence
<1>1. PICK g : BootRounds(g, boot)
  BY BootedRounds, Zenon
<1> HIDE DEF boot
<1>2. /\ Booted = g[n]
      /\ g[0] = [state |-> InitVmm(Start), context |-> [p \in Procs |-> NULL]]
      /\ \A k \in 1 .. n : g[k] = BootProcess(g[k - 1], boot[k])
  BY <1>1 DEF BootRounds
<1> HIDE DEF n
<1> DEFINE Good(k) ==
             /\ StateOK(g[k].state, Held(g[k].context))
             /\ DOMAIN g[k].context = Procs
             /\ \A p \in Procs : g[k].context[p] # NULL => \E j \in 1 .. k : p = boot[j]
             /\ g[k].state.panic = "none" =>
                  \A p, q \in Procs :
                    g[k].context[p] # NULL /\ g[k].context[p] = g[k].context[q] => p = q
           Bad == {k \in 0 .. n : ~Good(k)}
<1>3. Bad = {}
  <2>1. SUFFICES ASSUME Bad # {} PROVE FALSE
    OBVIOUS
  <2>2. Bad \in SUBSET Nat
    BY <1>0
  <2>3. PICK k \in Bad : \A y \in Bad : k <= y
    <3> HIDE DEF Bad
    <3> QED BY <2>1, <2>2, LeastElement
  <2>4. k # 0
    <3>1. g[0].state = InitVmm(Start) /\ g[0].context = [p \in Procs |-> NULL]
      BY <1>2
    <3>2. Held([p \in Procs |-> NULL]) = {}
      BY DEF Held
    <3>3. Good(0)
      BY <3>1, <3>2, InitVmmOK
    <3> QED BY <3>3, <2>3
  <2>5. k \in 1 .. n /\ k - 1 \in 0 .. n /\ k - 1 \notin Bad
    <3>1. k \in 0 .. n
      OBVIOUS
    <3> HIDE DEF Bad
    <3> QED BY <3>1, <2>3, <2>4, <1>0
  <2>6. Good(k - 1)
    BY <2>5
  <2> DEFINE s == g[k - 1].state
             x == g[k - 1].context
             c == AllocPool(s)
             r == CreateUsermodeContext(s, kernel_context)
             y == [x EXCEPT ![boot[k]] = c]
  <2>7. g[k].state = r /\ g[k].context = y
    <3>1. g[k] = BootProcess(g[k - 1], boot[k])
      BY <2>5, <1>2
    <3>2. BootProcess(g[k - 1], boot[k]) = [state |-> r, context |-> y]
      BY Zenon DEF BootProcess
    <3> HIDE DEF r, y
    <3> QED BY <3>1, <3>2
  <2>8. /\ StateOK(s, Held(x)) /\ DOMAIN x = Procs
        /\ \A p \in Procs : x[p] # NULL => \E j \in 1 .. k - 1 : p = boot[j]
        /\ s.panic = "none" => \A p, q \in Procs : x[p] # NULL /\ x[p] = x[q] => p = q
    BY <2>6
  <2> HIDE DEF s, x
  <2>9. /\ StateOK(r, Held(x) \cup {c})
        /\ r.panic = "none" => s.panic = "none" /\ c # NULL /\ c \notin Held(x)
    BY <2>8, UsermodeContextOK, Zenon DEF All
  <2> HIDE DEF r, c
  <2>10. boot[k] \in Procs /\ x[boot[k]] = NULL
    <3>1. boot[k] \in Boot /\ boot[k] \in Procs
      BY <2>5, <1>0, MemoryAssumption
    <3>2. \A j \in 1 .. k - 1 : boot[k] # boot[j]
      BY <2>5, <1>0
    <3> QED BY <3>1, <3>2, <2>8
  <2>11. DOMAIN y = Procs /\ \A p \in Procs : y[p] = IF p = boot[k] THEN c ELSE x[p]
    BY <2>8, <2>10
  <2> HIDE DEF y
  <2>12. \A p \in Procs : y[p] # NULL => \E j \in 1 .. k : p = boot[j]
    <3>1. ASSUME NEW p \in Procs, y[p] # NULL PROVE \E j \in 1 .. k : p = boot[j]
      <4>1. CASE p = boot[k]
        BY <4>1, <2>5
      <4>2. CASE p # boot[k]
        <5>1. PICK j \in 1 .. k - 1 : p = boot[j]
          BY <3>1, <4>2, <2>8, <2>11
        <5>2. j \in 1 .. k
          BY <2>5
        <5> QED BY <5>1, <5>2
      <4> QED BY <4>1, <4>2
    <3> QED BY <3>1
  <2>13. CASE r.panic # "none"
    <3>1. StateOK(r, Held(y))
      BY <2>9, <2>13 DEF StateOK
    <3> QED BY <3>1, <2>3, <2>7, <2>11, <2>12, <2>13
  <2>14. CASE r.panic = "none"
    <3>1. Held(y) = Held(x) \cup {c}
      BY <2>9, <2>10, <2>11, <2>14 DEF Held
    <3>2. \A p \in Procs : x[p] # NULL => x[p] # c
      BY <2>9, <2>14 DEF Held
    <3>3. \A p, q \in Procs : y[p] # NULL /\ y[p] = y[q] => p = q
      BY <3>2, <2>8, <2>9, <2>10, <2>11, <2>14
    <3>4. StateOK(r, Held(y))
      BY <3>1, <2>9
    <3> QED BY <3>3, <3>4, <2>3, <2>7, <2>11, <2>12
  <2> QED BY <2>13, <2>14
<1>4. Good(n)
  BY <1>0, <1>3
<1>5. \A p \in Procs : Booted.context[p] # NULL => p \in Boot
  BY <1>0, <1>2, <1>4
<1> QED BY <1>2, <1>4, <1>5

-----------------------------------------------------------------------------
(* The inductive invariant.                                                *)

LEMMA OwnersHeld ==
  Owners = Held(context) \cup lost /\ Held(context) = {context[p] : p \in Alive}
BY DEF Owners, Held, Alive

LEMMA MemoryInitSound ==
  ASSUME MemoryInit
  PROVE  Sound
<1>1. /\ used = Booted.state.used /\ mem = Booted.state.mem /\ panic = Booted.state.panic
      /\ context = Booted.context /\ lost = {} /\ unborn = Procs \ Boot
      /\ sbrk_state = [p \in Procs |-> 0]
  BY DEF MemoryInit
<1>2. /\ StateOK(Booted.state, Held(context))
      /\ DOMAIN context = Procs
      /\ \A p \in Procs : context[p] # NULL => p \in Boot
      /\ panic = "none" =>
           \A p, q \in Procs : context[p] # NULL /\ context[p] = context[q] => p = q
  BY <1>1, BootedOK
<1>3. StateOK(Now, Owners)
  <2>1. Owners = Held(context)
    BY <1>1, OwnersHeld
  <2> DEFINE s == Booted.state
  <2>2. StateOK(s, Held(context)) /\ used = s.used /\ mem = s.mem /\ panic = s.panic
    BY <1>1, <1>2
  <2> HIDE DEF s
  <2>3. /\ Now.used = s.used /\ Now.mem = s.mem /\ Now.panic = s.panic
        /\ Now \in States
    BY <2>2, StateFields DEF Now, StateOK, States
  <2> QED BY <2>1, <2>2, <2>3 DEF StateOK
<1>4. Alive \subseteq Boot
  BY <1>2 DEF Alive
<1>5. Boot \cap unborn = {} /\ sbrk_state \in [Procs -> Nat]
  BY <1>1
<1>6. panic = "none" => ContextsApart
  BY <1>1, <1>2, <1>4 DEF ContextsApart, Alive
<1>7. HeapEnds
  BY <1>4 DEF HeapEnds
<1> QED BY <1>2, <1>3, <1>5, <1>6, <1>7 DEF Sound

LEMMA BecomeOK ==
  ASSUME NEW s, NEW C, StateOK(s, C), Become(s)
  PROVE  StateOK(Now', C) /\ mem' = s.mem /\ panic' = s.panic
<1>1. used' = s.used /\ mem' = s.mem /\ panic' = s.panic /\ s \in States
  BY DEF Become, StateOK
<1>2. Now' = [used |-> used', mem |-> mem', panic |-> panic']
  BY DEF Now
<1>3. Now' \in States /\ (Now').used = s.used /\ (Now').mem = s.mem /\ (Now').panic = s.panic
  BY <1>1, <1>2, StateFields DEF States
<1> QED BY <1>1, <1>3 DEF StateOK

(* What a step does to the user's part of the address spaces that are      *)
(* there.                                                                  *)
Grows(p) == \E size \in SbrkSizes : SyscallSbrk(p, size)

Stable ==
  panic' = "none" =>
    \A p \in Alive : context'[p] = context[p] /\ (p \in wrapped' => ~Grows(p)) =>
      \A v \in VirtPages :
        v \div Entries \in UserSlots /\ Trans(mem, context[p], v) # 0 =>
          Trans(mem', context[p], v) = Trans(mem, context[p], v)

LEMMA LaunchDamagedInv ==
  ASSUME Sound, SyscallLaunchDamaged
  PROVE  Sound' /\ Stable
<1> DEFINE s == CreateUsermodeContext(Now, kernel_context)
           c == AllocPool(Now)
<1>1. /\ panic = "none" /\ Become(s)
      /\ lost' = IF s.panic = "none" THEN lost \cup {c} ELSE lost
      /\ context' = context /\ sbrk_state' = sbrk_state /\ unborn' = unborn
      /\ wrapped' = wrapped
  BY Zenon DEF SyscallLaunchDamaged, Running
<1>2. StateOK(Now, Owners) /\ Now.mem = mem
  BY DEF Sound, Now
<1>3. /\ StateOK(s, Owners \cup {c})
      /\ s.panic = "none" =>
           /\ c # NULL /\ c \notin All(Owners)
           /\ \A e \in All(Owners) : \A v \in VirtPages : Trans(s.mem, e, v) = Trans(mem, e, v)
  BY <1>2, UsermodeContextOK, Zenon
<1> HIDE DEF s, c
<1>4. Alive' = Alive
  BY <1>1 DEF Alive
<1>5. Owners' = {context[p] : p \in Alive} \cup lost'
  BY <1>1, <1>4 DEF Owners
<1>6. \A C : StateOK(s, C) => StateOK(Now', C) /\ mem' = s.mem /\ panic' = s.panic
  BY <1>1, BecomeOK
<1>7. mem' = s.mem /\ panic' = s.panic
  BY <1>3, <1>6
<1>8. StateOK(Now', Owners')
  <2>1. CASE s.panic = "none"
    <3>1. Owners' = Owners \cup {c}
      BY <2>1, <1>1, <1>5 DEF Owners
    <3> QED BY <3>1, <1>3, <1>6
  <2>2. CASE s.panic # "none"
    <3>1. StateOK(s, Owners')
      BY <2>2, <1>3 DEF StateOK
    <3> QED BY <3>1, <1>6
  <2> QED BY <2>1, <2>2
<1>9. ASSUME s.panic = "none"
      PROVE  \A p \in Alive : /\ context[p] # c
                              /\ \A v \in VirtPages : Trans(mem', context[p], v) = Trans(mem, context[p], v)
  <2>1. \A p \in Alive : context[p] \in Owners /\ context[p] \in All(Owners)
    BY DEF Owners, All
  <2> QED BY <2>1, <1>3, <1>7, <1>9
<1>10. ASSUME s.panic = "none" PROVE ContextsApart' /\ HeapEnds'
  <2>1. ContextsApart /\ HeapEnds
    BY <1>1 DEF Sound
  <2>2. ContextsApart'
    BY <2>1, <1>1, <1>4, <1>9, <1>10 DEF ContextsApart
  <2>3. HeapEnds'
    BY <2>1, <1>1, <1>4, <1>9, <1>10 DEF HeapEnds
  <2> QED BY <2>2, <2>3
<1>11. Sound'
  BY <1>1, <1>7, <1>8, <1>10 DEF Sound
<1>12. Stable
  BY <1>7, <1>9 DEF Stable
<1> QED BY <1>11, <1>12

(* The user heap begins before the last page. *)
LEMMA HeapFits ==
  /\ UserPool * PageUnits \in Nat /\ VirtualUnits \in Nat /\ PageUnits <= VirtualUnits
  /\ UserPool * PageUnits + 0 <= VirtualUnits - PageUnits
<1>1. UserPool \in Nat /\ VirtualPages \in Nat /\ PageUnits \in Nat \ {0} /\ UserPool < VirtualPages
  BY MemoryAssumption DEF VirtualPages
<1>2. VirtualUnits = VirtualPages * PageUnits
  BY DEF VirtualUnits
<1> DEFINE x == UserPool * PageUnits
           y == (UserPool + 1) * PageUnits
           z == VirtualPages * PageUnits
<1>3. x \in Nat /\ z \in Nat /\ y = x + PageUnits /\ y <= z
  BY <1>1
<1> HIDE DEF x, y, z
<1>4. x + 0 <= z - PageUnits /\ PageUnits <= z
  BY <1>1, <1>3
<1> QED BY <1>2, <1>3, <1>4 DEF x, z

LEMMA LaunchElfInv ==
  ASSUME Sound, NEW p \in Procs, NEW image \in Images, SyscallLaunchElf(p, image)
  PROVE  Sound' /\ Stable
<1> DEFINE c == AllocPool(Now)
           t == CreateUsermodeContext(Now, kernel_context)
           s == ParseElf(t, c, image)
<1>1. /\ panic = "none" /\ p \in unborn /\ Become(s) /\ lost' = lost /\ wrapped' = wrapped
      /\ \/ /\ s.panic = "none" /\ unborn' = unborn \ {p}
            /\ context' = [context EXCEPT ![p] = c]
            /\ sbrk_state' = [sbrk_state EXCEPT ![p] = 0]
         \/ /\ s.panic # "none"
            /\ unborn' = unborn /\ context' = context /\ sbrk_state' = sbrk_state
  BY Zenon DEF SyscallLaunchElf, Running
<1>2. StateOK(Now, Owners) /\ Now.mem = mem
  BY DEF Sound, Now
<1>3. /\ StateOK(t, Owners \cup {c})
      /\ t.panic = "none" =>
           /\ c # NULL /\ c \notin All(Owners)
           /\ \A e \in All(Owners) : \A v \in VirtPages : Trans(t.mem, e, v) = Trans(mem, e, v)
           /\ \A v \in VirtPages : v \div Entries \in UserSlots => Trans(t.mem, c, v) = 0
  BY <1>2, UsermodeContextOK, Zenon
<1> HIDE DEF t, c
<1>4. /\ StateOK(s, Owners \cup {c})
      /\ s.panic = "none" =>
           t.panic = "none" /\ OnlyMapped(t.mem, s.mem, Owners \cup {c}, c, 0, UserPool)
  <2>1. t.panic = "none" => c \in Owners \cup {c}
    BY Zenon
  <2> QED BY <2>1, <1>3, ParseElfOK, Zenon
<1> HIDE DEF s
<1>5. mem' = s.mem /\ panic' = s.panic /\ StateOK(Now', Owners \cup {c})
  BY <1>1, <1>4, BecomeOK
<1>6. CASE s.panic # "none"
  <2>1. StateOK(Now', Owners')
    BY <1>5, <1>6 DEF StateOK, Now
  <2>2. context' = context /\ sbrk_state' = sbrk_state /\ unborn' = unborn
    BY <1>1, <1>6
  <2>3. Sound'
    BY <2>1, <2>2, <1>5, <1>6 DEF Sound
  <2> QED BY <2>3, <1>5, <1>6 DEF Stable
<1>7. CASE s.panic = "none"
  <2>1. /\ unborn' = unborn \ {p} /\ context' = [context EXCEPT ![p] = c]
        /\ sbrk_state' = [sbrk_state EXCEPT ![p] = 0]
    BY <1>1, <1>7
  <2>2. ContextsApart /\ HeapEnds /\ DOMAIN context = Procs /\ sbrk_state \in [Procs -> Nat]
    BY <1>1 DEF Sound
  <2>3. p \notin Alive /\ c # NULL /\ c \notin All(Owners) /\ c \notin Owners
    BY <2>2, <1>1, <1>3, <1>4, <1>7 DEF ContextsApart, All
  <2>4. DOMAIN context' = Procs /\ \A q \in Procs : context'[q] = IF q = p THEN c ELSE context[q]
    BY <2>1, <2>2
  <2>5. Alive' = Alive \cup {p}
    BY <2>3, <2>4 DEF Alive
  <2>6. \A q \in Alive : q \in Procs /\ q # p /\ context'[q] = context[q] /\ context[q] \in Owners
    BY <2>3, <2>4 DEF Alive, Owners
  <2>7. Owners' = Owners \cup {c}
    <3>1. Owners' = {context'[q] : q \in Alive'} \cup lost
      BY <1>1 DEF Owners
    <3>2. {context'[q] : q \in Alive'} = {context[q] : q \in Alive} \cup {c}
      BY <2>4, <2>5, <2>6
    <3> QED BY <3>1, <3>2 DEF Owners
  <2>8. ASSUME NEW q \in Alive, NEW v \in VirtPages
        PROVE  Trans(mem', context[q], v) = Trans(mem, context[q], v)
    <3>1. context[q] \in All(Owners) /\ context[q] \in All(Owners \cup {c}) /\ context[q] # c
      BY <2>3, <2>6 DEF All
    <3>2. Trans(s.mem, context[q], v) = Trans(t.mem, context[q], v)
      BY <3>1, <1>4, <1>7 DEF OnlyMapped
    <3>3. Trans(t.mem, context[q], v) = Trans(mem, context[q], v)
      BY <3>1, <1>3, <1>4, <1>7
    <3> QED BY <3>2, <3>3, <1>5
  <2>9. ASSUME NEW v \in VirtPages, v >= UserPool PROVE Trans(mem', c, v) = 0
    <3>1. UserPool \in Nat /\ UserPool \div Entries \in UserSlots /\ v \in Nat
      BY MemoryAssumption, LayoutAssumption, PageParts
    <3>2. v \div Entries \in UserSlots
      BY <3>1, <2>9, UserPart
    <3>3. Trans(t.mem, c, v) = 0
      BY <3>2, <1>3, <1>4, <1>7
    <3>4. c \in All(Owners \cup {c}) /\ ~(c = c /\ 0 <= v /\ v < 0 + UserPool)
      BY <3>1, <2>9 DEF All
    <3>5. Trans(s.mem, c, v) = Trans(t.mem, c, v)
      BY <3>4, <1>4, <1>7 DEF OnlyMapped
    <3> QED BY <3>3, <3>5, <1>5
  <2>10. ContextsApart'
    <3>1. \A q, r \in Alive' : context'[q] = context'[r] => q = r
      BY <2>2, <2>3, <2>4, <2>5, <2>6 DEF ContextsApart
    <3>2. \A q \in Alive' : context'[q] \notin lost'
      <4>1. c \notin lost
        BY <2>3 DEF Owners
      <4> QED BY <4>1, <2>2, <2>4, <2>5, <2>6, <1>1 DEF ContextsApart
    <3>3. Alive' \cap unborn' = {}
      BY <2>1, <2>2, <2>5 DEF ContextsApart
    <3> QED BY <3>1, <3>2, <3>3 DEF ContextsApart
  <2>11. sbrk_state' \in [Procs -> Nat] /\ sbrk_state'[p] = 0
         /\ \A q \in Alive : sbrk_state'[q] = sbrk_state[q]
    BY <2>1, <2>2, <2>6
  <2>12. HeapEnds'
    <3>1. ASSUME NEW q \in ((Alive \ Boot) \ wrapped)'
          PROVE  /\ UserPool * PageUnits + sbrk_state'[q] <= VirtualUnits - PageUnits
                 /\ \A v \in VirtPages : v >= UserPool + PagesOf(sbrk_state'[q]) =>
                      Trans(mem', context'[q], v) = 0
      <4>1. CASE q = p
        <5>1. PagesOf(0) = 0 /\ UserPool \in Nat
          BY MemoryAssumption DEF PagesOf
        <5>2. UserPool * PageUnits + 0 <= VirtualUnits - PageUnits
          BY HeapFits
        <5> QED BY <4>1, <5>1, <5>2, <2>4, <2>9, <2>11
      <4>2. CASE q # p
        <5>1. q \in (Alive \ Boot) \ wrapped
          BY <4>2, <3>1, <2>5, <1>1
        <5> QED BY <5>1, <2>2, <2>6, <2>8, <2>11 DEF HeapEnds
      <4> QED BY <4>1, <4>2
    <3> QED BY <3>1 DEF HeapEnds
  <2>13. Sound'
    <3>1. StateOK(Now', Owners')
      BY <2>7, <1>5
    <3>2. (Boot \cap unborn)' = {}
      BY <2>1 DEF Sound
    <3> QED BY <3>1, <3>2, <2>4, <2>10, <2>11, <2>12 DEF Sound
  <2> QED BY <2>8, <2>13 DEF Stable
<1> QED BY <1>6, <1>7

LEMMA DivUnique ==
  ASSUME NEW P \in Nat \ {0}, NEW a \in Nat, NEW b \in Nat,
         NEW k \in 0 .. P - 1, NEW l \in 0 .. P - 1, P * a + l = P * b + k
  PROVE  a = b
<1>1. ASSUME NEW x \in Nat, NEW y \in Nat, NEW i \in 0 .. P - 1, NEW j \in 0 .. P - 1,
             P * x + i = P * y + j
      PROVE  ~(x < y)
  <2>1. SUFFICES ASSUME x + 1 <= y PROVE FALSE
    OBVIOUS
  <2> DEFINE X == P * x
             Y == P * y
             Z == P * (x + 1)
  <2>2. X \in Nat /\ Y \in Nat /\ Z <= Y /\ Z = X + P
    BY <2>1
  <2>3. X + i = Y + j
    BY <1>1
  <2> HIDE DEF X, Y, Z
  <2> QED BY <2>2, <2>3
<1>2. ~(a < b) /\ ~(b < a)
  BY <1>1
<1> QED BY <1>2

LEMMA DivOfMultiple ==
  ASSUME NEW q \in Nat, NEW x \in Nat
  PROVE  (PageUnits * q + x) \div PageUnits = q + (x \div PageUnits)
<1> DEFINE P == PageUnits
           w == P * q + x
           a == q + (x \div P)
<1>1. P \in Nat \ {0}
  BY MemoryAssumption
<1> HIDE DEF P
<1>2. w \in Nat
  BY <1>1
<1>3. /\ x = P * (x \div P) + (x % P) /\ x % P \in 0 .. P - 1 /\ x \div P \in Nat
      /\ w = P * (w \div P) + (w % P) /\ w % P \in 0 .. P - 1 /\ w \div P \in Nat
  <2> HIDE DEF w
  <2> QED BY <1>1, <1>2
<1>4. P * a + (x % P) = P * (w \div P) + (w % P) /\ a \in Nat
  <2> DEFINE e == x \div P
             l == x % P
  <2>1. e \in Nat /\ l \in 0 .. P - 1 /\ x = P * e + l
    BY <1>3
  <2> HIDE DEF e, l
  <2>2. P * (q + e) = P * q + P * e
    BY <2>1, <1>1
  <2>3. P * (q + e) + l = P * q + (P * e + l)
    BY <2>1, <2>2, <1>1
  <2> QED BY <2>1, <2>3, <1>3 DEF e, l
<1>5. a = w \div P
  <2> HIDE DEF w, a
  <2> QED BY <1>1, <1>3, <1>4, DivUnique, Zenon
<1> QED BY <1>5 DEF P

LEMMA SbrkPages ==
  ASSUME NEW a \in Nat, a % PageUnits = 0, NEW size \in Nat \ {0}
  PROVE  /\ a \div PageUnits \in Nat /\ PagesOf(size) \in Nat \ {0}
         /\ PagesOf(a) = a \div PageUnits
         /\ PagesOf(a + size) = (a \div PageUnits) + PagesOf(size)
<1> DEFINE P == PageUnits
           q == a \div P
           x == size + P - 1
<1>1. P \in Nat \ {0}
  BY MemoryAssumption
<1>2. q \in Nat /\ a = P * q
  BY <1>1
<1> HIDE DEF q
<1>3. x \in Nat /\ P - 1 \in Nat /\ x >= P
  BY <1>1
<1>4. (P * q + (P - 1)) \div P = q + ((P - 1) \div P)
  BY <1>2, <1>3, DivOfMultiple
<1>5. (P * q + x) \div P = q + (x \div P)
  <2> HIDE DEF x
  <2> QED BY <1>2, <1>3, DivOfMultiple
<1>6. (P - 1) \div P = 0
  BY <1>1
<1>7. x \div P \in Nat \ {0}
  <2> HIDE DEF x, P
  <2> QED BY <1>1, <1>3
<1>8. a + P - 1 = P * q + (P - 1) /\ (a + size) + P - 1 = P * q + x
  <2> DEFINE y == P * q
  <2>1. y \in Nat /\ a = y
    BY <1>1, <1>2
  <2> HIDE DEF y
  <2>2. a + P - 1 = y + (P - 1) /\ (a + size) + P - 1 = y + x
    BY <2>1, <1>1
  <2> QED BY <2>2 DEF y
<1>9. PagesOf(a) = (a + P - 1) \div P /\ PagesOf(size) = x \div P
      /\ PagesOf(a + size) = ((a + size) + P - 1) \div P
  BY DEF PagesOf
<1>10. PagesOf(a) = q /\ PagesOf(a + size) = q + PagesOf(size)
  BY <1>2, <1>4, <1>5, <1>6, <1>8, <1>9
<1>11. PagesOf(size) \in Nat \ {0}
  BY <1>7, <1>9
<1> QED BY <1>2, <1>10, <1>11 DEF q

(* While the kernel's pages are mapped to themselves, all its page tables  *)
(* are there.                                                              *)
LEMMA KernelComplete ==
  ASSUME KernelMapKept
  PROVE  Complete(mem)
<1> DEFINE h == HEAP_END \div Entries
<1>1. Entries \in Nat /\ HEAP_END \in Nat /\ HEAP_END >= 1 /\ h \in Nat /\ h + 1 <= Entries - 1
      /\ Entries * h <= HEAP_END
  <2>1. Entries \in Nat \ {0} /\ HEAP_END \in Nat /\ HEAP_END >= 1
    BY MemoryAssumption
  <2>2. h \in Nat /\ HEAP_END = Entries * h + (HEAP_END % Entries) /\ HEAP_END % Entries \in Nat
    BY <2>1
  <2>3. h + 1 <= Entries - 1
    BY <2>1, <2>2, LayoutAssumption DEF UserSlots
  <2> DEFINE y == Entries * h
             z == HEAP_END % Entries
  <2>4. y \in Int /\ z \in Nat /\ HEAP_END = y + z
    BY <2>1, <2>2
  <2> HIDE DEF y, z
  <2>5. y <= HEAP_END
    BY <2>1, <2>4
  <2> QED BY <2>1, <2>2, <2>3, <2>5 DEF y
<1> HIDE DEF h
<1>2. ASSUME NEW i \in KernelSlots
      PROVE  \E v \in VirtPages : v \div Entries = i /\ v <= HEAP_END /\ v # 0
  <2>1. i \in Nat /\ i <= h
    BY <1>1 DEF KernelSlots, h
  <2>2. CASE i = 0
    <3>1. 1 \div Entries = 0
      BY <1>1
    <3>2. 1 \in VirtPages
      <4> DEFINE y == Entries * Entries
      <4>1. y >= 2
        BY <1>1
      <4>2. y \in Nat
        BY <1>1
      <4> HIDE DEF y
      <4>3. 1 \in 0 .. y - 1
        BY <4>1, <4>2
      <4> QED BY <4>3 DEF VirtPages, y
    <3> QED BY <2>2, <3>1, <3>2, <1>1
  <2>3. CASE i # 0
    <3> DEFINE v == Entries * i
               y == Entries * (i + 1)
               z == Entries * Entries
               x == Entries * h
    <3>1. v \in Nat /\ v # 0 /\ y = v + Entries /\ y <= z /\ z \in Nat /\ v <= x /\ x \in Nat
      BY <2>1, <2>3, <1>1
    <3>2. v \div Entries = i
      BY <2>1, <1>1
    <3>3. x <= HEAP_END
      BY <1>1
    <3> HIDE DEF v, x, y, z
    <3>4. v \in 0 .. z - 1 /\ v <= HEAP_END
      BY <3>1, <3>3, <1>1
    <3> QED BY <3>1, <3>2, <3>4 DEF VirtPages, z
  <2> QED BY <2>2, <2>3
<1>3. ASSUME NEW v \in VirtPages, v \div Entries \in KernelSlots
      PROVE  Trans(mem, kernel_context, v) = IF v <= HEAP_END THEN v ELSE 0
  BY <1>3, InVirtPages DEF KernelMapKept, Translate, Trans
<1> QED BY <1>2, <1>3 DEF Complete

LEMMA RoundsNat ==
  ASSUME NEW a \in Nat, NEW end \in Nat
  PROVE  Rounds(a, end) \in Nat
<1>1. PageUnits \in Nat \ {0} /\ NumPages \in Nat
  BY MemoryAssumption
<1>2. ASSUME end > a PROVE (end - a + PageUnits - 1) \div PageUnits \in Nat
  <2> DEFINE x == end - a + PageUnits - 1
  <2>1. x \in Nat
    BY <1>1, <1>2
  <2> HIDE DEF x
  <2>2. x \div PageUnits \in Nat
    BY <1>1, <2>1
  <2> QED BY <2>2 DEF x
<1> DEFINE y == (end - a + PageUnits - 1) \div PageUnits
           z == VirtualUnits - PageUnits
<1>3. Rounds(a, end) = IF end <= a THEN 0 ELSE IF end > z THEN NumPages ELSE y
  BY Zenon DEF Rounds
<1> HIDE DEF y, z
<1> QED BY <1>1, <1>2, <1>3 DEF y

(* An sbrk that ends before the last page of the address space. *)
LEMMA SbrkFits ==
  ASSUME NEW st \in Nat, NEW size \in Nat \ {0},
         UserPool * PageUnits + st <= VirtualUnits - PageUnits,
         ((UserPool * PageUnits + st) % VirtualUnits) + size <= VirtualUnits - PageUnits
  PROVE  LET a == (UserPool * PageUnits + st) % VirtualUnits
         IN  /\ Rounds(a, (a + size) % VirtualUnits) = PagesOf(size)
             /\ PagesOf(size) \in Nat \ {0}
             /\ NextBreak(st, size) = st + size
             /\ UserPool * PageUnits + (st + size) <= VirtualUnits - PageUnits
             /\ a % PageUnits = 0 =>
                  /\ st % PageUnits = 0
                  /\ a \div PageUnits = UserPool + (st \div PageUnits)
                  /\ UserPool + PagesOf(st + size) <= Entries * Entries
<1> DEFINE b == UserPool * PageUnits
           V == VirtualUnits
           P == PageUnits
           a == (b + st) % V
<1>1. b \in Nat /\ V \in Nat /\ P \in Nat \ {0} /\ P <= V /\ UserPool \in Nat
  BY HeapFits, MemoryAssumption
<1>2. b + st <= V - P /\ a + size <= V - P
  OBVIOUS
<1> HIDE DEF b, V, P
<1>3. a = b + st
  BY <1>1, <1>2
<1> HIDE DEF a
<1>4. a \in Nat /\ b + (st + size) <= V - P
  BY <1>1, <1>2, <1>3
<1>5. (a + size) % V = a + size /\ (st + size) % V = st + size
  BY <1>1, <1>2, <1>4
<1>6. Rounds(a, a + size) = PagesOf(size)
  <2>1. ~(a + size <= a) /\ ~(a + size > V - P) /\ (a + size) - a = size
    BY <1>1, <1>2, <1>4
  <2>2. Rounds(a, a + size) = ((a + size) - a + P - 1) \div P
    BY <2>1 DEF Rounds, V, P
  <2> QED BY <2>1, <2>2 DEF PagesOf, P
<1>7. NextBreak(st, size) = st + size
  BY <1>5 DEF NextBreak, V
<1>8. PagesOf(size) \in Nat \ {0}
  <2>1. 0 % PageUnits = 0
    BY MemoryAssumption
  <2> QED BY <2>1, SbrkPages
<1>9. ASSUME a % P = 0
      PROVE  /\ st % P = 0
             /\ a \div P = UserPool + (st \div P)
             /\ UserPool + PagesOf(st + size) <= Entries * Entries
  <2> DEFINE q == st \div P
             l == st % P
             x == P * q
             y == P * UserPool
             w == P * (UserPool + q)
  <2>1. q \in Nat /\ l \in 0 .. P - 1 /\ st = x + l /\ x \in Nat /\ y \in Nat
    BY <1>1
  <2>2. y = b
    BY <1>1 DEF b, P
  <2>3. a \div P = UserPool + q
    <3>1. (PageUnits * UserPool + st) \div PageUnits = UserPool + (st \div PageUnits)
      BY <1>1, DivOfMultiple
    <3> QED BY <3>1, <2>2, <1>3 DEF P
  <2>4. w = y + x
    BY <2>1, <1>1
  <2>5. a = P * (a \div P)
    BY <1>1, <1>4, <1>9
  <2>6. a = w
    BY <2>3, <2>5
  <2>7. l = 0
    <3> HIDE DEF q, l, x, y, w
    <3> QED BY <2>1, <2>2, <2>4, <2>6, <1>1, <1>3
  <2>8. UserPool + PagesOf(st + size) <= Entries * Entries
    <3> DEFINE N == VirtualPages
               z == PagesOf(st + size)
               e == st + size + P - 1
               k == e % P
    <3>1. N \in Nat /\ N = Entries * Entries /\ V = P * N
      <4>1. VirtualPages \in Nat /\ PageUnits \in Nat
        BY InVirtPages, MemoryAssumption
      <4>2. VirtualPages * PageUnits = PageUnits * VirtualPages
        BY <4>1
      <4>3. V = VirtualPages * PageUnits
        BY DEF V, VirtualUnits
      <4>4. N = Entries * Entries
        BY DEF VirtualPages
      <4> QED BY <4>1, <4>2, <4>3, <4>4 DEF P
    <3>2. e \in Nat
      BY <1>1
    <3>3. z = e \div P
      BY DEF PagesOf, P
    <3> HIDE DEF e
    <3>4. z \in Nat /\ k \in 0 .. P - 1 /\ e = P * z + k
      BY <3>2, <3>3, <1>1
    <3> HIDE DEF z, k, N
    <3> SUFFICES ASSUME N + 1 <= UserPool + z PROVE FALSE
      BY <3>1, <3>4, <1>1 DEF z
    <3> DEFINE A == P * (N + 1)
               B == P * (UserPool + z)
               D == P * N
               Y == P * z
    <3>5. A <= B /\ A = D + P /\ B = y + Y /\ D \in Nat /\ Y \in Nat
      BY <3>1, <3>4, <1>1
    <3>6. e = Y + k /\ V = D
      BY <3>1, <3>4
    <3> HIDE DEF A, B, D, Y, q, l, x, y, w
    <3>7. e = st + size + P - 1
      BY DEF e
    <3> QED BY <3>4, <3>5, <3>6, <3>7, <2>2, <1>1, <1>4
  <2> QED BY <2>3, <2>7, <2>8
<1> QED BY <1>4, <1>5, <1>6, <1>7, <1>8, <1>9 DEF a, b, V, P

LEMMA BehindHeap ==
  ASSUME NEW st \in Nat, NEW v \in VirtPages, v >= UserPool + PagesOf(st)
  PROVE  v \div Entries \in UserSlots
<1>1. PagesOf(st) \in Nat
  <2> DEFINE x == st + PageUnits - 1
  <2>1. x \in Nat /\ PageUnits \in Nat \ {0}
    BY MemoryAssumption
  <2> HIDE DEF x
  <2>2. x \div PageUnits \in Nat
    BY <2>1
  <2> QED BY <2>2 DEF PagesOf, x
<1>2. UserPool \in Nat /\ UserPool \div Entries \in UserSlots /\ v \in Nat
  BY MemoryAssumption, LayoutAssumption, PageParts
<1>3. UserPool <= v
  BY <1>1, <1>2
<1> QED BY <1>2, <1>3, UserPart

LEMMA SbrkInv ==
  ASSUME Sound, NEW p \in Procs, NEW size \in SbrkSizes, SyscallSbrk(p, size)
  PROVE  Sound' /\ Stable
<1> DEFINE st == sbrk_state[p]
           a == (UserPool * PageUnits + st) % VirtualUnits
           n == Rounds(a, (a + size) % VirtualUnits)
           c == context[p]
           f == pmm_alloc_start(used, HEAP_END)
           r == vmm_alloc(Now, c, a \div PageUnits, n)
           s == IF n = 0 THEN Now
                ELSE IF a % PageUnits = 0 THEN r
                ELSE IF f = NULL THEN Fail(Now, "frames")
                ELSE [used |-> used \cup {f}, mem |-> mem, panic |-> "alignment"]
<1>1. /\ Running /\ p \in Alive \ Boot /\ Become(s)
      /\ sbrk_state' = IF s.panic = "none"
                       THEN [sbrk_state EXCEPT ![p] = NextBreak(sbrk_state[p], size)] ELSE sbrk_state
      /\ wrapped' = IF a + size > VirtualUnits - PageUnits THEN wrapped \cup {p} ELSE wrapped
      /\ context' = context /\ unborn' = unborn /\ lost' = lost
  BY Zenon DEF SyscallSbrk
<1>2. /\ StateOK(Now, Owners) /\ Now.mem = mem /\ Now.used = used /\ Now.panic = panic
      /\ panic = "none" /\ ContextsApart /\ HeapEnds
      /\ sbrk_state \in [Procs -> Nat] /\ size \in Nat \ {0} /\ st \in Nat
  BY <1>1, MemoryAssumption DEF Sound, Now, Running
<1>3. Alive' = Alive /\ Owners' = Owners /\ c \in Owners /\ p \in Alive
  BY <1>1 DEF Alive, Owners
<1>4. Complete(mem)
  BY <1>1, KernelComplete DEF Running
<1>5. a \in Nat /\ n \in Nat /\ a \div PageUnits \in Nat
  <2>1. VirtualUnits \in Nat \ {0} /\ UserPool * PageUnits \in Nat /\ PageUnits \in Nat \ {0}
    BY HeapFits, MemoryAssumption
  <2> DEFINE b == UserPool * PageUnits
  <2>2. a \in Nat
    <3> HIDE DEF b
    <3>1. (b + st) % VirtualUnits \in Nat
      BY <2>1, <1>2 DEF b
    <3> QED BY <3>1 DEF b
  <2> HIDE DEF a
  <2>3. (a + size) % VirtualUnits \in Nat
    BY <2>1, <2>2, <1>2
  <2>4. a \div PageUnits \in Nat
    BY <2>1, <2>2
  <2>5. n \in Nat
    <3> DEFINE e == (a + size) % VirtualUnits
    <3>1. e \in Nat
      BY <2>3
    <3> HIDE DEF e
    <3>2. Rounds(a, e) \in Nat
      BY <3>1, <2>2, RoundsNat
    <3> QED BY <3>2 DEF e
  <2> QED BY <2>2, <2>4, <2>5
<1>6. sbrk_state' \in [Procs -> Nat] /\ \A x \in Procs : x # p => sbrk_state'[x] = sbrk_state[x]
  <2>1. NextBreak(sbrk_state[p], size) \in Nat
    <3>1. VirtualUnits \in Nat \ {0}
      BY HeapFits, MemoryAssumption
    <3> QED BY <3>1, <1>2 DEF NextBreak
  <2> HIDE DEF s
  <2> QED BY <2>1, <1>1, <1>2
<1>7. CASE n # 0 /\ a % PageUnits # 0
  <2>1. StateOK(s, Owners) /\ s.panic # "none"
    <3>1. CASE f = NULL
      <4>1. s = Fail(Now, "frames")
        BY <1>7, <3>1, Zenon
      <4>2. /\ Fail(Now, "frames") \in States /\ Fail(Now, "frames").used = used
            /\ Fail(Now, "frames").panic # "none" /\ InitPmm \subseteq used
        BY <1>2, FailFacts DEF StateOK
      <4> HIDE DEF s
      <4> QED BY <4>1, <4>2 DEF StateOK
    <3>2. CASE f # NULL
      <4>1. s = [used |-> used \cup {f}, mem |-> mem, panic |-> "alignment"]
        BY <1>7, <3>2, Zenon
      <4>2. f \in Nat /\ used \in SUBSET Nat /\ mem \in Contents /\ InitPmm \subseteq used
        <5>1. f \in Nat
          BY <3>2, FrameIsFree, MemoryAssumption
        <5> QED BY <5>1, <1>2, StateFields DEF StateOK
      <4> HIDE DEF s, f
      <4>3. s \in States /\ s.used = used \cup {f} /\ s.panic = "alignment"
        BY <4>1, <4>2 DEF States, Panics
      <4> QED BY <4>2, <4>3 DEF StateOK
    <3> QED BY <3>1, <3>2
  <2> HIDE DEF s
  <2>2. StateOK(Now', Owners') /\ panic' # "none"
    BY <2>1, <1>1, <1>3, BecomeOK
  <2>3. Sound'
    BY <2>2, <1>1, <1>6 DEF Sound
  <2> QED BY <2>2, <2>3 DEF Stable
<1>8. CASE n = 0 \/ a % PageUnits = 0
  <2>1. StateOK(s, Owners) /\ (s.panic = "none" => OthersKept(mem, s.mem, Owners, c))
    <3>1. CASE n = 0
      <4>1. s = Now
        BY <3>1, Zenon
      <4> HIDE DEF s
      <4> QED BY <4>1, <1>2 DEF OthersKept
    <3>2. CASE n # 0
      <4>1. s = r
        BY <3>2, <1>8, Zenon
      <4> DEFINE w == a \div PageUnits
      <4>2. w \in Nat /\ n \in Nat /\ (Now.panic = "none" => c \in Owners /\ Complete(Now.mem))
        BY <1>2, <1>3, <1>4, <1>5
      <4> HIDE DEF w, n, c
      <4>3. /\ StateOK(vmm_alloc(Now, c, w, n), Owners)
            /\ vmm_alloc(Now, c, w, n).panic = "none" =>
                 OthersKept(Now.mem, vmm_alloc(Now, c, w, n).mem, Owners, c)
        BY <4>2, <1>2, VmmAllocAny, Zenon
      <4>4. s = vmm_alloc(Now, c, w, n)
        BY <4>1 DEF w
      <4> HIDE DEF s
      <4> QED BY <4>3, <4>4, <1>2
    <3> QED BY <3>1, <3>2
  <2>2. mem' = s.mem /\ panic' = s.panic /\ StateOK(Now', Owners')
    <3> HIDE DEF s
    <3> QED BY <2>1, <1>1, <1>3, BecomeOK
  <2>3. CASE s.panic # "none"
    <3> HIDE DEF s
    <3>1. Sound'
      BY <2>2, <2>3, <1>1, <1>6 DEF Sound
    <3> QED BY <3>1, <2>2, <2>3 DEF Stable
  <2>4. CASE s.panic = "none"
    (* the other processes *)
    <3>1. ASSUME NEW x \in Alive, x # p, NEW v \in VirtPages, v \div Entries \in UserSlots
          PROVE  Trans(mem', context[x], v) = Trans(mem, context[x], v)
      <4>1. context[x] \in All(Owners) \ {c}
        BY <3>1, <1>2, <1>3 DEF Owners, All, ContextsApart
      <4> HIDE DEF s, c
      <4> QED BY <4>1, <3>1, <2>1, <2>2, <2>4 DEF OthersKept
    (* the process itself, while its heap has not reached the end *)
    <3>2. ASSUME p \notin wrapped'
          PROVE  /\ UserPool * PageUnits + sbrk_state'[p] <= VirtualUnits - PageUnits
                 /\ \A v \in VirtPages : v >= UserPool + PagesOf(sbrk_state'[p]) =>
                      Trans(mem', c, v) = 0
                 /\ \A v \in VirtPages : Trans(mem, c, v) # 0 =>
                      Trans(mem', c, v) = Trans(mem, c, v)
      <4>1. ~(a + size > VirtualUnits - PageUnits) /\ p \notin wrapped
        BY <3>2, <1>1
      <4>2. /\ UserPool * PageUnits + st <= VirtualUnits - PageUnits
            /\ \A v \in VirtPages : v >= UserPool + PagesOf(st) => Trans(mem, c, v) = 0
        BY <4>1, <1>1, <1>2 DEF HeapEnds
      <4>3. a + size <= VirtualUnits - PageUnits
        <5> HIDE DEF a
        <5> QED BY <4>1, <1>2, <1>5, HeapFits, MemoryAssumption
      <4>4. /\ n = PagesOf(size) /\ n \in Nat \ {0}
            /\ NextBreak(st, size) = st + size
            /\ UserPool * PageUnits + (st + size) <= VirtualUnits - PageUnits
            /\ a % PageUnits = 0 =>
                 /\ st % PageUnits = 0
                 /\ a \div PageUnits = UserPool + (st \div PageUnits)
                 /\ UserPool + PagesOf(st + size) <= Entries * Entries
        <5> HIDE DEF st
        <5> QED BY <4>2, <4>3, <1>2, SbrkFits, Zenon
      <4>5. a % PageUnits = 0 /\ s = r
        BY <4>4, <1>8, Zenon
      <4> DEFINE q == st \div PageUnits
                 first == a \div PageUnits
      <4>6. /\ q \in Nat /\ PagesOf(st) = q /\ PagesOf(st + size) = q + n
            /\ first = UserPool + q /\ UserPool \in Nat
        <5>1. st % PageUnits = 0
          BY <4>4, <4>5
        <5> HIDE DEF st
        <5>2. q \in Nat /\ PagesOf(st) = q /\ PagesOf(st + size) = q + PagesOf(size)
          BY <5>1, <1>2, SbrkPages
        <5> QED BY <5>2, <4>4, <4>5, MemoryAssumption DEF st
      <4>7. s = vmm_alloc(Now, c, first, n)
        BY <4>5
      <4> HIDE DEF q, first, n, a, s, r
      <4>8. first \in Nat /\ n \in Nat /\ first + n <= Entries * Entries
        <5> DEFINE N == Entries * Entries
        <5>1. UserPool + (q + n) <= N
          BY <4>4, <4>5, <4>6
        <5> HIDE DEF N
        <5>2. first + n <= N /\ first \in Nat
          BY <5>1, <4>4, <4>6
        <5> QED BY <5>2, <4>4 DEF N
      <4>9. first \div Entries \in UserSlots
        <5>1. first \in VirtPages
          <6> DEFINE N == Entries * Entries
          <6>1. N \in Nat /\ first + n <= N
            BY <4>8, MemoryAssumption
          <6> HIDE DEF N
          <6>2. first \in 0 .. N - 1
            BY <6>1, <4>4, <4>8
          <6> QED BY <6>2 DEF VirtPages, N
        <5>2. UserPool <= first /\ UserPool \div Entries \in UserSlots /\ UserPool \in Nat
          BY <4>6, LayoutAssumption
        <5> QED BY <5>1, <5>2, UserPart
      <4>10. OnlyMapped(mem, s.mem, Owners, c, first, n)
        <5> HIDE DEF c
        <5>1. vmm_alloc(Now, c, first, n).panic = "none" =>
                OnlyMapped(Now.mem, vmm_alloc(Now, c, first, n).mem, Owners, c, first, n)
          BY <4>8, <4>9, <1>2, <1>3, VmmAllocOK, Zenon
        <5> QED BY <5>1, <4>7, <2>4, <1>2
      <4>11. ASSUME NEW v \in VirtPages, ~(first <= v /\ v < first + n)
             PROVE  Trans(mem', c, v) = Trans(mem, c, v)
        <5>1. c \in All(Owners)
          BY <1>3 DEF All
        <5> HIDE DEF c
        <5> QED BY <5>1, <4>10, <4>11, <2>2 DEF OnlyMapped
      <4>12. sbrk_state'[p] = st + size
        BY <4>4, <2>4, <1>1, <1>2
      <4>13. ASSUME NEW v \in VirtPages, v >= UserPool + PagesOf(sbrk_state'[p])
             PROVE  Trans(mem', c, v) = 0
        <5>1. v \in Nat /\ v >= UserPool + (q + n)
          BY <4>6, <4>12, <4>13, PageParts
        <5>2. v >= UserPool + PagesOf(st) /\ ~(v < first + n)
          <6> HIDE DEF st
          <6> QED BY <5>1, <4>4, <4>6
        <5> QED BY <5>2, <4>2, <4>11
      <4>14. ASSUME NEW v \in VirtPages, Trans(mem, c, v) # 0
             PROVE  Trans(mem', c, v) = Trans(mem, c, v)
        <5>1. ~(v >= UserPool + PagesOf(st))
          BY <4>2, <4>14
        <5>2. ~(first <= v)
          <6> HIDE DEF st
          <6> QED BY <5>1, <4>6, PageParts
        <5> QED BY <5>2, <4>11
      <4> QED BY <4>4, <4>12, <4>13, <4>14
    <3> HIDE DEF s, a, n
    <3>3. HeapEnds'
      <4>1. ASSUME NEW x \in ((Alive \ Boot) \ wrapped)'
            PROVE  /\ UserPool * PageUnits + sbrk_state'[x] <= VirtualUnits - PageUnits
                   /\ \A v \in VirtPages : v >= UserPool + PagesOf(sbrk_state'[x]) =>
                        Trans(mem', context'[x], v) = 0
        <5>1. x \in Alive \ Boot /\ x \notin wrapped' /\ x \notin wrapped /\ x \in Procs
          BY <4>1, <1>1, <1>3 DEF Alive
        <5>2. CASE x = p
          BY <5>1, <5>2, <3>2, <1>1
        <5>3. CASE x # p
          <6>1. /\ UserPool * PageUnits + sbrk_state[x] <= VirtualUnits - PageUnits
                /\ \A v \in VirtPages : v >= UserPool + PagesOf(sbrk_state[x]) =>
                     Trans(mem, context[x], v) = 0
            BY <5>1, <1>2 DEF HeapEnds
          <6>2. sbrk_state'[x] = sbrk_state[x] /\ sbrk_state[x] \in Nat
            BY <5>1, <5>3, <1>2, <1>6
          <6>3. ASSUME NEW v \in VirtPages, v >= UserPool + PagesOf(sbrk_state[x])
                PROVE  Trans(mem', context[x], v) = 0
            <7>1. Trans(mem, context[x], v) = 0
              BY <6>1, <6>3
            <7>2. v \div Entries \in UserSlots
              BY <6>2, <6>3, BehindHeap
            <7> QED BY <7>1, <7>2, <5>1, <5>3, <3>1
          <6> QED BY <6>1, <6>2, <6>3, <1>1
        <5> QED BY <5>2, <5>3
      <4> QED BY <4>1 DEF HeapEnds
    <3>4. ContextsApart'
      BY <1>1, <1>2, <1>3 DEF ContextsApart
    <3>5. Sound'
      BY <3>3, <3>4, <2>2, <1>1, <1>6 DEF Sound
    <3>6. ASSUME NEW x \in Alive, x \in wrapped' => ~Grows(x), NEW v \in VirtPages,
                 v \div Entries \in UserSlots, Trans(mem, context[x], v) # 0
          PROVE  Trans(mem', context[x], v) = Trans(mem, context[x], v)
      <4>1. CASE x = p
        <5>1. Grows(p)
          BY DEF Grows
        <5> QED BY <5>1, <4>1, <3>2, <3>6
      <4>2. CASE x # p
        BY <4>2, <3>1, <3>6
      <4> QED BY <4>1, <4>2
    <3>7. Stable
      BY <3>6 DEF Stable
    <3> QED BY <3>5, <3>7
  <2> QED BY <2>3, <2>4
<1> QED BY <1>7, <1>8

(* The pages destroy_context frees in the pool are those of the context,   *)
(* if none of them is a page table of the kernel.                          *)
LEMMA OwnTables ==
  ASSUME NEW u, NEW m, NEW C, PoolInv(u, m, C), NEW c \in C, NEW touched,
         OwnSlots(m, c, kernel_context, touched) \cap KernelSlots = {}
  PROVE  {Table(m, c, i) : i \in OwnSlots(m, c, kernel_context, touched)} \cup {Dir(m, c), c}
           = {n \in PoolPages : InTree(m, c, n)}
<1> DEFINE S == OwnSlots(m, c, kernel_context, touched)
<1>0. c \in All(C) /\ c # kernel_context /\ SlotsOf(c) = UserSlots /\ UserSlots \subseteq Slots
      /\ Shape(m, c) /\ Shared(m, C)
  BY Layout DEF All, PoolInv, SlotsOf
<1>1. /\ \A i \in S : i \in Slots /\ Table(m, c, i) # 0
      /\ \A i \in Slots : Table(m, c, i) # 0 /\ Table(m, c, i) # Table(m, kernel_context, i) => i \in S
  BY DEF OwnSlots, Table
<1> HIDE DEF S
<1>2. \A i : i \in S <=> i \in UserSlots /\ Table(m, c, i) # 0
  <2>1. ASSUME NEW i \in S PROVE i \in UserSlots
    BY <1>1, Layout DEF S
  <2>2. ASSUME NEW i \in UserSlots, Table(m, c, i) # 0 PROVE i \in S
    <3>1. Table(m, kernel_context, i) = 0
      BY <1>0 DEF Shared
    <3> QED BY <3>1, <2>2, <1>0, <1>1
  <2> QED BY <2>1, <2>2, <1>1
<1>3. ASSUME NEW n PROVE InTree(m, c, n) <=> n = c \/ n = Dir(m, c) \/ \E i \in S : n = Table(m, c, i)
  BY <1>0, <1>2 DEF InTree
<1>4. \A n : InTree(m, c, n) => n \in PoolPages
  BY <1>0 DEF InTree, Shape
<1> QED BY <1>3, <1>4 DEF S

(* Whatever the accessed bits are, no reserved page is freed; and if the   *)
(* kernel keeps its page tables, all is in order afterwards.               *)
LEMMA KillInv ==
  ASSUME Sound, NEW p \in Procs, KillProcess(p)
  PROVE  /\ Now' \in States /\ InitPmm \subseteq used'
         /\ KernelTablesKept' => Sound'
         /\ Stable
<1> DEFINE c == context[p]
           Own(touched) == OwnSlots(mem, c, kernel_context, touched)
<1>1. /\ Running /\ p \in Alive
      /\ context' = [context EXCEPT ![p] = NULL]
      /\ sbrk_state' = sbrk_state /\ unborn' = unborn /\ lost' = lost /\ wrapped' = wrapped
  BY DEF KillProcess
<1>2. \E touched, X : X \subseteq Frames /\ Become(destroy_context(Now, c, Own(touched), X))
  <2>1. PICK touched : \E flags, other :
          /\ other \in SUBSET Frames
          /\ Become(destroy_context(Now, c, Own(touched), Garbled(mem, flags) \cup other))
    <3>1. \A b : (IF b THEN Frames ELSE {}) \subseteq Frames
      OBVIOUS
    <3> QED BY <3>1, Zenon DEF KillProcess
  <2>2. PICK flags, other :
          /\ other \in SUBSET Frames
          /\ Become(destroy_context(Now, c, Own(touched), Garbled(mem, flags) \cup other))
    BY <2>1, Zenon
  <2>3. Garbled(mem, flags) \cup other \subseteq Frames
    BY <2>2 DEF Garbled
  <2> QED BY <2>2, <2>3, Zenon
<1>3. PICK touched, X : X \subseteq Frames /\ Become(destroy_context(Now, c, Own(touched), X))
  BY <1>2, Zenon
<1> DEFINE S == Own(touched)
           tables == {Table(mem, c, i) : i \in S}
           tree == {n \in PoolPages : InTree(mem, c, n)}
<1>4. /\ used' = used \ (X \cup tables \cup {Dir(mem, c), c})
      /\ mem' = mem /\ panic' = panic
  <2> DEFINE T(m) == {m[m[c][0]][i] : i \in S}
  <2>1. /\ used' = Now.used \ (X \cup T(Now.mem) \cup {Now.mem[c][0], c})
        /\ mem' = Now.mem /\ panic' = Now.panic
    BY <1>3 DEF Become, destroy_context
  <2>2. Now.used = used /\ Now.mem = mem /\ Now.panic = panic
    BY DEF Now
  <2>3. T(Now.mem) = T(mem)
    BY <2>2
  <2>4. T(mem) = tables /\ mem[c][0] = Dir(mem, c)
    BY DEF Table, Dir
  <2> HIDE DEF T, tables
  <2> QED BY <2>1, <2>2, <2>3, <2>4
<1>5. /\ Now \in States /\ used \in SUBSET Nat /\ mem \in Contents /\ panic \in Panics
      /\ InitPmm \subseteq used /\ PoolInv(used, mem, Owners) /\ panic = "none"
      /\ ContextsApart /\ HeapEnds /\ DOMAIN context = Procs /\ c \in Owners
  <2>1. StateOK(Now, Owners) /\ Now.used = used /\ Now.mem = mem /\ Now.panic = panic
    BY DEF Sound, Now
  <2>2. Now \in States /\ panic = "none"
    BY <2>1, <1>1 DEF StateOK, Running
  <2>3. used \in SUBSET Nat /\ mem \in Contents /\ panic \in Panics
    BY <2>1, <2>2, StateFields
  <2> QED BY <2>1, <2>2, <2>3, <1>1 DEF StateOK, Sound, Owners
<1>6. X \cap PoolPages = {} /\ X \cap InitPmm = {}
  <2>1. \A n \in PoolPages : n < HEAP_END
    BY MemoryAssumption DEF PoolPages
  <2>2. InitPmm \subseteq Nat
    BY MemoryAssumption DEF InitPmm
  <2>3. \A n \in X : n >= HEAP_END /\ n \in Nat
    BY <1>3, MemoryAssumption DEF Frames
  <2> QED BY <2>1, <2>2, <2>3, Layout, MemoryAssumption DEF PoolPages
<1>7. \A i \in S : i \in Slots /\ Table(mem, c, i) # 0
  BY DEF OwnSlots, Table
<1> HIDE DEF S
<1>8. (tables \cup {Dir(mem, c), c}) \cap InitPmm = {}
  <2>1. c \in All(Owners)
    BY <1>5 DEF All
  <2>2. ASSUME NEW i \in S PROVE Table(mem, c, i) \in PoolPages /\ Table(mem, c, i) \notin Modules
    <3> HIDE DEF c
    <3>1. PICK g \in All(Owners) :
             /\ i \in SlotsOf(g) /\ Table(mem, g, i) = Table(mem, c, i)
             /\ (g = c \/ g = kernel_context)
             /\ Table(mem, c, i) \in PoolPages /\ Table(mem, c, i) \in used
             /\ InTree(mem, g, Table(mem, c, i))
             /\ \A h \in All(Owners) : Table(mem, c, i) # h /\ Table(mem, c, i) # Dir(mem, h)
      BY <2>1, <1>5, <1>7, AnyTable
    <3> QED BY <3>1, <1>5 DEF PoolInv
  <2>3. /\ c \in PoolPages /\ c \notin Modules
        /\ Dir(mem, c) \in PoolPages /\ Dir(mem, c) \notin Modules
    <3> HIDE DEF c
    <3>1. Shape(mem, c) /\ InTree(mem, c, c) /\ InTree(mem, c, Dir(mem, c))
      BY <2>1, <1>5 DEF PoolInv, InTree
    <3> QED BY <3>1, <2>1, <1>5 DEF Shape, PoolInv
  <2> HIDE DEF c
  <2> QED BY <2>2, <2>3, Layout
<1>9. Now' \in States /\ InitPmm \subseteq used'
  <2>1. used' \in SUBSET Nat /\ InitPmm \subseteq used'
    BY <1>4, <1>5, <1>6, <1>8
  <2>2. Now' = [used |-> used', mem |-> mem', panic |-> panic']
    BY DEF Now
  <2> QED BY <2>1, <2>2, <1>4, <1>5 DEF States
<1>10. ASSUME KernelTablesKept' PROVE Sound'
  <2>1. S \cap KernelSlots = {}
    <3>1. SUFFICES ASSUME NEW i \in S, i \in KernelSlots PROVE FALSE
      OBVIOUS
    <3>2. Table(mem, c, i) = Table(mem, kernel_context, i) /\ i \in Slots /\ Table(mem, c, i) # 0
      BY <3>1, <1>5, <1>7 DEF PoolInv, Shared
    <3>3. Table(mem, c, i) \in Reachable(kernel_context)
      BY <3>2 DEF Reachable, Table
    <3>4. Reachable(kernel_context) \subseteq used'
      BY <1>4, <1>10 DEF KernelTablesKept, KernelPages, Reachable
    <3> QED BY <3>1, <3>3, <3>4, <1>4
  <2>2. tables \cup {Dir(mem, c), c} = tree
    <3> HIDE DEF c
    <3> QED BY <2>1, <1>5, OwnTables DEF S
  <2>3. used' = used \ (X \cup tree)
    <3> HIDE DEF tree, tables
    <3> QED BY <2>2, <1>4
  <2>4. PoolInv(used', mem', Owners \ {c})
    <3> HIDE DEF c
    <3>1. PoolInv(used \ (X \cup tree), mem, Owners \ {c})
      BY <1>5, <1>6, DestroyStep
    <3> QED BY <3>1, <2>3, <1>4
  <2>5. DOMAIN context' = Procs /\ \A q \in Procs : context'[q] = IF q = p THEN NULL ELSE context[q]
    BY <1>1, <1>5
  <2>6. Alive' = Alive \ {p} /\ \A q \in Alive' : q \in Alive /\ q # p /\ context'[q] = context[q]
    BY <2>5 DEF Alive
  <2>7. Owners' = Owners \ {c}
    <3>1. Owners' = {context'[q] : q \in Alive'} \cup lost
      BY <1>1 DEF Owners
    <3>2. {context'[q] : q \in Alive'} = {context[q] : q \in Alive \ {p}}
      BY <2>6
    <3>3. \A q \in Alive \ {p} : context[q] # c
      BY <1>1, <1>5 DEF ContextsApart
    <3>4. c \notin lost
      BY <1>1, <1>5 DEF ContextsApart
    <3> QED BY <3>1, <3>2, <3>3, <3>4, <1>1 DEF Owners
  <2>8. StateOK(Now', Owners')
    <3>1. (Now').used = used' /\ (Now').mem = mem' /\ (Now').panic = panic'
      BY DEF Now
    <3> QED BY <3>1, <2>4, <2>7, <1>9 DEF StateOK
  <2>9. ContextsApart'
    BY <2>6, <1>1, <1>5 DEF ContextsApart
  <2>10. HeapEnds'
    BY <2>6, <1>1, <1>4, <1>5 DEF HeapEnds
  <2>11. Boot \cap unborn' = {} /\ sbrk_state' \in [Procs -> Nat]
    BY <1>1 DEF Sound
  <2> QED BY <2>5, <2>8, <2>9, <2>10, <2>11 DEF Sound
<1>11. Stable
  BY <1>4 DEF Stable
<1> QED BY <1>9, <1>10, <1>11

LEMMA SoundIsEnough ==
  ASSUME Sound
  PROVE  MemoryInv
BY DEF Sound, MemoryInv, StateOK, Now

LEMMA MemoryNextInv ==
  ASSUME MemoryInv, MemoryNext
  PROVE  MemoryInv' /\ Stable
<1>0. Running /\ Sound
  <2>1. Running
    BY DEF MemoryNext, SyscallLaunchElf, SyscallLaunchDamaged, SyscallSbrk, KillProcess
  <2> QED BY <2>1 DEF Running, MemoryInv
<1>00. Sound' => MemoryInv'
  BY SoundIsEnough, PTL
<1>1. CASE \E p \in Procs, image \in Images : SyscallLaunchElf(p, image)
  BY <1>0, <1>00, <1>1, LaunchElfInv
<1>2. CASE SyscallLaunchDamaged
  BY <1>0, <1>00, <1>2, LaunchDamagedInv
<1>3. CASE \E p \in Procs, size \in SbrkSizes : SyscallSbrk(p, size)
  BY <1>0, <1>00, <1>3, SbrkInv
<1>4. CASE \E p \in Procs : KillProcess(p)
  BY <1>0, <1>4, KillInv DEF MemoryInv
<1> QED BY <1>1, <1>2, <1>3, <1>4 DEF MemoryNext

LEMMA MemoryStutterInv ==
  ASSUME MemoryInv, UNCHANGED memoryVars
  PROVE  MemoryInv'
BY DEF MemoryInv, memoryVars, Now, KernelTablesKept, KernelPages, Reachable, Sound, Owners,
       Alive, ContextsApart, HeapEnds

(* As long as the kernel has its page tables, contexts, page directories   *)
(* and page tables form trees that share the kernel's tables and nothing   *)
(* else, whatever processes are launched, grow and die and whatever the    *)
(* CPU marks as accessed: the inductive invariant of pmm.c and vmm.c.      *)
THEOREM MemoryInvariant == MemorySpec => []MemoryInv
<1>1. MemoryInit => MemoryInv
  BY MemoryInitSound, SoundIsEnough
<1>2. MemoryInv /\ [MemoryNext]_memoryVars => MemoryInv'
  BY MemoryNextInv, MemoryStutterInv
<1> QED BY <1>1, <1>2, PTL DEF MemorySpec

(* No page of the kernel, of the modules or of the heap is ever given back *)
(* by destroy_context, although the page numbers it reads from the page    *)
(* tables are wrong and page tables of the kernel are taken for those of   *)
(* the process: it compares what it reads with HEAP_END.                   *)
THEOREM ReservedPagesStay == MemorySpec => []ReservedStay
<1>1. MemoryInv => ReservedStay
  BY DEF MemoryInv, ReservedStay
<1> QED BY <1>1, MemoryInvariant, PTL

(* The kernel's part of every address space is the identity. *)
KernelPartFixed ==
  \A p \in Alive : \A v \in VirtPages : v \div Entries \in KernelSlots =>
    Translate(context[p], v) = IF v <= HEAP_END THEN v ELSE 0

LEMMA KernelPartIsFixed == MemoryInv /\ Running => KernelPartFixed
<1>1. SUFFICES ASSUME MemoryInv, Running, NEW p \in Alive, NEW v \in VirtPages,
                      v \div Entries \in KernelSlots
               PROVE  Translate(context[p], v) = IF v <= HEAP_END THEN v ELSE 0
  BY DEF KernelPartFixed
<1>2. Shared(mem, Owners) /\ context[p] \in Owners
  BY <1>1 DEF MemoryInv, Running, Sound, StateOK, PoolInv, Now, Owners
<1>3. Table(mem, context[p], v \div Entries) = Table(mem, kernel_context, v \div Entries)
  BY <1>1, <1>2 DEF Shared
<1>4. Translate(context[p], v) = Translate(kernel_context, v)
  BY <1>3 DEF Translate, Table
<1>5. Translate(kernel_context, v) = IF v <= HEAP_END THEN v ELSE 0
  BY <1>1, InVirtPages DEF Running, KernelMapKept
<1> QED BY <1>4, <1>5

(* Launching and killing processes and growing their heaps change nothing  *)
(* that is mapped in the address space of another process, nor what is     *)
(* mapped already in the own one unless its heap has run over the end of   *)
(* the address space, as long as the kernel has its page tables.           *)
THEOREM AddressSpacesStayStable == MemorySpec => AddressSpacesStable
<1> DEFINE Step == Running' =>
             \A p \in Alive :
               /\ context'[p] = context[p]
               /\ p \in wrapped' => ~ \E size \in SbrkSizes : SyscallSbrk(p, size)
               => \A v \in 0 .. VirtualPages - 1 :
                    Translate(context[p], v) # 0 =>
                      Translate(context[p], v)' = Translate(context[p], v)
<1>1. ASSUME MemoryInv, [MemoryNext]_memoryVars PROVE [Step]_memoryVars
  <2>1. CASE UNCHANGED memoryVars
    BY <2>1
  <2>2. CASE MemoryNext
    <3>1. Stable /\ MemoryInv'
      BY <1>1, <2>2, MemoryNextInv
    <3>2. KernelPartFixed
      <4>1. Running
        BY <2>2 DEF MemoryNext, SyscallLaunchElf, SyscallLaunchDamaged, SyscallSbrk, KillProcess
      <4> QED BY <4>1, <1>1, KernelPartIsFixed
    <3>3. MemoryInv' /\ Running' => KernelPartFixed'
      BY KernelPartIsFixed, PTL
    <3>4. ASSUME Running', NEW p \in Alive, context'[p] = context[p],
                 p \in wrapped' => ~ Grows(p), NEW v \in VirtPages, Translate(context[p], v) # 0
          PROVE  Translate(context[p], v)' = Translate(context[p], v)
      <4>1. Translate(context[p], v) = Trans(mem, context[p], v)
            /\ Translate(context[p], v)' = Trans(mem', context[p], v)
        BY <3>4 DEF Translate, Trans
      <4>2. CASE v \div Entries \in UserSlots
        BY <4>1, <4>2, <3>1, <3>4 DEF Stable, Running
      <4>3. CASE v \div Entries \in KernelSlots
        <5>1. p \in Alive'
          BY <3>4 DEF Alive
        <5>2. Translate(context[p], v)' = IF v <= HEAP_END THEN v ELSE 0
          BY <5>1, <4>3, <3>1, <3>3, <3>4 DEF KernelPartFixed
        <5>3. Translate(context[p], v) = IF v <= HEAP_END THEN v ELSE 0
          BY <4>3, <3>2, <3>4 DEF KernelPartFixed
        <5> QED BY <5>2, <5>3
      <4>4. v \div Entries \in UserSlots \/ v \div Entries \in KernelSlots
        BY PageParts, Layout
      <4> QED BY <4>2, <4>3, <4>4
    <3>5. Step
      BY <3>4, InVirtPages, Zenon DEF Grows
    <3> QED BY <3>5
  <2> QED BY <2>1, <2>2, <1>1
<1>2. MemorySpec => [][Step]_memoryVars
  <2> HIDE DEF Step
  <2> QED BY <1>1, MemoryInvariant, PTL DEF MemorySpec
<1> QED BY <1>2 DEF AddressSpacesStable

(* The pages of the pool in use are those of the living processes, the     *)
(* failed launches, the kernel and the modules, and each has one owner: a  *)
(* death that leaves the kernel its page tables leaks no page of the pool. *)
THEOREM PoolStaysOwned == MemorySpec => []PoolOwned
<1>1. ASSUME MemoryInv PROVE PoolOwned
  <2>1. SUFFICES ASSUME Running PROVE PoolOwned
    BY DEF PoolOwned
  <2> DEFINE boot == KernelPages \cup (Modules \cap PoolPages)
  <2>2. PoolInv(used, mem, Owners)
    BY <1>1, <2>1 DEF MemoryInv, Running, Sound, StateOK, Now
  <2>3. Owners = {context[p] : p \in Alive} \cup lost
    BY DEF Owners
  <2>4. \A c \in All(Owners) : Shape(mem, c) /\ \A n : InTree(mem, c, n) => n \in PoolPages
    <3>1. \A c \in All(Owners) : Shape(mem, c)
      BY <2>2 DEF PoolInv
    <3> QED BY <3>1 DEF Shape, InTree
  <2>5. \A c, n : n \in Reachable(c) <=>
          n = c \/ n = Dir(mem, c) \/ (n # 0 /\ \E i \in Slots : Table(mem, c, i) = n)
    BY DEF Reachable, Dir, Table
  <2>6. \A n : n \in KernelPages <=> InTree(mem, kernel_context, n)
    <3>1. \A i \in Slots : i \in KernelSlots \/ Table(mem, kernel_context, i) = 0
      BY <2>2, Layout DEF PoolInv, Shared
    <3>2. SlotsOf(kernel_context) = KernelSlots /\ KernelSlots \subseteq Slots
      BY Layout DEF SlotsOf
    <3> QED BY <3>1, <3>2, <2>5 DEF KernelPages, InTree
  <2>7. ASSUME NEW c \in Owners
        PROVE  \A n : n \in PoolPagesOf(c) <=> InTree(mem, c, n)
    <3>1. c \in All(Owners) /\ kernel_context \in All(Owners) /\ c # kernel_context
          /\ SlotsOf(c) = UserSlots /\ SlotsOf(kernel_context) = KernelSlots
      BY <2>2 DEF All, PoolInv, SlotsOf
    <3>2. ASSUME NEW n, n \in PoolPagesOf(c) PROVE InTree(mem, c, n)
      <4>1. CASE n = c \/ n = Dir(mem, c)
        BY <4>1 DEF InTree
      <4>2. CASE n \in Reachable(c) /\ n \notin KernelPages /\ n # c /\ n # Dir(mem, c)
        <5>1. PICK i \in Slots : n # 0 /\ Table(mem, c, i) = n
          BY <4>2, <2>5
        <5>2. i \notin KernelSlots
          <6>1. SUFFICES ASSUME i \in KernelSlots PROVE FALSE
            OBVIOUS
          <6>2. Table(mem, kernel_context, i) = n
            BY <6>1, <5>1, <2>2 DEF PoolInv, Shared
          <6>3. InTree(mem, kernel_context, n)
            BY <6>1, <6>2, <5>1, <3>1 DEF InTree
          <6> QED BY <6>3, <4>2, <2>6
        <5> QED BY <5>1, <5>2, <3>1, Layout DEF InTree
      <4> QED BY <3>2, <4>1, <4>2 DEF PoolPagesOf, Dir
    <3>3. ASSUME NEW n, InTree(mem, c, n) PROVE n \in PoolPagesOf(c)
      <4>1. n \in Reachable(c)
        BY <3>1, <3>3, <2>5, Layout DEF InTree
      <4>2. n \notin KernelPages
        BY <3>1, <3>3, <2>2, <2>4, <2>6 DEF PoolInv
      <4> QED BY <4>1, <4>2 DEF PoolPagesOf
    <3> QED BY <3>2, <3>3
  <2>8. used \cap PoolPages = boot \cup UNION {PoolPagesOf(c) : c \in Owners}
    <3>1. ASSUME NEW n, n \in used \cap PoolPages
          PROVE  n \in boot \cup UNION {PoolPagesOf(c) : c \in Owners}
      <4>1. n \in Modules \/ \E c \in All(Owners) : InTree(mem, c, n)
        BY <3>1, <2>2 DEF PoolInv
      <4> QED BY <4>1, <3>1, <2>6, <2>7 DEF All
    <3>2. ASSUME NEW n, n \in boot PROVE n \in used \cap PoolPages
      <4>1. CASE n \in KernelPages
        <5>1. kernel_context \in All(Owners) /\ InTree(mem, kernel_context, n)
          BY <4>1, <2>6 DEF All
        <5> QED BY <5>1, <2>2, <2>4 DEF PoolInv
      <4>2. CASE n \in Modules /\ n \in PoolPages
        <5>1. InitPmm \subseteq used
          BY <1>1 DEF MemoryInv
        <5> QED BY <5>1, <4>2, Layout
      <4> QED BY <3>2, <4>1, <4>2
    <3>3. ASSUME NEW c \in Owners, NEW n, n \in PoolPagesOf(c) PROVE n \in used \cap PoolPages
      BY <3>3, <2>2, <2>4, <2>7 DEF PoolInv, All
    <3> QED BY <3>1, <3>2, <3>3
  <2>9. \A c \in Owners : PoolPagesOf(c) \cap boot = {}
    <3>1. ASSUME NEW c \in Owners, NEW n, n \in PoolPagesOf(c), n \in boot PROVE FALSE
      <4>1. c \in All(Owners) /\ kernel_context \in All(Owners) /\ c # kernel_context
            /\ InTree(mem, c, n)
        BY <3>1, <2>2, <2>7 DEF All, PoolInv
      <4>2. n \in PoolPages /\ n \notin Modules
        BY <4>1, <2>2, <2>4 DEF PoolInv
      <4>3. InTree(mem, kernel_context, n)
        BY <4>2, <3>1, <2>6
      <4> QED BY <4>1, <4>2, <4>3, <2>2 DEF PoolInv
    <3> QED BY <3>1
  <2>10. \A c, e \in Owners : c # e => PoolPagesOf(c) \cap PoolPagesOf(e) = {}
    BY <2>2, <2>4, <2>7 DEF PoolInv, All
  <2> QED BY <2>3, <2>8, <2>9, <2>10, Zenon DEF PoolOwned
<1> QED BY <1>1, MemoryInvariant, PTL
=============================================================================

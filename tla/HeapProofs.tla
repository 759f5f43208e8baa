----------------------------- MODULE HeapProofs -----------------------------
(***************************************************************************)
(* Proof that the kernel heap never hands out overlapping memory, for      *)
(* every heap, header size, set of clients and set of request sizes.       *)
(***************************************************************************)
EXTENDS Heap, TLAPS, WellFoundedInduction, SequenceTheorems

Block == [addr : HEAP_START .. HEAP_END - 1, size : Nat, free : BOOLEAN]

(* The blocks follow one another in memory. *)
Ordered(bs) ==
  \A i, j \in 1 .. Len(bs) : i < j => NEXT_BLOCK(bs[i]) <= bs[j].addr

WellFormed(bs) == bs \in Seq(Block) /\ Len(bs) > 0 /\ Ordered(bs)

-----------------------------------------------------------------------------
(* The operations on the list.                                             *)

LEMMA LeastIndex ==
  ASSUME NEW S \in SUBSET Nat, S # {}
  PROVE  Min(S) \in S /\ \A y \in S : Min(S) <= y
<1>1. PICK x \in S : \A y \in S : ~(<<y, x>> \in OpToRel(<, Nat))
  BY NatLessThanWellFounded, WFMin, Zenon
<1>2. \A y \in S : x <= y
  <2>1. SUFFICES ASSUME NEW y \in S, ~(x <= y) PROVE FALSE
    OBVIOUS
  <2>2. y \in Nat /\ x \in Nat /\ y < x
    BY <2>1
  <2>3. <<y, x>> \in OpToRel(<, Nat)
    BY <2>2 DEF OpToRel
  <2> QED BY <2>3, <1>1
<1> QED BY <1>2 DEF Min

LEMMA BlockArith ==
  ASSUME NEW b \in Block
  PROVE  /\ b.addr \in Nat /\ b.size \in Nat /\ b.free \in BOOLEAN
         /\ BLOCK_START(b) = b.addr + HEADERSIZE /\ BLOCK_START(b) \in Nat
         /\ NEXT_BLOCK(b) = b.addr + HEADERSIZE + b.size /\ NEXT_BLOCK(b) \in Nat
BY HeapAssumption DEF Block, BLOCK_START, NEXT_BLOCK

LEMMA WellFormedFacts ==
  ASSUME NEW bs, WellFormed(bs)
  PROVE  /\ Len(bs) \in Nat \ {0} /\ DOMAIN bs = 1 .. Len(bs)
         /\ \A i \in 1 .. Len(bs) : bs[i] \in Block
         /\ Last(bs) = bs[Len(bs)] /\ Last(bs) \in Block
<1>1. bs \in Seq(Block) /\ Len(bs) \in Nat /\ DOMAIN bs = 1 .. Len(bs)
  BY LenProperties DEF WellFormed
<1>2. \A i \in 1 .. Len(bs) : bs[i] \in Block
  BY <1>1, ElementOfSeq
<1>3. Len(bs) \in 1 .. Len(bs)
  BY <1>1 DEF WellFormed
<1> QED BY <1>1, <1>2, <1>3 DEF Last, WellFormed

(* Two blocks have different memory. *)
LEMMA StartsDistinct ==
  ASSUME NEW bs, WellFormed(bs), NEW i \in 1 .. Len(bs), NEW j \in 1 .. Len(bs), i # j
  PROVE  BLOCK_START(bs[i]) # BLOCK_START(bs[j])
<1>1. Len(bs) \in Nat /\ bs[i] \in Block /\ bs[j] \in Block
  BY WellFormedFacts
<1>2. i < j \/ j < i
  BY <1>1
<1>3. i < j => NEXT_BLOCK(bs[i]) <= bs[j].addr
  BY DEF WellFormed, Ordered
<1>4. j < i => NEXT_BLOCK(bs[j]) <= bs[i].addr
  BY DEF WellFormed, Ordered
<1>5. /\ bs[i].addr \in Nat /\ bs[i].size \in Nat
      /\ BLOCK_START(bs[i]) = bs[i].addr + HEADERSIZE
      /\ NEXT_BLOCK(bs[i]) = bs[i].addr + HEADERSIZE + bs[i].size
      /\ bs[j].addr \in Nat /\ bs[j].size \in Nat
      /\ BLOCK_START(bs[j]) = bs[j].addr + HEADERSIZE
      /\ NEXT_BLOCK(bs[j]) = bs[j].addr + HEADERSIZE + bs[j].size
  BY <1>1, BlockArith
<1>6. HEADERSIZE \in Nat /\ HEADERSIZE > 0
  BY HeapAssumption
<1> DEFINE a == bs[i].addr  m == bs[i].size
           b == bs[j].addr  n == bs[j].size
<1>7. /\ a \in Nat /\ m \in Nat /\ b \in Nat /\ n \in Nat
      /\ a + HEADERSIZE + m <= b \/ b + HEADERSIZE + n <= a
  BY <1>2, <1>3, <1>4, <1>5, Zenon
<1> HIDE DEF a, b, m, n
<1>8. a + HEADERSIZE # b + HEADERSIZE
  BY <1>6, <1>7
<1> QED BY <1>5, <1>8, Zenon DEF a, b

Fits(b, size) == b.size >= size /\ b.free

(* FirstFit is the least index of a block that fits, or 0 if none does. *)
LEMMA FirstFitFacts ==
  ASSUME NEW bs, WellFormed(bs), NEW size \in Nat
  PROVE  /\ FirstFit(bs, size) # 0 =>
              /\ FirstFit(bs, size) \in 1 .. Len(bs)
              /\ Fits(bs[FirstFit(bs, size)], size)
              /\ \A j \in 1 .. FirstFit(bs, size) - 1 : ~Fits(bs[j], size)
         /\ FirstFit(bs, size) = 0 => \A j \in 1 .. Len(bs) : ~Fits(bs[j], size)
<1> DEFINE I == {i \in 1 .. Len(bs) : Fits(bs[i], size)}
           i == FirstFit(bs, size)
<1>0. Len(bs) \in Nat
  BY WellFormedFacts
<1>1. i = IF I # {} THEN Min(I) ELSE 0
  BY Zenon DEF FirstFit, SelectInSeq, Fits
<1>2. I \in SUBSET Nat
  BY <1>0
<1>3. I # {} => i \in I /\ \A y \in I : i <= y
  <2> HIDE DEF I, i
  <2> QED BY <1>1, <1>2, LeastIndex
<1>4. CASE I # {}
  <2>1. i \in 1 .. Len(bs) /\ Fits(bs[i], size)
    BY <1>3, <1>4
  <2>2. \A j \in 1 .. i - 1 : j \in 1 .. Len(bs) /\ ~(i <= j)
    <3> HIDE DEF i
    <3> QED BY <2>1, <1>0
  <2>3. \A j \in 1 .. i - 1 : ~Fits(bs[j], size)
    BY <2>2, <1>3, <1>4
  <2> HIDE DEF i
  <2> QED BY <2>1, <2>3, <1>0 DEF i
<1>5. CASE I = {}
  BY <1>1, <1>5
<1> QED BY <1>4, <1>5

(* The only index a search can stop at. *)
LEMMA FirstFitIs ==
  ASSUME NEW bs, WellFormed(bs), NEW size \in Nat, NEW k \in 1 .. Len(bs),
         Fits(bs[k], size), \A j \in 1 .. k - 1 : ~Fits(bs[j], size)
  PROVE  FirstFit(bs, size) = k
<1> DEFINE i == FirstFit(bs, size)
<1>0. Len(bs) \in Nat
  BY WellFormedFacts
<1>1. i # 0
  BY FirstFitFacts
<1>2. i \in 1 .. Len(bs) /\ Fits(bs[i], size) /\ \A j \in 1 .. i - 1 : ~Fits(bs[j], size)
  BY <1>1, FirstFitFacts
<1> HIDE DEF i
<1>3. ~(i < k) /\ ~(k < i)
  BY <1>0, <1>2
<1>4. i = k
  BY <1>0, <1>2, <1>3
<1> QED BY <1>4 DEF i

(* Overwriting the free flag of some blocks keeps the list well formed. *)
LEMMA SameShape ==
  ASSUME NEW bs, WellFormed(bs), NEW cs \in Seq(Block), Len(cs) = Len(bs),
         \A i \in 1 .. Len(bs) : cs[i].addr = bs[i].addr /\ cs[i].size = bs[i].size
  PROVE  WellFormed(cs)
<1>1. Len(cs) > 0
  BY DEF WellFormed
<1>2. Ordered(cs)
  BY DEF WellFormed, Ordered, NEXT_BLOCK, BLOCK_START
<1> QED BY <1>1, <1>2 DEF WellFormed

(* kmalloc turned the list bs into l by giving out block k at p: the      *)
(* first block that fits, or a new one behind all others.                  *)
GivesOut(bs, l, p, k, size) ==
  /\ k \in 1 .. Len(l)
  /\ BLOCK_START(l[k]) = p
  /\ ~l[k].free /\ l[k].size >= size
  /\ k <= Len(bs) => bs[k].free /\ bs[k].addr = l[k].addr /\ bs[k].size = l[k].size
  /\ \A j \in 1 .. Len(l) : j # k => j <= Len(bs) /\ l[j] = bs[j]
  /\ \A j \in 1 .. k - 1 : ~Fits(bs[j], size)

LEMMA KmallocChoice ==
  ASSUME NEW bs, WellFormed(bs), NEW size \in Nat,
         kmalloc(bs, size).ptr # NULL
  PROVE  LET m == kmalloc(bs, size)
         IN  /\ WellFormed(m.list) /\ m.ptr \in Nat
             /\ Len(m.list) >= Len(bs)
             /\ \E k \in 1 .. Len(m.list) : GivesOut(bs, m.list, m.ptr, k, size)
<1> DEFINE m == kmalloc(bs, size)
           i == FirstFit(bs, size)
           l == m.list
           p == m.ptr
<1>0. /\ Len(bs) \in Nat \ {0} /\ DOMAIN bs = 1 .. Len(bs)
      /\ \A j \in 1 .. Len(bs) : bs[j] \in Block
      /\ Last(bs) = bs[Len(bs)] /\ Last(bs) \in Block
  BY WellFormedFacts
<1> SUFFICES /\ WellFormed(l) /\ p \in Nat
             /\ Len(l) >= Len(bs)
             /\ \E k \in 1 .. Len(l) : GivesOut(bs, l, p, k, size)
  BY Zenon
<1>1. CASE i # 0
  <2> DEFINE nb == [bs[i] EXCEPT !.free = FALSE]
  <2>1. l = [bs EXCEPT ![i] = nb] /\ p = BLOCK_START(bs[i])
    BY <1>1 DEF kmalloc
  <2>2. /\ i \in 1 .. Len(bs) /\ bs[i].size >= size /\ bs[i].free
        /\ \A j \in 1 .. i - 1 : ~Fits(bs[j], size)
    BY <1>1, FirstFitFacts DEF Fits
  <2> HIDE DEF i, l, p
  <2>3. /\ nb \in Block /\ nb.addr = bs[i].addr /\ nb.size = bs[i].size /\ ~nb.free
    <3>1. bs[i] \in Block /\ bs[i].free
      BY <1>0, <2>2
    <3> QED BY <3>1 DEF Block
  <2> HIDE DEF nb
  <2>4. /\ l \in Seq(Block) /\ Len(l) = Len(bs)
        /\ \A j \in 1 .. Len(bs) : l[j] = IF j = i THEN nb ELSE bs[j]
    BY <2>1, <2>2, <2>3, ExceptSeq DEF WellFormed
  <2>5. WellFormed(l)
    BY <2>3, <2>4, SameShape
  <2>6. p \in Nat /\ BLOCK_START(l[i]) = p
    BY <2>1, <2>2, <2>3, <2>4, <1>0, BlockArith DEF BLOCK_START
  <2>7. GivesOut(bs, l, p, i, size)
    <3>1. i \in 1 .. Len(l) /\ l[i] = nb
      BY <2>2, <2>4
    <3>2. \A j \in 1 .. Len(l) : j # i => j <= Len(bs) /\ l[j] = bs[j]
      BY <2>4, <1>0
    <3> QED BY <2>2, <2>3, <2>6, <3>1, <3>2, Zenon DEF GivesOut
  <2>8. i \in 1 .. Len(l) /\ Len(l) >= Len(bs)
    BY <2>2, <2>4, <1>0
  <2> QED BY <2>5, <2>6, <2>7, <2>8, Zenon
<1>2. CASE i = 0
  <2> DEFINE a  == NEXT_BLOCK(Last(bs))
             nb == [addr |-> a, size |-> size, free |-> FALSE]
  <2>1. a < HEAP_END /\ l = Append(bs, nb) /\ p = a + HEADERSIZE
    BY <1>2 DEF kmalloc, kcreateBlock
  <2> HIDE DEF i, l, p, m
  <2>2. a = Last(bs).addr + HEADERSIZE + Last(bs).size /\ a \in Nat
    BY <1>0, BlockArith
  <2>3. a \in HEAP_START .. HEAP_END - 1
    BY <2>1, <2>2, <1>0, HeapAssumption DEF Block
  <2> HIDE DEF a
  <2>4. nb \in Block /\ nb.addr = a /\ nb.size = size /\ ~nb.free
    BY <2>3 DEF Block
  <2> HIDE DEF nb
  <2>5. /\ l \in Seq(Block) /\ Len(l) = Len(bs) + 1 /\ l[Len(bs) + 1] = nb
        /\ \A j \in 1 .. Len(bs) : l[j] = bs[j]
    BY <2>1, <2>4, AppendProperties DEF WellFormed
  <2>6. Ordered(l)
    <3>1. SUFFICES ASSUME NEW j \in 1 .. Len(bs) + 1, NEW k \in 1 .. Len(bs) + 1, j < k
                   PROVE  NEXT_BLOCK(l[j]) <= l[k].addr
      BY <2>5 DEF Ordered
    <3>2. CASE k <= Len(bs)
      <4>1. j \in 1 .. Len(bs) /\ k \in 1 .. Len(bs)
        BY <3>1, <3>2, <1>0
      <4> QED BY <4>1, <3>1, <2>5 DEF WellFormed, Ordered
    <3>3. CASE k = Len(bs) + 1
      <4>1. j \in 1 .. Len(bs) /\ l[j] = bs[j] /\ l[k].addr = a
        BY <3>1, <3>3, <1>0, <2>4, <2>5
      <4>2. j = Len(bs) => NEXT_BLOCK(bs[j]) = a
        BY <1>0 DEF a
      <4>3. j < Len(bs) => NEXT_BLOCK(bs[j]) <= Last(bs).addr
        BY <4>1, <1>0 DEF WellFormed, Ordered
      <4>4. /\ NEXT_BLOCK(bs[j]) \in Nat /\ Last(bs).addr \in Nat /\ Last(bs).size \in Nat
        BY <4>1, <1>0, BlockArith
      <4>5. HEADERSIZE \in Nat /\ j <= Len(bs)
        BY <4>1, <1>0, HeapAssumption
      <4>6. Last(bs).addr <= a
        BY <4>4, <4>5, <2>2
      <4>7. NEXT_BLOCK(bs[j]) <= a
        <5>1. CASE j = Len(bs)
          BY <5>1, <4>2, <2>2
        <5>2. CASE j < Len(bs)
          <6> DEFINE n == NEXT_BLOCK(bs[j])
                     e == Last(bs).addr
          <6>1. n \in Nat /\ e \in Nat /\ n <= e /\ e <= a /\ a \in Nat
            BY <5>2, <4>3, <4>4, <4>6, <2>2
          <6> HIDE DEF n, e
          <6>2. n <= a
            BY <6>1
          <6> QED BY <6>2 DEF n
        <5>3. j = Len(bs) \/ j < Len(bs)
          <6>1. j \in 1 .. Len(bs) /\ Len(bs) \in Nat
            BY <4>1, <1>0
          <6> QED BY <6>1
        <5> QED BY <5>1, <5>2, <5>3
      <4> QED BY <4>1, <4>7
    <3> QED BY <3>1, <3>2, <3>3, <1>0
  <2>7. WellFormed(l)
    BY <2>5, <2>6, <1>0 DEF WellFormed
  <2>8. p \in Nat /\ BLOCK_START(l[Len(bs) + 1]) = p
    BY <2>1, <2>2, <2>4, <2>5, HeapAssumption DEF BLOCK_START
  <2>9. Len(bs) + 1 \in 1 .. Len(l) /\ ~(Len(bs) + 1 <= Len(bs)) /\ Len(l) >= Len(bs)
    BY <2>5, <1>0
  <2>10. \A j \in 1 .. Len(l) : j # Len(bs) + 1 => j <= Len(bs) /\ l[j] = bs[j]
    BY <2>5, <1>0
  <2>11. size >= size
    OBVIOUS
  <2>12. \A j \in 1 .. (Len(bs) + 1) - 1 : ~Fits(bs[j], size)
    BY <1>0, <1>2, FirstFitFacts DEF i
  <2>13. GivesOut(bs, l, p, Len(bs) + 1, size)
    BY <2>4, <2>5, <2>8, <2>9, <2>10, <2>11, <2>12 DEF GivesOut
  <2> QED BY <2>7, <2>8, <2>9, <2>13
<1> QED BY <1>1, <1>2

(* kmalloc returns a block that was free or did not exist, large enough,   *)
(* marks it used and changes no other block.                               *)
LEMMA KmallocFacts ==
  ASSUME NEW bs, WellFormed(bs), NEW size \in Nat,
         kmalloc(bs, size).ptr # NULL
  PROVE  LET m == kmalloc(bs, size)
         IN  /\ WellFormed(m.list) /\ m.ptr \in Nat
             /\ Len(m.list) >= Len(bs)
             /\ \E k \in 1 .. Len(m.list) :
                  /\ BLOCK_START(m.list[k]) = m.ptr
                  /\ ~m.list[k].free /\ m.list[k].size >= size
                  /\ k <= Len(bs) => bs[k].free
                  /\ \A j \in 1 .. Len(m.list) : j # k => j <= Len(bs) /\ m.list[j] = bs[j]
<1> DEFINE m == kmalloc(bs, size)
           l == m.list
           p == m.ptr
<1>1. WellFormed(l) /\ p \in Nat /\ Len(l) >= Len(bs)
  BY KmallocChoice
<1>2. PICK k \in 1 .. Len(l) : GivesOut(bs, l, p, k, size)
  BY KmallocChoice
<1> HIDE DEF m
<1>3. /\ BLOCK_START(l[k]) = p
      /\ ~l[k].free /\ l[k].size >= size
      /\ k <= Len(bs) => bs[k].free
      /\ \A j \in 1 .. Len(l) : j # k => j <= Len(bs) /\ l[j] = bs[j]
  BY <1>2, Zenon DEF GivesOut
<1>4. \E h \in 1 .. Len(l) :
        /\ BLOCK_START(l[h]) = p
        /\ ~l[h].free /\ l[h].size >= size
        /\ h <= Len(bs) => bs[h].free
        /\ \A j \in 1 .. Len(l) : j # h => j <= Len(bs) /\ l[j] = bs[j]
  BY <1>3, Zenon
<1> QED BY <1>1, <1>4, Zenon DEF m

(* kfree changes the free flag of one block. *)
LEMMA KfreeFacts ==
  ASSUME NEW bs, WellFormed(bs), NEW ptr
  PROVE  /\ WellFormed(kfree(bs, ptr)) /\ Len(kfree(bs, ptr)) = Len(bs)
         /\ \A j \in 1 .. Len(bs) : BLOCK_START(bs[j]) # ptr => kfree(bs, ptr)[j] = bs[j]
         /\ \A j \in 1 .. Len(bs) :
              /\ kfree(bs, ptr)[j].addr = bs[j].addr
              /\ kfree(bs, ptr)[j].size = bs[j].size
              /\ BLOCK_START(bs[j]) = ptr => kfree(bs, ptr)[j].free
<1> DEFINE l == kfree(bs, ptr)
<1>0. Len(bs) \in Nat /\ \A j \in 1 .. Len(bs) : bs[j] \in Block
  BY WellFormedFacts
<1>1. /\ DOMAIN l = 1 .. Len(bs)
      /\ \A j \in 1 .. Len(bs) :
           l[j] = IF BLOCK_START(bs[j]) = ptr THEN [bs[j] EXCEPT !.free = TRUE] ELSE bs[j]
      /\ l = [j \in 1 .. Len(bs) |-> l[j]]
  BY DEF kfree
<1> HIDE DEF l
<1>2. \A j \in 1 .. Len(bs) : l[j] \in Block /\ l[j].addr = bs[j].addr /\ l[j].size = bs[j].size
  <2>1. SUFFICES ASSUME NEW j \in 1 .. Len(bs)
                 PROVE  l[j] \in Block /\ l[j].addr = bs[j].addr /\ l[j].size = bs[j].size
    OBVIOUS
  <2>2. bs[j] \in Block
    BY <1>0
  <2> QED BY <2>2, <1>1 DEF Block
<1>6. ASSUME NEW j \in 1 .. Len(bs), BLOCK_START(bs[j]) = ptr PROVE l[j].free
  <2>1. bs[j] \in Block /\ l[j] = [bs[j] EXCEPT !.free = TRUE]
    BY <1>0, <1>1, <1>6
  <2> QED BY <2>1 DEF Block
<1>3. l \in [1 .. Len(bs) -> Block]
  BY <1>1, <1>2
<1>4. l \in Seq(Block) /\ Len(l) = Len(bs)
  BY <1>0, <1>3
<1>5. WellFormed(l)
  BY <1>2, <1>4, SameShape
<1> QED BY <1>1, <1>2, <1>4, <1>5, <1>6 DEF l

-----------------------------------------------------------------------------
(* The round trip of selfTest.                                             *)

(* A block that was given out, is free again and has no fitting block in   *)
(* front of it is given out again.                                         *)
LEMMA GivenAgain ==
  ASSUME NEW g, WellFormed(g), NEW size \in Nat, NEW k \in 1 .. Len(g),
         Fits(g[k], size), \A j \in 1 .. k - 1 : ~Fits(g[j], size)
  PROVE  LET m == kmalloc(g, size)
         IN  /\ m.ptr = BLOCK_START(g[k])
             /\ WellFormed(m.list) /\ Len(m.list) = Len(g)
             /\ m.list[k].addr = g[k].addr /\ m.list[k].size = g[k].size /\ ~m.list[k].free
             /\ \A j \in 1 .. Len(g) : j # k => m.list[j] = g[j]
<1> DEFINE nb == [g[k] EXCEPT !.free = FALSE]
           l == kmalloc(g, size).list
           p == kmalloc(g, size).ptr
<1>0. Len(g) \in Nat /\ g \in Seq(Block) /\ g[k] \in Block
  BY WellFormedFacts DEF WellFormed
<1>1. FirstFit(g, size) = k /\ k # 0
  BY FirstFitIs
<1>2. l = [g EXCEPT ![k] = nb] /\ p = BLOCK_START(g[k])
  BY <1>1 DEF kmalloc
<1> SUFFICES /\ p = BLOCK_START(g[k])
             /\ WellFormed(l) /\ Len(l) = Len(g)
             /\ l[k].addr = g[k].addr /\ l[k].size = g[k].size /\ ~l[k].free
             /\ \A j \in 1 .. Len(g) : j # k => l[j] = g[j]
  BY Zenon
<1> HIDE DEF l, p
<1>3. nb \in Block /\ nb.addr = g[k].addr /\ nb.size = g[k].size /\ ~nb.free
  BY <1>0 DEF Block
<1> HIDE DEF nb
<1>4. /\ l \in Seq(Block) /\ Len(l) = Len(g)
      /\ \A j \in 1 .. Len(g) : l[j] = IF j = k THEN nb ELSE g[j]
  BY <1>0, <1>2, <1>3, ExceptSeq
<1>5. WellFormed(l)
  BY <1>3, <1>4, SameShape
<1> QED BY <1>2, <1>3, <1>4, <1>5

(* Two allocations, freed in the same order, come back at the same places. *)
LEMMA RoundTrip ==
  ASSUME NEW bs, WellFormed(bs), NEW s1 \in Nat, NEW s2 \in Nat,
         kmalloc(bs, s1).ptr # NULL,
         kmalloc(kmalloc(bs, s1).list, s2).ptr # NULL
  PROVE  LET m1 == kmalloc(bs, s1)
             m2 == kmalloc(m1.list, s2)
             f  == kfree(kfree(m2.list, m1.ptr), m2.ptr)
             m3 == kmalloc(f, s1)
             m4 == kmalloc(m3.list, s2)
         IN  m3.ptr = m1.ptr /\ m4.ptr = m2.ptr
<1> DEFINE l1 == kmalloc(bs, s1).list
           p1 == kmalloc(bs, s1).ptr
           l2 == kmalloc(l1, s2).list
           p2 == kmalloc(l1, s2).ptr
           e  == kfree(l2, p1)
           f  == kfree(e, p2)
           l3 == kmalloc(f, s1).list
<1> SUFFICES kmalloc(f, s1).ptr = p1 /\ kmalloc(l3, s2).ptr = p2
  BY Zenon
<1>1. WellFormed(l1) /\ Len(l1) >= Len(bs) /\ \E k \in 1 .. Len(l1) : GivesOut(bs, l1, p1, k, s1)
  BY KmallocChoice
<1> HIDE DEF l1, p1
<1>2. WellFormed(l2) /\ Len(l2) >= Len(l1) /\ \E k \in 1 .. Len(l2) : GivesOut(l1, l2, p2, k, s2)
  BY <1>1, KmallocChoice DEF l1
<1> HIDE DEF l2, p2
<1>3. PICK k1 \in 1 .. Len(l1) : GivesOut(bs, l1, p1, k1, s1)
  BY <1>1
<1>4. PICK k2 \in 1 .. Len(l2) : GivesOut(l1, l2, p2, k2, s2)
  BY <1>2
<1>5. /\ BLOCK_START(l1[k1]) = p1 /\ ~l1[k1].free /\ l1[k1].size >= s1
      /\ \A j \in 1 .. Len(l1) : j # k1 => j <= Len(bs) /\ l1[j] = bs[j]
      /\ \A j \in 1 .. k1 - 1 : ~Fits(bs[j], s1)
  BY <1>3, Zenon DEF GivesOut
<1>6. /\ BLOCK_START(l2[k2]) = p2 /\ ~l2[k2].free /\ l2[k2].size >= s2
      /\ k2 <= Len(l1) => l1[k2].free /\ l1[k2].addr = l2[k2].addr /\ l1[k2].size = l2[k2].size
      /\ \A j \in 1 .. Len(l2) : j # k2 => j <= Len(l1) /\ l2[j] = l1[j]
      /\ \A j \in 1 .. k2 - 1 : ~Fits(l1[j], s2)
  BY <1>4, Zenon DEF GivesOut
<1>7. Len(bs) \in Nat /\ Len(l1) \in Nat /\ Len(l2) \in Nat
  BY <1>1, <1>2, WellFormedFacts
<1>8. k1 # k2 /\ k1 \in 1 .. Len(l2) /\ l2[k1] = l1[k1]
  BY <1>2, <1>5, <1>6, <1>7
<1>9. /\ WellFormed(e) /\ Len(e) = Len(l2)
      /\ \A j \in 1 .. Len(l2) : BLOCK_START(l2[j]) # p1 => e[j] = l2[j]
      /\ \A j \in 1 .. Len(l2) : e[j].addr = l2[j].addr /\ e[j].size = l2[j].size
      /\ \A j \in 1 .. Len(l2) : BLOCK_START(l2[j]) = p1 => e[j].free
  BY <1>2, KfreeFacts
<1> HIDE DEF e
<1>10. /\ WellFormed(f) /\ Len(f) = Len(l2)
       /\ \A j \in 1 .. Len(l2) : BLOCK_START(e[j]) # p2 => f[j] = e[j]
       /\ \A j \in 1 .. Len(l2) : f[j].addr = e[j].addr /\ f[j].size = e[j].size
       /\ \A j \in 1 .. Len(l2) : BLOCK_START(e[j]) = p2 => f[j].free
  BY <1>9, KfreeFacts
<1> HIDE DEF f
<1>11. \A j \in 1 .. Len(l2) : j # k1 => BLOCK_START(l2[j]) # p1
  BY <1>2, <1>5, <1>8, StartsDistinct
<1>12. \A j \in 1 .. Len(l2) : BLOCK_START(e[j]) = BLOCK_START(l2[j])
  BY <1>9 DEF BLOCK_START
<1>13. \A j \in 1 .. Len(l2) : j # k2 => BLOCK_START(e[j]) # p2
  BY <1>2, <1>6, <1>12, StartsDistinct
<1>14. \A j \in 1 .. Len(l2) : f[j].addr = l2[j].addr /\ f[j].size = l2[j].size
  BY <1>9, <1>10
<1>15. \A j \in 1 .. Len(l2) : j # k1 /\ j # k2 => f[j] = l2[j] /\ l2[j] = l1[j] /\ j <= Len(l1)
  BY <1>6, <1>9, <1>10, <1>11, <1>13
<1>16. f[k1].free /\ f[k2].free
  <2>1. e[k1].free /\ f[k1] = e[k1]
    BY <1>5, <1>8, <1>9, <1>10, <1>13
  <2> QED BY <2>1, <1>6, <1>10, <1>12
<1>17. \A j \in 1 .. k1 - 1 : ~Fits(f[j], s1)
  <2>1. SUFFICES ASSUME NEW j \in 1 .. k1 - 1 PROVE ~Fits(f[j], s1)
    OBVIOUS
  <2>2. j \in 1 .. Len(l1) /\ j \in 1 .. Len(l2) /\ j # k1 /\ l1[j] = bs[j] /\ ~Fits(bs[j], s1)
    BY <1>2, <1>5, <1>7, <1>8
  <2>3. CASE j = k2
    BY <2>2, <2>3, <1>6, <1>7, <1>14 DEF Fits
  <2>4. CASE j # k2
    BY <2>2, <2>4, <1>15
  <2> QED BY <2>3, <2>4
<1>18. Fits(f[k1], s1) /\ k1 \in 1 .. Len(f) /\ BLOCK_START(f[k1]) = p1
  BY <1>5, <1>8, <1>10, <1>14, <1>16 DEF Fits, BLOCK_START
<1>19. /\ kmalloc(f, s1).ptr = p1
       /\ WellFormed(l3) /\ Len(l3) = Len(f) /\ ~l3[k1].free
       /\ \A j \in 1 .. Len(f) : j # k1 => l3[j] = f[j]
  <2>1. WellFormed(f)
    BY <1>10
  <2>2. /\ kmalloc(f, s1).ptr = BLOCK_START(f[k1])
        /\ WellFormed(l3) /\ Len(l3) = Len(f) /\ ~l3[k1].free
        /\ \A j \in 1 .. Len(f) : j # k1 => l3[j] = f[j]
    BY <2>1, <1>17, <1>18, GivenAgain, Zenon
  <2> QED BY <2>2, <1>18, Zenon
<1> HIDE DEF l3
<1>20. \A j \in 1 .. k2 - 1 : ~Fits(l3[j], s2)
  <2>1. SUFFICES ASSUME NEW j \in 1 .. k2 - 1 PROVE ~Fits(l3[j], s2)
    OBVIOUS
  <2>2. j \in 1 .. Len(l2) /\ j # k2 /\ ~Fits(l1[j], s2)
    BY <1>6, <1>7
  <2>3. CASE j = k1
    BY <2>3, <1>19 DEF Fits
  <2>4. CASE j # k1
    BY <2>2, <2>4, <1>10, <1>15, <1>19
  <2> QED BY <2>3, <2>4
<1>21. l3[k2] = f[k2] /\ k2 \in 1 .. Len(l3) /\ Fits(l3[k2], s2) /\ BLOCK_START(l3[k2]) = p2
  BY <1>6, <1>8, <1>10, <1>14, <1>16, <1>19 DEF Fits, BLOCK_START
<1>22. kmalloc(l3, s2).ptr = p2
  BY <1>19, <1>20, <1>21, GivenAgain
<1> QED BY <1>19, <1>22

-----------------------------------------------------------------------------
(* The inductive invariant: the list is ordered in memory, and every       *)
(* client holds a used block of its own that is large enough.              *)

Holds(c, bs, i) ==
  /\ BLOCK_START(bs[i]) = held[c].addr
  /\ ~bs[i].free
  /\ held[c].size <= bs[i].size

HeldBlocks ==
  \A c \in Clients : held[c] # Nothing => \E i \in 1 .. Len(blocks) : Holds(c, blocks, i)

HeldDistinct ==
  \A c, d \in Clients :
    c # d /\ held[c] # Nothing /\ held[d] # Nothing => held[c].addr # held[d].addr

HeapInv ==
  /\ HeapTypeOK
  /\ WellFormed(blocks)
  /\ HeldBlocks
  /\ HeldDistinct

LEMMA NothingFacts ==
  \A a \in Nat, n \in Nat : [addr |-> a, size |-> n] # Nothing
BY HeapAssumption DEF Nothing

LEMMA HeapInitInv == HeapInit => HeapInv
<1> SUFFICES ASSUME HeapInit PROVE HeapInv
  OBVIOUS
<1> DEFINE root == [addr |-> HEAP_START, size |-> 0, free |-> TRUE]
<1>1. blocks = <<root>> /\ panicked = FALSE /\ held = [c \in Clients |-> Nothing]
  BY DEF HeapInit, kinit_heap
<1>2. root \in Block
  BY HeapAssumption DEF Block
<1> HIDE DEF root
<1>3. blocks \in Seq(Block) /\ Len(blocks) = 1
  BY <1>1, <1>2
<1>4. WellFormed(blocks)
  BY <1>3 DEF WellFormed, Ordered
<1>5. HeapTypeOK
  BY <1>1, <1>3 DEF HeapTypeOK, Block
<1> QED BY <1>1, <1>4, <1>5 DEF HeapInv, HeldBlocks, HeldDistinct

(* What a held pointer is. *)
LEMMA HeldFacts ==
  ASSUME HeapTypeOK, NEW c \in Clients, held[c] # Nothing
  PROVE  held[c].addr \in Nat /\ held[c].size \in Nat
BY DEF HeapTypeOK

LEMMA PanicInv == HeapInv /\ Panic => HeapInv'
BY DEF Panic, HeapInv, HeapTypeOK, HeldBlocks, HeldDistinct, Holds

(* A pointer kmalloc returns is held by nobody else, and the blocks the    *)
(* others hold stay as they are.                                           *)
LEMMA KmallocFresh ==
  ASSUME HeapInv, NEW size \in Nat, NEW d \in Clients, held[d] # Nothing,
         kmalloc(blocks, size).ptr # NULL
  PROVE  LET m == kmalloc(blocks, size)
         IN  /\ held[d].addr # m.ptr
             /\ \E i \in 1 .. Len(m.list) : Holds(d, m.list, i)
<1> DEFINE l == kmalloc(blocks, size).list
           p == kmalloc(blocks, size).ptr
<1>1. /\ WellFormed(blocks) /\ WellFormed(l)
      /\ Len(l) >= Len(blocks) /\ Len(l) \in Nat /\ Len(blocks) \in Nat
  BY KmallocFacts, WellFormedFacts DEF HeapInv
<1>2. PICK k \in 1 .. Len(l) :
        /\ BLOCK_START(l[k]) = p
        /\ ~l[k].free /\ l[k].size >= size
        /\ k <= Len(blocks) => blocks[k].free
        /\ \A j \in 1 .. Len(l) : j # k => j <= Len(blocks) /\ l[j] = blocks[j]
  BY KmallocFacts DEF HeapInv
<1>3. PICK i \in 1 .. Len(blocks) : Holds(d, blocks, i)
  BY DEF HeapInv, HeldBlocks
<1> HIDE DEF l, p
<1>4. i # k
  BY <1>2, <1>3, <1>1 DEF Holds
<1>5. i \in 1 .. Len(l) /\ l[i] = blocks[i]
  BY <1>1, <1>2, <1>4
<1>6. Holds(d, l, i)
  BY <1>3, <1>5 DEF Holds
<1>7. BLOCK_START(l[i]) # BLOCK_START(l[k])
  BY <1>1, <1>4, <1>5, StartsDistinct
<1>8. held[d].addr # p
  BY <1>2, <1>6, <1>7 DEF Holds
<1> QED BY <1>5, <1>6, <1>8 DEF l, p

LEMMA AllocateInv ==
  ASSUME HeapInv, NEW c \in Clients, NEW size \in Sizes, Allocate(c, size)
  PROVE  HeapInv'
<1> DEFINE l == kmalloc(blocks, size).list
           p == kmalloc(blocks, size).ptr
<1>0. size \in Nat
  BY HeapAssumption
<1>1. CASE Panic
  BY <1>1, PanicInv
<1>2. CASE /\ p # NULL /\ blocks' = l
           /\ held' = [held EXCEPT ![c] = [addr |-> p, size |-> size]]
           /\ UNCHANGED panicked
  <2>1. /\ WellFormed(l) /\ p \in Nat
        /\ \E k \in 1 .. Len(l) : BLOCK_START(l[k]) = p /\ ~l[k].free /\ l[k].size >= size
    BY <1>0, <1>2, KmallocFacts DEF HeapInv
  <2>2. ASSUME NEW d \in Clients, held[d] # Nothing
        PROVE  held[d].addr # p /\ \E i \in 1 .. Len(l) : Holds(d, l, i)
    BY <1>0, <1>2, <2>2, KmallocFresh
  <2> HIDE DEF l, p
  <2>3. /\ held'[c] = [addr |-> p, size |-> size]
        /\ \A d \in Clients : d # c => held'[d] = held[d]
    BY <1>2 DEF HeapInv, HeapTypeOK
  <2>4. HeapTypeOK'
    BY <1>0, <1>2, <2>1 DEF HeapInv, HeapTypeOK, WellFormed, Block
  <2>5. HeldBlocks'
    <3>1. SUFFICES ASSUME NEW d \in Clients, held'[d] # Nothing
                   PROVE  \E i \in 1 .. Len(l) :
                            /\ BLOCK_START(l[i]) = held'[d].addr
                            /\ ~l[i].free /\ held'[d].size <= l[i].size
      BY <1>2 DEF HeldBlocks, Holds
    <3>2. CASE d = c
      <4>1. held'[d].addr = p /\ held'[d].size = size
        BY <2>3, <3>2
      <4>2. PICK k \in 1 .. Len(l) : BLOCK_START(l[k]) = p /\ ~l[k].free /\ l[k].size >= size
        BY <2>1
      <4>3. l[k].size \in Nat
        BY <2>1, WellFormedFacts, BlockArith
      <4>4. size <= l[k].size
        BY <4>2, <4>3, <1>0
      <4> QED BY <4>1, <4>2, <4>4
    <3>3. CASE d # c
      BY <2>2, <2>3, <3>1, <3>3 DEF Holds
    <3> QED BY <3>2, <3>3
  <2>6. HeldDistinct'
    <3>1. \A d \in Clients : d # c /\ held'[d] # Nothing => held'[d].addr # p
      BY <2>2, <2>3
    <3>2. held'[c].addr = p
      BY <2>3
    <3> QED BY <2>3, <3>1, <3>2 DEF HeldDistinct, HeapInv
  <2> QED BY <1>2, <2>1, <2>4, <2>5, <2>6 DEF HeapInv
<1> QED BY <1>1, <1>2 DEF Allocate

LEMMA ReleaseInv ==
  ASSUME HeapInv, NEW c \in Clients, Release(c)
  PROVE  HeapInv'
<1> DEFINE p == held[c].addr
           l == kfree(blocks, p)
<1>1. CASE Panic
  BY <1>1, PanicInv
<1>2. CASE blocks' = l /\ held' = [held EXCEPT ![c] = Nothing] /\ UNCHANGED panicked
  <2>1. /\ WellFormed(l) /\ Len(l) = Len(blocks)
        /\ \A j \in 1 .. Len(blocks) : BLOCK_START(blocks[j]) # p => l[j] = blocks[j]
    BY KfreeFacts DEF HeapInv
  <2> HIDE DEF l
  <2>2. held'[c] = Nothing /\ \A d \in Clients : d # c => held'[d] = held[d]
    BY <1>2 DEF HeapInv, HeapTypeOK
  <2>3. held[c] # Nothing
    BY DEF Release
  <2>4. HeapTypeOK'
    BY <1>2, <2>1 DEF HeapInv, HeapTypeOK, WellFormed, Block
  <2>5. HeldBlocks'
    <3>1. SUFFICES ASSUME NEW d \in Clients, held'[d] # Nothing
                   PROVE  \E i \in 1 .. Len(l) :
                            /\ BLOCK_START(l[i]) = held'[d].addr
                            /\ ~l[i].free /\ held'[d].size <= l[i].size
      BY <1>2 DEF HeldBlocks, Holds
    <3>2. d # c /\ held[d] # Nothing /\ held'[d] = held[d] /\ held[d].addr # p
      BY <2>2, <2>3, <3>1 DEF HeapInv, HeldDistinct
    <3>3. PICK i \in 1 .. Len(blocks) : Holds(d, blocks, i)
      BY <3>2 DEF HeapInv, HeldBlocks
    <3>4. l[i] = blocks[i] /\ i \in 1 .. Len(l)
      BY <2>1, <3>2, <3>3 DEF Holds
    <3> QED BY <3>2, <3>3, <3>4 DEF Holds
  <2>6. HeldDistinct'
    BY <2>2 DEF HeldDistinct, HeapInv
  <2> QED BY <1>2, <2>1, <2>4, <2>5, <2>6 DEF HeapInv
<1> QED BY <1>1, <1>2 DEF Release

LEMMA ParseElfBufferInv ==
  ASSUME HeapInv, NEW size \in SegmentSizes, ParseElfBuffer(size)
  PROVE  HeapInv'
<1> DEFINE m == kmalloc(blocks, size).list
           p == kmalloc(blocks, size).ptr
           l == kfree(m, p)
<1>0. size \in Nat
  BY HeapAssumption
<1>1. CASE Panic
  BY <1>1, PanicInv
<1>2. CASE p # NULL /\ blocks' = l /\ UNCHANGED <<held, panicked>>
  <2>1. WellFormed(m)
    BY <1>0, <1>2, KmallocFacts DEF HeapInv
  <2>2. ASSUME NEW d \in Clients, held[d] # Nothing
        PROVE  held[d].addr # p /\ \E i \in 1 .. Len(m) : Holds(d, m, i)
    BY <1>0, <1>2, <2>2, KmallocFresh
  <2> HIDE DEF m, p
  <2>3. /\ WellFormed(l) /\ Len(l) = Len(m)
        /\ \A j \in 1 .. Len(m) : BLOCK_START(m[j]) # p => l[j] = m[j]
    BY <2>1, KfreeFacts
  <2> HIDE DEF l
  <2>4. HeapTypeOK'
    BY <1>2, <2>3 DEF HeapInv, HeapTypeOK, WellFormed, Block
  <2>5. HeldBlocks'
    <3>1. SUFFICES ASSUME NEW d \in Clients, held[d] # Nothing
                   PROVE  \E i \in 1 .. Len(l) :
                            /\ BLOCK_START(l[i]) = held[d].addr
                            /\ ~l[i].free /\ held[d].size <= l[i].size
      BY <1>2 DEF HeldBlocks, Holds
    <3>2. PICK i \in 1 .. Len(m) : Holds(d, m, i)
      BY <2>2, <3>1
    <3>3. l[i] = m[i] /\ i \in 1 .. Len(l)
      BY <2>2, <2>3, <3>1, <3>2 DEF Holds
    <3> QED BY <3>2, <3>3 DEF Holds
  <2>6. HeldDistinct'
    BY <1>2 DEF HeldDistinct, HeapInv
  <2> QED BY <1>2, <2>3, <2>4, <2>5, <2>6 DEF HeapInv
<1> QED BY <1>1, <1>2 DEF ParseElfBuffer

LEMMA HeapNextInv == HeapInv /\ [HeapNext]_heapVars => HeapInv'
<1> SUFFICES ASSUME HeapInv, [HeapNext]_heapVars PROVE HeapInv'
  OBVIOUS
<1>1. CASE \E c \in Clients, size \in Sizes : Allocate(c, size)
  BY <1>1, AllocateInv
<1>2. CASE \E c \in Clients : Release(c)
  BY <1>2, ReleaseInv
<1>3. CASE \E size \in SegmentSizes : ParseElfBuffer(size)
  BY <1>3, ParseElfBufferInv
<1>4. CASE UNCHANGED heapVars
  BY <1>4 DEF heapVars, HeapInv, HeapTypeOK, HeldBlocks, HeldDistinct, Holds
<1> QED BY <1>1, <1>2, <1>3, <1>4 DEF HeapNext

(* The inductive invariant holds in every reachable state. *)
THEOREM HeapInvariant == HeapSpec => []HeapInv
BY HeapInitInv, HeapNextInv, PTL DEF HeapSpec

(* Every header kmalloc creates starts inside the heap. *)
THEOREM HeapTypeCorrect == HeapSpec => []HeapTypeOK
<1>1. HeapInv => HeapTypeOK
  BY DEF HeapInv
<1> QED BY <1>1, HeapInvariant, PTL

(* The memory of a client lies inside the block it holds, behind the       *)
(* header; hence it meets neither another client's memory nor a header.    *)
THEOREM HeapIsSafe == HeapSpec => []AllocationsDisjoint
<1>1. HeapInv => AllocationsDisjoint
  <2> SUFFICES ASSUME HeapInv PROVE AllocationsDisjoint
    OBVIOUS
  <2>0. WellFormed(blocks) /\ HEADERSIZE \in Nat /\ HEADERSIZE > 0
    BY HeapAssumption DEF HeapInv
  <2>1. ASSUME NEW c \in Clients, held[c] # Nothing
        PROVE  \E i \in 1 .. Len(blocks) :
                 /\ held[c].addr = blocks[i].addr + HEADERSIZE
                 /\ held[c].addr \in Nat /\ held[c].size \in Nat
                 /\ held[c].addr + held[c].size <= NEXT_BLOCK(blocks[i])
    <3>1. PICK i \in 1 .. Len(blocks) : Holds(c, blocks, i)
      BY <2>1 DEF HeapInv, HeldBlocks
    <3>2. held[c].addr \in Nat /\ held[c].size \in Nat
      BY <2>1, HeldFacts DEF HeapInv
    <3>3. /\ blocks[i].addr \in Nat /\ blocks[i].size \in Nat
          /\ BLOCK_START(blocks[i]) = blocks[i].addr + HEADERSIZE
          /\ NEXT_BLOCK(blocks[i]) = blocks[i].addr + HEADERSIZE + blocks[i].size
      BY <2>0, WellFormedFacts, BlockArith
    <3>4. held[c].addr = blocks[i].addr + HEADERSIZE /\ held[c].size <= blocks[i].size
      BY <3>1, <3>3 DEF Holds
    <3>5. held[c].addr + held[c].size <= NEXT_BLOCK(blocks[i])
      BY <2>0, <3>2, <3>3, <3>4
    <3> QED BY <3>2, <3>4, <3>5
  <2>2. ASSUME NEW i \in 1 .. Len(blocks), NEW j \in 1 .. Len(blocks), i # j
        PROVE  /\ blocks[i].addr \in Nat /\ blocks[j].addr \in Nat
               /\ NEXT_BLOCK(blocks[i]) \in Nat /\ NEXT_BLOCK(blocks[j]) \in Nat
               /\ \/ NEXT_BLOCK(blocks[i]) <= blocks[j].addr
                  \/ NEXT_BLOCK(blocks[j]) <= blocks[i].addr
    <3>1. Len(blocks) \in Nat /\ blocks[i] \in Block /\ blocks[j] \in Block
      BY <2>0, WellFormedFacts
    <3>2. i < j \/ j < i
      BY <2>2, <3>1
    <3> QED BY <2>0, <3>1, <3>2, BlockArith DEF WellFormed, Ordered
  <2>3. ASSUME NEW c \in Clients, NEW d \in Clients, c # d
        PROVE  Bytes(c) \cap Bytes(d) = {}
    <3>1. SUFFICES ASSUME held[c] # Nothing, held[d] # Nothing
                   PROVE  Bytes(c) \cap Bytes(d) = {}
      BY DEF Bytes
    <3>2. PICK i \in 1 .. Len(blocks) :
            /\ held[c].addr = blocks[i].addr + HEADERSIZE
            /\ held[c].addr \in Nat /\ held[c].size \in Nat
            /\ held[c].addr + held[c].size <= NEXT_BLOCK(blocks[i])
      BY <2>1, <3>1
    <3>3. PICK j \in 1 .. Len(blocks) :
            /\ held[d].addr = blocks[j].addr + HEADERSIZE
            /\ held[d].addr \in Nat /\ held[d].size \in Nat
            /\ held[d].addr + held[d].size <= NEXT_BLOCK(blocks[j])
      BY <2>1, <3>1
    <3>4. i # j
      BY <2>3, <3>1, <3>2, <3>3 DEF HeapInv, HeldDistinct
    <3>5. /\ blocks[i].addr \in Nat /\ blocks[j].addr \in Nat
          /\ NEXT_BLOCK(blocks[i]) \in Nat /\ NEXT_BLOCK(blocks[j]) \in Nat
          /\ \/ NEXT_BLOCK(blocks[i]) <= blocks[j].addr
             \/ NEXT_BLOCK(blocks[j]) <= blocks[i].addr
      BY <2>2, <3>4
    <3>6. /\ Bytes(c) = held[c].addr .. held[c].addr + held[c].size - 1
          /\ Bytes(d) = held[d].addr .. held[d].addr + held[d].size - 1
      BY <3>1, Zenon DEF Bytes
    <3> DEFINE p == held[c].addr  n == held[c].size
               q == held[d].addr  m == held[d].size
               bi == blocks[i].addr  ei == NEXT_BLOCK(blocks[i])
               bj == blocks[j].addr  ej == NEXT_BLOCK(blocks[j])
    <3>7. /\ p \in Nat /\ n \in Nat /\ p = bi + HEADERSIZE /\ p + n <= ei
          /\ q \in Nat /\ m \in Nat /\ q = bj + HEADERSIZE /\ q + m <= ej
          /\ bi \in Nat /\ bj \in Nat /\ ei \in Nat /\ ej \in Nat
          /\ ei <= bj \/ ej <= bi
      BY <3>2, <3>3, <3>5, Zenon
    <3> HIDE DEF p, n, q, m, bi, bj, ei, ej
    <3>8. (p .. p + n - 1) \cap (q .. q + m - 1) = {}
      BY <3>7, <2>0
    <3> QED BY <3>6, <3>8, Zenon DEF p, n, q, m
  <2>4. ASSUME NEW c \in Clients, NEW j \in 1 .. Len(blocks)
        PROVE  Bytes(c) \cap HeaderBytes(blocks[j]) = {}
    <3>1. SUFFICES ASSUME held[c] # Nothing
                   PROVE  Bytes(c) \cap HeaderBytes(blocks[j]) = {}
      BY DEF Bytes
    <3>2. PICK i \in 1 .. Len(blocks) :
            /\ held[c].addr = blocks[i].addr + HEADERSIZE
            /\ held[c].addr \in Nat /\ held[c].size \in Nat
            /\ held[c].addr + held[c].size <= NEXT_BLOCK(blocks[i])
      BY <2>1, <3>1
    <3>3. /\ blocks[j].addr \in Nat /\ blocks[j].size \in Nat
          /\ NEXT_BLOCK(blocks[j]) = blocks[j].addr + HEADERSIZE + blocks[j].size
      BY <2>0, WellFormedFacts, BlockArith
    <3>4. /\ blocks[i].addr \in Nat
          /\ NEXT_BLOCK(blocks[i]) \in Nat /\ NEXT_BLOCK(blocks[j]) \in Nat
          /\ blocks[j].addr + HEADERSIZE <= NEXT_BLOCK(blocks[j])
      <4>1. blocks[i] \in Block /\ blocks[j] \in Block
        BY <2>0, WellFormedFacts
      <4>2. blocks[i].addr \in Nat /\ NEXT_BLOCK(blocks[i]) \in Nat
            /\ NEXT_BLOCK(blocks[j]) \in Nat
        BY <4>1, BlockArith
      <4>3. blocks[j].addr + HEADERSIZE <= NEXT_BLOCK(blocks[j])
        BY <3>3, <2>0
      <4> QED BY <4>2, <4>3
    <3>5. \/ blocks[i].addr = blocks[j].addr
          \/ NEXT_BLOCK(blocks[i]) <= blocks[j].addr
          \/ NEXT_BLOCK(blocks[j]) <= blocks[i].addr
      BY <2>2, Zenon
    <3>6. /\ Bytes(c) = held[c].addr .. held[c].addr + held[c].size - 1
          /\ HeaderBytes(blocks[j]) = blocks[j].addr .. blocks[j].addr + HEADERSIZE - 1
      BY <3>1, Zenon DEF Bytes, HeaderBytes
    <3> DEFINE p == held[c].addr  n == held[c].size
               bi == blocks[i].addr  ei == NEXT_BLOCK(blocks[i])
               bj == blocks[j].addr  ej == NEXT_BLOCK(blocks[j])
    <3>7. /\ p \in Nat /\ n \in Nat /\ p = bi + HEADERSIZE /\ p + n <= ei
          /\ bi \in Nat /\ bj \in Nat /\ ei \in Nat /\ ej \in Nat
          /\ bj + HEADERSIZE <= ej
          /\ bi = bj \/ ei <= bj \/ ej <= bi
      BY <3>2, <3>3, <3>4, <3>5, Zenon
    <3> HIDE DEF p, n, bi, bj, ei, ej
    <3>8. (p .. p + n - 1) \cap (bj .. bj + HEADERSIZE - 1) = {}
      BY <3>7, <2>0
    <3> QED BY <3>6, <3>8, Zenon DEF p, n, bj
  <2> QED BY <2>3, <2>4 DEF AllocationsDisjoint
<1> QED BY <1>1, HeapInvariant, PTL

(* selfTest passes in every state of the heap, for any two sizes.          *)
THEOREM HeapSelfTest == HeapSpec => []SelfTestPasses
<1>1. HeapInv => SelfTestPasses
  <2> SUFFICES ASSUME HeapInv, NEW s1 \in Sizes, NEW s2 \in Sizes,
                      kmalloc(blocks, s1).ptr # NULL,
                      kmalloc(kmalloc(blocks, s1).list, s2).ptr # NULL
               PROVE  LET m1 == kmalloc(blocks, s1)
                          m2 == kmalloc(m1.list, s2)
                          f  == kfree(kfree(m2.list, m1.ptr), m2.ptr)
                          m3 == kmalloc(f, s1)
                          m4 == kmalloc(m3.list, s2)
                      IN  m3.ptr = m1.ptr /\ m4.ptr = m2.ptr
    BY Zenon DEF SelfTestPasses
  <2>1. WellFormed(blocks) /\ s1 \in Nat /\ s2 \in Nat
    BY HeapAssumption DEF HeapInv
  <2> QED BY <2>1, RoundTrip
<1> QED BY <1>1, HeapInvariant, PTL

-----------------------------------------------------------------------------
(* A request for 0 bytes is always answered by the root block, because     *)
(* nobody can hold it: every client asks for at least one byte.            *)

RootFree == blocks[1].size = 0 /\ blocks[1].free

LEMMA RootStays ==
  ASSUME HeapInv, RootFree, [HeapNext]_heapVars
  PROVE  RootFree'
<1>0. WellFormed(blocks) /\ 1 \in 1 .. Len(blocks) /\ Len(blocks) \in Nat
  BY WellFormedFacts DEF HeapInv
<1>1. ASSUME NEW c \in Clients, NEW size \in Sizes, Allocate(c, size)
      PROVE  RootFree'
  <2> DEFINE l == kmalloc(blocks, size).list
             p == kmalloc(blocks, size).ptr
  <2>1. size \in Nat /\ size > 0
    BY HeapAssumption
  <2>2. CASE Panic
    BY <2>2 DEF Panic, RootFree
  <2>3. CASE p # NULL /\ blocks' = l
    <3>1. PICK k \in 1 .. Len(l) : GivesOut(blocks, l, p, k, size)
      BY <2>1, <2>3, <1>0, KmallocChoice
    <3>2. Len(l) >= Len(blocks) /\ WellFormed(l) /\ Len(l) \in Nat
      BY <2>1, <2>3, <1>0, KmallocChoice, WellFormedFacts
    <3> HIDE DEF l, p
    <3>3. /\ l[k].size >= size
          /\ k <= Len(blocks) => blocks[k].size = l[k].size
          /\ \A j \in 1 .. Len(l) : j # k => l[j] = blocks[j]
      BY <3>1, Zenon DEF GivesOut
    <3>4. k # 1
      BY <3>3, <2>1, <1>0 DEF RootFree
    <3>5. l[1] = blocks[1]
      BY <3>2, <3>3, <3>4, <1>0
    <3> QED BY <3>5, <2>3 DEF RootFree
  <2> QED BY <1>1, <2>2, <2>3 DEF Allocate
<1>2. ASSUME NEW c \in Clients, Release(c)
      PROVE  RootFree'
  <2> DEFINE p == held[c].addr
             l == kfree(blocks, p)
  <2>1. CASE Panic
    BY <2>1 DEF Panic, RootFree
  <2>2. CASE blocks' = l
    <3>1. /\ BLOCK_START(blocks[1]) # p => l[1] = blocks[1]
          /\ l[1].size = blocks[1].size
          /\ BLOCK_START(blocks[1]) = p => l[1].free
      BY <1>0, KfreeFacts
    <3> HIDE DEF l
    <3> QED BY <3>1, <2>2 DEF RootFree
  <2> QED BY <1>2, <2>1, <2>2 DEF Release
<1>3. ASSUME NEW size \in SegmentSizes, ParseElfBuffer(size)
      PROVE  RootFree'
  <2> DEFINE m == kmalloc(blocks, size).list
             p == kmalloc(blocks, size).ptr
             l == kfree(m, p)
  <2>1. size \in Nat
    BY HeapAssumption
  <2>2. CASE Panic
    BY <2>2 DEF Panic, RootFree
  <2>3. CASE p # NULL /\ blocks' = l
    <3>1. PICK k \in 1 .. Len(m) : GivesOut(blocks, m, p, k, size)
      BY <2>1, <2>3, <1>0, KmallocChoice
    <3>2. Len(m) >= Len(blocks) /\ WellFormed(m) /\ Len(m) \in Nat
      BY <2>1, <2>3, <1>0, KmallocChoice, WellFormedFacts
    <3> HIDE DEF m, p
    <3>3. /\ BLOCK_START(m[k]) = p
          /\ k <= Len(blocks) => blocks[k].size = m[k].size
          /\ \A j \in 1 .. Len(m) : j # k => m[j] = blocks[j]
      BY <3>1, Zenon DEF GivesOut
    <3>4. 1 \in 1 .. Len(m)
      BY <3>2, <1>0
    <3>5. /\ BLOCK_START(m[1]) # p => l[1] = m[1]
          /\ l[1].size = m[1].size
          /\ BLOCK_START(m[1]) = p => l[1].free
      BY <3>2, <3>4, KfreeFacts
    <3> HIDE DEF l
    <3>6. CASE k = 1
      BY <3>3, <3>5, <3>6, <2>3, <1>0 DEF RootFree
    <3>7. CASE k # 1
      BY <3>3, <3>4, <3>5, <3>7, <2>3 DEF RootFree
    <3> QED BY <3>6, <3>7
  <2> QED BY <1>3, <2>2, <2>3 DEF ParseElfBuffer
<1>4. CASE UNCHANGED heapVars
  BY <1>4 DEF heapVars, RootFree
<1> QED BY <1>1, <1>2, <1>3, <1>4 DEF HeapNext

(* ParseElf may ask for 0 bytes at any time: kmalloc never falls through   *)
(* to kcreateBlock with size 0.                                            *)
THEOREM HeapZeroSize == HeapSpec => []ZeroSizeFits
<1>1. HeapInit => RootFree
  BY DEF HeapInit, kinit_heap, RootFree
<1>2. HeapInv /\ RootFree => ZeroSizeFits
  <2> SUFFICES ASSUME HeapInv, RootFree PROVE ZeroSizeFits
    OBVIOUS
  <2>1. WellFormed(blocks) /\ 1 \in 1 .. Len(blocks) /\ 0 \in Nat
    BY WellFormedFacts DEF HeapInv
  <2>2. Fits(blocks[1], 0)
    BY DEF Fits, RootFree
  <2> QED BY <2>1, <2>2, FirstFitFacts DEF ZeroSizeFits
<1>3. HeapInv /\ RootFree /\ [HeapNext]_heapVars => RootFree'
  BY RootStays
<1> QED BY <1>1, <1>2, <1>3, HeapInvariant, PTL DEF HeapSpec
=============================================================================

--------------------------- MODULE MessageProofs ---------------------------
(***************************************************************************)
(* The linked lists of message.c implement the queues of Mailbox, for any  *)
(* number of processes, nodes and messages.                                *)
(*                                                                         *)
(* The invariant speaks of the lists without walking them: there is a      *)
(* sequence of nodes for every process to which the pointers correspond.   *)
(* That PathFrom, which is recursive, finds this sequence is proved from   *)
(* the well-foundedness of the natural numbers.                            *)
(***************************************************************************)
EXTENDS Message, TLAPS, WellFoundedInduction, SequenceTheorems, FiniteSetTheorems

Owners == alive \cup graves

(* The life of a process: unborn, alive, dead, its memory used again. *)
LivesApart ==
  /\ alive \cap graves = {}
  /\ unborn \cap (alive \cup graves) = {}
  /\ Boot \cap unborn = {}
  /\ \A p \in unborn : first[p] = NULL

Lists == [Pids -> Seq(Nodes)]

(* The list of a process starts at first. *)
Heads(L) ==
  \A p \in Pids :
    /\ p \notin Owners => Len(L[p]) = 0
    /\ p \in Owners /\ Len(L[p]) = 0 => first[p] \in {NULL, WILD}
    /\ p \in Owners /\ Len(L[p]) > 0 => first[p] = L[p][1]

(* next and prev lead from each node of a list to its neighbours. *)
Links(L) ==
  \A p \in Pids : \A k \in 1 .. Len(L[p]) :
    /\ next[L[p][k]] = IF k = Len(L[p]) THEN NULL ELSE L[p][k + 1]
    /\ prev[L[p][k]] = IF k = 1 THEN NULL ELSE L[p][k - 1]

(* No node occurs twice. *)
Apart(L) ==
  \A p, q \in Pids : \A i \in 1 .. Len(L[p]), j \in 1 .. Len(L[q]) :
    L[p][i] = L[q][j] => p = q /\ i = j

(* The allocated nodes are those of the lists. *)
Allocated(L) ==
  /\ \A p \in Pids : \A k \in 1 .. Len(L[p]) : L[p][k] \in used
  /\ \A n \in used : \E p \in Pids : \E k \in 1 .. Len(L[p]) : L[p][k] = n

Counted(L) ==
  \A p \in alive : num[p] <= Len(L[p]) /\ (p \in Boot => num[p] = Len(L[p]))

Represents(L) ==
  /\ MessageTypeOK /\ LivesApart
  /\ L \in Lists
  /\ Heads(L) /\ Links(L) /\ Apart(L) /\ Allocated(L) /\ Counted(L)

MessageInv == \E L \in Lists : Represents(L)

-----------------------------------------------------------------------------
(* What walking a list finds.                                              *)

LEMMA LeastElement ==
  ASSUME NEW S \in SUBSET Nat, S # {}
  PROVE  \E x \in S : \A y \in S : x <= y
<1>1. PICK x \in S : \A y \in S : ~(<<y, x>> \in OpToRel(<, Nat))
  BY NatLessThanWellFounded, WFMin, Zenon
<1>2. \A y \in S : x <= y
  <2>1. SUFFICES ASSUME NEW y \in S, ~(x <= y) PROVE FALSE
    OBVIOUS
  <2>2. y \in Nat /\ x \in Nat /\ y < x
    BY <2>1
  <2>3. <<y, x>> \in OpToRel(<, Nat)
    BY <2>2 DEF OpToRel
  <2> QED BY <2>3, <1>1
<1> QED BY <1>2

LEMMA IntervalSize ==
  ASSUME NEW n \in Nat
  PROVE  Cardinality(1 .. n) = n /\ Cardinality(0 .. n - 1) = n
<1>1. 1 \in Int /\ n \in Int /\ 0 \in Int /\ n - 1 \in Int
  OBVIOUS
<1>2. Cardinality(1 .. n) = IF 1 > n THEN 0 ELSE n - 1 + 1
  BY <1>1, FS_Interval, Zenon
<1>3. Cardinality(0 .. n - 1) = IF 0 > n - 1 THEN 0 ELSE (n - 1) - 0 + 1
  BY <1>1, FS_Interval, Zenon
<1> QED BY <1>2, <1>3

LEMMA ListFacts ==
  ASSUME NEW L \in Lists, NEW p \in Pids
  PROVE  /\ L[p] \in Seq(Nodes) /\ Len(L[p]) \in Nat /\ DOMAIN L[p] = 1 .. Len(L[p])
         /\ \A k \in 1 .. Len(L[p]) : L[p][k] \in Nodes
<1>1. L[p] \in Seq(Nodes)
  BY DEF Lists
<1> QED BY <1>1, LenProperties, ElementOfSeq

(* There are not more nodes in a list than nodes. *)
LEMMA ListFits ==
  ASSUME NEW L \in Lists, Apart(L), NEW p \in Pids
  PROVE  Cardinality(Nodes) \in Nat /\ Len(L[p]) <= Cardinality(Nodes)
<1>1. /\ L[p] \in Seq(Nodes) /\ Len(L[p]) \in Nat
      /\ L[p] \in [1 .. Len(L[p]) -> Nodes]
  BY ListFacts, LenProperties
<1>2. L[p] \in Injection(1 .. Len(L[p]), Nodes)
  BY <1>1 DEF Apart, Injection, IsInjective
<1>3. IsFiniteSet(Nodes)
  BY MessageAssumption
<1>4. Cardinality(1 .. Len(L[p])) <= Cardinality(Nodes) /\ Cardinality(Nodes) \in Nat
  BY <1>2, <1>3, FS_Injection, FS_CardinalityType
<1>5. Cardinality(1 .. Len(L[p])) = Len(L[p])
  BY <1>1, IntervalSize
<1> QED BY <1>4, <1>5

(* The walk finds the nodes of the list, one after the other, and then     *)
(* NULL.                                                                   *)
LEMMA WalkFindsList ==
  ASSUME NEW L, Represents(L), NEW p \in Owners
  PROVE  /\ DOMAIN PathFrom(Start(p)) = 0 .. Cardinality(Nodes)
         /\ \A k \in 0 .. Cardinality(Nodes) :
              PathFrom(Start(p))[k] = IF k < Len(L[p]) THEN L[p][k + 1] ELSE NULL
<1> DEFINE N == Cardinality(Nodes)
           l == L[p]
           s == Start(p)
           P == PathFrom(s)
           g == [k \in 0 .. N |-> IF k < Len(l) THEN l[k + 1] ELSE NULL]
<1>0. p \in Pids /\ L \in Lists
  BY DEF Represents, MessageTypeOK, Owners
<1>1. N \in Nat /\ Len(l) <= N /\ Len(l) \in Nat /\ \A k \in 1 .. Len(l) : l[k] \in Nodes
  BY <1>0, ListFits, ListFacts DEF Represents
<1>2. s = IF 0 < Len(l) THEN l[1] ELSE NULL
  <2>1. /\ Len(l) = 0 => first[p] \in {NULL, WILD}
        /\ Len(l) > 0 => first[p] = l[1]
    BY <1>0 DEF Represents, Heads
  <2>2. Len(l) > 0 => l[1] # WILD
    BY <1>1, MessageAssumption
  <2> QED BY <2>1, <2>2, <1>1 DEF Start
<1>3. \A k \in 1 .. Len(l) : next[l[k]] = IF k = Len(l) THEN NULL ELSE l[k + 1]
  BY <1>0 DEF Represents, Links
<1>4. P = CHOOSE f : f = [k \in 0 .. N |->
                            IF k = 0 THEN s
                            ELSE IF f[k - 1] = NULL THEN NULL ELSE next[f[k - 1]]]
  BY Zenon DEF PathFrom
<1> HIDE DEF N, l, s, P
<1>5. g = [k \in 0 .. N |-> IF k = 0 THEN s
                           ELSE IF g[k - 1] = NULL THEN NULL ELSE next[g[k - 1]]]
  <2>1. ASSUME NEW k \in 0 .. N
        PROVE  g[k] = IF k = 0 THEN s
                      ELSE IF g[k - 1] = NULL THEN NULL ELSE next[g[k - 1]]
    <3>1. CASE k = 0
      BY <3>1, <1>1, <1>2
    <3>2. CASE k # 0
      <4>1. k - 1 \in 0 .. N /\ (k - 1) + 1 = k
        BY <3>2, <1>1
      <4>2. g[k - 1] = IF k - 1 < Len(l) THEN l[k] ELSE NULL
        BY <4>1
      <4>3. g[k] = IF k < Len(l) THEN l[k + 1] ELSE NULL
        OBVIOUS
      <4> HIDE DEF g
      <4>4. CASE k - 1 < Len(l)
        <5>1. k \in 1 .. Len(l) /\ l[k] # NULL
          BY <4>1, <4>4, <3>2, <1>1, MessageAssumption
        <5>2. next[l[k]] = IF k = Len(l) THEN NULL ELSE l[k + 1]
          BY <5>1, <1>3
        <5> QED BY <5>1, <5>2, <4>2, <4>3, <4>4, <3>2, <1>1
      <4>5. CASE ~(k - 1 < Len(l))
        BY <4>2, <4>3, <4>5, <3>2, <1>1
      <4> QED BY <4>4, <4>5
    <3> QED BY <3>1, <3>2
  <2> QED BY <2>1
<1>6. P = [k \in 0 .. N |-> IF k = 0 THEN s
                           ELSE IF P[k - 1] = NULL THEN NULL ELSE next[P[k - 1]]]
  <2> HIDE DEF g
  <2> QED BY <1>4, <1>5, Zenon
<1>7. DOMAIN P = 0 .. N /\ \A k \in 0 .. N :
        P[k] = IF k = 0 THEN s ELSE IF P[k - 1] = NULL THEN NULL ELSE next[P[k - 1]]
  BY <1>6
<1>8. \A k \in 0 .. N :
        g[k] = IF k = 0 THEN s ELSE IF g[k - 1] = NULL THEN NULL ELSE next[g[k - 1]]
  <2> HIDE DEF g
  <2> QED BY <1>5
<1> DEFINE T == {k \in 0 .. N : P[k] # g[k]}
<1>9. T = {}
  <2>1. SUFFICES ASSUME T # {} PROVE FALSE
    OBVIOUS
  <2>2. T \in SUBSET Nat
    BY <1>1
  <2>3. PICK x \in T : \A y \in T : x <= y
    <3> HIDE DEF T
    <3> QED BY <2>1, <2>2, LeastElement
  <2> HIDE DEF g
  <2>4. x \in 0 .. N /\ P[x] # g[x]
    OBVIOUS
  <2>5. x # 0
    BY <2>4, <1>7, <1>8
  <2>6. x - 1 \in 0 .. N /\ ~(x <= x - 1)
    BY <2>4, <2>5, <1>1
  <2>7. P[x - 1] = g[x - 1]
    BY <2>3, <2>6
  <2> QED BY <2>4, <2>5, <2>7, <1>7, <1>8
<1>10. \A k \in 0 .. N : P[k] = g[k]
  BY <1>9
<1> QED BY <1>7, <1>10 DEF N, l, s, P

(* So ListOf is the list. *)
LEMMA ListOfIs ==
  \A L : Represents(L) =>
    \A p \in Owners : /\ ListOf(p) = L[p]
                       /\ PathFrom(Start(p))[Cardinality(Nodes)] = NULL
<1> SUFFICES ASSUME NEW L, Represents(L), NEW p \in Owners
             PROVE  ListOf(p) = L[p] /\ PathFrom(Start(p))[Cardinality(Nodes)] = NULL
  OBVIOUS
<1> DEFINE N == Cardinality(Nodes)
           P == PathFrom(Start(p))
           l == L[p]
           K == {k \in DOMAIN P : P[k] # NULL}
<1>0. p \in Pids /\ L \in Lists
  BY DEF Represents, MessageTypeOK, Owners
<1>1. /\ N \in Nat /\ Len(l) <= N /\ Len(l) \in Nat /\ l \in Seq(Nodes)
      /\ DOMAIN l = 1 .. Len(l) /\ \A k \in 1 .. Len(l) : l[k] \in Nodes
  BY <1>0, ListFits, ListFacts DEF Represents
<1>2. DOMAIN P = 0 .. N /\ \A k \in 0 .. N : P[k] = IF k < Len(l) THEN l[k + 1] ELSE NULL
  BY WalkFindsList
<1>3. ListOf(p) = [k \in 1 .. Cardinality(K) |-> P[k - 1]]
  BY Zenon DEF ListOf
<1> HIDE DEF N, P, l
<1>4. K = 0 .. Len(l) - 1
  <2>1. ASSUME NEW k \in 0 .. N PROVE P[k] # NULL <=> k < Len(l)
    <3>1. CASE k < Len(l)
      <4>1. k + 1 \in 1 .. Len(l)
        BY <3>1, <1>1
      <4> QED BY <4>1, <3>1, <1>1, <1>2, MessageAssumption
    <3>2. CASE ~(k < Len(l))
      BY <3>2, <1>2
    <3> QED BY <3>1, <3>2
  <2> QED BY <2>1, <1>1, <1>2
<1>5. Cardinality(K) = Len(l)
  <2>1. Cardinality(0 .. Len(l) - 1) = Len(l)
    BY <1>1, IntervalSize
  <2> QED BY <2>1, <1>4
<1> HIDE DEF K
<1>6. [k \in 1 .. Len(l) |-> P[k - 1]] = l
  <2>1. ASSUME NEW k \in 1 .. Len(l) PROVE P[k - 1] = l[k]
    <3>1. k - 1 \in 0 .. N /\ k - 1 < Len(l) /\ (k - 1) + 1 = k
      BY <1>1
    <3> QED BY <3>1, <1>2
  <2>2. l = [k \in 1 .. Len(l) |-> l[k]]
    BY <1>1
  <2> QED BY <2>1, <2>2
<1>7. P[N] = NULL
  BY <1>1, <1>2
<1> QED BY <1>3, <1>5, <1>6, <1>7 DEF N, P, l

-----------------------------------------------------------------------------
(* ksend_message appends a node to the list of the receiver.               *)

LEMMA StoreFacts ==
  ASSUME NEW f \in [Nodes -> Nodes \cup {NULL}], NEW ptr \in Nodes \cup {NULL},
         NEW v \in Nodes \cup {NULL}, NEW n \in Nodes, NEW w \in Nodes \cup {NULL}
  PROVE  /\ [Store(f, ptr, v) EXCEPT ![n] = w] \in [Nodes -> Nodes \cup {NULL}]
         /\ \A x \in Nodes : [Store(f, ptr, v) EXCEPT ![n] = w][x] =
                              IF x = n THEN w ELSE IF x = ptr THEN v ELSE f[x]
<1> DEFINE h == Store(f, ptr, v)
<1>1. h \in [Nodes -> Nodes \cup {NULL}] /\ \A x \in Nodes : h[x] = IF x = ptr THEN v ELSE f[x]
  <2>1. CASE ptr = NULL
    BY <2>1, MessageAssumption DEF Store
  <2>2. CASE ptr # NULL
    BY <2>2 DEF Store
  <2> QED BY <2>1, <2>2
<1> HIDE DEF h
<1>2. [h EXCEPT ![n] = w] \in [Nodes -> Nodes \cup {NULL}]
  BY <1>1
<1>3. \A x \in Nodes : [h EXCEPT ![n] = w][x] = IF x = n THEN w ELSE h[x]
  BY <1>1
<1>4. \A x \in Nodes : [h EXCEPT ![n] = w][x] =
                       IF x = n THEN w ELSE IF x = ptr THEN v ELSE f[x]
  BY <1>1, <1>3
<1> QED BY <1>2, <1>4 DEF h

TailOf(l) == IF Len(l) = 0 THEN NULL ELSE l[Len(l)]

(* ksend_message with the node n, in terms of the list. *)
Sends(L, s, r, n) ==
  /\ s \in alive /\ r \in alive /\ first[r] # WILD
  /\ n \in Nodes /\ n \notin used
  /\ used'  = used \cup {n}
  /\ first' = IF first[r] = NULL THEN [first EXCEPT ![r] = n] ELSE first
  /\ next'  = [Store(next, TailOf(L[r]), n) EXCEPT ![n] = NULL]
  /\ prev'  = [prev EXCEPT ![n] = TailOf(L[r])]
  /\ msg'   = [msg EXCEPT ![n] = [no |-> sends + 1, sender |-> s]]
  /\ num'   = [num EXCEPT ![r] = num[r] + 1]
  /\ sends' = sends + 1
  /\ UNCHANGED <<alive, unborn, graves, seen, broken>>

LEMMA SendAppends ==
  ASSUME NEW L, Represents(L), NEW s \in Pids, NEW r \in Pids, ksend_message(s, r)
  PROVE  \E n \in Nodes : Sends(L, s, r, n)
<1>0. r \in alive /\ r \in Owners /\ L \in Lists
  BY DEF ksend_message, Owners, Represents
<1>1. ListOf(r) = L[r]
  BY <1>0, ListOfIs
<1>2. /\ L[r] \in Seq(Nodes) /\ Len(L[r]) \in Nat /\ DOMAIN L[r] = 1 .. Len(L[r])
  BY <1>0, ListFacts
<1>3. Cardinality(DOMAIN L[r]) = Len(L[r])
  BY <1>2, IntervalSize
<1>4. L[r] = <<>> <=> Len(L[r]) = 0
  BY <1>2, EmptySeq
<1>5. (IF L[r] = <<>> THEN NULL ELSE L[r][Cardinality(DOMAIN L[r])]) = TailOf(L[r])
  BY <1>3, <1>4 DEF TailOf
<1>6. PICK n \in Nodes \ used :
        LET tail == IF L[r] = <<>> THEN NULL ELSE L[r][Cardinality(DOMAIN L[r])]
        IN  /\ used'  = used \cup {n}
            /\ first' = IF first[r] = NULL THEN [first EXCEPT ![r] = n] ELSE first
            /\ next'  = [Store(next, tail, n) EXCEPT ![n] = NULL]
            /\ prev'  = [prev EXCEPT ![n] = tail]
            /\ msg'   = [msg EXCEPT ![n] = [no |-> sends + 1, sender |-> s]]
  BY <1>1, Zenon DEF ksend_message
<1>7. /\ used'  = used \cup {n}
      /\ first' = IF first[r] = NULL THEN [first EXCEPT ![r] = n] ELSE first
      /\ next'  = [Store(next, TailOf(L[r]), n) EXCEPT ![n] = NULL]
      /\ prev'  = [prev EXCEPT ![n] = TailOf(L[r])]
      /\ msg'   = [msg EXCEPT ![n] = [no |-> sends + 1, sender |-> s]]
  BY <1>5, <1>6, Zenon
<1>8. /\ s \in alive /\ r \in alive /\ first[r] # WILD
      /\ num'   = [num EXCEPT ![r] = num[r] + 1]
      /\ sends' = sends + 1
      /\ UNCHANGED <<alive, unborn, graves, seen, broken>>
  BY DEF ksend_message
<1> QED BY <1>7, <1>8, Zenon DEF Sends

LEMMA SendRepresents ==
  ASSUME NEW L, Represents(L), NEW s \in Pids, NEW r \in Pids, NEW n \in Nodes,
         Sends(L, s, r, n)
  PROVE  Represents([L EXCEPT ![r] = Append(L[r], n)])'
<1> DEFINE l == L[r]
           m == Len(l)
           a == Append(l, n)
           M == [L EXCEPT ![r] = a]
           t == TailOf(l)
<1>0. L \in Lists /\ MessageTypeOK
  BY DEF Represents
<1>1. /\ l \in Seq(Nodes) /\ m \in Nat
      /\ \A k \in 1 .. m : l[k] \in Nodes
  BY <1>0, ListFacts
<1>2. /\ a \in Seq(Nodes) /\ Len(a) = m + 1
      /\ \A k \in 1 .. m : a[k] = l[k]
      /\ a[m + 1] = n
  BY <1>1, AppendProperties
<1>3. M \in Lists /\ M[r] = a /\ \A p \in Pids : p # r => M[p] = L[p]
  BY <1>0, <1>2 DEF Lists
<1>4. t = IF m = 0 THEN NULL ELSE l[m]
  BY DEF TailOf
<1>5. t \in Nodes \cup {NULL}
  BY <1>1, <1>4
<1>6. /\ \A p \in Pids : \A k \in 1 .. Len(L[p]) : L[p][k] # n /\ L[p][k] \in Nodes
      /\ n \notin used
  BY <1>0, ListFacts DEF Sends, Represents, Allocated
<1>7. /\ used' = used \cup {n} /\ num' = [num EXCEPT ![r] = num[r] + 1] /\ sends' = sends + 1
      /\ first' = IF first[r] = NULL THEN [first EXCEPT ![r] = n] ELSE first
      /\ UNCHANGED <<alive, unborn, graves>>
      /\ r \in alive /\ r \in Owners /\ first[r] # WILD /\ Owners' = Owners
  BY DEF Sends, Owners
<1>8. /\ next' \in [Nodes -> Nodes \cup {NULL}]
      /\ \A x \in Nodes : next'[x] = IF x = n THEN NULL ELSE IF x = t THEN n ELSE next[x]
  <2>1. next' = [Store(next, t, n) EXCEPT ![n] = NULL]
    BY DEF Sends
  <2>2. next \in [Nodes -> Nodes \cup {NULL}] /\ n \in Nodes \cup {NULL} /\ NULL \in Nodes \cup {NULL}
    BY <1>0 DEF MessageTypeOK
  <2> HIDE DEF t
  <2> DEFINE h == [Store(next, t, n) EXCEPT ![n] = NULL]
  <2>3. /\ h \in [Nodes -> Nodes \cup {NULL}]
        /\ \A x \in Nodes : h[x] = IF x = n THEN NULL ELSE IF x = t THEN n ELSE next[x]
    BY <2>2, <1>5, StoreFacts, Zenon
  <2> QED BY <2>1, <2>3, Zenon
<1>9. /\ prev' \in [Nodes -> Nodes \cup {NULL}]
      /\ \A x \in Nodes : prev'[x] = IF x = n THEN t ELSE prev[x]
  <2>1. prev' = [prev EXCEPT ![n] = t]
    BY DEF Sends
  <2> HIDE DEF t
  <2> QED BY <2>1, <1>0, <1>5 DEF MessageTypeOK
<1> HIDE DEF l, m, a, M, t
<1>10. MessageTypeOK'
  <2>1. [no |-> sends + 1, sender |-> s] \in [no : Nat, sender : Pids \cup {NULL}]
    BY <1>0 DEF MessageTypeOK
  <2>2. msg' \in [Nodes -> [no : Nat, sender : Pids \cup {NULL}]]
    <3> DEFINE e == [no |-> sends + 1, sender |-> s]
    <3>1. msg' = [msg EXCEPT ![n] = e]
      BY DEF Sends
    <3> HIDE DEF e
    <3> QED BY <2>1, <3>1, <1>0 DEF MessageTypeOK, e
  <2> QED BY <2>2, <1>0, <1>7, <1>8, <1>9 DEF MessageTypeOK
<1>11. LivesApart'
  BY <1>0, <1>7 DEF Represents, LivesApart, MessageTypeOK, Owners
<1>12. Heads(M)'
  <2>1. ASSUME NEW p \in Pids, p # r
        PROVE  first'[p] = first[p]
    BY <2>1, <1>0, <1>7 DEF MessageTypeOK
  <2>2. first'[r] = a[1]
    <3>1. CASE m = 0
      <4>1. first[r] = NULL
        BY <3>1, <1>7 DEF Represents, Heads, l, m
      <4> QED BY <4>1, <3>1, <1>0, <1>2, <1>7 DEF MessageTypeOK
    <3>2. CASE m # 0
      <4>1. first[r] = l[1] /\ 1 \in 1 .. m
        BY <3>2, <1>1, <1>7 DEF Represents, Heads, l, m
      <4>2. first[r] # NULL
        BY <4>1, <1>1, MessageAssumption
      <4> QED BY <4>1, <4>2, <1>2, <1>7
    <3> QED BY <3>1, <3>2
  <2>3. Len(a) > 0 /\ Len(a) # 0
    BY <1>1, <1>2
  <2>4. ASSUME NEW p \in Pids
        PROVE  /\ p \notin Owners => Len(M[p]) = 0
               /\ p \in Owners /\ Len(M[p]) = 0 => first'[p] \in {NULL, WILD}
               /\ p \in Owners /\ Len(M[p]) > 0 => first'[p] = M[p][1]
    <3>1. CASE p = r
      BY <3>1, <2>2, <2>3, <1>3, <1>7
    <3>2. CASE p # r
      BY <3>2, <2>1, <1>3 DEF Represents, Heads
    <3> QED BY <3>1, <3>2
  <2> QED BY <2>4, <1>7 DEF Heads
<1>13. Links(M)'
  <2>1. ASSUME NEW p \in Pids, NEW k \in 1 .. Len(M[p])
        PROVE  /\ next'[M[p][k]] = IF k = Len(M[p]) THEN NULL ELSE M[p][k + 1]
               /\ prev'[M[p][k]] = IF k = 1 THEN NULL ELSE M[p][k - 1]
    <3>1. CASE p # r
      <4>1. M[p] = L[p] /\ L[p][k] \in Nodes /\ L[p][k] # n
        BY <3>1, <2>1, <1>3, <1>6
      <4>2. L[p][k] # t
        <5>1. CASE m = 0
          BY <5>1, <4>1, <1>4, MessageAssumption
        <5>2. CASE m # 0
          <6>1. t = L[r][m] /\ m \in 1 .. Len(L[r])
            BY <5>2, <1>1, <1>4 DEF l, m
          <6> QED BY <6>1, <4>1, <3>1, <2>1 DEF Represents, Apart
        <5> QED BY <5>1, <5>2
      <4>3. /\ next[L[p][k]] = IF k = Len(L[p]) THEN NULL ELSE L[p][k + 1]
            /\ prev[L[p][k]] = IF k = 1 THEN NULL ELSE L[p][k - 1]
        BY <4>1, <2>1 DEF Represents, Links
      <4> QED BY <4>1, <4>2, <4>3, <1>8, <1>9
    <3>2. CASE p = r /\ k = m + 1
      <4>1. M[p] = a /\ Len(M[p]) = m + 1 /\ M[p][k] = n
        BY <3>2, <1>2, <1>3
      <4>2. next'[n] = NULL /\ prev'[n] = t
        BY <1>8, <1>9
      <4>3. t = IF k = 1 THEN NULL ELSE a[k - 1]
        <5>1. k - 1 = m /\ (k = 1 <=> m = 0)
          BY <3>2, <1>1
        <5>2. m # 0 => m \in 1 .. m
          BY <1>1
        <5> QED BY <5>1, <5>2, <1>2, <1>4
      <4> QED BY <4>1, <4>2, <4>3, <3>2
    <3>3. CASE p = r /\ k # m + 1
      <4>1. M[p] = a /\ Len(M[p]) = m + 1 /\ k \in 1 .. m /\ m \in 1 .. m
        BY <2>1, <3>3, <1>1, <1>2, <1>3
      <4>2. a[k] = l[k] /\ l[k] \in Nodes /\ l[k] # n /\ t = l[m]
        BY <4>1, <1>1, <1>2, <1>4, <1>6 DEF l, m
      <4>3. l[k] = l[m] => k = m
        BY <4>1 DEF Represents, Apart, l, m
      <4>4. /\ next[l[k]] = IF k = m THEN NULL ELSE l[k + 1]
            /\ prev[l[k]] = IF k = 1 THEN NULL ELSE l[k - 1]
        BY <4>1 DEF Represents, Links, l, m
      <4>5. next'[a[k]] = a[k + 1]
        <5>1. CASE k = m
          BY <5>1, <4>2, <1>2, <1>8
        <5>2. CASE k # m
          <6>1. k + 1 \in 1 .. m
            BY <5>2, <4>1, <1>1
          <6> QED BY <6>1, <5>2, <4>2, <4>3, <4>4, <1>2, <1>8
        <5> QED BY <5>1, <5>2
      <4>6. prev'[a[k]] = IF k = 1 THEN NULL ELSE a[k - 1]
        <5>1. k # 1 => k - 1 \in 1 .. m
          BY <4>1, <1>1
        <5> QED BY <5>1, <4>2, <4>4, <1>2, <1>9
      <4> QED BY <4>1, <4>5, <4>6, <3>3
    <3> QED BY <3>1, <3>2, <3>3
  <2> QED BY <2>1 DEF Links
<1>14. \A p \in Pids : \A k \in 1 .. Len(M[p]) :
         \/ k \in 1 .. Len(L[p]) /\ M[p][k] = L[p][k]
         \/ p = r /\ k = m + 1 /\ M[p][k] = n
  <2>1. ASSUME NEW p \in Pids, NEW k \in 1 .. Len(M[p])
        PROVE  \/ k \in 1 .. Len(L[p]) /\ M[p][k] = L[p][k]
               \/ p = r /\ k = m + 1 /\ M[p][k] = n
    <3>1. CASE p # r
      BY <3>1, <2>1, <1>3
    <3>2. CASE p = r
      <4>1. k \in 1 .. m \/ k = m + 1
        BY <3>2, <2>1, <1>1, <1>2, <1>3
      <4> QED BY <4>1, <3>2, <1>2, <1>3 DEF l, m
    <3> QED BY <3>1, <3>2
  <2> QED BY <2>1
<1>15. Apart(M)
  <2>1. ASSUME NEW p \in Pids, NEW q \in Pids,
               NEW i \in 1 .. Len(M[p]), NEW j \in 1 .. Len(M[q]), M[p][i] = M[q][j]
        PROVE  p = q /\ i = j
    <3>1. \/ i \in 1 .. Len(L[p]) /\ M[p][i] = L[p][i]
          \/ p = r /\ i = m + 1 /\ M[p][i] = n
      BY <1>14
    <3>2. \/ j \in 1 .. Len(L[q]) /\ M[q][j] = L[q][j]
          \/ q = r /\ j = m + 1 /\ M[q][j] = n
      BY <1>14
    <3> QED BY <3>1, <3>2, <2>1, <1>6 DEF Represents, Apart
  <2> QED BY <2>1 DEF Apart
<1>16. Allocated(M)'
  <2>1. \A p \in Pids : \A k \in 1 .. Len(M[p]) : M[p][k] \in used'
    BY <1>7, <1>14 DEF Represents, Allocated
  <2>2. ASSUME NEW x \in used'
        PROVE  \E p \in Pids : \E k \in 1 .. Len(M[p]) : M[p][k] = x
    <3>1. CASE x = n
      <4>1. m + 1 \in 1 .. Len(M[r]) /\ M[r][m + 1] = x
        BY <3>1, <1>1, <1>2, <1>3
      <4> QED BY <4>1
    <3>2. CASE x \in used
      <4>0. PICK p \in Pids : \E k \in 1 .. Len(L[p]) : L[p][k] = x
        BY <3>2 DEF Represents, Allocated
      <4>1. PICK k \in 1 .. Len(L[p]) : L[p][k] = x
        BY <4>0
      <4>2. k \in 1 .. Len(M[p]) /\ M[p][k] = x
        <5>1. CASE p = r
          <6>1. k \in 1 .. m
            BY <4>1, <5>1 DEF l, m
          <6>2. k \in 1 .. m + 1
            BY <6>1, <1>1
          <6> QED BY <6>1, <6>2, <5>1, <4>1, <1>2, <1>3 DEF l
        <5>2. CASE p # r
          BY <5>2, <4>1, <1>3
        <5> QED BY <5>1, <5>2
      <4> QED BY <4>2
    <3> QED BY <3>1, <3>2, <2>2, <1>7
  <2> QED BY <2>1, <2>2 DEF Allocated
<1>17. Counted(M)'
  <2>1. ASSUME NEW p \in alive
        PROVE  num'[p] <= Len(M[p]) /\ (p \in Boot => num'[p] = Len(M[p]))
    <3>0. p \in Pids /\ num[p] \in Nat /\ num[r] \in Nat
      BY <1>0 DEF MessageTypeOK
    <3>1. num[p] <= Len(L[p]) /\ (p \in Boot => num[p] = Len(L[p]))
      BY DEF Represents, Counted
    <3>2. CASE p = r
      <4>1. num'[p] = num[p] + 1 /\ Len(M[p]) = m + 1 /\ Len(L[p]) = m
        BY <3>0, <3>2, <1>0, <1>2, <1>3, <1>7 DEF MessageTypeOK, l, m
      <4> QED BY <4>1, <3>0, <3>1, <1>1
    <3>3. CASE p # r
      <4>1. num'[p] = num[p] /\ M[p] = L[p]
        BY <3>0, <3>3, <1>0, <1>3, <1>7 DEF MessageTypeOK
      <4> QED BY <4>1, <3>1
    <3> QED BY <3>2, <3>3
  <2> QED BY <2>1, <1>7 DEF Counted
<1>18. Represents(M)'
  BY <1>3, <1>10, <1>11, <1>12, <1>13, <1>15, <1>16, <1>17 DEF Represents
<1> QED BY <1>18 DEF M, a, l

-----------------------------------------------------------------------------
(* kreceive_message unlinks a node from the list of the receiver.          *)

Cut(l, k) == [i \in 1 .. Len(l) - 1 |-> IF i < k THEN l[i] ELSE l[i + 1]]

(* The node n of list p is unlinked, as ReceiveFrom does it. *)
Unlinks(p, n) ==
  /\ p \in alive /\ num[p] # 0
  /\ first' = IF prev[n] = NULL THEN [first EXCEPT ![p] = next[n]] ELSE first
  /\ prev'  = [Store(prev, next[n], prev[n]) EXCEPT ![n] = NULL]
  /\ next'  = [Store(next, prev[n], next[n]) EXCEPT ![n] = NULL]
  /\ Deliver(p, n)

(* Receiving from anyone is unlinking the first node. *)
LEMMA AnyUnlinksFirst ==
  ASSUME NEW L, Represents(L), NEW p \in Pids, ReceiveAny(p)
  PROVE  1 \in 1 .. Len(L[p]) /\ Unlinks(p, L[p][1])
<1> DEFINE n == first[p]
<1>1. /\ p \in alive /\ n # NULL /\ num[p] # 0
      /\ prev'  = [Store(prev, next[n], NULL) EXCEPT ![n] = NULL]
      /\ next'  = [next EXCEPT ![n] = NULL]
      /\ first' = [first EXCEPT ![p] = next[n]]
      /\ Deliver(p, n)
  BY DEF ReceiveAny
<1>2. L \in Lists /\ p \in Owners /\ Len(L[p]) \in Nat /\ num[p] \in Nat
  BY <1>1, ListFacts DEF Represents, MessageTypeOK, Owners
<1>3. Len(L[p]) > 0
  BY <1>1, <1>2 DEF Represents, Counted
<1>4. 1 \in 1 .. Len(L[p]) /\ n = L[p][1]
  BY <1>2, <1>3 DEF Represents, Heads
<1>5. prev[n] = NULL
  BY <1>4 DEF Represents, Links
<1>6. Store(next, prev[n], next[n]) = next
  BY <1>5 DEF Store
<1> HIDE DEF n
<1>7. Unlinks(p, n)
  BY <1>1, <1>5, <1>6, Zenon DEF Unlinks
<1> QED BY <1>4, <1>7

(* Receiving from one sender is unlinking its first node. *)
LEMMA FromUnlinks ==
  ASSUME NEW L, Represents(L), NEW p \in Pids, NEW who \in Pids, ReceiveFrom(p, who)
  PROVE  \E k \in 1 .. Len(L[p]) :
           /\ Unlinks(p, L[p][k])
           /\ msg[L[p][k]].sender = who
           /\ \A j \in 1 .. k - 1 : msg[L[p][j]].sender # who
<1>1. p \in alive /\ num[p] # 0 /\ p \in Owners /\ L \in Lists
  BY DEF ReceiveFrom, Owners, Represents
<1>2. ListOf(p) = L[p] /\ DOMAIN L[p] = 1 .. Len(L[p])
  BY <1>1, ListOfIs, ListFacts
<1>3. PICK k \in 1 .. Len(L[p]) :
        LET n == L[p][k]
        IN  /\ msg[n].sender = who
            /\ \A j \in 1 .. k - 1 : msg[L[p][j]].sender # who
            /\ first' = IF prev[n] = NULL THEN [first EXCEPT ![p] = next[n]] ELSE first
            /\ prev'  = [Store(prev, next[n], prev[n]) EXCEPT ![n] = NULL]
            /\ next'  = [Store(next, prev[n], next[n]) EXCEPT ![n] = NULL]
            /\ Deliver(p, n)
  BY <1>2, Zenon DEF ReceiveFrom
<1>4. /\ Unlinks(p, L[p][k])
      /\ msg[L[p][k]].sender = who
      /\ \A j \in 1 .. k - 1 : msg[L[p][j]].sender # who
  BY <1>1, <1>3, Zenon DEF Unlinks
<1> QED BY <1>4

LEMMA UnlinkRepresents ==
  ASSUME NEW L, Represents(L), NEW p \in Pids, NEW k \in 1 .. Len(L[p]),
         Unlinks(p, L[p][k])
  PROVE  Represents([L EXCEPT ![p] = Cut(L[p], k)])'
<1> DEFINE l == L[p]
           m == Len(l)
           n == l[k]
           c == Cut(l, k)
           M == [L EXCEPT ![p] = c]
           nn == next[n]
           pn == prev[n]
<1>0. L \in Lists /\ MessageTypeOK
  BY DEF Represents
<1>1. /\ l \in Seq(Nodes) /\ m \in Nat /\ k \in 1 .. m
      /\ \A i \in 1 .. m : l[i] \in Nodes
  BY <1>0, ListFacts
<1>2. /\ c = [i \in 1 .. m - 1 |-> IF i < k THEN l[i] ELSE l[i + 1]]
  BY DEF Cut
<1>3. /\ nn = IF k = m THEN NULL ELSE l[k + 1]
      /\ pn = IF k = 1 THEN NULL ELSE l[k - 1]
  BY DEF Represents, Links
<1>4. /\ p \in alive /\ p \in Owners /\ num[p] # 0 /\ UNCHANGED <<alive, unborn, graves, sends>>
      /\ used' = used \ {n} /\ num' = [num EXCEPT ![p] = num[p] - 1] /\ Owners' = Owners
      /\ first' = IF pn = NULL THEN [first EXCEPT ![p] = nn] ELSE first
  BY DEF Unlinks, Deliver, Owners
<1>5. /\ next' = [Store(next, pn, nn) EXCEPT ![n] = NULL]
      /\ prev' = [Store(prev, nn, pn) EXCEPT ![n] = NULL]
  BY DEF Unlinks
<1>6. \A q \in Pids : \A i \in 1 .. Len(L[q]) : L[q][i] \in Nodes /\ L[q][i] \in used
  BY <1>0, ListFacts DEF Represents, Allocated
<1>7. \A q \in Pids : \A i \in 1 .. Len(L[q]), j \in 1 .. m : L[q][i] = l[j] => q = p /\ i = j
  BY DEF Represents, Apart
<1>8. \A i, j \in 1 .. m : l[i] = l[j] => i = j
  BY <1>7
<1>9. /\ first \in [Pids -> Nodes \cup {NULL, WILD}] /\ num \in [Pids -> Nat]
      /\ next \in [Nodes -> Nodes \cup {NULL}] /\ prev \in [Nodes -> Nodes \cup {NULL}]
      /\ n \in Nodes /\ nn \in Nodes \cup {NULL} /\ pn \in Nodes \cup {NULL}
      /\ NULL \in Nodes \cup {NULL} /\ used \subseteq Nodes
  BY <1>0, <1>1 DEF MessageTypeOK
<1>10. /\ \A i \in 1 .. m : next[l[i]] = IF i = m THEN NULL ELSE l[i + 1]
       /\ \A i \in 1 .. m : prev[l[i]] = IF i = 1 THEN NULL ELSE l[i - 1]
  BY DEF Represents, Links
<1> HIDE DEF l, m, n, c, M, nn, pn
<1>11. /\ next' \in [Nodes -> Nodes \cup {NULL}]
       /\ \A x \in Nodes : next'[x] = IF x = n THEN NULL ELSE IF x = pn THEN nn ELSE next[x]
  <2>1. CASE pn = NULL
    BY <2>1, <1>5, <1>9, MessageAssumption DEF Store
  <2>2. CASE pn # NULL
    BY <2>2, <1>5, <1>9 DEF Store
  <2> QED BY <2>1, <2>2
<1>12. /\ prev' \in [Nodes -> Nodes \cup {NULL}]
       /\ \A x \in Nodes : prev'[x] = IF x = n THEN NULL ELSE IF x = nn THEN pn ELSE prev[x]
  <2>1. CASE nn = NULL
    BY <2>1, <1>5, <1>9, MessageAssumption DEF Store
  <2>2. CASE nn # NULL
    BY <2>2, <1>5, <1>9 DEF Store
  <2> QED BY <2>1, <2>2
<1>13. /\ c \in Seq(Nodes) /\ Len(c) = m - 1
       /\ \A i \in 1 .. m - 1 : c[i] = IF i < k THEN l[i] ELSE l[i + 1]
  <2>1. \A i \in 1 .. m - 1 : (IF i < k THEN l[i] ELSE l[i + 1]) \in Nodes
    BY <1>1
  <2>2. c \in [1 .. m - 1 -> Nodes] /\ m - 1 \in Nat
    BY <2>1, <1>1, <1>2
  <2> QED BY <2>2, <1>2
<1>14. M \in Lists /\ M[p] = c /\ \A q \in Pids : q # p => M[q] = L[q]
  BY <1>0, <1>13 DEF Lists, M
<1>15. n = l[k]
  BY DEF n
<1>16. MessageTypeOK'
  <2>1. first' \in [Pids -> Nodes \cup {NULL, WILD}]
    BY <1>4, <1>9
  <2>2. num[p] - 1 \in Nat
    BY <1>4, <1>9
  <2>3. num' \in [Pids -> Nat]
    BY <2>2, <1>4, <1>9
  <2>4. msg' \in [Nodes -> [no : Nat, sender : Pids \cup {NULL}]]
    <3>1. msg' = [msg EXCEPT ![n] = Blank]
      BY DEF Unlinks, Deliver, n, l
    <3>2. Blank \in [no : Nat, sender : Pids \cup {NULL}]
      BY DEF Blank
    <3> QED BY <3>1, <3>2, <1>0 DEF MessageTypeOK
  <2> QED BY <2>1, <2>3, <2>4, <1>0, <1>4, <1>11, <1>12 DEF MessageTypeOK
<1>17. LivesApart'
  BY <1>0, <1>4, <1>9 DEF Represents, LivesApart, MessageTypeOK, Owners
<1>18. Heads(M)'
  <2>1. ASSUME NEW q \in Pids, q # p
        PROVE  first'[q] = first[q]
    BY <2>1, <1>4, <1>9
  <2>2. m > 0 /\ first[p] = l[1] /\ 1 \in 1 .. m
    BY <1>1, <1>4 DEF Represents, Heads, l, m
  <2>3. /\ Len(c) = 0 => first'[p] = NULL
        /\ Len(c) > 0 => first'[p] = c[1]
    <3>1. CASE k = 1
      <4>1. first'[p] = nn
        BY <3>1, <1>3, <1>4, <1>9
      <4>2. CASE m = 1
        BY <4>1, <4>2, <3>1, <1>3, <1>13
      <4>3. CASE m # 1
        <5>1. nn = l[2] /\ 1 \in 1 .. m - 1 /\ ~(1 < k) /\ Len(c) # 0
          BY <4>3, <3>1, <1>1, <1>3, <1>13
        <5> QED BY <5>1, <4>1, <1>13
      <4> QED BY <4>2, <4>3
    <3>2. CASE k # 1
      <4>1. k - 1 \in 1 .. m /\ 1 \in 1 .. m - 1 /\ 1 < k /\ Len(c) # 0
        BY <3>2, <1>1, <1>13
      <4>2. pn # NULL
        BY <4>1, <3>2, <1>1, <1>3, MessageAssumption
      <4> QED BY <4>1, <4>2, <2>2, <1>4, <1>13
    <3> QED BY <3>1, <3>2
  <2>4. ASSUME NEW q \in Pids
        PROVE  /\ q \notin Owners => Len(M[q]) = 0
               /\ q \in Owners /\ Len(M[q]) = 0 => first'[q] \in {NULL, WILD}
               /\ q \in Owners /\ Len(M[q]) > 0 => first'[q] = M[q][1]
    <3>1. CASE q = p
      BY <3>1, <2>3, <1>4, <1>14
    <3>2. CASE q # p
      BY <3>2, <2>1, <1>14 DEF Represents, Heads
    <3> QED BY <3>1, <3>2
  <2> QED BY <2>4, <1>4 DEF Heads
<1>19. Links(M)'
  <2>1. ASSUME NEW q \in Pids, NEW i \in 1 .. Len(M[q])
        PROVE  /\ next'[M[q][i]] = IF i = Len(M[q]) THEN NULL ELSE M[q][i + 1]
               /\ prev'[M[q][i]] = IF i = 1 THEN NULL ELSE M[q][i - 1]
    <3>1. CASE q # p
      <4>1. M[q] = L[q] /\ L[q][i] \in Nodes /\ i \in 1 .. Len(L[q])
        BY <3>1, <2>1, <1>6, <1>14
      <4>2. \A j \in 1 .. m : L[q][i] # l[j]
        BY <4>1, <3>1, <1>7
      <4>3. L[q][i] # n
        BY <4>2, <1>1, <1>15
      <4>4. L[q][i] # nn
        <5>1. k # m => k + 1 \in 1 .. m
          BY <1>1
        <5> QED BY <5>1, <4>1, <4>2, <1>3, MessageAssumption
      <4>5. L[q][i] # pn
        <5>1. k # 1 => k - 1 \in 1 .. m
          BY <1>1
        <5> QED BY <5>1, <4>1, <4>2, <1>3, MessageAssumption
      <4>6. /\ next[L[q][i]] = IF i = Len(L[q]) THEN NULL ELSE L[q][i + 1]
            /\ prev[L[q][i]] = IF i = 1 THEN NULL ELSE L[q][i - 1]
        BY <4>1 DEF Represents, Links
      <4> QED BY <4>1, <4>3, <4>4, <4>5, <4>6, <1>11, <1>12
    <3>2. CASE q = p
      <4>1. M[q] = c /\ i \in 1 .. m - 1 /\ Len(M[q]) = m - 1
        BY <3>2, <2>1, <1>13, <1>14
      <4>2. next'[c[i]] = IF i = m - 1 THEN NULL ELSE c[i + 1]
        <5>1. CASE i < k
          <6>1. i \in 1 .. m /\ c[i] = l[i] /\ l[i] \in Nodes /\ l[i] # n
            BY <5>1, <4>1, <1>1, <1>8, <1>13, <1>15
          <6>2. CASE i = k - 1
            <7>1. l[i] = pn
              BY <6>1, <6>2, <1>1, <1>3
            <7>2. next'[c[i]] = nn
              BY <7>1, <6>1, <1>11
            <7>3. CASE k = m
              BY <7>2, <7>3, <6>2, <1>1, <1>3
            <7>4. CASE k # m
              <8>1. i # m - 1 /\ i + 1 = k /\ k \in 1 .. m - 1 /\ ~(k < k)
                BY <7>4, <6>2, <1>1
              <8> QED BY <8>1, <7>2, <7>4, <1>3, <1>13
            <7> QED BY <7>3, <7>4
          <6>3. CASE i # k - 1
            <7>1. i + 1 \in 1 .. m - 1 /\ i + 1 < k /\ i # m - 1 /\ i # m
              BY <6>3, <5>1, <4>1, <1>1
            <7>2. l[i] # pn
              <8>1. k # 1 => k - 1 \in 1 .. m
                BY <1>1
              <8> QED BY <8>1, <6>1, <6>3, <1>3, <1>8, MessageAssumption
            <7>3. next'[c[i]] = l[i + 1]
              BY <7>1, <7>2, <6>1, <1>10, <1>11
            <7> QED BY <7>1, <7>3, <1>13
          <6> QED BY <6>2, <6>3
        <5>2. CASE ~(i < k)
          <6>1. i + 1 \in 1 .. m /\ c[i] = l[i + 1] /\ l[i + 1] \in Nodes /\ i + 1 # k
            BY <5>2, <4>1, <1>1, <1>13
          <6>2. l[i + 1] # n
            BY <6>1, <1>1, <1>8, <1>15
          <6>3. l[i + 1] # pn
            <7>1. k # 1 => k - 1 \in 1 .. m /\ i + 1 # k - 1
              BY <5>2, <4>1, <1>1
            <7> QED BY <7>1, <6>1, <1>3, <1>8, MessageAssumption
          <6>4. next'[c[i]] = IF i + 1 = m THEN NULL ELSE l[(i + 1) + 1]
            BY <6>1, <6>2, <6>3, <1>10, <1>11
          <6>5. i + 1 = m <=> i = m - 1
            BY <4>1, <1>1
          <6>6. i # m - 1 => i + 1 \in 1 .. m - 1 /\ ~(i + 1 < k)
            BY <5>2, <4>1, <1>1
          <6> QED BY <6>4, <6>5, <6>6, <1>13
        <5> QED BY <5>1, <5>2
      <4>3. prev'[c[i]] = IF i = 1 THEN NULL ELSE c[i - 1]
        <5>1. CASE i < k
          <6>1. i \in 1 .. m /\ c[i] = l[i] /\ l[i] \in Nodes /\ l[i] # n
            BY <5>1, <4>1, <1>1, <1>8, <1>13, <1>15
          <6>2. l[i] # nn
            <7>1. k # m => k + 1 \in 1 .. m /\ i # k + 1
              BY <5>1, <4>1, <1>1
            <7> QED BY <7>1, <6>1, <1>3, <1>8, MessageAssumption
          <6>3. prev'[c[i]] = IF i = 1 THEN NULL ELSE l[i - 1]
            BY <6>1, <6>2, <1>10, <1>12
          <6>4. i # 1 => i - 1 \in 1 .. m - 1 /\ i - 1 < k
            BY <5>1, <4>1, <1>1
          <6> QED BY <6>3, <6>4, <1>13
        <5>2. CASE ~(i < k)
          <6>1. i + 1 \in 1 .. m /\ c[i] = l[i + 1] /\ l[i + 1] \in Nodes /\ i + 1 # k
            BY <5>2, <4>1, <1>1, <1>13
          <6>2. l[i + 1] # n
            BY <6>1, <1>1, <1>8, <1>15
          <6>3. CASE i = k
            <7>1. k # m /\ nn = l[i + 1]
              BY <6>3, <4>1, <1>1, <1>3
            <7>2. prev'[c[i]] = pn
              BY <7>1, <6>1, <6>2, <1>12
            <7>3. i # 1 => i - 1 \in 1 .. m - 1 /\ i - 1 < k
              BY <6>3, <4>1, <1>1
            <7> QED BY <7>2, <7>3, <6>3, <1>3, <1>13
          <6>4. CASE i # k
            <7>1. l[i + 1] # nn
              <8>1. k # m => k + 1 \in 1 .. m /\ i + 1 # k + 1
                BY <6>4, <4>1, <1>1
              <8> QED BY <8>1, <6>1, <1>3, <1>8, MessageAssumption
            <7>2. prev'[c[i]] = l[(i + 1) - 1]
              <8>1. i + 1 # 1
                BY <4>1
              <8> QED BY <8>1, <7>1, <6>1, <6>2, <1>10, <1>12
            <7>3. (i + 1) - 1 = i /\ (i - 1) + 1 = i /\ i # 1 /\ i - 1 \in 1 .. m - 1 /\ ~(i - 1 < k)
              BY <6>4, <5>2, <4>1, <1>1
            <7> QED BY <7>2, <7>3, <1>13
          <6> QED BY <6>3, <6>4
        <5> QED BY <5>1, <5>2
      <4> QED BY <4>1, <4>2, <4>3
    <3> QED BY <3>1, <3>2
  <2> QED BY <2>1 DEF Links
<1>20. \A q \in Pids : \A i \in 1 .. Len(M[q]) :
         \E j \in 1 .. Len(L[q]) :
           M[q][i] = L[q][j] /\ L[q][j] # n /\ j = (IF q = p /\ ~(i < k) THEN i + 1 ELSE i)
  <2>1. ASSUME NEW q \in Pids, NEW i \in 1 .. Len(M[q])
        PROVE  \E j \in 1 .. Len(L[q]) :
                 M[q][i] = L[q][j] /\ L[q][j] # n /\ j = (IF q = p /\ ~(i < k) THEN i + 1 ELSE i)
    <3>1. CASE q # p
      <4>1. i \in 1 .. Len(L[q]) /\ M[q][i] = L[q][i]
        BY <3>1, <2>1, <1>14
      <4>2. L[q][i] # n
        BY <4>1, <3>1, <1>1, <1>7, <1>15
      <4> QED BY <4>1, <4>2, <3>1
    <3>2. CASE q = p
      <4>1. M[q] = c /\ i \in 1 .. m - 1 /\ Len(L[q]) = m /\ L[q] = l
        BY <3>2, <2>1, <1>13, <1>14 DEF l, m
      <4>2. CASE i < k
        <5>1. i \in 1 .. m /\ c[i] = l[i] /\ i # k
          BY <4>1, <4>2, <1>1, <1>13
        <5>2. l[i] # n
          BY <5>1, <1>1, <1>8, <1>15
        <5> QED BY <5>1, <5>2, <4>1, <4>2
      <4>3. CASE ~(i < k)
        <5>1. i + 1 \in 1 .. m /\ c[i] = l[i + 1] /\ i + 1 # k
          BY <4>1, <4>3, <1>1, <1>13
        <5>2. l[i + 1] # n
          BY <5>1, <1>1, <1>8, <1>15
        <5> QED BY <5>1, <5>2, <4>1, <4>3, <3>2
      <4> QED BY <4>2, <4>3
    <3> QED BY <3>1, <3>2
  <2> QED BY <2>1
<1>21. Apart(M)
  <2>1. ASSUME NEW q \in Pids, NEW r \in Pids,
               NEW i \in 1 .. Len(M[q]), NEW j \in 1 .. Len(M[r]), M[q][i] = M[r][j]
        PROVE  q = r /\ i = j
    <3>1. PICK x \in 1 .. Len(L[q]) :
            M[q][i] = L[q][x] /\ x = (IF q = p /\ ~(i < k) THEN i + 1 ELSE i)
      BY <1>20
    <3>2. PICK y \in 1 .. Len(L[r]) :
            M[r][j] = L[r][y] /\ y = (IF r = p /\ ~(j < k) THEN j + 1 ELSE j)
      BY <1>20
    <3>3. q = r /\ x = y
      <4>1. L[q][x] = L[r][y]
        BY <2>1, <3>1, <3>2
      <4>2. \A u, v \in Pids : \A a \in 1 .. Len(L[u]), b \in 1 .. Len(L[v]) :
              L[u][a] = L[v][b] => u = v /\ a = b
        BY DEF Represents, Apart
      <4>3. L[q][x] = L[r][y] => q = r /\ x = y
        BY <4>2
      <4> QED BY <4>1, <4>3
    <3>4. i \in Nat /\ j \in Nat /\ k \in Nat
      <4>1. Len(M[q]) \in Nat /\ Len(M[r]) \in Nat
        BY <1>14, ListFacts
      <4> QED BY <4>1, <1>1
    <3>5. i = j
      BY <3>1, <3>2, <3>3, <3>4
    <3> QED BY <3>3, <3>5
  <2> QED BY <2>1 DEF Apart
<1>22. Allocated(M)'
  <2>1. \A q \in Pids : \A i \in 1 .. Len(M[q]) : M[q][i] \in used'
    BY <1>4, <1>6, <1>20
  <2>2. ASSUME NEW x \in used'
        PROVE  \E q \in Pids : \E i \in 1 .. Len(M[q]) : M[q][i] = x
    <3>1. x \in used /\ x # n
      BY <2>2, <1>4
    <3>2. PICK q \in Pids : \E j \in 1 .. Len(L[q]) : L[q][j] = x
      BY <3>1 DEF Represents, Allocated
    <3>3. PICK j \in 1 .. Len(L[q]) : L[q][j] = x
      BY <3>2
    <3>4. CASE q # p
      BY <3>3, <3>4, <1>14
    <3>5. CASE q = p
      <4>1. j \in 1 .. m /\ l[j] = x /\ j # k
        BY <3>1, <3>3, <3>5, <1>15 DEF l, m
      <4>2. CASE j < k
        <5>1. j \in 1 .. m - 1 /\ c[j] = x
          BY <4>1, <4>2, <1>1, <1>13
        <5> QED BY <5>1, <3>5, <1>13, <1>14
      <4>3. CASE ~(j < k)
        <5>1. j - 1 \in 1 .. m - 1 /\ ~(j - 1 < k) /\ (j - 1) + 1 = j
          BY <4>1, <4>3, <1>1
        <5>2. c[j - 1] = x
          BY <5>1, <4>1, <1>13
        <5> QED BY <5>1, <5>2, <3>5, <1>13, <1>14
      <4> QED BY <4>2, <4>3
    <3> QED BY <3>4, <3>5
  <2> QED BY <2>1, <2>2 DEF Allocated
<1>23. Counted(M)'
  <2>1. ASSUME NEW q \in alive
        PROVE  num'[q] <= Len(M[q]) /\ (q \in Boot => num'[q] = Len(M[q]))
    <3>0. q \in Pids /\ num[q] \in Nat
      BY <1>0, <1>9 DEF MessageTypeOK
    <3>1. num[q] <= Len(L[q]) /\ (q \in Boot => num[q] = Len(L[q]))
      BY DEF Represents, Counted
    <3>2. CASE q = p
      <4>1. num'[q] = num[q] - 1 /\ Len(M[q]) = m - 1 /\ Len(L[q]) = m
        BY <3>0, <3>2, <1>4, <1>9, <1>13, <1>14 DEF l, m
      <4> QED BY <4>1, <3>0, <3>1, <1>1
    <3>3. CASE q # p
      <4>1. num'[q] = num[q] /\ M[q] = L[q]
        BY <3>0, <3>3, <1>4, <1>9, <1>14
      <4> QED BY <4>1, <3>1
    <3> QED BY <3>2, <3>3
  <2> QED BY <2>1, <1>4 DEF Counted
<1>24. Represents(M)'
  BY <1>14, <1>16, <1>17, <1>18, <1>19, <1>21, <1>22, <1>23 DEF Represents
<1> QED BY <1>24 DEF M, c, l

-----------------------------------------------------------------------------
(* The life of a process.                                                  *)

(* A new process in memory that holds no list, or a wild pointer. *)
LEMMA CreateAloneRepresents ==
  ASSUME NEW L, Represents(L), NEW p \in Pids, CreateUserProcess(p), UNCHANGED graves,
         first' = first \/ first' = [first EXCEPT ![p] = WILD]
  PROVE  Represents(L)'
<1>1. /\ p \in unborn /\ alive' = alive \cup {p} /\ unborn' = unborn \ {p}
      /\ num' = [num EXCEPT ![p] = 0]
      /\ UNCHANGED <<used, next, prev, msg, sends>>
  BY DEF CreateUserProcess
<1>2. MessageTypeOK /\ LivesApart /\ L \in Lists
  BY DEF Represents
<1>3. p \notin Owners /\ p \notin Boot /\ first[p] = NULL
  BY <1>1, <1>2 DEF LivesApart, Owners
<1>4. Len(L[p]) = 0 /\ Owners' = Owners \cup {p}
  BY <1>1, <1>3 DEF Represents, Heads, Owners
<1>5. first'[p] \in {NULL, WILD} /\ \A q \in Pids : q # p => first'[q] = first[q]
  BY <1>2, <1>3 DEF MessageTypeOK
<1>6. MessageTypeOK'
  <2>1. first' \in [Pids -> Nodes \cup {NULL, WILD}]
    BY <1>2 DEF MessageTypeOK
  <2>2. num' \in [Pids -> Nat]
    BY <1>1, <1>2 DEF MessageTypeOK
  <2> QED BY <2>1, <2>2, <1>1, <1>2 DEF MessageTypeOK
<1>7. LivesApart'
  <2>1. \A q \in unborn' : first'[q] = NULL
    BY <1>1, <1>2, <1>5 DEF LivesApart, MessageTypeOK
  <2> QED BY <2>1, <1>1, <1>2, <1>3 DEF LivesApart, Owners
<1>8. Heads(L)'
  <2>1. ASSUME NEW q \in Pids
        PROVE  /\ q \notin Owners' => Len(L[q]) = 0
               /\ q \in Owners' /\ Len(L[q]) = 0 => first'[q] \in {NULL, WILD}
               /\ q \in Owners' /\ Len(L[q]) > 0 => first'[q] = L[q][1]
    <3>1. CASE q = p
      BY <3>1, <1>4, <1>5
    <3>2. CASE q # p
      BY <3>2, <1>4, <1>5 DEF Represents, Heads
    <3> QED BY <3>1, <3>2
  <2> QED BY <2>1 DEF Heads
<1>9. Links(L)' /\ Allocated(L)' /\ Apart(L)
  BY <1>1 DEF Represents, Links, Allocated
<1>10. Counted(L)'
  <2>1. ASSUME NEW q \in alive'
        PROVE  num'[q] <= Len(L[q]) /\ (q \in Boot => num'[q] = Len(L[q]))
    <3>1. CASE q = p
      BY <3>1, <1>1, <1>2, <1>3, <1>4 DEF MessageTypeOK
    <3>2. CASE q # p
      BY <3>2, <1>1, <1>2 DEF MessageTypeOK, Represents, Counted
    <3> QED BY <3>1, <3>2
  <2> QED BY <2>1 DEF Counted
<1> QED BY <1>2, <1>6, <1>7, <1>8, <1>9, <1>10 DEF Represents

(* A new process in the memory of a dead one takes over its list. *)
LEMMA CreateHeirRepresents ==
  ASSUME NEW L, Represents(L), NEW p \in Pids, CreateUserProcess(p), NEW d \in graves,
         graves' = graves \ {d}, first' = [first EXCEPT ![p] = first[d]]
  PROVE  Represents([L EXCEPT ![p] = L[d], ![d] = <<>>])'
<1> DEFINE M == [L EXCEPT ![p] = L[d], ![d] = <<>>]
<1>1. /\ p \in unborn /\ alive' = alive \cup {p} /\ unborn' = unborn \ {p}
      /\ num' = [num EXCEPT ![p] = 0]
      /\ UNCHANGED <<used, next, prev, msg, sends>>
  BY DEF CreateUserProcess
<1>2. MessageTypeOK /\ LivesApart /\ L \in Lists
  BY DEF Represents
<1>3. p \notin Owners /\ p \notin Boot /\ d \in Owners /\ d \in Pids /\ d # p /\ d \notin alive
  BY <1>1, <1>2 DEF LivesApart, Owners, MessageTypeOK
<1>4. Len(L[p]) = 0 /\ Owners' = (Owners \cup {p}) \ {d} /\ Len(<<>>) = 0
  BY <1>1, <1>3 DEF Represents, Heads, Owners
<1>5. first'[p] = first[d] /\ \A q \in Pids : q # p => first'[q] = first[q]
  BY <1>2, <1>3 DEF MessageTypeOK
<1>6. /\ M[p] = L[d] /\ M[d] = <<>> /\ \A q \in Pids : q # p /\ q # d => M[q] = L[q]
      /\ M \in Lists
  BY <1>2, <1>3 DEF Lists
<1> HIDE DEF M
<1>7. MessageTypeOK'
  <2>1. first' \in [Pids -> Nodes \cup {NULL, WILD}]
    BY <1>2, <1>3 DEF MessageTypeOK
  <2>2. num' \in [Pids -> Nat]
    BY <1>1, <1>2 DEF MessageTypeOK
  <2> QED BY <2>1, <2>2, <1>1, <1>2 DEF MessageTypeOK
<1>8. LivesApart'
  <2>1. \A q \in unborn' : first'[q] = NULL
    BY <1>1, <1>2, <1>5 DEF LivesApart, MessageTypeOK
  <2> QED BY <2>1, <1>1, <1>2, <1>3 DEF LivesApart, Owners
<1>9. Heads(M)'
  <2>1. ASSUME NEW q \in Pids
        PROVE  /\ q \notin Owners' => Len(M[q]) = 0
               /\ q \in Owners' /\ Len(M[q]) = 0 => first'[q] \in {NULL, WILD}
               /\ q \in Owners' /\ Len(M[q]) > 0 => first'[q] = M[q][1]
    <3>1. CASE q = p
      BY <3>1, <1>3, <1>4, <1>5, <1>6 DEF Represents, Heads
    <3>2. CASE q = d
      BY <3>2, <1>3, <1>4, <1>6
    <3>3. CASE q # p /\ q # d
      BY <3>3, <1>4, <1>5, <1>6 DEF Represents, Heads
    <3> QED BY <3>1, <3>2, <3>3
  <2> QED BY <2>1 DEF Heads
<1>10. \A q \in Pids : Len(M[q]) # 0 => q # d
  BY <1>4, <1>6
<1> DEFINE from(q) == IF q = p THEN d ELSE q
<1>11. \A q \in Pids : \A i \in 1 .. Len(M[q]) :
         q # d /\ from(q) \in Pids /\ from(q) # p /\ M[q] = L[from(q)]
  <2>1. ASSUME NEW q \in Pids, NEW i \in 1 .. Len(M[q])
        PROVE  q # d /\ from(q) \in Pids /\ from(q) # p /\ M[q] = L[from(q)]
    <3>1. q # d
      BY <2>1, <1>4, <1>6
    <3> QED BY <3>1, <1>3, <1>6
  <2> QED BY <2>1
<1>12. Links(M)'
  <2>1. ASSUME NEW q \in Pids, NEW i \in 1 .. Len(M[q])
        PROVE  /\ next[M[q][i]] = IF i = Len(M[q]) THEN NULL ELSE M[q][i + 1]
               /\ prev[M[q][i]] = IF i = 1 THEN NULL ELSE M[q][i - 1]
    <3>1. from(q) \in Pids /\ M[q] = L[from(q)] /\ i \in 1 .. Len(L[from(q)])
      BY <2>1, <1>11
    <3> HIDE DEF from
    <3> QED BY <3>1 DEF Represents, Links
  <2> QED BY <2>1, <1>1 DEF Links
<1>13. Apart(M)
  <2>1. ASSUME NEW q \in Pids, NEW r \in Pids,
               NEW i \in 1 .. Len(M[q]), NEW j \in 1 .. Len(M[r]), M[q][i] = M[r][j]
        PROVE  q = r /\ i = j
    <3>1. /\ q # d /\ from(q) \in Pids /\ M[q] = L[from(q)] /\ i \in 1 .. Len(L[from(q)])
          /\ r # d /\ from(r) \in Pids /\ M[r] = L[from(r)] /\ j \in 1 .. Len(L[from(r)])
      BY <2>1, <1>11
    <3>2. from(q) = from(r) /\ i = j
      <4> HIDE DEF from
      <4> QED BY <2>1, <3>1 DEF Represents, Apart
    <3> QED BY <3>1, <3>2
  <2> QED BY <2>1 DEF Apart
<1>14. Allocated(M)'
  <2>1. ASSUME NEW q \in Pids, NEW i \in 1 .. Len(M[q]) PROVE M[q][i] \in used
    <3>1. from(q) \in Pids /\ M[q] = L[from(q)] /\ i \in 1 .. Len(L[from(q)])
      BY <2>1, <1>11
    <3> HIDE DEF from
    <3> QED BY <3>1 DEF Represents, Allocated
  <2>2. ASSUME NEW x \in used PROVE \E q \in Pids : \E i \in 1 .. Len(M[q]) : M[q][i] = x
    <3>1. PICK q \in Pids : \E i \in 1 .. Len(L[q]) : L[q][i] = x
      BY DEF Represents, Allocated
    <3>2. q # p
      BY <3>1, <1>4
    <3>3. CASE q = d
      BY <3>1, <3>3, <1>6
    <3>4. CASE q # d
      BY <3>1, <3>2, <3>4, <1>6
    <3> QED BY <3>3, <3>4
  <2> QED BY <2>1, <2>2, <1>1 DEF Allocated
<1>15. Counted(M)'
  <2>1. ASSUME NEW q \in alive'
        PROVE  num'[q] <= Len(M[q]) /\ (q \in Boot => num'[q] = Len(M[q]))
    <3>1. CASE q = p
      <4>1. num'[q] = 0 /\ q \notin Boot /\ Len(M[q]) \in Nat
        BY <3>1, <1>1, <1>2, <1>3, <1>6, ListFacts DEF MessageTypeOK
      <4> QED BY <4>1
    <3>2. CASE q # p
      <4>1. q \in alive /\ q # d /\ q \in Pids
        BY <3>2, <1>1, <1>2, <1>3 DEF MessageTypeOK
      <4>2. num'[q] = num[q] /\ M[q] = L[q]
        BY <4>1, <3>2, <1>1, <1>2, <1>6 DEF MessageTypeOK
      <4> QED BY <4>1, <4>2 DEF Represents, Counted
    <3> QED BY <3>1, <3>2
  <2> QED BY <2>1 DEF Counted
<1>16. Represents(M)'
  BY <1>6, <1>7, <1>8, <1>9, <1>12, <1>13, <1>14, <1>15 DEF Represents
<1> QED BY <1>16 DEF M

LEMMA KillRepresents ==
  ASSUME NEW L, Represents(L), NEW p \in Pids, KillProcess(p)
  PROVE  Represents(L)'
<1>1. /\ p \in alive /\ alive' = alive \ {p} /\ graves' = graves \cup {p} /\ Owners' = Owners
      /\ UNCHANGED <<unborn, first, num, used, next, prev, msg, sends>>
  BY DEF KillProcess, Owners
<1>2. MessageTypeOK' /\ LivesApart'
  BY <1>1 DEF Represents, MessageTypeOK, LivesApart
<1>3. Heads(L)'
  BY <1>1 DEF Represents, Heads
<1>4. Links(L)' /\ Allocated(L)' /\ Counted(L)'
  BY <1>1 DEF Represents, Links, Allocated, Counted
<1> QED BY <1>2, <1>3, <1>4 DEF Represents

(* Nothing the invariant speaks of changes. *)
LEMMA SameRepresents ==
  ASSUME NEW L, Represents(L),
         UNCHANGED <<alive, unborn, graves, first, num, used, next, prev, msg, sends>>
  PROVE  Represents(L)'
<1>1. MessageTypeOK' /\ LivesApart' /\ Owners' = Owners
  BY DEF Represents, MessageTypeOK, LivesApart, Owners
<1>2. Heads(L)'
  BY <1>1 DEF Represents, Heads
<1>3. Links(L)' /\ Allocated(L)' /\ Counted(L)'
  BY DEF Represents, Links, Allocated, Counted
<1> QED BY <1>1, <1>2, <1>3 DEF Represents

(* The lists are empty at first. *)
LEMMA InitRepresents == MessageInit => Represents([p \in Pids |-> <<>>])
<1> SUFFICES ASSUME MessageInit PROVE Represents([p \in Pids |-> <<>>])
  OBVIOUS
<1> DEFINE L == [p \in Pids |-> <<>>]
<1>1. L \in Lists /\ \A p \in Pids : Len(L[p]) = 0
  BY DEF Lists
<1> HIDE DEF L
<1>2. MessageTypeOK
  BY MessageAssumption DEF MessageInit, MessageTypeOK, Blank
<1>3. LivesApart
  BY MessageAssumption DEF MessageInit, LivesApart
<1>4. Heads(L)
  BY <1>1 DEF Heads, MessageInit
<1>5. Links(L) /\ Apart(L) /\ Allocated(L)
  BY <1>1 DEF Links, Apart, Allocated, MessageInit
<1>6. Counted(L)
  BY <1>1, MessageAssumption DEF Counted, MessageInit
<1> QED BY <1>1, <1>2, <1>3, <1>4, <1>5, <1>6 DEF Represents, L

-----------------------------------------------------------------------------
(* The invariant and what it says of the lists.                            *)

(* Every step of the kernel leaves lists behind to which the pointers      *)
(* correspond.                                                             *)
LEMMA MessageNextInv == MessageInv /\ [MessageNext]_messageVars => MessageInv'
<1> SUFFICES ASSUME MessageInv, [MessageNext]_messageVars
             PROVE  MessageInv'
  OBVIOUS
<1>1. PICK L \in Lists : Represents(L)
  BY DEF MessageInv
<1>2. ASSUME NEW M, Represents(M)' PROVE MessageInv'
  <2>1. M \in Lists
    BY <1>2 DEF Represents
  <2> QED BY <2>1, <1>2 DEF MessageInv
<1>3. ASSUME NEW s \in Pids, NEW r \in Pids, ksend_message(s, r) PROVE MessageInv'
  <2>1. PICK n \in Nodes : Sends(L, s, r, n)
    BY <1>1, <1>3, SendAppends
  <2> QED BY <2>1, <1>1, <1>2, SendRepresents, Zenon
<1>4. ASSUME NEW s \in Pids, NEW r \in Pids, ksend_message_wild(s, r) PROVE MessageInv'
  <2>1. UNCHANGED <<alive, unborn, graves, first, num, used, next, prev, msg, sends>>
    BY <1>4 DEF ksend_message_wild
  <2>2. Represents(L)'
    BY <2>1, <1>1, SameRepresents
  <2> QED BY <2>2, <1>2
<1>5. ASSUME NEW p \in Pids, ReceiveAny(p) PROVE MessageInv'
  <2>1. 1 \in 1 .. Len(L[p]) /\ Unlinks(p, L[p][1])
    BY <1>1, <1>5, AnyUnlinksFirst
  <2> QED BY <2>1, <1>1, <1>2, UnlinkRepresents, Zenon
<1>6. ASSUME NEW p \in Pids, NEW who \in Pids, ReceiveFrom(p, who) PROVE MessageInv'
  <2>1. PICK k \in 1 .. Len(L[p]) : Unlinks(p, L[p][k])
    BY <1>1, <1>6, FromUnlinks
  <2> QED BY <2>1, <1>1, <1>2, UnlinkRepresents, Zenon
<1>7. ASSUME NEW p \in Pids, CreateUserProcess(p) PROVE MessageInv'
  <2>1. CASE UNCHANGED graves /\ (first' = first \/ first' = [first EXCEPT ![p] = WILD])
    BY <2>1, <1>1, <1>2, <1>7, CreateAloneRepresents
  <2>2. CASE \E d \in graves :
               graves' = graves \ {d} /\ first' = [first EXCEPT ![p] = first[d]]
    <3>1. PICK d \in graves : graves' = graves \ {d} /\ first' = [first EXCEPT ![p] = first[d]]
      BY <2>2
    <3> QED BY <3>1, <1>1, <1>2, <1>7, CreateHeirRepresents, Zenon
  <2> QED BY <2>1, <2>2, <1>7 DEF CreateUserProcess
<1>8. ASSUME NEW p \in Pids, KillProcess(p) PROVE MessageInv'
  BY <1>1, <1>2, <1>8, KillRepresents
<1>9. CASE UNCHANGED messageVars
  BY <1>1, <1>2, <1>9, SameRepresents DEF messageVars
<1> QED BY <1>3, <1>4, <1>5, <1>6, <1>7, <1>8, <1>9 DEF MessageNext

(* Sequences of nodes to which the pointers in memory correspond exist at  *)
(* all times, whatever is sent and received in which order and whichever   *)
(* processes are created and killed in between (message.c:107-204,         *)
(* multitasking.c: CreateUserProcess, KillProcess).                        *)
THEOREM MessageInvariant == MessageSpec => []MessageInv
<1>1. MessageInit => MessageInv
  <2>1. ASSUME MessageInit PROVE MessageInv
    <3>1. Represents([p \in Pids |-> <<>>])
      BY <2>1, InitRepresents
    <3>2. [p \in Pids |-> <<>>] \in Lists
      BY <3>1 DEF Represents
    <3> QED BY <3>1, <3>2, Zenon DEF MessageInv
  <2> QED BY <2>1
<1> QED BY <1>1, MessageNextInv, PTL DEF MessageSpec

(* num_messages is never negative and the pointers of every node lead to   *)
(* nodes or nowhere.                                                       *)
THEOREM MessageTypes == MessageSpec => []MessageTypeOK
<1>1. MessageInv => MessageTypeOK
  BY DEF MessageInv, Represents
<1> QED BY <1>1, MessageInvariant, PTL

(* What the lists are in terms of the invariant. *)
LEMMA NodesOfIs ==
  ASSUME NEW L, Represents(L), NEW p \in Owners
  PROVE  /\ p \in Pids /\ L \in Lists
         /\ DOMAIN ListOf(p) = 1 .. Len(L[p])
         /\ ListOf(p) = L[p]
         /\ NodesOf(p) = {L[p][k] : k \in 1 .. Len(L[p])}
<1>1. p \in Pids /\ L \in Lists
  BY DEF Represents, MessageTypeOK, Owners
<1>2. ListOf(p) = L[p]
  BY ListOfIs
<1>3. DOMAIN L[p] = 1 .. Len(L[p])
  BY <1>1, ListFacts
<1> QED BY <1>1, <1>2, <1>3 DEF NodesOf

(* Every list ends, its nodes are allocated and in no other list, prev is  *)
(* the inverse of next, and no allocated node is outside the lists: the    *)
(* walks of ksend_message and kreceive_message never meet a freed node.    *)
THEOREM ListsStayIntact == MessageSpec => []ListsIntact
<1>1. MessageInv => ListsIntact
  <2> SUFFICES ASSUME NEW L \in Lists, Represents(L) PROVE ListsIntact
    BY DEF MessageInv
  <2>1. ASSUME NEW p \in Owners
        PROVE  PathFrom(Start(p))[Cardinality(Nodes)] = NULL
    BY ListOfIs
  <2>2. ASSUME NEW p \in Owners, NEW k \in DOMAIN ListOf(p)
        PROVE  prev[ListOf(p)[k]] = IF k = 1 THEN NULL ELSE ListOf(p)[k - 1]
    <3>1. p \in Pids /\ k \in 1 .. Len(L[p]) /\ ListOf(p) = L[p]
      BY <2>2, NodesOfIs
    <3>2. prev[L[p][k]] = IF k = 1 THEN NULL ELSE L[p][k - 1]
      BY <3>1 DEF Represents, Links
    <3> QED BY <3>1, <3>2
  <2>3. ASSUME NEW p \in Owners, NEW q \in Owners, p # q
        PROVE  NodesOf(p) \cap NodesOf(q) = {}
    <3>1. /\ p \in Pids /\ NodesOf(p) = {L[p][k] : k \in 1 .. Len(L[p])}
          /\ q \in Pids /\ NodesOf(q) = {L[q][k] : k \in 1 .. Len(L[q])}
      BY NodesOfIs
    <3> QED BY <3>1, <2>3 DEF Represents, Apart
  <2>4. used = UNION {NodesOf(p) : p \in Owners}
    <3>1. ASSUME NEW n \in used PROVE \E p \in Owners : n \in NodesOf(p)
      <4>1. PICK p \in Pids : \E k \in 1 .. Len(L[p]) : L[p][k] = n
        BY DEF Represents, Allocated
      <4>2. p \in Owners
        BY <4>1 DEF Represents, Heads
      <4>3. n \in {L[p][k] : k \in 1 .. Len(L[p])}
        BY <4>1
      <4> QED BY <4>2, <4>3, NodesOfIs
    <3>2. ASSUME NEW p \in Owners, NEW n \in NodesOf(p) PROVE n \in used
      <4>1. p \in Pids /\ n \in {L[p][k] : k \in 1 .. Len(L[p])}
        BY <3>2, NodesOfIs
      <4> QED BY <4>1 DEF Represents, Allocated
    <3> QED BY <3>1, <3>2
  <2> QED BY <2>1, <2>2, <2>3, <2>4, Zenon DEF ListsIntact, Owners
<1> QED BY <1>1, MessageInvariant, PTL

(* num_messages never exceeds the number of nodes in the list, and is that *)
(* number for a process that exists from the start: a receiver is told     *)
(* that there is a message only when there is one.                         *)
THEOREM CountStaysRight == MessageSpec => []CountAgrees
<1>1. MessageInv => CountAgrees
  <2> SUFFICES ASSUME NEW L \in Lists, Represents(L), NEW p \in alive
               PROVE  /\ num[p] <= Cardinality(NodesOf(p))
                      /\ p \in Boot => num[p] = Cardinality(NodesOf(p))
    BY DEF MessageInv, CountAgrees
  <2> DEFINE l == L[p]
             S == 1 .. Len(l)
             T == {l[k] : k \in S}
  <2>1. p \in Owners /\ p \in Pids
    BY DEF Owners, Represents, MessageTypeOK
  <2>2. NodesOf(p) = T
    BY <2>1, NodesOfIs
  <2>3. l \in Seq(Nodes) /\ Len(l) \in Nat /\ l \in [S -> Nodes]
    BY <2>1, ListFacts, LenProperties
  <2>4. \A i, j \in S : l[i] = l[j] => i = j
    BY <2>1 DEF Represents, Apart
  <2>5. IsFiniteSet(S) /\ Cardinality(S) = Len(l)
    <3>1. 1 \in Int /\ Len(l) \in Int /\ Cardinality(S) = Len(l)
      BY <2>3, IntervalSize
    <3>2. IsFiniteSet(S)
      BY <3>1, FS_Interval, Zenon
    <3> QED BY <3>1, <3>2
  <2>6. l \in Bijection(S, T)
    <3> HIDE DEF l
    <3>1. l \in [S -> T]
      BY <2>3
    <3> QED BY <3>1, <2>4 DEF Bijection, Injection, Surjection, IsInjective
  <2>7. Cardinality(T) = Len(l)
    <3> HIDE DEF S, T
    <3>1. ExistsBijection(S, T)
      BY <2>6 DEF ExistsBijection
    <3> QED BY <3>1, <2>5, FS_Bijection
  <2>8. num[p] <= Len(l) /\ (p \in Boot => num[p] = Len(l))
    BY DEF Represents, Counted
  <2> QED BY <2>2, <2>7, <2>8
<1> QED BY <1>1, MessageInvariant, PTL

-----------------------------------------------------------------------------
(* The lists implement the queues of Mailbox.                              *)

Queue(l) == [k \in 1 .. Len(l) |-> msg[l[k]]]

Abstract == [p \in Pids |-> QueueOf(p)]

MessageBox == [no : Nat, sender : Pids \cup {NULL}]

(* The refinement mapping, in terms of the invariant. *)
LEMMA AbstractIs ==
  \A L : Represents(L) => Abstract = [p \in Pids |-> Queue(L[p])]
<1> SUFFICES ASSUME NEW L, Represents(L), NEW p \in Pids
             PROVE  QueueOf(p) = Queue(L[p])
  BY DEF Abstract
<1>1. CASE p \in Owners
  <2>1. ListOf(p) = L[p] /\ DOMAIN ListOf(p) = 1 .. Len(L[p])
    BY <1>1, NodesOfIs
  <2>2. QueueOf(p) = [k \in DOMAIN ListOf(p) |-> msg[ListOf(p)[k]]]
    BY <1>1, Zenon DEF QueueOf, Owners
  <2> QED BY <2>1, <2>2, Zenon DEF Queue
<1>2. CASE p \notin Owners
  <2>1. Len(L[p]) = 0
    BY <1>2 DEF Represents, Heads
  <2>2. QueueOf(p) = <<>>
    BY <1>2 DEF QueueOf, Owners
  <2> QED BY <2>1, <2>2 DEF Queue
<1> QED BY <1>1, <1>2

(* The same one step later. *)
LEMMA AbstractWillBe ==
  ASSUME NEW M, Represents(M)'
  PROVE  Abstract' = [p \in Pids |-> Queue(M[p])']
<1>1. (\A L : Represents(L) => Abstract = [p \in Pids |-> Queue(L[p])])'
  BY AbstractIs, PTL
<1> QED BY <1>1

LEMMA QueueFacts ==
  ASSUME NEW L, Represents(L), NEW p \in Pids
  PROVE  /\ Queue(L[p]) \in Seq(MessageBox)
         /\ Len(Queue(L[p])) = Len(L[p]) /\ Len(L[p]) \in Nat
         /\ DOMAIN Queue(L[p]) = 1 .. Len(L[p])
         /\ \A k \in 1 .. Len(L[p]) : L[p][k] \in Nodes /\ Queue(L[p])[k] = msg[L[p][k]]
<1>1. /\ L \in Lists /\ Len(L[p]) \in Nat
      /\ \A k \in 1 .. Len(L[p]) : L[p][k] \in Nodes
  BY ListFacts DEF Represents
<1>2. \A n \in Nodes : msg[n] \in MessageBox
  BY DEF Represents, MessageTypeOK, MessageBox
<1>3. \A k \in 1 .. Len(L[p]) : Queue(L[p])[k] = msg[L[p][k]]
  BY DEF Queue
<1>4. Queue(L[p]) \in [1 .. Len(L[p]) -> MessageBox]
  BY <1>1, <1>2 DEF Queue
<1>5. Queue(L[p]) \in Seq(MessageBox)
  BY <1>4, <1>1
<1>6. DOMAIN Queue(L[p]) = 1 .. Len(L[p]) /\ Len(Queue(L[p])) = Len(L[p])
  BY <1>1, <1>4
<1> QED BY <1>1, <1>3, <1>5, <1>6

(* ksend_message appends the message to the queue. *)
LEMMA SendImplements ==
  ASSUME NEW L, Represents(L), NEW s \in Pids, NEW r \in Pids, ksend_message(s, r)
  PROVE  Queues!Send(s, r)
<1>1. PICK n \in Nodes : Sends(L, s, r, n)
  BY SendAppends
<1> DEFINE l == L[r]
           a == Append(l, n)
           M == [L EXCEPT ![r] = a]
           m == [no |-> sends + 1, sender |-> s]
           q == Queue(l)
<1>2. Represents(M)'
  BY <1>1, SendRepresents
<1>3. L \in Lists /\ MessageTypeOK /\ sends \in Nat
  BY DEF Represents, MessageTypeOK
<1>4. msg' = [msg EXCEPT ![n] = m] /\ n \in Nodes /\ n \notin used /\ sends' = sends + 1
  BY <1>1 DEF Sends
<1>5. m \in MessageBox
  BY <1>3 DEF MessageBox
<1> HIDE DEF m
<1>6. msg'[n] = m /\ \A x \in Nodes : x # n => msg'[x] = msg[x]
  BY <1>3, <1>4 DEF MessageTypeOK
<1>7. \A p \in Pids : \A k \in 1 .. Len(L[p]) :
        L[p][k] \in Nodes /\ L[p][k] # n /\ msg'[L[p][k]] = msg[L[p][k]]
  BY <1>3, <1>4, <1>6, ListFacts DEF Represents, Allocated
<1>8. Abstract' = [p \in Pids |-> Queue(M[p])'] /\ Abstract = [p \in Pids |-> Queue(L[p])]
  BY <1>2, AbstractIs, AbstractWillBe
<1>9. M[r] = a /\ \A p \in Pids : p # r => M[p] = L[p]
  BY <1>3 DEF Lists
<1>10. ASSUME NEW p \in Pids, p # r PROVE Queue(M[p])' = Queue(L[p])
  <2>1. Queue(M[p])' = [k \in 1 .. Len(L[p]) |-> msg'[L[p][k]]]
    BY <1>9, <1>10 DEF Queue
  <2> QED BY <2>1, <1>7 DEF Queue
<1>11. Queue(M[r])' = Append(q, m)
  <2>1. /\ l \in Seq(Nodes) /\ Len(l) \in Nat
    BY <1>3, ListFacts
  <2>2. /\ Len(a) = Len(l) + 1 /\ a[Len(l) + 1] = n
        /\ \A k \in 1 .. Len(l) : a[k] = l[k]
    BY <2>1, AppendProperties
  <2>3. /\ q \in Seq(MessageBox) /\ Len(q) = Len(l)
        /\ \A k \in 1 .. Len(l) : q[k] = msg[l[k]]
    BY QueueFacts
  <2> DEFINE b == Append(q, m)
             c == [k \in 1 .. Len(l) + 1 |-> msg'[a[k]]]
  <2>4. Queue(M[r])' = c
    BY <2>2, <1>9 DEF Queue
  <2>5. /\ b \in Seq(MessageBox) /\ Len(b) = Len(l) + 1 /\ b[Len(l) + 1] = m
        /\ \A k \in 1 .. Len(l) : b[k] = msg[l[k]]
    <3> HIDE DEF q
    <3> QED BY <2>3, <1>5, AppendProperties
  <2>6. \A k \in 1 .. Len(l) + 1 : c[k] = b[k]
    <3>1. ASSUME NEW k \in 1 .. Len(l) PROVE c[k] = b[k]
      <4>1. k \in 1 .. Len(l) + 1 /\ msg'[l[k]] = msg[l[k]]
        BY <2>1, <1>7
      <4> HIDE DEF b
      <4> QED BY <4>1, <2>2, <2>5
    <3>2. c[Len(l) + 1] = b[Len(l) + 1]
      <4>1. Len(l) + 1 \in 1 .. Len(l) + 1
        BY <2>1
      <4> HIDE DEF b
      <4> QED BY <4>1, <2>2, <2>5, <1>6
    <3> HIDE DEF b, c
    <3> QED BY <3>1, <3>2, <2>1
  <2>7. b = [k \in 1 .. Len(l) + 1 |-> b[k]]
    <3> HIDE DEF b
    <3> QED BY <2>5, LenProperties
  <2>8. c = b
    <3>1. c = [k \in 1 .. Len(l) + 1 |-> c[k]]
      OBVIOUS
    <3> HIDE DEF b, c
    <3> QED BY <3>1, <2>6, <2>7
  <2> QED BY <2>4, <2>8
<1>12. Abstract' = [Abstract EXCEPT ![r] = Append(Abstract[r], m)]
  <2> HIDE DEF M, q
  <2>1. Abstract[r] = q
    BY <1>8 DEF q
  <2>2. [p \in Pids |-> Queue(M[p])'] = [[p \in Pids |-> Queue(L[p])] EXCEPT ![r] = Append(q, m)]
    BY <1>10, <1>11
  <2> QED BY <1>8, <2>1, <2>2
<1>13. /\ s \in alive /\ r \in alive /\ sends < MaxSends /\ sends' = sends + 1
       /\ UNCHANGED <<alive, unborn, graves, seen>>
  BY DEF ksend_message
<1> QED BY <1>12, <1>13, Zenon DEF Queues!Send, Abstract, m

(* What RemoveAt returns. *)
LEMMA RemoveAtIs ==
  ASSUME NEW S, NEW q \in Seq(S), NEW i \in 1 .. Len(q)
  PROVE  Queues!RemoveAt(q, i) = Cut(q, i)
<1> DEFINE a == SubSeq(q, 1, i - 1)
           b == SubSeq(q, i + 1, Len(q))
<1>1. Len(q) \in Nat /\ i \in Nat /\ 1 <= i /\ i <= Len(q)
  OBVIOUS
<1>2. /\ a \in Seq(S) /\ Len(a) = i - 1
      /\ \A k \in 1 .. i - 1 : a[k] = q[k]
  BY <1>1
<1>3. /\ b \in Seq(S) /\ Len(b) = Len(q) - i
      /\ \A k \in 1 .. Len(q) - i : b[k] = q[k + i]
  BY <1>1
<1>4. Queues!RemoveAt(q, i) = a \o b
  BY DEF Queues!RemoveAt
<1> HIDE DEF a, b
<1>5. Len(a) + Len(b) = Len(q) - 1
  BY <1>1, <1>2, <1>3
<1>6. ASSUME NEW k \in 1 .. Len(q) - 1
      PROVE  (a \o b)[k] = IF k < i THEN q[k] ELSE q[k + 1]
  <2>1. (a \o b)[k] = IF k <= Len(a) THEN a[k] ELSE b[k - Len(a)]
    BY <1>2, <1>3, <1>5
  <2>2. CASE k < i
    BY <2>1, <2>2, <1>1, <1>2
  <2>3. CASE ~(k < i)
    <3>1. k - (i - 1) \in 1 .. Len(q) - i /\ (k - (i - 1)) + i = k + 1
      BY <2>3, <1>1
    <3> QED BY <3>1, <2>1, <2>3, <1>1, <1>2, <1>3
  <2> QED BY <2>2, <2>3
<1>7. a \o b = [k \in 1 .. Len(q) - 1 |-> (a \o b)[k]]
  <2>1. a \o b \in Seq(S) /\ Len(a \o b) = Len(q) - 1
    BY <1>2, <1>3, <1>5, ConcatProperties
  <2> DEFINE c == a \o b
  <2> HIDE DEF c
  <2>2. c \in Seq(S) /\ Len(c) = Len(q) - 1
    BY <2>1 DEF c
  <2>3. c = [k \in 1 .. Len(q) - 1 |-> c[k]]
    BY <2>2, LenProperties
  <2> QED BY <2>3 DEF c
<1>8. [k \in 1 .. Len(q) - 1 |-> (a \o b)[k]] = Cut(q, i)
  BY <1>6 DEF Cut
<1> QED BY <1>4, <1>7, <1>8

(* Unlinking a node takes its message out of the queue. *)
LEMMA UnlinkTakes ==
  ASSUME NEW L, Represents(L), NEW p \in Pids, NEW k \in 1 .. Len(L[p]),
         Unlinks(p, L[p][k])
  PROVE  /\ Queues!Take(p, k)
         /\ Abstract[p] = Queue(L[p])
<1> DEFINE l == L[p]
           n == l[k]
           c == Cut(l, k)
           M == [L EXCEPT ![p] = c]
           q == Queue(l)
<1>1. Represents(M)'
  BY UnlinkRepresents
<1>2. L \in Lists /\ MessageTypeOK
  BY DEF Represents
<1>3. /\ l \in Seq(Nodes) /\ Len(l) \in Nat /\ n \in Nodes /\ k \in 1 .. Len(l)
      /\ \A i \in 1 .. Len(l) : l[i] \in Nodes
  BY <1>2, ListFacts
<1>4. /\ seen' = [seen EXCEPT ![p][msg[n].sender] = msg[n].no]
      /\ msg' = [msg EXCEPT ![n] = Blank]
      /\ UNCHANGED <<alive, unborn, graves, sends>>
  BY DEF Unlinks, Deliver
<1>5. \A x \in Nodes : x # n => msg'[x] = msg[x]
  BY <1>2, <1>4 DEF MessageTypeOK
<1>6. ASSUME NEW r \in Pids, NEW i \in 1 .. Len(L[r]), r # p \/ i # k
      PROVE  L[r][i] \in Nodes /\ L[r][i] # n
  <2>1. L[r][i] \in Nodes
    BY <1>2, ListFacts
  <2>2. L[r][i] = L[p][k] => r = p /\ i = k
    BY DEF Represents, Apart
  <2> QED BY <2>1, <2>2, <1>6
<1>7. Abstract' = [r \in Pids |-> Queue(M[r])'] /\ Abstract = [r \in Pids |-> Queue(L[r])]
  BY <1>1, AbstractIs, AbstractWillBe
<1>8. M[p] = c /\ \A r \in Pids : r # p => M[r] = L[r]
  BY <1>2 DEF Lists
<1>9. ASSUME NEW r \in Pids, r # p PROVE Queue(M[r])' = Queue(L[r])
  <2>1. Queue(M[r])' = [i \in 1 .. Len(L[r]) |-> msg'[L[r][i]]]
    BY <1>8, <1>9 DEF Queue
  <2>2. \A i \in 1 .. Len(L[r]) : msg'[L[r][i]] = msg[L[r][i]]
    <3> HIDE DEF n
    <3> QED BY <1>5, <1>6, <1>9
  <2> QED BY <2>1, <2>2 DEF Queue
<1>10. /\ q \in Seq(MessageBox) /\ Len(q) = Len(l)
       /\ \A i \in 1 .. Len(l) : q[i] = msg[l[i]]
  BY QueueFacts
<1>11. Queue(M[p])' = Cut(q, k)
  <2>1. c = [i \in 1 .. Len(l) - 1 |-> IF i < k THEN l[i] ELSE l[i + 1]]
    BY DEF Cut
  <2>2. Cut(q, k) = [i \in 1 .. Len(l) - 1 |-> IF i < k THEN q[i] ELSE q[i + 1]]
    BY <1>10 DEF Cut
  <2>3. Len(c) = Len(l) - 1
    <3>1. Len(l) - 1 \in Nat
      BY <1>3
    <3> QED BY <2>1, <3>1
  <2>4. Queue(M[p])' = [i \in 1 .. Len(l) - 1 |-> msg'[c[i]]]
    BY <1>8, <2>3 DEF Queue
  <2>5. ASSUME NEW i \in 1 .. Len(l) - 1
        PROVE  msg'[c[i]] = IF i < k THEN q[i] ELSE q[i + 1]
    <3>1. c[i] = IF i < k THEN l[i] ELSE l[i + 1]
      BY <2>1
    <3> HIDE DEF c, q, n
    <3>2. CASE i < k
      <4>1. i \in 1 .. Len(l) /\ i # k
        BY <1>3, <3>2
      <4>2. l[i] \in Nodes /\ l[i] # n
        BY <4>1, <1>6
      <4> QED BY <4>1, <4>2, <3>1, <3>2, <1>5, <1>10
    <3>3. CASE ~(i < k)
      <4>1. i + 1 \in 1 .. Len(l) /\ i + 1 # k
        BY <1>3, <3>3
      <4>2. l[i + 1] \in Nodes /\ l[i + 1] # n
        BY <4>1, <1>6
      <4> QED BY <4>1, <4>2, <3>1, <3>3, <1>5, <1>10
    <3> QED BY <3>2, <3>3
  <2> HIDE DEF c, q
  <2> QED BY <2>2, <2>4, <2>5
<1>12. Abstract[p] = q /\ Abstract[p][k] = msg[n]
  <2>1. Abstract[p] = q
    BY <1>7
  <2>2. q[k] = msg[n]
    BY <1>10
  <2> QED BY <2>1, <2>2
<1>13. Abstract' = [Abstract EXCEPT ![p] = Queues!RemoveAt(Abstract[p], k)]
  <2> HIDE DEF M, q, n
  <2>1. Queues!RemoveAt(Abstract[p], k) = Cut(q, k)
    BY <1>3, <1>10, <1>12, RemoveAtIs
  <2>2. [r \in Pids |-> Queue(M[r])'] = [[r \in Pids |-> Queue(L[r])] EXCEPT ![p] = Cut(q, k)]
    BY <1>9, <1>11
  <2> QED BY <1>7, <2>1, <2>2
<1>14. seen' = [seen EXCEPT ![p][Abstract[p][k].sender] = Abstract[p][k].no]
  BY <1>4, <1>12, Zenon
<1>15. Queues!Take(p, k)
  BY <1>4, <1>13, <1>14, Zenon DEF Queues!Take, Abstract
<1> QED BY <1>12, <1>15

LEMMA ReceiveAnyImplements ==
  ASSUME NEW L, Represents(L), NEW p \in Pids, ReceiveAny(p)
  PROVE  Queues!ReceiveAny(p)
<1>1. 1 \in 1 .. Len(L[p]) /\ Unlinks(p, L[p][1])
  BY AnyUnlinksFirst
<1>2. Queues!Take(p, 1) /\ Abstract[p] = Queue(L[p])
  BY <1>1, UnlinkTakes
<1>3. Abstract[p] # <<>>
  <2>1. DOMAIN Queue(L[p]) = 1 .. Len(L[p])
    BY QueueFacts
  <2> QED BY <2>1, <1>1, <1>2
<1>4. p \in alive
  BY DEF ReceiveAny
<1> QED BY <1>2, <1>3, <1>4, Zenon DEF Queues!ReceiveAny, Abstract

LEMMA ReceiveFromImplements ==
  ASSUME NEW L, Represents(L), NEW p \in Pids, NEW who \in Pids, ReceiveFrom(p, who)
  PROVE  Queues!ReceiveFrom(p, who)
<1>1. PICK k \in 1 .. Len(L[p]) :
        /\ Unlinks(p, L[p][k])
        /\ msg[L[p][k]].sender = who
        /\ \A j \in 1 .. k - 1 : msg[L[p][j]].sender # who
  BY FromUnlinks
<1>2. Queues!Take(p, k) /\ Abstract[p] = Queue(L[p])
  BY <1>1, UnlinkTakes
<1>3. /\ Len(Abstract[p]) = Len(L[p]) /\ Len(L[p]) \in Nat
      /\ \A j \in 1 .. Len(L[p]) : Abstract[p][j] = msg[L[p][j]]
  BY <1>2, QueueFacts
<1>4. k \in 1 .. Len(Abstract[p]) /\ Abstract[p][k].sender = who
  BY <1>1, <1>3
<1>5. \A j \in 1 .. k - 1 : Abstract[p][j].sender # who
  <2>1. ASSUME NEW j \in 1 .. k - 1 PROVE Abstract[p][j].sender # who
    <3>1. j \in 1 .. Len(L[p])
      BY <1>3
    <3> QED BY <3>1, <1>1, <1>3
  <2> QED BY <2>1
<1>6. p \in alive
  BY DEF ReceiveFrom
<1> QED BY <1>2, <1>4, <1>5, <1>6, Zenon DEF Queues!ReceiveFrom, Abstract

(* Lists and messages as they were: so are the queues. *)
LEMMA AbstractSame ==
  ASSUME NEW L, Represents(L), Represents(L)', UNCHANGED msg
  PROVE  Abstract' = Abstract
<1>1. Abstract' = [p \in Pids |-> Queue(L[p])'] /\ Abstract = [p \in Pids |-> Queue(L[p])]
  BY AbstractIs, AbstractWillBe
<1>2. \A p \in Pids : Queue(L[p])' = Queue(L[p])
  BY DEF Queue
<1> QED BY <1>1, <1>2

LEMMA CreateImplements ==
  ASSUME NEW L, Represents(L), NEW p \in Pids, CreateUserProcess(p)
  PROVE  Queues!Create(p)
<1>1. /\ p \in unborn /\ alive' = alive \cup {p} /\ unborn' = unborn \ {p}
      /\ UNCHANGED <<msg, sends, seen>>
  BY DEF CreateUserProcess
<1>2. CASE UNCHANGED graves /\ (first' = first \/ first' = [first EXCEPT ![p] = WILD])
  <2>1. Represents(L)'
    BY <1>2, CreateAloneRepresents
  <2>2. Abstract' = Abstract
    BY <2>1, <1>1, AbstractSame
  <2> QED BY <2>2, <1>1, <1>2, Zenon DEF Queues!Create, Abstract
<1>3. CASE \E d \in graves :
             graves' = graves \ {d} /\ first' = [first EXCEPT ![p] = first[d]]
  <2>1. PICK d \in graves : graves' = graves \ {d} /\ first' = [first EXCEPT ![p] = first[d]]
    BY <1>3
  <2> DEFINE M == [L EXCEPT ![p] = L[d], ![d] = <<>>]
  <2>2. Represents(M)'
    BY <2>1, CreateHeirRepresents
  <2>3. Abstract' = [r \in Pids |-> Queue(M[r])'] /\ Abstract = [r \in Pids |-> Queue(L[r])]
    BY <2>2, AbstractIs, AbstractWillBe
  <2>4. d \in Pids /\ d # p /\ L \in Lists
    BY <1>1 DEF Represents, MessageTypeOK, LivesApart
  <2>5. M[p] = L[d] /\ M[d] = <<>> /\ \A r \in Pids : r # p /\ r # d => M[r] = L[r]
    BY <2>4 DEF Lists
  <2> HIDE DEF M
  <2>6. Queue(M[p])' = Queue(L[d])
    BY <2>5, <1>1 DEF Queue
  <2>7. Queue(M[d])' = <<>>
    BY <2>5 DEF Queue
  <2>8. \A r \in Pids : r # p /\ r # d => Queue(M[r])' = Queue(L[r])
    BY <2>5, <1>1 DEF Queue
  <2>9. Abstract' = [Abstract EXCEPT ![p] = Abstract[d], ![d] = <<>>]
    <3>1. Abstract[d] = Queue(L[d])
      BY <2>3, <2>4
    <3>2. [r \in Pids |-> Queue(M[r])']
            = [[r \in Pids |-> Queue(L[r])] EXCEPT ![p] = Queue(L[d]), ![d] = <<>>]
      BY <2>4, <2>6, <2>7, <2>8
    <3> QED BY <2>3, <3>1, <3>2
  <2> QED BY <2>1, <2>9, <1>1, Zenon DEF Queues!Create, Abstract
<1> QED BY <1>2, <1>3 DEF CreateUserProcess

LEMMA KillImplements ==
  ASSUME NEW L, Represents(L), NEW p \in Pids, KillProcess(p)
  PROVE  Queues!Exit(p)
<1>1. /\ p \in alive /\ alive' = alive \ {p} /\ graves' = graves \cup {p}
      /\ UNCHANGED <<unborn, msg, sends, seen>>
  BY DEF KillProcess
<1>2. Abstract' = Abstract
  BY <1>1, KillRepresents, AbstractSame
<1> QED BY <1>1, <1>2, Zenon DEF Queues!Exit, Abstract

(* The walk through a wild pointer, and stuttering. *)
LEMMA SameImplements ==
  ASSUME NEW L, Represents(L),
         UNCHANGED <<alive, unborn, graves, first, num, used, next, prev, msg, sends, seen>>
  PROVE  UNCHANGED Queues!mailboxVars
<1>1. Abstract' = Abstract
  BY SameRepresents, AbstractSame
<1> QED BY <1>1, Zenon DEF Queues!mailboxVars, Abstract

(* The queues are empty at first. *)
LEMMA InitImplements == MessageInit => Queues!MailboxInit
<1> SUFFICES ASSUME MessageInit PROVE Queues!MailboxInit
  OBVIOUS
<1> DEFINE L == [p \in Pids |-> <<>>]
<1>1. Abstract = [p \in Pids |-> Queue(L[p])]
  BY InitRepresents, AbstractIs
<1>2. \A p \in Pids : Queue(L[p]) = <<>>
  BY DEF Queue
<1> HIDE DEF L
<1>3. Abstract = [p \in Pids |-> <<>>]
  BY <1>1, <1>2
<1>4. /\ alive = Boot /\ unborn = Pids \ Boot /\ graves = {} /\ sends = 0
      /\ seen = [r \in Pids |-> [s \in Pids |-> 0]]
  BY DEF MessageInit
<1> QED BY <1>3, <1>4, Zenon DEF Queues!MailboxInit, Abstract

(* Every step of the kernel is a step of the queues or changes nothing     *)
(* there.                                                                  *)
LEMMA StepImplements ==
  MessageInv /\ [MessageNext]_messageVars => [Queues!MailboxNext]_Queues!mailboxVars
<1> SUFFICES ASSUME MessageInv, [MessageNext]_messageVars
             PROVE  Queues!MailboxNext \/ UNCHANGED Queues!mailboxVars
  BY Zenon
<1>1. PICK L \in Lists : Represents(L)
  BY DEF MessageInv
<1>2. ASSUME NEW s \in Pids, NEW r \in Pids, ksend_message(s, r) PROVE Queues!MailboxNext
  <2>1. Queues!Send(s, r)
    BY <1>1, <1>2, SendImplements
  <2> QED BY <2>1, Zenon DEF Queues!MailboxNext
<1>3. ASSUME NEW s \in Pids, NEW r \in Pids, ksend_message_wild(s, r)
      PROVE  UNCHANGED Queues!mailboxVars
  <2>1. UNCHANGED <<alive, unborn, graves, first, num, used, next, prev, msg, sends, seen>>
    BY <1>3 DEF ksend_message_wild
  <2> QED BY <2>1, <1>1, SameImplements
<1>4. ASSUME NEW p \in Pids, ReceiveAny(p) PROVE Queues!MailboxNext
  <2>1. Queues!ReceiveAny(p)
    BY <1>1, <1>4, ReceiveAnyImplements
  <2> QED BY <2>1, Zenon DEF Queues!MailboxNext
<1>5. ASSUME NEW p \in Pids, NEW who \in Pids, ReceiveFrom(p, who) PROVE Queues!MailboxNext
  <2>1. Queues!ReceiveFrom(p, who)
    BY <1>1, <1>5, ReceiveFromImplements
  <2> QED BY <2>1, Zenon DEF Queues!MailboxNext
<1>6. ASSUME NEW p \in Pids, CreateUserProcess(p) PROVE Queues!MailboxNext
  <2>1. Queues!Create(p)
    BY <1>1, <1>6, CreateImplements
  <2> QED BY <2>1, Zenon DEF Queues!MailboxNext
<1>7. ASSUME NEW p \in Pids, KillProcess(p) PROVE Queues!MailboxNext
  <2>1. Queues!Exit(p)
    BY <1>1, <1>7, KillImplements
  <2> QED BY <2>1, Zenon DEF Queues!MailboxNext
<1>8. CASE UNCHANGED messageVars
  <2>1. UNCHANGED <<alive, unborn, graves, first, num, used, next, prev, msg, sends, seen>>
    BY <1>8 DEF messageVars
  <2> QED BY <2>1, <1>1, SameImplements
<1> QED BY <1>2, <1>3, <1>4, <1>5, <1>6, <1>7, <1>8, Zenon DEF MessageNext

(* The linked lists of message.c implement the queues of Mailbox: a        *)
(* message sent to a living process is received once, by that process or   *)
(* by the one created in its place, and never overtaken by a later one of  *)
(* the same sender.                                                        *)
THEOREM MessageImplementsMailbox == MessageSpec => ImplementsMailbox
<1> QED BY InitImplements, StepImplements, MessageInvariant, PTL
        DEF MessageSpec, ImplementsMailbox, Queues!MailboxSpec

Order == INSTANCE MailboxProofs WITH queue <- [p \in Pids |-> QueueOf(p)]

(* So what MailboxProofs shows of the queues holds of the lists: a message *)
(* that waits is newer than any received from its sender, and the messages *)
(* of a list are in the order of sending.                                  *)
THEOREM ListsKeepOrder == MessageSpec => []Queues!SenderOrder
<1>1. Queues!MailboxInit => Order!MailboxInit
  BY Zenon DEF Order!MailboxInit, Queues!MailboxInit
<1>2. [Queues!MailboxNext]_Queues!mailboxVars => [Order!MailboxNext]_Order!mailboxVars
  <2>1. \A p, k : Queues!Take(p, k) => Order!Take(p, k)
    BY Zenon DEF Queues!Take, Order!Take, Queues!RemoveAt, Order!RemoveAt
  <2>2. \A s, r : Queues!Send(s, r) => Order!Send(s, r)
    BY Zenon DEF Queues!Send, Order!Send
  <2>3. \A p : Queues!ReceiveAny(p) => Order!ReceiveAny(p)
    BY <2>1, Zenon DEF Queues!ReceiveAny, Order!ReceiveAny
  <2>4. \A p, who : Queues!ReceiveFrom(p, who) => Order!ReceiveFrom(p, who)
    BY <2>1, Zenon DEF Queues!ReceiveFrom, Order!ReceiveFrom
  <2>5. \A p : Queues!Create(p) => Order!Create(p)
    BY Zenon DEF Queues!Create, Order!Create
  <2>6. \A p : Queues!Exit(p) => Order!Exit(p)
    BY Zenon DEF Queues!Exit, Order!Exit
  <2>7. Queues!MailboxNext => Order!MailboxNext
    BY <2>2, <2>3, <2>4, <2>5, <2>6, Zenon DEF Queues!MailboxNext, Order!MailboxNext
  <2>8. UNCHANGED Queues!mailboxVars => UNCHANGED Order!mailboxVars
    BY Zenon DEF Queues!mailboxVars, Order!mailboxVars
  <2> QED BY <2>7, <2>8, Zenon
<1>3. Order!SenderOrder => Queues!SenderOrder
  BY Zenon DEF Order!SenderOrder, Queues!SenderOrder
<1>4. Order!MailboxAssumption
  BY MessageAssumption DEF Order!MailboxAssumption
<1>5. Order!MailboxSpec => []Order!SenderOrder
  BY <1>4, Order!OrderIsKept
<1> QED BY <1>1, <1>2, <1>3, <1>5, MessageImplementsMailbox, PTL
        DEF ImplementsMailbox, Queues!MailboxSpec, Order!MailboxSpec
=============================================================================

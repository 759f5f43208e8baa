------------------------- MODULE MultitaskingProofs -------------------------
(***************************************************************************)
(* Proofs of the safety properties of Multitasking and of its refinement   *)
(* of RoundRobin, for every number of processes, clock width and set of    *)
(* sleep times.                                                            *)
(***************************************************************************)
EXTENDS MultitaskingRefine, TLAPS, WellFoundedInduction, SequenceTheorems

Statuses == {RUNNABLE, SLEEPING, PAUSED, FREED}

-----------------------------------------------------------------------------
(* Operators of the library and of the model.                              *)

(* A nonempty set of naturals has a least element, and Min selects it. *)
LEMMA MinNat ==
  ASSUME NEW S \in SUBSET Nat, S # {}
  PROVE  Min(S) \in S /\ \A y \in S : Min(S) <= y
<1>1. PICK x \in S : \A y \in S : ~(<<y, x>> \in OpToRel(<, Nat))
  BY NatLessThanWellFounded, WFMin, Zenon
<1>2. \A y \in S : x <= y
  <2>1. SUFFICES ASSUME NEW y \in S, ~(x <= y) PROVE FALSE
    OBVIOUS
  <2>2. y \in Nat /\ x \in Nat /\ y < x
    BY <2>1
  <2>3. <<y, x>> \in OpToRel(<, Nat)
    BY <2>2 DEF OpToRel
  <2> QED BY <2>3, <1>1
<1> QED BY <1>2 DEF Min

(* The search of KillProcess finds every process of the list. *)
LEMMA PosOfMember ==
  ASSUME NEW list \in Seq(Pids), NEW p, Contains(list, p)
  PROVE  PosOf(list, p) \in 1 .. Len(list) /\ list[PosOf(list, p)] = p
<1> DEFINE I == {i \in 1 .. Len(list) : list[i] = p}
<1>1. I # {} /\ I \in SUBSET Nat
  BY DEF Contains
<1>2. PosOf(list, p) = Min(I)
  BY <1>1, Zenon DEF PosOf, SelectInSeq
<1> HIDE DEF I
<1>3. Min(I) \in I
  BY <1>1, MinNat
<1> QED BY <1>2, <1>3 DEF I

(* Unlinking an element of a descending list removes that element only and *)
(* keeps the order.                                                        *)
LEMMA RemoveAtFacts ==
  ASSUME NEW list \in Seq(Pids), NEW i \in 1 .. Len(list), NewestFirst(list)
  PROVE  /\ RemoveAt(list, i) \in Seq(Pids)
         /\ Len(RemoveAt(list, i)) = Len(list) - 1
         /\ NewestFirst(RemoveAt(list, i))
         /\ ToSet(RemoveAt(list, i)) = ToSet(list) \ {list[i]}
<1> DEFINE s == SubSeq(list, 1, i - 1)
           t == SubSeq(list, i + 1, Len(list))
           r == RemoveAt(list, i)
<1>0. Len(list) \in Nat /\ i \in Nat /\ \A j \in 1 .. Len(list) : list[j] \in Pids
  BY LenProperties
<1>1. /\ s \in Seq(Pids) /\ Len(s) = i - 1
      /\ \A j \in 1 .. i - 1 : s[j] = list[j]
  <2>1. \A j \in 1 .. i - 1 : list[j] \in Pids
    BY <1>0
  <2>2. /\ s \in Seq(Pids)
        /\ Len(s) = IF 1 <= i - 1 THEN i - 1 - 1 + 1 ELSE 0
        /\ \A j \in 1 .. i - 1 - 1 + 1 : s[j] = list[1 + j - 1]
    BY <1>0, <2>1, SubSeqProperties
  <2> QED BY <1>0, <2>2
<1>2. /\ t \in Seq(Pids) /\ Len(t) = Len(list) - i
      /\ \A j \in 1 .. Len(list) - i : t[j] = list[i + j]
  <2>1. \A j \in i + 1 .. Len(list) : list[j] \in Pids
    BY <1>0
  <2>2. /\ t \in Seq(Pids)
        /\ Len(t) = IF i + 1 <= Len(list) THEN Len(list) - (i + 1) + 1 ELSE 0
        /\ \A j \in 1 .. Len(list) - (i + 1) + 1 : t[j] = list[i + 1 + j - 1]
    BY <1>0, <2>1, SubSeqProperties
  <2> QED BY <1>0, <2>2
<1> HIDE DEF s, t
<1>3. r = s \o t
  BY DEF RemoveAt, s, t
<1>4. /\ r \in Seq(Pids) /\ Len(r) = Len(list) - 1
      /\ \A j \in 1 .. Len(list) - 1 :
           r[j] = IF j < i THEN list[j] ELSE list[j + 1]
  <2>1. /\ s \o t \in Seq(Pids)
        /\ Len(s \o t) = Len(s) + Len(t)
        /\ \A j \in 1 .. Len(s) + Len(t) :
             (s \o t)[j] = IF j <= Len(s) THEN s[j] ELSE t[j - Len(s)]
    BY <1>1, <1>2, ConcatProperties
  <2>2. Len(s) + Len(t) = Len(list) - 1
    BY <1>0, <1>1, <1>2
  <2>3. ASSUME NEW j \in 1 .. Len(list) - 1
        PROVE  r[j] = IF j < i THEN list[j] ELSE list[j + 1]
    <3>1. r[j] = IF j <= Len(s) THEN s[j] ELSE t[j - Len(s)]
      BY <2>1, <2>2, <1>3, Zenon
    <3>2. j < i => j <= Len(s) /\ s[j] = list[j]
      BY <1>0, <1>1
    <3>3. ~(j < i) => ~(j <= Len(s)) /\ t[j - Len(s)] = list[j + 1]
      BY <1>0, <1>1, <1>2
    <3> QED BY <3>1, <3>2, <3>3, Zenon
  <2> QED BY <2>1, <2>2, <2>3, <1>3, Zenon
<1> HIDE DEF r
<1>5. NewestFirst(r)
  <2>1. \A j, k \in 1 .. Len(list) : j < k => list[j] > list[k]
    BY DEF NewestFirst
  <2>2. \A j, k \in 1 .. Len(r) : j < k => r[j] > r[k]
    BY <2>1, <1>4, <1>0
  <2> QED BY <2>2 DEF NewestFirst
<1>6. ToSet(r) = ToSet(list) \ {list[i]}
  <2>1. DOMAIN r = 1 .. Len(list) - 1 /\ DOMAIN list = 1 .. Len(list)
    BY <1>4, LenProperties
  <2>2. \A j \in 1 .. Len(list) : j # i => list[j] # list[i]
    <3>1. \A j, k \in 1 .. Len(list) : j < k => list[j] > list[k]
      BY DEF NewestFirst
    <3> QED BY <3>1, <1>0 DEF Pids
  <2>3. ASSUME NEW x \in ToSet(r) PROVE x \in ToSet(list) \ {list[i]}
    BY <2>1, <2>2, <2>3, <1>4, <1>0 DEF ToSet
  <2>4. ASSUME NEW x \in ToSet(list) \ {list[i]} PROVE x \in ToSet(r)
    <3>1. PICK j \in 1 .. Len(list) : x = list[j]
      BY <2>1 DEF ToSet
    <3>2. CASE j < i
      <4>1. j \in 1 .. Len(list) - 1 /\ r[j] = x
        BY <3>1, <3>2, <1>4, <1>0
      <4> QED BY <4>1, <2>1 DEF ToSet
    <3>3. CASE j > i
      <4>1. j - 1 \in 1 .. Len(list) - 1 /\ r[j - 1] = x
        BY <3>1, <3>3, <1>4, <1>0
      <4> QED BY <4>1, <2>1 DEF ToSet
    <3> QED BY <3>1, <3>2, <3>3, <1>0
  <2> QED BY <2>3, <2>4
<1> QED BY <1>4, <1>5, <1>6 DEF r

-----------------------------------------------------------------------------
(* Schedule.                                                               *)

(* What the scan of Schedule returns: a process of the list, and the idle  *)
(* process only if no element from the start of the scan on is ready.      *)
LEMMA NextProcessFacts ==
  ASSUME NEW list \in Seq(Pids), Contains(list, IDLE),
         NEW cur, cur # NULL, Contains(list, cur),
         NEW st, NEW tm, NEW now,
         NEW p, p = NextProcess(list, cur, st, tm, now)
  PROVE  /\ Contains(list, p)
         /\ \/ Ready(st, tm, now, p)
            \/ p = IDLE /\ ~Ready(st, tm, now, list[Len(list)])
<1> DEFINE I == {i \in ScanStart(list, cur) .. Len(list) : Ready(st, tm, now, list[i])}
           k == SelectInSubSeq(list, ScanStart(list, cur), Len(list),
                               LAMBDA q : Ready(st, tm, now, q))
<1>1. /\ Len(list) \in Nat \ {0}
      /\ ScanStart(list, cur) \in 1 .. Len(list)
  <2>1. PosOf(list, cur) \in 1 .. Len(list) /\ Len(list) \in Nat
    BY PosOfMember, LenProperties
  <2> QED BY <2>1 DEF ScanStart
<1>2. I \in SUBSET Nat
  BY <1>1
<1>3. k = IF I # {} THEN Min(I) ELSE 0
  BY Zenon DEF SelectInSubSeq
<1>4. p = IF k = 0 THEN IDLE ELSE list[k]
  BY Zenon DEF NextProcess
<1>5. CASE I = {}
  <2>1. Len(list) \in ScanStart(list, cur) .. Len(list)
    BY <1>1
  <2>2. ~Ready(st, tm, now, list[Len(list)])
    BY <2>1, <1>5
  <2> QED BY <1>3, <1>4, <1>5, <2>2
<1>6. CASE I # {}
  <2>1. k \in I
    <3> HIDE DEF I, k
    <3> QED BY <1>2, <1>3, <1>6, MinNat
  <2>2. k \in 1 .. Len(list) /\ Ready(st, tm, now, list[k]) /\ k # 0
    <3> HIDE DEF k
    <3> QED BY <2>1, <1>1
  <2> HIDE DEF k
  <2> QED BY <1>4, <2>2 DEF Contains
<1> QED BY <1>5, <1>6

(* The arguments Schedule is called with: the list agrees with the status  *)
(* values, and the idle process is parked in it.                           *)
Scheduling(list, st, tm) ==
  /\ list \in Seq(Pids)
  /\ st \in [Pids -> Statuses]
  /\ tm \in [Pids -> 0 .. TickMod - 1]
  /\ NewestFirst(list)
  /\ ToSet(list) = {p \in Pids : st[p] # FREED}
  /\ st[IDLE] = PAUSED /\ tm[IDLE] = 0

LEMMA PidsFacts == Pids \subseteq Nat /\ {KERNEL, IDLE, RAMDISK} \subseteq Pids
BY MultitaskingAssumption DEF Pids, KERNEL, IDLE, RAMDISK

(* Membership in the list, in three forms. *)
LEMMA ListMembers ==
  ASSUME NEW list, NEW st, NEW tm, Scheduling(list, st, tm)
  PROVE  /\ Len(list) \in Nat \ {0}
         /\ Contains(list, IDLE)
         /\ list[1] \in Pids /\ Contains(list, list[1])
         /\ \A p : Contains(list, p) <=> p \in Pids /\ st[p] # FREED
<1>1. DOMAIN list = 1 .. Len(list) /\ Len(list) \in Nat
  BY LenProperties DEF Scheduling
<1>2. \A p : Contains(list, p) <=> p \in ToSet(list)
  BY <1>1 DEF Contains, ToSet
<1>3. \A p : Contains(list, p) <=> p \in Pids /\ st[p] # FREED
  BY <1>2 DEF Scheduling
<1>4. Contains(list, IDLE)
  BY <1>3, PidsFacts DEF Scheduling, PAUSED, FREED
<1>5. Len(list) # 0
  BY <1>4, <1>1 DEF Contains
<1>6. Contains(list, list[1])
  BY <1>5, <1>1 DEF Contains
<1> QED BY <1>1, <1>3, <1>4, <1>5, <1>6

(* kernel_process has the least pid, so it is the tail of the list. *)
LEMMA KernelIsLast ==
  ASSUME NEW list, NEW st, NEW tm, Scheduling(list, st, tm), st[KERNEL] # FREED
  PROVE  list[Len(list)] = KERNEL
<1>1. Contains(list, KERNEL) /\ Len(list) \in Nat \ {0}
  BY ListMembers, PidsFacts
<1>2. PICK i \in 1 .. Len(list) : list[i] = KERNEL
  BY <1>1 DEF Contains
<1>3. list[Len(list)] \in Nat
  <2>1. list \in Seq(Pids) /\ Len(list) \in 1 .. Len(list)
    BY <1>1 DEF Scheduling
  <2> QED BY <2>1, PidsFacts, ElementOfSeq
<1>4. i < Len(list) => KERNEL > list[Len(list)]
  BY <1>1, <1>2 DEF Scheduling, NewestFirst
<1> QED BY <1>1, <1>2, <1>3, <1>4 DEF KERNEL

(* Schedule keeps the list and the status values in agreement, selects a   *)
(* living process, wakes only an expired sleeper, and turns to idle only   *)
(* if kernel_process cannot run.                                           *)
LEMMA ScheduleFacts ==
  ASSUME NEW list, NEW cur, NEW st, NEW tm, NEW now,
         Scheduling(list, st, tm),
         cur = NULL \/ Contains(list, cur),
         Schedule(list, cur, st, tm, now)
  PROVE  /\ Scheduling(list, status', sleep_timer')
         /\ current' \in Pids /\ Contains(list, current')
         /\ cur = NULL => current' = list[1]
         /\ cur # NULL => Ready(st, tm, now, current') \/ current' = IDLE
         /\ cur # NULL /\ Expired(st, tm, now, current') => status'[current'] = RUNNABLE
         /\ current' = IDLE =>
              \/ status'[KERNEL] = FREED
              \/ ~Ready(status', sleep_timer', now, KERNEL)
              \/ list[1] = IDLE
<1> DEFINE p == NextProcess(list, cur, st, tm, now)
           woken == cur # NULL /\ Expired(st, tm, now, p)
<1>1. /\ current' = p
      /\ status' = IF woken THEN [st EXCEPT ![p] = RUNNABLE] ELSE st
      /\ sleep_timer' = IF woken THEN [tm EXCEPT ![p] = 0] ELSE tm
  BY Zenon DEF Schedule
<1>2. /\ Len(list) \in Nat \ {0} /\ Contains(list, IDLE)
      /\ list[1] \in Pids /\ Contains(list, list[1])
      /\ \A q : Contains(list, q) <=> q \in Pids /\ st[q] # FREED
  BY ListMembers
<1>3. cur = NULL => p = list[1]
  BY DEF NextProcess
<1>4. cur # NULL => /\ Contains(list, p)
                    /\ \/ Ready(st, tm, now, p)
                       \/ p = IDLE /\ ~Ready(st, tm, now, list[Len(list)])
  BY <1>2, NextProcessFacts DEF Scheduling
<1> HIDE DEF p
<1>5. Contains(list, p) /\ p \in Pids /\ st[p] # FREED
  BY <1>2, <1>3, <1>4
<1>6. woken => p # IDLE
  BY DEF Expired, Scheduling
<1>7. Scheduling(list, status', sleep_timer')
  <2>1. CASE ~woken
    BY <1>1, <2>1
  <2>2. CASE woken
    <3>1. /\ status' = [st EXCEPT ![p] = RUNNABLE]
          /\ sleep_timer' = [tm EXCEPT ![p] = 0]
      BY <1>1, <2>2
    <3>2. status' \in [Pids -> Statuses] /\ sleep_timer' \in [Pids -> 0 .. TickMod - 1]
      <4>1. RUNNABLE \in Statuses /\ 0 \in 0 .. TickMod - 1
        BY MultitaskingAssumption DEF Statuses
      <4> QED BY <3>1, <4>1 DEF Scheduling
    <3>3. \A q \in Pids : status'[q] = FREED <=> st[q] = FREED
      BY <3>1, <1>5 DEF Scheduling, RUNNABLE, FREED
    <3>4. status'[IDLE] = PAUSED /\ sleep_timer'[IDLE] = 0
      BY <3>1, <1>6, <2>2, PidsFacts DEF Scheduling
    <3> QED BY <3>2, <3>3, <3>4 DEF Scheduling
  <2> QED BY <2>1, <2>2
<1>8. current' = IDLE =>
        \/ status'[KERNEL] = FREED
        \/ ~Ready(status', sleep_timer', now, KERNEL)
        \/ list[1] = IDLE
  <2>1. SUFFICES ASSUME p = IDLE, cur # NULL, st[KERNEL] # FREED
                 PROVE  ~Ready(status', sleep_timer', now, KERNEL)
    BY <1>1, <1>3, <1>6
  <2>2. status' = st /\ sleep_timer' = tm
    BY <1>1, <1>6, <2>1
  <2>3. ~Ready(st, tm, now, IDLE)
    BY DEF Scheduling, Ready, Expired, RUNNABLE, PAUSED
  <2>4. list[Len(list)] = KERNEL
    BY <2>1, KernelIsLast
  <2> QED BY <1>4, <2>1, <2>2, <2>3, <2>4
<1>9. cur # NULL /\ Expired(st, tm, now, p) => status'[p] = RUNNABLE
  BY <1>1, <1>5 DEF Scheduling
<1> QED BY <1>1, <1>2, <1>3, <1>4, <1>5, <1>7, <1>8, <1>9

-----------------------------------------------------------------------------
(* The inductive invariant.                                                *)

(* The pids not handed out yet have no process. *)
NewPidsFree == \A p \in Pids : p >= num_proc => status[p] = FREED

(* Without a current process the system is still booting. *)
NobodySleepsAtBoot == current = NULL => \A p \in Pids : status[p] # SLEEPING

SchedInv ==
  /\ TypeOK
  /\ ListSound
  /\ CurrentListed
  /\ IdleParked
  /\ NewPidsFree
  /\ NobodySleepsAtBoot
  /\ IdleWaitsForKernel

LEMMA InvScheduling == SchedInv => Scheduling(procs, status, sleep_timer)
BY DEF SchedInv, TypeOK, ListSound, IdleParked, Scheduling, Statuses

(* The conjuncts of the invariant after a handler that ended in Schedule. *)
LEMMA AfterSchedule ==
  ASSUME NEW cur, NEW st, NEW tm,
         Scheduling(procs', st, tm),
         cur = NULL \/ Contains(procs', cur),
         Schedule(procs', cur, st, tm, tick_count'),
         num_proc' \in 3 .. MaxProc, uid' \in [Pids -> Nat],
         tick_count' \in 0 .. TickMod - 1,
         \A p \in Pids : p >= num_proc' => st[p] = FREED
  PROVE  SchedInv'
<1>1. /\ Scheduling(procs', status', sleep_timer')
      /\ current' \in Pids /\ Contains(procs', current')
      /\ current' = IDLE =>
           \/ status'[KERNEL] = FREED
           \/ ~Ready(status', sleep_timer', tick_count', KERNEL)
           \/ procs'[1] = IDLE
  BY ScheduleFacts
<1>2. /\ \A q : Contains(procs', q) <=> q \in Pids /\ status'[q] # FREED
      /\ \A q : Contains(procs', q) <=> q \in Pids /\ st[q] # FREED
      /\ Contains(procs', IDLE)
  <2> DEFINE list == procs'
             s2 == status'
             t2 == sleep_timer'
  <2>1. Scheduling(list, s2, t2) /\ Scheduling(list, st, tm)
    BY <1>1
  <2> HIDE DEF list, s2, t2
  <2>2. /\ \A q : Contains(list, q) <=> q \in Pids /\ s2[q] # FREED
        /\ \A q : Contains(list, q) <=> q \in Pids /\ st[q] # FREED
        /\ Contains(list, IDLE)
    BY <2>1, ListMembers
  <2> QED BY <2>2 DEF list, s2
<1>3. TypeOK'
  BY <1>1 DEF TypeOK, Scheduling, Statuses
<1>4. ListSound' /\ IdleParked'
  BY <1>1, <1>2 DEF ListSound, IdleParked, Scheduling
<1>5. CurrentListed'
  BY <1>1, <1>2 DEF CurrentListed
<1>6. NewPidsFree'
  BY <1>2 DEF NewPidsFree
<1>7. NobodySleepsAtBoot'
  BY <1>1, PidsFacts, MultitaskingAssumption DEF NobodySleepsAtBoot
<1>8. IdleWaitsForKernel'
  BY <1>1 DEF IdleWaitsForKernel
<1> QED BY <1>3, <1>4, <1>5, <1>6, <1>7, <1>8 DEF SchedInv

LEMMA InitInv == Init => SchedInv
<1> SUFFICES ASSUME Init PROVE SchedInv
  OBVIOUS
<1> USE DEF Init, InitMultitasking
<1>1. /\ procs = <<2, 1, 0>>
      /\ Len(procs) = 3 /\ procs[1] = 2 /\ procs[2] = 1 /\ procs[3] = 0
      /\ DOMAIN procs = 1 .. 3
  BY DEF KERNEL, IDLE, RAMDISK
<1>2. 0 \in Pids /\ 1 \in Pids /\ 2 \in Pids
  BY PidsFacts DEF KERNEL, IDLE, RAMDISK
<1>3. TypeOK
  <2>1. procs \in Seq(Pids)
    BY <1>1, <1>2
  <2>2. sleep_timer \in [Pids -> 0 .. TickMod - 1] /\ tick_count \in 0 .. TickMod - 1
    BY MultitaskingAssumption
  <2>3. num_proc \in 3 .. MaxProc
    BY MultitaskingAssumption
  <2> QED BY <2>1, <2>2, <2>3 DEF TypeOK, ROOT_UID
<1>4. ListSound
  <2>1. NewestFirst(procs)
    BY <1>1 DEF NewestFirst
  <2>2. ToSet(procs) = {0, 1, 2}
    BY <1>1 DEF ToSet
  <2>3. {p \in Pids : status[p] # FREED} = {0, 1, 2}
    BY <1>2 DEF KERNEL, IDLE, RAMDISK, RUNNABLE, PAUSED, FREED
  <2> QED BY <2>1, <2>2, <2>3 DEF ListSound
<1>5. CurrentListed /\ IdleWaitsForKernel /\ NobodySleepsAtBoot
  BY <1>2, MultitaskingAssumption
     DEF CurrentListed, IdleWaitsForKernel, NobodySleepsAtBoot, KERNEL, IDLE, RAMDISK,
         RUNNABLE, PAUSED, FREED, SLEEPING
<1>6. IdleParked
  BY <1>1, <1>2 DEF IdleParked, Contains, KERNEL, IDLE, RAMDISK
<1>7. NewPidsFree
  BY MultitaskingAssumption DEF NewPidsFree, Pids, KERNEL, IDLE, RAMDISK
<1> QED BY <1>3, <1>4, <1>5, <1>6, <1>7 DEF SchedInv

(* A process that executes code is in the list and is not the idle one. *)
LEMMA ExecutingFacts ==
  ASSUME SchedInv, Executing
  PROVE  /\ current \in Pids /\ current # NULL /\ current # IDLE
         /\ Contains(procs, current) /\ status[current] # FREED
BY PidsFacts, MultitaskingAssumption
   DEF SchedInv, TypeOK, CurrentListed, Executing

LEMMA TickRange ==
  ASSUME NEW t \in Nat
  PROVE  t % TickMod \in 0 .. TickMod - 1
BY MultitaskingAssumption

LEMMA TimerInterruptInv == SchedInv /\ TimerInterrupt => SchedInv'
<1> SUFFICES ASSUME SchedInv, TimerInterrupt PROVE SchedInv'
  OBVIOUS
<1>1. Scheduling(procs', status, sleep_timer)
  BY InvScheduling DEF TimerInterrupt
<1>2. current = NULL \/ Contains(procs', current)
  BY DEF SchedInv, CurrentListed, TimerInterrupt
<1>3. Schedule(procs', current, status, sleep_timer, tick_count')
  BY DEF TimerInterrupt
<1>4. tick_count' \in 0 .. TickMod - 1
  <2>1. tick_count + 1 \in Nat
    BY MultitaskingAssumption DEF SchedInv, TypeOK
  <2> QED BY <2>1, TickRange, Zenon DEF TimerInterrupt
<1>5. num_proc' \in 3 .. MaxProc /\ uid' \in [Pids -> Nat]
  BY DEF TimerInterrupt, SchedInv, TypeOK
<1>6. \A p \in Pids : p >= num_proc' => status[p] = FREED
  BY DEF TimerInterrupt, SchedInv, NewPidsFree
<1> QED BY <1>1, <1>2, <1>3, <1>4, <1>5, <1>6, AfterSchedule

(* The arguments KillCurrentProcess calls Schedule with. *)
LEMMA KillScheduling ==
  ASSUME SchedInv, Executing, KillCurrentProcess
  PROVE  Scheduling(procs', [status EXCEPT ![current] = FREED],
                    [sleep_timer EXCEPT ![current] = 0])
<1> DEFINE st == [status EXCEPT ![current] = FREED]
           tm == [sleep_timer EXCEPT ![current] = 0]
           k  == PosOf(procs, current)
<1>1. /\ current \in Pids /\ current # NULL /\ current # IDLE
      /\ Contains(procs, current) /\ status[current] # FREED
  BY ExecutingFacts
<1>2. k \in 1 .. Len(procs) /\ procs[k] = current
  BY <1>1, PosOfMember DEF SchedInv, TypeOK
<1>3. procs' = RemoveAt(procs, k)
  BY DEF KillCurrentProcess
<1> HIDE DEF k
<1>4. /\ procs' \in Seq(Pids) /\ NewestFirst(procs')
      /\ ToSet(procs') = ToSet(procs) \ {current}
  BY <1>2, <1>3, RemoveAtFacts DEF SchedInv, TypeOK, ListSound
<1>5. st \in [Pids -> Statuses] /\ tm \in [Pids -> 0 .. TickMod - 1]
  <2>1. FREED \in Statuses /\ 0 \in 0 .. TickMod - 1
    BY MultitaskingAssumption DEF Statuses
  <2> QED BY <2>1, <1>1 DEF SchedInv, TypeOK, Statuses
<1>6. ToSet(procs') = {p \in Pids : st[p] # FREED}
  BY <1>1, <1>4 DEF SchedInv, TypeOK, ListSound
<1>7. st[IDLE] = PAUSED /\ tm[IDLE] = 0
  BY <1>1, PidsFacts DEF SchedInv, TypeOK, IdleParked
<1> QED BY <1>4, <1>5, <1>6, <1>7 DEF Scheduling

LEMMA KillInv == SchedInv /\ Executing /\ KillCurrentProcess => SchedInv'
<1> SUFFICES ASSUME SchedInv, Executing, KillCurrentProcess PROVE SchedInv'
  OBVIOUS
<1> DEFINE st == [status EXCEPT ![current] = FREED]
           tm == [sleep_timer EXCEPT ![current] = 0]
<1>1. current \in Pids
  BY ExecutingFacts
<1>2. /\ Schedule(procs', NULL, st, tm, tick_count')
      /\ UNCHANGED <<num_proc, uid, tick_count>>
  BY DEF KillCurrentProcess
<1>3. Scheduling(procs', st, tm)
  BY KillScheduling
<1>4. num_proc' \in 3 .. MaxProc /\ uid' \in [Pids -> Nat] /\ tick_count' \in 0 .. TickMod - 1
  BY <1>2 DEF SchedInv, TypeOK
<1>5. \A p \in Pids : p >= num_proc' => st[p] = FREED
  BY <1>1, <1>2 DEF SchedInv, NewPidsFree, TypeOK
<1> QED BY <1>2, <1>3, <1>4, <1>5, AfterSchedule

(* The arguments set_timer calls Schedule with. *)
LEMMA SetTimerScheduling ==
  ASSUME NEW n \in SleepTimes, SchedInv, SyscallSetTimer(n)
  PROVE  Scheduling(procs, [status EXCEPT ![current] = SLEEPING],
                    [sleep_timer EXCEPT ![current] = (tick_count + n) % TickMod])
<1> DEFINE st == [status EXCEPT ![current] = SLEEPING]
           tm == [sleep_timer EXCEPT ![current] = (tick_count + n) % TickMod]
<1>1. current \in Pids /\ current # IDLE /\ status[current] # FREED
  BY ExecutingFacts DEF SyscallSetTimer
<1>2. (tick_count + n) % TickMod \in 0 .. TickMod - 1
  <2>1. tick_count + n \in Nat
    BY MultitaskingAssumption DEF SchedInv, TypeOK
  <2> QED BY <2>1, TickRange, Zenon
<1>3. st \in [Pids -> Statuses] /\ tm \in [Pids -> 0 .. TickMod - 1]
  BY <1>1, <1>2 DEF SchedInv, TypeOK, Statuses
<1>4. \A p \in Pids : st[p] = FREED <=> status[p] = FREED
  BY <1>1 DEF SchedInv, TypeOK, SLEEPING, FREED
<1>5. st[IDLE] = PAUSED /\ tm[IDLE] = 0
  BY <1>1, PidsFacts DEF SchedInv, TypeOK, IdleParked
<1> QED BY <1>3, <1>4, <1>5 DEF Scheduling, SchedInv, TypeOK, ListSound

LEMMA SetTimerInv ==
  ASSUME NEW n \in SleepTimes, SchedInv, SyscallSetTimer(n)
  PROVE  SchedInv'
<1> DEFINE st == [status EXCEPT ![current] = SLEEPING]
           tm == [sleep_timer EXCEPT ![current] = (tick_count + n) % TickMod]
<1>1. /\ current \in Pids /\ current # NULL /\ current # IDLE
      /\ Contains(procs, current) /\ status[current] # FREED
  BY ExecutingFacts DEF SyscallSetTimer
<1>2. UNCHANGED <<procs, num_proc, uid, tick_count>>
  BY DEF SyscallSetTimer
<1>3. Schedule(procs', current, st, tm, tick_count')
  BY <1>2 DEF SyscallSetTimer
<1>4. Scheduling(procs', st, tm)
  BY <1>2, SetTimerScheduling
<1>5. Contains(procs', current)
  BY <1>1, <1>2
<1>6. num_proc' \in 3 .. MaxProc /\ uid' \in [Pids -> Nat] /\ tick_count' \in 0 .. TickMod - 1
  BY <1>2 DEF SchedInv, TypeOK
<1>7. \A p \in Pids : p >= num_proc' => st[p] = FREED
  BY <1>1, <1>2 DEF SchedInv, NewPidsFree, TypeOK
<1> QED BY <1>3, <1>4, <1>5, <1>6, <1>7, AfterSchedule

LEMMA LaunchElfInv == SchedInv /\ SyscallLaunchElf => SchedInv'
<1> SUFFICES ASSUME SchedInv, SyscallLaunchElf PROVE SchedInv'
  OBVIOUS
<1>1. /\ current \in Pids /\ current # NULL /\ current # IDLE
      /\ Contains(procs, current) /\ status[current] # FREED
  BY ExecutingFacts DEF SyscallLaunchElf
<1>2. /\ procs' = <<num_proc>> \o procs
      /\ status' = [status EXCEPT ![num_proc] = RUNNABLE]
      /\ sleep_timer' = [sleep_timer EXCEPT ![num_proc] = 0]
      /\ uid' = [uid EXCEPT ![num_proc] = uid[current]]
      /\ num_proc' = num_proc + 1
      /\ current' = current /\ tick_count' = tick_count
  BY DEF SyscallLaunchElf, CreateUserProcess
<1>3. num_proc \in Pids /\ num_proc \in Nat /\ num_proc' \in 3 .. MaxProc
  BY <1>2, MultitaskingAssumption DEF SyscallLaunchElf, CreateUserProcess, SchedInv, TypeOK, Pids
<1>4. num_proc # current /\ num_proc # IDLE
  BY <1>1, <1>3 DEF SchedInv, NewPidsFree, IdleParked, PAUSED, FREED
<1>5. /\ Len(procs) \in Nat /\ DOMAIN procs = 1 .. Len(procs)
      /\ \A i \in 1 .. Len(procs) : procs[i] \in Pids /\ procs[i] < num_proc
  <2>1. procs \in Seq(Pids)
    BY DEF SchedInv, TypeOK
  <2>2. Len(procs) \in Nat /\ DOMAIN procs = 1 .. Len(procs)
        /\ \A i \in 1 .. Len(procs) : procs[i] \in Pids
    BY <2>1, LenProperties, ElementOfSeq
  <2>3. \A i \in 1 .. Len(procs) : status[procs[i]] # FREED
    BY <2>2 DEF SchedInv, ListSound, ToSet
  <2>4. ASSUME NEW i \in 1 .. Len(procs) PROVE procs[i] < num_proc
    <3>1. procs[i] \in Pids /\ status[procs[i]] # FREED
      BY <2>2, <2>3
    <3>2. ~(procs[i] >= num_proc)
      BY <3>1 DEF SchedInv, NewPidsFree
    <3>3. procs[i] \in Nat
      BY <3>1, PidsFacts
    <3> QED BY <3>2, <3>3, <1>3
  <2> QED BY <2>2, <2>4
<1>6. /\ procs' \in Seq(Pids) /\ Len(procs') = Len(procs) + 1
      /\ procs'[1] = num_proc
      /\ \A i \in 1 .. Len(procs) : procs'[i + 1] = procs[i]
      /\ DOMAIN procs' = 1 .. Len(procs) + 1
  <2>1. procs \in Seq(Pids) /\ <<num_proc>> \in Seq(Pids) /\ Len(<<num_proc>>) = 1
        /\ <<num_proc>>[1] = num_proc
    BY <1>3 DEF SchedInv, TypeOK
  <2>2. /\ procs' \in Seq(Pids)
        /\ Len(procs') = 1 + Len(procs)
        /\ \A i \in 1 .. 1 + Len(procs) :
             procs'[i] = IF i <= 1 THEN <<num_proc>>[i] ELSE procs[i - 1]
    BY <2>1, <1>2, ConcatProperties
  <2>3. DOMAIN procs' = 1 .. Len(procs')
    BY <2>2, LenProperties
  <2> QED BY <2>1, <2>2, <2>3, <1>5
<1>7. TypeOK'
  <2>1. RUNNABLE \in Statuses /\ 0 \in 0 .. TickMod - 1
    BY MultitaskingAssumption DEF Statuses
  <2>2. status' \in [Pids -> Statuses] /\ sleep_timer' \in [Pids -> 0 .. TickMod - 1]
        /\ uid' \in [Pids -> Nat]
    BY <2>1, <1>1, <1>2, <1>3 DEF SchedInv, TypeOK, Statuses
  <2> QED BY <2>2, <1>1, <1>2, <1>3, <1>6 DEF SchedInv, TypeOK, Statuses
<1>8. ListSound'
  <2>1. NewestFirst(procs')
    <3>1. SUFFICES ASSUME NEW i \in 1 .. Len(procs) + 1, NEW j \in 1 .. Len(procs) + 1, i < j
                   PROVE  procs'[i] > procs'[j]
      BY <1>6 DEF NewestFirst
    <3>2. j - 1 \in 1 .. Len(procs) /\ procs'[j] = procs[j - 1] /\ procs[j - 1] < num_proc
          /\ procs[j - 1] \in Nat
      <4>1. j - 1 \in 1 .. Len(procs) /\ (j - 1) + 1 = j
        BY <3>1, <1>5
      <4> QED BY <4>1, <1>5, <1>6, PidsFacts
    <3>3. CASE i = 1
      BY <3>2, <3>3, <1>6, <1>3
    <3>4. CASE i > 1
      <4>1. i - 1 \in 1 .. Len(procs) /\ i - 1 < j - 1 /\ (i - 1) + 1 = i
        BY <3>1, <3>4, <1>5
      <4>2. procs[i - 1] > procs[j - 1]
        BY <4>1, <3>2 DEF SchedInv, ListSound, NewestFirst
      <4>3. procs'[i] = procs[i - 1]
        BY <4>1, <1>6
      <4> QED BY <4>2, <4>3, <3>2
    <3> QED BY <3>3, <3>4
  <2>2. ToSet(procs') = ToSet(procs) \cup {num_proc}
    <3>1. ASSUME NEW x \in ToSet(procs') PROVE x \in ToSet(procs) \cup {num_proc}
      <4>1. PICK i \in 1 .. Len(procs) + 1 : x = procs'[i]
        BY <1>6 DEF ToSet
      <4>2. i = 1 \/ (i - 1 \in 1 .. Len(procs) /\ (i - 1) + 1 = i)
        BY <1>5
      <4> QED BY <4>1, <4>2, <1>5, <1>6 DEF ToSet
    <3>2. ASSUME NEW x \in ToSet(procs) PROVE x \in ToSet(procs')
      <4>1. PICK i \in 1 .. Len(procs) : x = procs[i]
        BY <1>5 DEF ToSet
      <4>2. i + 1 \in 1 .. Len(procs) + 1 /\ procs'[i + 1] = x
        BY <4>1, <1>5, <1>6
      <4> QED BY <4>2, <1>6 DEF ToSet
    <3>3. num_proc \in ToSet(procs')
      <4>1. 1 \in DOMAIN procs'
        BY <1>5, <1>6
      <4> QED BY <4>1, <1>6 DEF ToSet
    <3> QED BY <3>1, <3>2, <3>3
  <2>3. {p \in Pids : status'[p] # FREED}
          = {p \in Pids : status[p] # FREED} \cup {num_proc}
    BY <1>2, <1>3 DEF SchedInv, TypeOK, RUNNABLE, FREED
  <2> QED BY <2>1, <2>2, <2>3 DEF ListSound, SchedInv
<1>9. \A p : Contains(procs, p) => Contains(procs', p)
  <2>1. SUFFICES ASSUME NEW p, Contains(procs, p) PROVE Contains(procs', p)
    OBVIOUS
  <2>2. PICK i \in 1 .. Len(procs) : procs[i] = p
    BY <2>1 DEF Contains
  <2>3. i + 1 \in 1 .. Len(procs') /\ procs'[i + 1] = p
    BY <2>2, <1>5, <1>6
  <2> QED BY <2>3 DEF Contains
<1>10. CurrentListed'
  BY <1>1, <1>2, <1>4, <1>9 DEF CurrentListed, SchedInv, TypeOK
<1>11. IdleParked'
  BY <1>2, <1>4, <1>9, PidsFacts DEF IdleParked, SchedInv, TypeOK
<1>12. NewPidsFree'
  BY <1>2, <1>3, PidsFacts DEF NewPidsFree, SchedInv, TypeOK
<1>13. NobodySleepsAtBoot' /\ IdleWaitsForKernel'
  BY <1>1, <1>2 DEF NobodySleepsAtBoot, IdleWaitsForKernel
<1> QED BY <1>7, <1>8, <1>10, <1>11, <1>12, <1>13 DEF SchedInv

LEMMA NextInv == SchedInv /\ [Next]_vars => SchedInv'
<1> SUFFICES ASSUME SchedInv, [Next]_vars PROVE SchedInv'
  OBVIOUS
<1>1. CASE TimerInterrupt
  BY <1>1, TimerInterruptInv
<1>2. CASE SyscallExit
  BY <1>2, KillInv DEF SyscallExit
<1>3. CASE ProcessException
  BY <1>3, KillInv DEF ProcessException
<1>4. CASE \E n \in SleepTimes : SyscallSetTimer(n)
  BY <1>4, SetTimerInv
<1>5. CASE SyscallLaunchElf
  BY <1>5, LaunchElfInv
<1>6. CASE UNCHANGED vars
  BY <1>6 DEF vars, SchedInv, TypeOK, ListSound, CurrentListed, IdleParked, NewPidsFree,
              NobodySleepsAtBoot, IdleWaitsForKernel
<1> QED BY <1>1, <1>2, <1>3, <1>4, <1>5, <1>6 DEF Next

(* The inductive invariant holds in every reachable state. *)
THEOREM SchedInvariant == Spec => []SchedInv
BY InitInv, NextInv, PTL DEF Spec

(* The scheduler state keeps its types. *)
THEOREM TypeCorrect == Spec => []TypeOK
<1>1. SchedInv => TypeOK
  BY DEF SchedInv
<1> QED BY <1>1, SchedInvariant, PTL

(* The process list of multitasking.c holds exactly the living processes,  *)
(* each once and newest first, through any sequence of launches and kills. *)
THEOREM ListIsSound == Spec => []ListSound
<1>1. SchedInv => ListSound
  BY DEF SchedInv
<1> QED BY <1>1, SchedInvariant, PTL

(* current_process never points to a freed or unlinked process. *)
THEOREM CurrentNeverDangles == Spec => []CurrentListed
<1>1. SchedInv => CurrentListed
  BY DEF SchedInv
<1> QED BY <1>1, SchedInvariant, PTL

(* Schedule idles only while kernel_process cannot run. *)
THEOREM IdleOnlyWithoutKernel == Spec => []IdleWaitsForKernel
<1>1. SchedInv => IdleWaitsForKernel
  BY DEF SchedInv
<1> QED BY <1>1, SchedInvariant, PTL

-----------------------------------------------------------------------------
(* Sleeping.                                                               *)

(* A sleeper gets the CPU when its timer has expired, and is runnable      *)
(* then; only a kill hands the CPU to a process that still sleeps.         *)
THEOREM SleepersSleep == Spec => NoEarlyResume
<1> DEFINE Early == \A p \in Pids :
                      /\ status[p] = SLEEPING /\ current # p /\ current' = p
                      /\ procs' = procs
                      => sleep_timer[p] <= tick_count' /\ status'[p] = RUNNABLE
<1>1. ASSUME SchedInv, [Next]_vars PROVE [Early]_vars
  <2>1. SUFFICES ASSUME NEW p \in Pids, Next,
                        status[p] = SLEEPING, current # p, current' = p, procs' = procs
                 PROVE  sleep_timer[p] <= tick_count' /\ status'[p] = RUNNABLE
    BY <1>1
  <2>2. /\ Scheduling(procs, status, sleep_timer)
        /\ p # IDLE /\ current # NULL /\ Contains(procs, current) /\ current \in Pids
        /\ status[p] # RUNNABLE
    BY <2>1, <1>1, InvScheduling
       DEF SchedInv, TypeOK, IdleParked, CurrentListed, NobodySleepsAtBoot,
           SLEEPING, PAUSED, RUNNABLE
  <2>3. CASE TimerInterrupt
    <3>1. Schedule(procs, current, status, sleep_timer, tick_count')
      BY <2>3 DEF TimerInterrupt
    <3>2. /\ Ready(status, sleep_timer, tick_count', p)
          /\ Expired(status, sleep_timer, tick_count', p) => status'[p] = RUNNABLE
      BY <2>1, <2>2, <3>1, ScheduleFacts
    <3> QED BY <2>2, <3>2 DEF Ready, Expired
  <2>4. CASE SyscallExit \/ ProcessException
    <3>1. Contains(procs, current) /\ procs' = RemoveAt(procs, PosOf(procs, current))
      BY <2>2, <2>4 DEF SyscallExit, ProcessException, KillCurrentProcess
    <3>2. PosOf(procs, current) \in 1 .. Len(procs)
      BY <3>1, <1>1, PosOfMember DEF SchedInv, TypeOK
    <3>3. Len(procs') = Len(procs) - 1
      BY <3>1, <3>2, <1>1, RemoveAtFacts DEF SchedInv, TypeOK, ListSound
    <3>4. Len(procs) \in Nat
      BY <1>1, LenProperties DEF SchedInv, TypeOK
    <3> QED BY <2>1, <3>3, <3>4
  <2>5. CASE \E n \in SleepTimes : SyscallSetTimer(n)
    <3> PICK n \in SleepTimes : SyscallSetTimer(n)
      BY <2>5
    <3> DEFINE st == [status EXCEPT ![current] = SLEEPING]
               tm == [sleep_timer EXCEPT ![current] = (tick_count + n) % TickMod]
    <3>1. Schedule(procs, current, st, tm, tick_count) /\ tick_count' = tick_count
      BY DEF SyscallSetTimer
    <3>2. st[p] = SLEEPING /\ tm[p] = sleep_timer[p]
      BY <2>1, <1>1 DEF SchedInv, TypeOK
    <3>3. Scheduling(procs, st, tm)
      BY <1>1, SetTimerScheduling
    <3> HIDE DEF st, tm
    <3>4. /\ Ready(st, tm, tick_count, p)
          /\ Expired(st, tm, tick_count, p) => status'[p] = RUNNABLE
      BY <2>1, <2>2, <3>1, <3>3, ScheduleFacts
    <3> QED BY <3>1, <3>2, <3>4, <2>2, <2>1 DEF Ready, Expired
  <2>6. CASE SyscallLaunchElf
    BY <2>1, <2>6 DEF SyscallLaunchElf, CreateUserProcess
  <2> QED BY <2>1, <2>3, <2>4, <2>5, <2>6 DEF Next
<1>2. Spec => [][Early]_vars
  BY <1>1, SchedInvariant, PTL DEF Spec
<1> QED BY <1>2 DEF NoEarlyResume

(* The clock of a system that never wraps, with someone running. *)
ClockInv ==
  /\ tick_count <= MaxTick
  /\ current # NULL => tick_count >= 1
  /\ \A p \in Pids : status[p] = PAUSED => p = IDLE
  /\ SleepersArmed

(* Schedule disarms the timers of the processes it wakes, and no other. *)
LEMMA ScheduleArmed ==
  ASSUME NEW list, NEW cur, NEW st, NEW tm, NEW now,
         Scheduling(list, st, tm),
         cur = NULL \/ Contains(list, cur),
         Schedule(list, cur, st, tm, now),
         \A p \in Pids : st[p] = SLEEPING <=> tm[p] > 0,
         \A p \in Pids : st[p] = PAUSED => p = IDLE
  PROVE  /\ current' \in Pids
         /\ \A p \in Pids : status'[p] = SLEEPING <=> sleep_timer'[p] > 0
         /\ \A p \in Pids : status'[p] = PAUSED => p = IDLE
<1> DEFINE p == NextProcess(list, cur, st, tm, now)
           woken == cur # NULL /\ Expired(st, tm, now, p)
<1>1. /\ current' = p
      /\ status' = IF woken THEN [st EXCEPT ![p] = RUNNABLE] ELSE st
      /\ sleep_timer' = IF woken THEN [tm EXCEPT ![p] = 0] ELSE tm
  BY Zenon DEF Schedule
<1>2. current' \in Pids
  BY ScheduleFacts
<1> HIDE DEF p, woken
<1>3. CASE ~woken
  BY <1>1, <1>2, <1>3
<1>4. CASE woken
  BY <1>1, <1>2, <1>4 DEF Scheduling, RUNNABLE, SLEEPING, PAUSED
<1> QED BY <1>3, <1>4

LEMMA ModSmall ==
  ASSUME NEW t \in Nat, t < TickMod
  PROVE  t % TickMod = t
BY MultitaskingAssumption

LEMMA ClockInvariant ==
  ASSUME \A n \in SleepTimes : MaxTick + n < TickMod, MaxTick < TickMod
  PROVE  Spec => []ClockInv
<1>1. Init => ClockInv
  BY MultitaskingAssumption
     DEF Init, InitMultitasking, ClockInv, SleepersArmed, RUNNABLE, SLEEPING, PAUSED, FREED
<1>2. SchedInv /\ ClockInv /\ [Next]_vars => ClockInv'
  <2> SUFFICES ASSUME SchedInv, ClockInv, [Next]_vars PROVE ClockInv'
    OBVIOUS
  <2>0. Scheduling(procs, status, sleep_timer) /\ tick_count \in Nat
        /\ (current = NULL \/ Contains(procs, current)) /\ num_proc \in Nat
    BY InvScheduling, MultitaskingAssumption DEF SchedInv, CurrentListed, TypeOK
  <2>1. CASE TimerInterrupt
    <3>1. tick_count' = tick_count + 1 /\ tick_count + 1 <= MaxTick
      <4>1. tick_count + 1 \in Nat /\ tick_count + 1 <= MaxTick /\ tick_count + 1 < TickMod
        BY <2>0, <2>1, MultitaskingAssumption DEF TimerInterrupt
      <4> QED BY <4>1, <2>1, ModSmall DEF TimerInterrupt
    <3>2. /\ \A p \in Pids : status'[p] = SLEEPING <=> sleep_timer'[p] > 0
          /\ \A p \in Pids : status'[p] = PAUSED => p = IDLE
      BY <2>0, <2>1, ScheduleArmed DEF TimerInterrupt, ClockInv, SleepersArmed
    <3> QED BY <3>1, <3>2, <2>0 DEF ClockInv, SleepersArmed
  <2>2. CASE SyscallExit \/ ProcessException
    <3> DEFINE st == [status EXCEPT ![current] = FREED]
               tm == [sleep_timer EXCEPT ![current] = 0]
    <3>1. current \in Pids /\ current # NULL
      BY <2>2, ExecutingFacts DEF SyscallExit, ProcessException
    <3>2. /\ Schedule(procs', NULL, st, tm, tick_count)
          /\ tick_count' = tick_count
      BY <2>2 DEF SyscallExit, ProcessException, KillCurrentProcess
    <3>3. Scheduling(procs', st, tm)
      BY <2>2, KillScheduling DEF SyscallExit, ProcessException
    <3>4. /\ \A p \in Pids : st[p] = SLEEPING <=> tm[p] > 0
          /\ \A p \in Pids : st[p] = PAUSED => p = IDLE
      BY <3>1 DEF SchedInv, TypeOK, ClockInv, SleepersArmed, FREED, SLEEPING, PAUSED
    <3> HIDE DEF st, tm
    <3>5. /\ \A p \in Pids : status'[p] = SLEEPING <=> sleep_timer'[p] > 0
          /\ \A p \in Pids : status'[p] = PAUSED => p = IDLE
      BY <3>2, <3>3, <3>4, ScheduleArmed
    <3> QED BY <3>1, <3>2, <3>5 DEF ClockInv, SleepersArmed
  <2>3. CASE \E n \in SleepTimes : SyscallSetTimer(n)
    <3> PICK n \in SleepTimes : SyscallSetTimer(n)
      BY <2>3
    <3> DEFINE st == [status EXCEPT ![current] = SLEEPING]
               tm == [sleep_timer EXCEPT ![current] = (tick_count + n) % TickMod]
    <3>1. current \in Pids /\ current # NULL /\ current # IDLE
      BY ExecutingFacts DEF SyscallSetTimer
    <3>2. Schedule(procs, current, st, tm, tick_count) /\ tick_count' = tick_count
      BY DEF SyscallSetTimer
    <3>3. Scheduling(procs, st, tm)
      BY SetTimerScheduling
    <3>4. (tick_count + n) % TickMod > 0
      <4>1. tick_count + n \in Nat /\ tick_count + n < TickMod /\ tick_count + n > 0
        BY <2>0, <3>1, MultitaskingAssumption DEF ClockInv
      <4> QED BY <4>1, ModSmall
    <3>5. /\ \A p \in Pids : st[p] = SLEEPING <=> tm[p] > 0
          /\ \A p \in Pids : st[p] = PAUSED => p = IDLE
      BY <3>1, <3>4 DEF SchedInv, TypeOK, ClockInv, SleepersArmed, SLEEPING, PAUSED
    <3> HIDE DEF st, tm
    <3>6. /\ \A p \in Pids : status'[p] = SLEEPING <=> sleep_timer'[p] > 0
          /\ \A p \in Pids : status'[p] = PAUSED => p = IDLE
      BY <2>0, <3>1, <3>2, <3>3, <3>5, ScheduleArmed
    <3> QED BY <3>1, <3>2, <3>6 DEF ClockInv, SleepersArmed
  <2>4. CASE SyscallLaunchElf
    <3>1. num_proc \in Pids
      BY <2>0, <2>4, MultitaskingAssumption DEF SyscallLaunchElf, CreateUserProcess, Pids
    <3> QED BY <2>4, <3>1
            DEF SyscallLaunchElf, CreateUserProcess, SchedInv, TypeOK, ClockInv, SleepersArmed,
                RUNNABLE, SLEEPING, PAUSED
  <2>5. CASE UNCHANGED vars
    BY <2>5 DEF vars, ClockInv, SleepersArmed
  <2> QED BY <2>1, <2>2, <2>3, <2>4, <2>5 DEF Next
<1> QED BY <1>1, <1>2, SchedInvariant, PTL DEF Spec

(* While the clock does not wrap, a sleeping process always has an armed   *)
(* timer: Schedule never loses a sleeper, not even after set_timer(0).     *)
THEOREM NoSleeperIsLost ==
  ASSUME \A n \in SleepTimes : MaxTick + n < TickMod, MaxTick < TickMod
  PROVE  Spec => []SleepersArmed
<1>1. ClockInv => SleepersArmed
  BY DEF ClockInv
<1> QED BY <1>1, ClockInvariant, PTL

-----------------------------------------------------------------------------
(* Schedule and the abstract scheduler.                                    *)

(* The head of the list is the newest process, its tail the oldest. *)
LEMMA EndsOfList ==
  ASSUME NEW list, NEW st, NEW tm, Scheduling(list, st, tm)
  PROVE  /\ Abstract!Max(ToSet(list)) = list[1]
         /\ Abstract!Min(ToSet(list)) = list[Len(list)]
<1> DEFINE n == Len(list)
           S == ToSet(list)
<1>1. /\ n \in Nat \ {0} /\ S = {list[i] : i \in 1 .. n}
      /\ \A i \in 1 .. n : list[i] \in Nat
      /\ \A i, j \in 1 .. n : i < j => list[i] > list[j]
  <2>1. n \in Nat \ {0}
    BY ListMembers
  <2>2. list \in Seq(Pids) /\ \A i, j \in 1 .. n : i < j => list[i] > list[j]
    BY DEF Scheduling, NewestFirst
  <2>3. DOMAIN list = 1 .. n
    BY <2>2, LenProperties
  <2>4. \A i \in 1 .. n : list[i] \in Nat
    BY <2>2, PidsFacts, ElementOfSeq
  <2> QED BY <2>1, <2>2, <2>3, <2>4 DEF ToSet
<1> HIDE DEF n, S
<1>2. /\ list[1] \in S /\ \A y \in S : list[1] >= y
      /\ list[n] \in S /\ \A y \in S : list[n] <= y
      /\ S \subseteq Nat
  BY <1>1
<1>3. Abstract!Max(S) = list[1]
  <2>1. Abstract!Max(S) \in S /\ \A y \in S : Abstract!Max(S) >= y
    BY <1>2, Zenon DEF Abstract!Max
  <2> DEFINE m == Abstract!Max(S)
             e == list[1]
  <2>2. m \in Nat /\ e \in Nat /\ m >= e /\ e >= m
    BY <2>1, <1>2, Zenon
  <2> HIDE DEF m, e
  <2>3. m = e
    BY <2>2
  <2> QED BY <2>3 DEF m, e
<1>4. Abstract!Min(S) = list[n]
  <2>1. Abstract!Min(S) \in S /\ \A y \in S : Abstract!Min(S) <= y
    BY <1>2, Zenon DEF Abstract!Min
  <2> DEFINE m == Abstract!Min(S)
             e == list[n]
  <2>2. m \in Nat /\ e \in Nat /\ m <= e /\ e <= m
    BY <2>1, <1>2, Zenon
  <2> HIDE DEF m, e
  <2>3. m = e
    BY <2>2
  <2> QED BY <2>3 DEF m, e
<1> QED BY <1>3, <1>4 DEF n, S

(* The scan of Schedule along the list finds the process the abstract      *)
(* scheduler picks from the set.                                           *)
LEMMA ScanIsPick ==
  ASSUME NEW list, NEW cur, NEW st, NEW tm, NEW now, NEW l,
         Scheduling(list, st, tm), cur = NULL \/ Contains(list, cur),
         \A p \in Pids : p # IDLE /\ st[p] # FREED => (l[p] = 0 <=> Ready(st, tm, now, p))
  PROVE  NextProcess(list, cur, st, tm, now) = Abstract!Pick(ToSet(list), cur, l)
<1> DEFINE n == Len(list)
           S == ToSet(list)
           p == NextProcess(list, cur, st, tm, now)
<1>1. Abstract!Max(S) = list[1] /\ Abstract!Min(S) = list[n]
  BY EndsOfList
<1>2. CASE cur = NULL
  <2>1. p = list[1]
    BY <1>2 DEF NextProcess
  <2>2. Abstract!Pick(S, cur, l) = Abstract!Max(S)
    BY <1>2 DEF Abstract!Pick
  <2> QED BY <1>1, <2>1, <2>2
<1>3. CASE cur # NULL
  <2> DEFINE c == PosOf(list, cur)
             from == ScanStart(list, cur)
             I == {i \in from .. n : Ready(st, tm, now, list[i])}
             k == SelectInSubSeq(list, from, n, LAMBDA q : Ready(st, tm, now, q))
             R == {q \in S \ {IDLE} : l[q] = 0 /\ (cur = list[n] \/ q < cur)}
  <2>1. /\ n \in Nat \ {0} /\ S = {list[i] : i \in 1 .. n}
        /\ \A i \in 1 .. n : list[i] \in Pids /\ list[i] \in Nat /\ st[list[i]] # FREED
        /\ \A i, j \in 1 .. n : i < j => list[i] > list[j]
    <3>1. n \in Nat \ {0}
      BY ListMembers
    <3>2. list \in Seq(Pids) /\ \A i, j \in 1 .. n : i < j => list[i] > list[j]
      BY DEF Scheduling, NewestFirst
    <3>3. DOMAIN list = 1 .. n
      BY <3>2, LenProperties
    <3>4. \A i \in 1 .. n : list[i] \in Pids /\ list[i] \in Nat
      BY <3>2, PidsFacts, ElementOfSeq
    <3>5. S = {list[i] : i \in 1 .. n}
      BY <3>3 DEF ToSet
    <3>6. S = {q \in Pids : st[q] # FREED}
      BY DEF Scheduling
    <3> QED BY <3>1, <3>2, <3>4, <3>5, <3>6
  <2>2. c \in 1 .. n /\ list[c] = cur
    BY <1>3, PosOfMember DEF Scheduling
  <2>3. from = IF c = n THEN 1 ELSE c + 1
    BY DEF ScanStart
  <2>4. k = IF I # {} THEN Min(I) ELSE 0
    BY Zenon DEF SelectInSubSeq
  <2>5. p = IF k = 0 THEN IDLE ELSE list[k]
    BY <1>3, Zenon DEF NextProcess
  <2>6. Abstract!Pick(S, cur, l) = IF R = {} THEN IDLE ELSE Abstract!Max(R)
    <3>1. Abstract!IdlePid = IDLE
      BY DEF Abstract!IdlePid, IDLE
    <3>2. R = {q \in S \ {Abstract!IdlePid} : l[q] = 0 /\ (cur = Abstract!Min(S) \/ q < cur)}
      BY <3>1, <1>1
    <3> HIDE DEF R, S
    <3> QED BY <3>1, <3>2, <1>3, Zenon DEF Abstract!Pick
  <2>7. I \subseteq 1 .. n /\ I \in SUBSET Nat /\ from \in 1 .. n
    BY <2>1, <2>2, <2>3
  <2>8. \A i \in 1 .. n : list[i] # IDLE /\ l[list[i]] = 0 <=> Ready(st, tm, now, list[i])
    <3>1. ~Ready(st, tm, now, IDLE)
      BY DEF Scheduling, Ready, Expired, RUNNABLE, PAUSED
    <3> QED BY <2>1, <3>1
  <2>9. ASSUME NEW i \in 1 .. n
        PROVE  (cur = list[n] \/ list[i] < cur) <=> i \in from .. n
    <3>1. i < c => list[i] > cur
      BY <2>1, <2>2
    <3>2. i > c => list[i] < cur
      BY <2>1, <2>2
    <3>3. c # n => cur # list[n] /\ cur > list[n]
      <4>1. c # n => c < n /\ n \in 1 .. n
        BY <2>1, <2>2
      <4> QED BY <4>1, <2>1, <2>2
    <3>4. c = n => cur = list[n]
      BY <2>2
    <3>5. i \in Nat /\ c \in Nat /\ list[i] \in Nat /\ cur \in Nat /\ i <= n /\ i >= 1
      BY <2>1, <2>2
    <3>6. i = c => list[i] = cur
      BY <2>2
    <3>7. CASE c = n
      BY <3>7, <3>4, <2>1, <2>3
    <3>8. CASE c # n
      <4>1. i \in from .. n <=> i > c
        BY <3>8, <3>5, <2>1, <2>3
      <4>2. list[i] < cur <=> i > c
        BY <3>1, <3>2, <3>5, <3>6
      <4> QED BY <4>1, <4>2, <3>3, <3>8
    <3> QED BY <3>7, <3>8
  <2> HIDE DEF c, from, k, p
  <2>10. R = {list[i] : i \in I}
    <3>1. ASSUME NEW q \in R PROVE q \in {list[i] : i \in I}
      <4>1. PICK i \in 1 .. n : q = list[i]
        BY <2>1
      <4>2. q # IDLE /\ l[q] = 0 /\ (cur = list[n] \/ q < cur)
        OBVIOUS
      <4>3. i \in I
        BY <4>1, <4>2, <2>8, <2>9
      <4> QED BY <4>1, <4>3
    <3>2. ASSUME NEW i \in I PROVE list[i] \in R
      <4>1. i \in 1 .. n /\ i \in from .. n /\ Ready(st, tm, now, list[i])
        BY <2>7
      <4>2. list[i] # IDLE /\ l[list[i]] = 0 /\ (cur = list[n] \/ list[i] < cur)
        BY <4>1, <2>8, <2>9
      <4>3. list[i] \in S
        BY <4>1, <2>1
      <4> QED BY <4>2, <4>3
    <3> HIDE DEF R, I
    <3> QED BY <3>1, <3>2
  <2> HIDE DEF R, I, n, S
  <2>11. CASE I = {}
    <3>1. R = {} /\ k = 0
      BY <2>11, <2>10, <2>4
    <3> QED BY <3>1, <2>5, <2>6 DEF p, S
  <2>12. CASE I # {}
    <3>1. k \in I /\ \A i \in I : k <= i
      BY <2>12, <2>4, <2>7, MinNat
    <3>2. k \in 1 .. n /\ k # 0 /\ list[k] \in R /\ R # {} /\ \A q \in R : q \in Nat
      BY <3>1, <2>1, <2>7, <2>10
    <3>3. \A q \in R : list[k] >= q
      <4>1. SUFFICES ASSUME NEW i \in I PROVE list[k] >= list[i]
        BY <2>10
      <4>2. i \in 1 .. n /\ k <= i
        BY <3>1, <2>7
      <4>3. k = i \/ k < i
        BY <4>2, <3>2
      <4>4. list[k] \in Nat /\ list[i] \in Nat
        BY <4>2, <3>2, <2>1
      <4> QED BY <4>2, <4>3, <4>4, <3>2, <2>1
    <3>4. Abstract!Max(R) = list[k]
      <4>1. Abstract!Max(R) \in R /\ \A y \in R : Abstract!Max(R) >= y
        BY <3>2, <3>3, Zenon DEF Abstract!Max
      <4> DEFINE m == Abstract!Max(R)
                 e == list[k]
      <4>2. m \in Nat /\ e \in Nat /\ m >= e /\ e >= m
        BY <4>1, <3>2, <3>3, Zenon
      <4> HIDE DEF m, e
      <4>3. m = e
        BY <4>2
      <4> QED BY <4>3 DEF m, e
    <3> QED BY <3>2, <3>4, <2>5, <2>6 DEF p, S
  <2> QED BY <2>11, <2>12 DEF p
<1> QED BY <1>2, <1>3

-----------------------------------------------------------------------------
(* The refinement.                                                         *)

(* TicksLeft for the values a handler passes to Schedule. *)
TicksLeftOf(st, tm, now) ==
  [p \in Pids |-> IF st[p] = SLEEPING /\ tm[p] > now THEN tm[p] - now ELSE 0]

(* Schedule turns to the process of Pick, and waking it changes nothing    *)
(* for the abstract scheduler.                                             *)
LEMMA ScheduleIsPick ==
  ASSUME NEW list, NEW cur, NEW st, NEW tm, NEW now \in Nat,
         Scheduling(list, st, tm), cur = NULL \/ Contains(list, cur),
         Schedule(list, cur, st, tm, now),
         \A p \in Pids : st[p] = SLEEPING <=> tm[p] > 0,
         \A p \in Pids : st[p] = PAUSED => p = IDLE
  PROVE  /\ current' = Abstract!Pick(ToSet(list), cur, TicksLeftOf(st, tm, now))
         /\ TicksLeftOf(status', sleep_timer', now) = TicksLeftOf(st, tm, now)
<1> DEFINE p == NextProcess(list, cur, st, tm, now)
           woken == cur # NULL /\ Expired(st, tm, now, p)
           l == TicksLeftOf(st, tm, now)
<1>1. /\ current' = p
      /\ status' = IF woken THEN [st EXCEPT ![p] = RUNNABLE] ELSE st
      /\ sleep_timer' = IF woken THEN [tm EXCEPT ![p] = 0] ELSE tm
  BY Zenon DEF Schedule
<1>2. current' \in Pids
  BY ScheduleFacts
<1>3. /\ st \in [Pids -> Statuses] /\ \A q \in Pids : tm[q] \in Nat
  BY MultitaskingAssumption DEF Scheduling
<1>4. \A q \in Pids : q # IDLE /\ st[q] # FREED => (l[q] = 0 <=> Ready(st, tm, now, q))
  <2>1. SUFFICES ASSUME NEW q \in Pids, q # IDLE, st[q] # FREED
                 PROVE  l[q] = 0 <=> Ready(st, tm, now, q)
    OBVIOUS
  <2>2. l[q] = IF st[q] = SLEEPING /\ tm[q] > now THEN tm[q] - now ELSE 0
    BY DEF TicksLeftOf
  <2>3. tm[q] \in Nat
    BY <1>3
  <2> HIDE DEF l
  <2>4. CASE st[q] = RUNNABLE
    BY <2>2, <2>4 DEF Ready, RUNNABLE, SLEEPING
  <2>5. CASE st[q] = SLEEPING
    <3>1. tm[q] > 0
      BY <2>5
    <3>2. l[q] = 0 <=> tm[q] <= now
      BY <2>2, <2>3, <2>5
    <3> QED BY <3>1, <3>2, <2>5 DEF Ready, Expired, RUNNABLE, SLEEPING
  <2> QED BY <2>1, <2>4, <2>5, <1>3 DEF Statuses
<1>5. current' = Abstract!Pick(ToSet(list), cur, l)
  BY <1>1, <1>4, ScanIsPick, Zenon
<1>6. TicksLeftOf(status', sleep_timer', now) = l
  <2> HIDE DEF p, woken
  <2>1. CASE ~woken
    BY <2>1, <1>1
  <2>2. CASE woken
    <3>1. tm[p] <= now /\ p \in Pids
      BY <2>2, <1>1, <1>2 DEF woken, Expired
    <3>2. status' = [st EXCEPT ![p] = RUNNABLE] /\ sleep_timer' = [tm EXCEPT ![p] = 0]
      BY <2>2, <1>1
    <3>3. ASSUME NEW q \in Pids
          PROVE  TicksLeftOf(status', sleep_timer', now)[q] = l[q]
      <4>1. CASE q = p
        BY <4>1, <3>1, <3>2, <1>3 DEF TicksLeftOf, RUNNABLE, SLEEPING
      <4>2. CASE q # p
        <5>1. status'[q] = st[q] /\ sleep_timer'[q] = tm[q]
          BY <4>2, <3>2, <1>3 DEF Scheduling
        <5> QED BY <5>1 DEF TicksLeftOf
      <4> QED BY <4>1, <4>2
    <3> QED BY <3>3 DEF TicksLeftOf
  <2> QED BY <2>1, <2>2
<1> QED BY <1>5, <1>6

LEMMA InitRefines == Init => Abstract!RRInit
<1> SUFFICES ASSUME Init PROVE Abstract!RRInit
  OBVIOUS
<1>1. ToSet(procs) = {0, 1, 2}
  BY DEF Init, InitMultitasking, RAMDISK, IDLE, KERNEL, ToSet
<1>2. TicksLeft = [p \in Abstract!AllPids |-> 0]
  BY DEF Init, InitMultitasking, TicksLeft, Abstract!AllPids, Pids
<1> QED BY <1>1, <1>2
        DEF Init, InitMultitasking, Abstract!RRInit, Abstract!KernelPid, Abstract!IdlePid,
            Abstract!RamdiskPid

LEMMA ActiveIsExecuting == Executing <=> Abstract!Active
BY DEF Executing, Abstract!Active, Abstract!IdlePid, IDLE

LEMMA TickRefines ==
  ASSUME SchedInv, ClockInv, TimerInterrupt, MaxTick < TickMod
  PROVE  Abstract!Tick
<1>0. /\ Scheduling(procs, status, sleep_timer) /\ tick_count \in Nat
      /\ current = NULL \/ Contains(procs, current)
  BY InvScheduling, MultitaskingAssumption DEF SchedInv, CurrentListed, TypeOK
<1> DEFINE now == tick_count + 1
           l == TicksLeftOf(status, sleep_timer, now)
<1>1. now \in Nat /\ tick_count' = now
  <2>1. now \in Nat /\ now < TickMod
    BY <1>0, MultitaskingAssumption DEF TimerInterrupt
  <2> QED BY <2>1, ModSmall DEF TimerInterrupt
<1>2. Schedule(procs, current, status, sleep_timer, now) /\ UNCHANGED <<procs, num_proc, uid>>
  BY <1>1 DEF TimerInterrupt
<1> HIDE DEF now
<1>3. /\ current' = Abstract!Pick(ToSet(procs), current, l)
      /\ TicksLeftOf(status', sleep_timer', now) = l
  BY <1>0, <1>1, <1>2, ScheduleIsPick DEF ClockInv, SleepersArmed
<1>4. TicksLeft' = l
  BY <1>1, <1>3 DEF TicksLeft, TicksLeftOf
<1>5. l = [p \in Abstract!AllPids |-> IF TicksLeft[p] > 0 THEN TicksLeft[p] - 1 ELSE 0]
  <2>1. ASSUME NEW p \in Pids
        PROVE  l[p] = IF TicksLeft[p] > 0 THEN TicksLeft[p] - 1 ELSE 0
    <3>1. sleep_timer[p] \in Nat
      BY MultitaskingAssumption DEF SchedInv, TypeOK
    <3>2. l[p] = IF status[p] = SLEEPING /\ sleep_timer[p] > now THEN sleep_timer[p] - now ELSE 0
      BY DEF TicksLeftOf
    <3>3. TicksLeft[p] = IF status[p] = SLEEPING /\ sleep_timer[p] > tick_count
                         THEN sleep_timer[p] - tick_count ELSE 0
      BY DEF TicksLeft
    <3> HIDE DEF l
    <3> QED BY <3>1, <3>2, <3>3, <1>0 DEF now
  <2>2. l = [p \in Pids |-> l[p]]
    BY DEF TicksLeftOf
  <2>3. Abstract!AllPids = Pids
    BY DEF Abstract!AllPids, Pids
  <2> HIDE DEF l
  <2> QED BY <2>1, <2>2, <2>3
<1> HIDE DEF l
<1> QED BY <1>2, <1>3, <1>4, <1>5 DEF Abstract!Tick

LEMMA SleepRefines ==
  ASSUME SchedInv, ClockInv, NEW n \in SleepTimes, SyscallSetTimer(n), MaxTick + n < TickMod
  PROVE  Abstract!Sleep(n)
<1> DEFINE t == (tick_count + n) % TickMod
           st == [status EXCEPT ![current] = SLEEPING]
           tm == [sleep_timer EXCEPT ![current] = t]
           l == TicksLeftOf(st, tm, tick_count)
<1>0. /\ tick_count \in Nat /\ n \in Nat /\ tick_count >= 1 /\ tick_count <= MaxTick
      /\ current \in Pids /\ current # NULL /\ Contains(procs, current) /\ current # IDLE
  BY ExecutingFacts, MultitaskingAssumption DEF SyscallSetTimer, SchedInv, ClockInv, TypeOK
<1>1. t = tick_count + n
  <2>1. tick_count + n \in Nat /\ tick_count + n < TickMod
    BY <1>0, MultitaskingAssumption
  <2> QED BY <2>1, ModSmall
<1>2. /\ Schedule(procs, current, st, tm, tick_count)
      /\ UNCHANGED <<procs, num_proc, uid, tick_count>>
  BY DEF SyscallSetTimer
<1>3. Scheduling(procs, st, tm)
  BY SetTimerScheduling
<1> HIDE DEF t
<1>4. /\ \A p \in Pids : st[p] = IF p = current THEN SLEEPING ELSE status[p]
      /\ \A p \in Pids : tm[p] = IF p = current THEN t ELSE sleep_timer[p]
  BY DEF SchedInv, TypeOK
<1> HIDE DEF st, tm
<1>5. /\ \A p \in Pids : st[p] = SLEEPING <=> tm[p] > 0
      /\ \A p \in Pids : st[p] = PAUSED => p = IDLE
  <2>1. t > 0
    BY <1>0, <1>1
  <2> QED BY <1>4, <2>1 DEF ClockInv, SleepersArmed, SLEEPING, PAUSED
<1>6. /\ current' = Abstract!Pick(ToSet(procs), current, l)
      /\ TicksLeftOf(status', sleep_timer', tick_count) = l
  BY <1>0, <1>2, <1>3, <1>5, ScheduleIsPick
<1>7. TicksLeft' = l
  BY <1>2, <1>6 DEF TicksLeft, TicksLeftOf
<1>8. l = [TicksLeft EXCEPT ![current] = n]
  <2>1. ASSUME NEW p \in Pids PROVE l[p] = IF p = current THEN n ELSE TicksLeft[p]
    <3>1. l[p] = IF st[p] = SLEEPING /\ tm[p] > tick_count THEN tm[p] - tick_count ELSE 0
      BY DEF TicksLeftOf
    <3> HIDE DEF l
    <3>2. CASE p = current
      <4>1. st[p] = SLEEPING /\ tm[p] = tick_count + n
        BY <3>2, <1>1, <1>4
      <4> QED BY <3>1, <3>2, <4>1, <1>0
    <3>3. CASE p # current
      BY <3>1, <3>3, <1>4 DEF TicksLeft
    <3> QED BY <3>2, <3>3
  <2>2. l = [p \in Pids |-> l[p]] /\ TicksLeft = [p \in Pids |-> TicksLeft[p]]
    BY DEF TicksLeftOf, TicksLeft
  <2> HIDE DEF l
  <2>3. DOMAIN TicksLeft = Pids
    BY DEF TicksLeft
  <2> QED BY <2>1, <2>2, <2>3
<1> HIDE DEF l
<1>9. Abstract!Active
  BY ActiveIsExecuting DEF SyscallSetTimer
<1> QED BY <1>2, <1>6, <1>7, <1>8, <1>9 DEF Abstract!Sleep

LEMMA ExitRefines ==
  ASSUME SchedInv, ClockInv, Executing, KillCurrentProcess
  PROVE  Abstract!Exit
<1> DEFINE st == [status EXCEPT ![current] = FREED]
           tm == [sleep_timer EXCEPT ![current] = 0]
           l == TicksLeftOf(st, tm, tick_count)
<1>0. tick_count \in Nat /\ current \in Pids /\ current # NULL /\ Contains(procs, current)
  BY ExecutingFacts, MultitaskingAssumption DEF SchedInv, TypeOK
<1>1. /\ Schedule(procs', NULL, st, tm, tick_count)
      /\ UNCHANGED <<num_proc, uid, tick_count>>
  BY DEF KillCurrentProcess
<1>2. Scheduling(procs', st, tm)
  BY KillScheduling
<1>3. /\ \A p \in Pids : st[p] = IF p = current THEN FREED ELSE status[p]
      /\ \A p \in Pids : tm[p] = IF p = current THEN 0 ELSE sleep_timer[p]
  BY DEF SchedInv, TypeOK
<1> HIDE DEF st, tm
<1>4. /\ \A p \in Pids : st[p] = SLEEPING <=> tm[p] > 0
      /\ \A p \in Pids : st[p] = PAUSED => p = IDLE
  BY <1>3 DEF ClockInv, SleepersArmed, SLEEPING, PAUSED, FREED
<1>5. /\ current' = Abstract!Pick(ToSet(procs'), NULL, l)
      /\ TicksLeftOf(status', sleep_timer', tick_count) = l
  BY <1>0, <1>1, <1>2, <1>4, ScheduleIsPick
<1>6. TicksLeft' = l
  BY <1>1, <1>5 DEF TicksLeft, TicksLeftOf
<1>7. l = [TicksLeft EXCEPT ![current] = 0]
  <2>1. ASSUME NEW p \in Pids PROVE l[p] = IF p = current THEN 0 ELSE TicksLeft[p]
    <3>1. l[p] = IF st[p] = SLEEPING /\ tm[p] > tick_count THEN tm[p] - tick_count ELSE 0
      BY DEF TicksLeftOf
    <3> HIDE DEF l
    <3>2. CASE p = current
      BY <3>1, <3>2, <1>3 DEF SLEEPING, FREED
    <3>3. CASE p # current
      BY <3>1, <3>3, <1>3 DEF TicksLeft
    <3> QED BY <3>2, <3>3
  <2>2. l = [p \in Pids |-> l[p]] /\ TicksLeft = [p \in Pids |-> TicksLeft[p]]
    BY DEF TicksLeftOf, TicksLeft
  <2> HIDE DEF l
  <2>3. DOMAIN TicksLeft = Pids
    BY DEF TicksLeft
  <2> QED BY <2>1, <2>2, <2>3
<1> HIDE DEF l
<1>8. ToSet(procs') = ToSet(procs) \ {current}
  <2>1. ToSet(procs') = {p \in Pids : st[p] # FREED}
    BY <1>2 DEF Scheduling
  <2> QED BY <2>1, <1>3 DEF SchedInv, ListSound
<1>9. Abstract!Active
  BY ActiveIsExecuting
<1> QED BY <1>1, <1>5, <1>6, <1>7, <1>8, <1>9 DEF Abstract!Exit

LEMMA SpawnRefines ==
  ASSUME SchedInv, ClockInv, SchedInv', SyscallLaunchElf
  PROVE  Abstract!Spawn
<1>1. /\ num_proc \in Pids /\ num_proc < MaxProc /\ status[num_proc] = FREED
  <2>1. num_proc \in Nat /\ num_proc < MaxProc
    BY DEF SyscallLaunchElf, SchedInv, TypeOK
  <2>2. num_proc \in Pids /\ num_proc >= num_proc
    BY <2>1, MultitaskingAssumption DEF Pids
  <2> QED BY <2>1, <2>2 DEF SchedInv, NewPidsFree
<1>2. /\ status' = [status EXCEPT ![num_proc] = RUNNABLE]
      /\ sleep_timer' = [sleep_timer EXCEPT ![num_proc] = 0]
      /\ num_proc' = num_proc + 1 /\ current' = current /\ tick_count' = tick_count
  BY DEF SyscallLaunchElf, CreateUserProcess
<1>3. \A p \in Pids : status'[p] = IF p = num_proc THEN RUNNABLE ELSE status[p]
  BY <1>2 DEF SchedInv, TypeOK
<1>4. \A p \in Pids : sleep_timer'[p] = IF p = num_proc THEN 0 ELSE sleep_timer[p]
  BY <1>2 DEF SchedInv, TypeOK
<1>5. ToSet(procs') = ToSet(procs) \cup {num_proc}
  <2>1. ToSet(procs') = {p \in Pids : status'[p] # FREED}
    BY DEF SchedInv, ListSound
  <2> QED BY <2>1, <1>1, <1>3 DEF SchedInv, ListSound, RUNNABLE, FREED
<1>6. TicksLeft' = TicksLeft
  <2>1. \A p \in Pids :
          (IF status'[p] = SLEEPING /\ sleep_timer'[p] > tick_count
           THEN sleep_timer'[p] - tick_count ELSE 0)
        = (IF status[p] = SLEEPING /\ sleep_timer[p] > tick_count
           THEN sleep_timer[p] - tick_count ELSE 0)
    BY <1>1, <1>3, <1>4 DEF RUNNABLE, SLEEPING, FREED
  <2> QED BY <2>1, <1>2 DEF TicksLeft
<1>7. Abstract!Active
  BY ActiveIsExecuting DEF SyscallLaunchElf
<1> QED BY <1>1, <1>2, <1>5, <1>6, <1>7 DEF Abstract!Spawn

(* While the clock does not wrap, every handler that touches the process   *)
(* list is a step of RoundRobin or leaves its state alone: the order of    *)
(* the list, the status flags and the comparison of absolute times in      *)
(* Schedule select exactly the process the abstract scheduler does.        *)
THEOREM SchedulerIsRoundRobin ==
  ASSUME \A n \in SleepTimes : MaxTick + n < TickMod, MaxTick < TickMod
  PROVE  Spec => ImplementsRoundRobin
<1>1. SchedInv /\ ClockInv /\ SchedInv' /\ [Next]_vars => [Abstract!RRNext]_(Abstract!rrvars)
  <2> SUFFICES ASSUME SchedInv, ClockInv, SchedInv', [Next]_vars
               PROVE  [Abstract!RRNext]_(Abstract!rrvars)
    OBVIOUS
  <2>1. CASE TimerInterrupt
    BY <2>1, TickRefines DEF Abstract!RRNext
  <2>2. CASE SyscallExit \/ ProcessException
    BY <2>2, ExitRefines DEF SyscallExit, ProcessException, Abstract!RRNext
  <2>3. CASE \E n \in SleepTimes : SyscallSetTimer(n)
    BY <2>3, SleepRefines DEF Abstract!RRNext
  <2>4. CASE SyscallLaunchElf
    BY <2>4, SpawnRefines DEF Abstract!RRNext
  <2>5. CASE UNCHANGED vars
    BY <2>5 DEF vars, Abstract!rrvars, TicksLeft
  <2> QED BY <2>1, <2>2, <2>3, <2>4, <2>5 DEF Next
<1> QED BY <1>1, InitRefines, SchedInvariant, ClockInvariant, PTL
        DEF Spec, ImplementsRoundRobin, Abstract!RRSpec

=============================================================================

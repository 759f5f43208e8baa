--------------------------- MODULE ServersProofs ---------------------------
(***************************************************************************)
(* Proofs about the two servers, for every set of programs, service names, *)
(* archives and file requests.  The registry of kernel_process answers     *)
(* truthfully: a service that was asked to be registered before a client   *)
(* asks for it is found.  And so does ramdisk_process: what it finds by    *)
(* walking over the archive and by reading octal digits is what tar has    *)
(* written.                                                                *)
(***************************************************************************)
EXTENDS Servers, TLAPS, WellFoundedInduction, SequenceTheorems,
        FiniteSetTheorems, FunctionTheorems

Pids == Programs \cup {KERNEL, RAMDISK}

KernelMessage == [sender : Programs, rq : KernelRequests, known : BOOLEAN]

Service == [pid : Programs, name : ServiceNames]

Registers(m, name) == m.rq.signal = "register" /\ m.rq.name = name

Listed(ss, name) == \E j \in 1 .. Len(ss) : ss[j].name = name

(* What LookupsFind says of one answer. *)
TrueLookup(m, cl) ==
  m.rq.signal = "get" =>
    /\ m.answer.pid # NULL => <<m.rq.name, m.answer.pid>> \in cl
    /\ m.known => m.answer.pid # NULL

Sequence(s) == \E S : s \in Seq(S)

-----------------------------------------------------------------------------
(* The inductive invariant.                                                *)

Shape ==
  /\ DOMAIN inbox = Pids
  /\ inbox[KERNEL] \in Seq(KernelMessage)
  /\ services \in Seq(Service)
  /\ alive \subseteq Programs
  /\ \A c \in Programs : Sequence(inbox[c])

(* Nobody is registered who has not asked for it. *)
ServicesClaimed ==
  /\ \A j \in 1 .. Len(services) : <<services[j].name, services[j].pid>> \in claims
  /\ \A i \in 1 .. Len(inbox[KERNEL]) :
       inbox[KERNEL][i].rq.signal = "register" =>
         <<inbox[KERNEL][i].rq.name, inbox[KERNEL][i].sender>> \in claims

(* A registration that was asked for is in the list or on its way. *)
ClaimsKept ==
  \A name \in ServiceNames, c \in Programs : <<name, c>> \in claims =>
    \/ Listed(services, name)
    \/ \E i \in 1 .. Len(inbox[KERNEL]) : Registers(inbox[KERNEL][i], name)

(* It is in the list or in front of the requests that count on it. *)
InFront ==
  \A i \in 1 .. Len(inbox[KERNEL]) :
    inbox[KERNEL][i].rq.signal = "get" /\ inbox[KERNEL][i].known =>
      \/ Listed(services, inbox[KERNEL][i].rq.name)
      \/ \E j \in 1 .. i - 1 : Registers(inbox[KERNEL][j], inbox[KERNEL][i].rq.name)

(* The answers sent, and the one kernel_process is about to send. *)
AnswersTruthful ==
  /\ \A c \in Programs : \A i \in DOMAIN inbox[c] :
       inbox[c][i].server = KERNEL => TrueLookup(inbox[c][i], claims)
  /\ kernel.at = "reply" => TrueLookup(kernel.msg, claims)

RegistryInv ==
  /\ Shape
  /\ ServicesClaimed
  /\ ClaimsKept
  /\ InFront
  /\ AnswersTruthful

-----------------------------------------------------------------------------
(* Lemmas about sequences and requests.                                    *)

LEMMA LeastIndex ==
  ASSUME NEW S \in SUBSET Nat, S # {}
  PROVE  Min(S) \in S /\ \A y \in S : Min(S) <= y
<1>1. PICK x \in S : \A y \in S : ~(<<y, x>> \in OpToRel(<, Nat))
  BY NatLessThanWellFounded, WFMin, Zenon
<1>2. \A y \in S : x <= y
  <2>1. SUFFICES ASSUME NEW y \in S, ~(x <= y) PROVE FALSE
    OBVIOUS
  <2>2. y \in Nat /\ x \in Nat /\ y < x
    BY <2>1
  <2>3. <<y, x>> \in OpToRel(<, Nat)
    BY <2>2 DEF OpToRel
  <2> QED BY <2>3, <1>1
<1> QED BY <1>2 DEF Min

(* Appending to a sequence of whatever elements. *)
LEMMA AppendAny ==
  ASSUME NEW s, Sequence(s), NEW e
  PROVE  /\ Sequence(Append(s, e))
         /\ \A i \in DOMAIN Append(s, e) :
              \/ Append(s, e)[i] = e
              \/ i \in DOMAIN s /\ Append(s, e)[i] = s[i]
<1>1. PICK S : s \in Seq(S)
  BY DEF Sequence
<1> DEFINE T == S \cup {e}
<1>2. Len(s) \in Nat /\ s \in [1 .. Len(s) -> S] /\ DOMAIN s = 1 .. Len(s)
  BY <1>1, LenProperties
<1>3. s \in [1 .. Len(s) -> T]
  BY <1>2
<1>4. s \in Seq(T) /\ e \in T
  BY <1>2, <1>3
<1> HIDE DEF T
<1>5. /\ Append(s, e) \in Seq(T) /\ Len(Append(s, e)) = Len(s) + 1
      /\ \A i \in 1 .. Len(s) : Append(s, e)[i] = s[i]
      /\ Append(s, e)[Len(s) + 1] = e
  BY <1>4, AppendProperties
<1>6. DOMAIN Append(s, e) = 1 .. Len(s) + 1
  BY <1>5, LenProperties
<1>7. Sequence(Append(s, e))
  BY <1>5 DEF Sequence
<1> QED BY <1>2, <1>5, <1>6, <1>7

LEMMA KernelMessageFacts ==
  ASSUME NEW m \in KernelMessage
  PROVE  /\ m.sender \in Programs /\ m.rq \in KernelRequests /\ m.known \in BOOLEAN
         /\ m.rq.signal \in {"register", "get", "remove"}
         /\ m.rq.signal \in {"register", "get"} => m.rq.name \in ServiceNames
<1>1. m.sender \in Programs /\ m.rq \in KernelRequests /\ m.known \in BOOLEAN
  BY DEF KernelMessage
<1> QED BY <1>1 DEF KernelRequests

(* ServicePid finds a service of that name if there is one. *)
LEMMA ServicePidFacts ==
  ASSUME Shape, NEW name \in ServiceNames
  PROVE  /\ ServicePid(name) # NULL =>
              \E j \in 1 .. Len(services) :
                services[j].name = name /\ services[j].pid = ServicePid(name)
         /\ Listed(services, name) => ServicePid(name) # NULL
<1> DEFINE I == {j \in 1 .. Len(services) : services[j].name = name}
           p == ServicePid(name)
<1>0. Len(services) \in Nat
  BY LenProperties DEF Shape
<1>1. p = IF (IF I # {} THEN Min(I) ELSE 0) = 0
          THEN NULL ELSE services[IF I # {} THEN Min(I) ELSE 0].pid
  BY Zenon DEF ServicePid, SelectInSeq
<1>2. I \in SUBSET Nat
  BY <1>0
<1> HIDE DEF p
<1>3. CASE I # {}
  <2>1. Min(I) \in I
    <3> HIDE DEF I
    <3> QED BY <1>2, <1>3, LeastIndex
  <2>2. Min(I) # 0 /\ Min(I) \in 1 .. Len(services)
    BY <2>1, <1>0
  <2>3. p = services[Min(I)].pid
    BY <2>2, <1>1, <1>3
  <2>4. services[Min(I)].pid \in Programs
    <3>1. services[Min(I)] \in Service
      BY <2>2, ElementOfSeq DEF Shape
    <3> QED BY <3>1 DEF Service
  <2>5. p # NULL
    BY <2>3, <2>4, ServersAssumption
  <2>6. services[Min(I)].name = name
    BY <2>1
  <2> QED BY <2>2, <2>3, <2>5, <2>6 DEF p
<1>4. CASE I = {}
  <2>1. p = NULL
    BY <1>1, <1>4
  <2>2. ~Listed(services, name)
    BY <1>4 DEF Listed
  <2> QED BY <2>1, <2>2 DEF p
<1> QED BY <1>3, <1>4

(* An answer that was true stays true: claims only grow. *)
LEMMA TrueLookupGrows ==
  ASSUME NEW m, NEW cl, NEW dl, cl \subseteq dl, TrueLookup(m, cl)
  PROVE  TrueLookup(m, dl)
BY DEF TrueLookup

(* What InFront says of the i-th message of a queue. *)
Backed(q, ss, i) ==
  q[i].rq.signal = "get" /\ q[i].known =>
    \/ Listed(ss, q[i].rq.name)
    \/ \E j \in 1 .. i - 1 : Registers(q[j], q[i].rq.name)

-----------------------------------------------------------------------------
(* One lemma for every step.                                               *)

LEMMA RegistryInit == ServersInit => RegistryInv
<1> SUFFICES ASSUME ServersInit PROVE RegistryInv
  OBVIOUS
<1>1. /\ inbox = [p \in Pids |-> <<>>] /\ services = <<>> /\ alive = {} /\ claims = {}
      /\ kernel.at = "launch"
  BY DEF ServersInit, Pids
<1>2. /\ inbox[KERNEL] = <<>> /\ \A c \in Programs : inbox[c] = <<>>
  BY <1>1 DEF Pids
<1>3. Len(<<>>) = 0 /\ DOMAIN <<>> = {} /\ <<>> \in Seq(Service) /\ <<>> \in Seq(KernelMessage)
  <2>1. DOMAIN <<>> = 1 .. Len(<<>>)
    BY EmptySeq, LenProperties
  <2> QED BY EmptySeq, <2>1
<1>4. Sequence(<<>>)
  BY <1>3 DEF Sequence
<1>5. Shape
  BY <1>1, <1>2, <1>3, <1>4 DEF Shape
<1>6. ServicesClaimed /\ InFront
  BY <1>1, <1>2, <1>3 DEF ServicesClaimed, InFront
<1>7. ClaimsKept
  BY <1>1 DEF ClaimsKept
<1>8. AnswersTruthful
  BY <1>1, <1>2, <1>3 DEF AnswersTruthful
<1> QED BY <1>5, <1>6, <1>7, <1>8 DEF RegistryInv

(* A request joins the queue of kernel_process, and claims what it asks to *)
(* register.                                                               *)
LEMMA AskKernelInv ==
  ASSUME RegistryInv, NEW c \in Programs, NEW rq \in KernelRequests, Ask(c, KERNEL, rq)
  PROVE  RegistryInv'
<1> DEFINE q == inbox[KERNEL]
           n == Len(q)
           e == [sender |-> c, rq |-> rq, known |-> Known(rq)]
           r == Append(q, e)
<1>0. q \in Seq(KernelMessage) /\ n \in Nat /\ DOMAIN inbox = Pids
  BY LenProperties DEF RegistryInv, Shape
<1>1. e \in KernelMessage /\ e.rq = rq /\ e.sender = c /\ e.known = Known(rq)
  <2>1. Known(rq) \in BOOLEAN
    BY DEF Known
  <2> QED BY <2>1 DEF KernelMessage
<1>2. /\ inbox' = [inbox EXCEPT ![KERNEL] = r]
      /\ UNCHANGED <<alive, services, kernel>>
      /\ claims' = IF rq.signal = "register" THEN claims \cup {<<rq.name, c>>} ELSE claims
  BY DEF Ask
<1> HIDE DEF e
<1>3. /\ r \in Seq(KernelMessage) /\ Len(r) = n + 1
      /\ \A i \in 1 .. n : r[i] = q[i]
      /\ r[n + 1] = e
  BY <1>0, <1>1, AppendProperties
<1>4. inbox'[KERNEL] = r /\ \A d \in Programs : inbox'[d] = inbox[d]
  BY <1>0, <1>2, ServersAssumption DEF Pids
<1>5. claims \subseteq claims'
  BY <1>2
<1>6. rq.signal \in {"register", "get"} => rq.name \in ServiceNames
  BY <1>1, KernelMessageFacts
<1> HIDE DEF q, n, r
<1>7. \A i \in 1 .. n + 1 : i \in 1 .. n \/ i = n + 1
  BY <1>0
<1>8. Shape'
  <2>1. DOMAIN inbox' = Pids
    BY <1>0, <1>2
  <2> QED BY <2>1, <1>2, <1>3, <1>4 DEF RegistryInv, Shape
<1>9. ServicesClaimed'
  <2>1. \A j \in 1 .. Len(services) : <<services[j].name, services[j].pid>> \in claims'
    BY <1>5 DEF RegistryInv, ServicesClaimed
  <2>2. ASSUME NEW i \in 1 .. n + 1, r[i].rq.signal = "register"
        PROVE  <<r[i].rq.name, r[i].sender>> \in claims'
    <3>1. CASE i \in 1 .. n
      BY <2>2, <3>1, <1>3, <1>5 DEF RegistryInv, ServicesClaimed, q, n
    <3>2. CASE i = n + 1
      BY <2>2, <3>2, <1>1, <1>2, <1>3
    <3> QED BY <3>1, <3>2, <1>7
  <2> QED BY <2>1, <2>2, <1>2, <1>3, <1>4 DEF ServicesClaimed
<1>10. ClaimsKept'
  <2>1. ASSUME NEW name \in ServiceNames, NEW d \in Programs, <<name, d>> \in claims'
        PROVE  Listed(services, name) \/ \E i \in 1 .. n + 1 : Registers(r[i], name)
    <3>1. CASE <<name, d>> \in claims
      <4>1. CASE Listed(services, name)
        BY <4>1
      <4>2. CASE \E i \in 1 .. n : Registers(q[i], name)
        <5>1. PICK i \in 1 .. n : Registers(q[i], name)
          BY <4>2
        <5>2. i \in 1 .. n + 1 /\ r[i] = q[i]
          BY <1>0, <1>3
        <5> QED BY <5>1, <5>2
      <4> QED BY <4>1, <4>2, <3>1 DEF RegistryInv, ClaimsKept, q, n
    <3>2. CASE <<name, d>> \notin claims
      <4>1. rq.signal = "register" /\ rq.name = name
        BY <3>2, <2>1, <1>2
      <4>2. Registers(r[n + 1], name) /\ n + 1 \in 1 .. n + 1
        BY <4>1, <1>0, <1>1, <1>3 DEF Registers
      <4> QED BY <4>2
    <3> QED BY <3>1, <3>2
  <2> QED BY <2>1, <1>2, <1>3, <1>4 DEF ClaimsKept
<1>11. InFront'
  <2>1. ASSUME NEW i \in 1 .. n + 1
        PROVE  Backed(r, services, i)
    <3>1. CASE i \in 1 .. n
      <4>1. Backed(q, services, i)
        BY <3>1 DEF RegistryInv, InFront, Backed, q, n
      <4>2. r[i] = q[i] /\ \A j \in 1 .. i - 1 : r[j] = q[j]
        BY <3>1, <1>0, <1>3
      <4> QED BY <4>1, <4>2 DEF Backed
    <3>2. CASE i = n + 1
      <4>1. SUFFICES ASSUME rq.signal = "get", Known(rq)
                     PROVE  \/ Listed(services, rq.name)
                            \/ \E j \in 1 .. n : Registers(r[j], rq.name)
        <5>1. i - 1 = n /\ r[i] = e
          BY <3>2, <1>0, <1>3
        <5> QED BY <5>1, <1>1 DEF Backed
      <4>2. PICK d \in Programs : <<rq.name, d>> \in claims
        BY <4>1 DEF Known
      <4>3. rq.name \in ServiceNames
        BY <4>1, <1>6
      <4>4. Listed(services, rq.name) \/ \E j \in 1 .. n : Registers(q[j], rq.name)
        BY <4>2, <4>3 DEF RegistryInv, ClaimsKept, q, n
      <4> QED BY <4>4, <1>3
    <3> QED BY <3>1, <3>2, <1>7
  <2> QED BY <2>1, <1>2, <1>3, <1>4 DEF InFront, Backed
<1>12. AnswersTruthful'
  <2>1. ASSUME NEW d \in Programs, NEW i \in DOMAIN inbox[d], inbox[d][i].server = KERNEL
        PROVE  TrueLookup(inbox[d][i], claims')
    BY <2>1, <1>5, TrueLookupGrows DEF RegistryInv, AnswersTruthful
  <2>2. kernel.at = "reply" => TrueLookup(kernel.msg, claims')
    BY <1>5, TrueLookupGrows DEF RegistryInv, AnswersTruthful
  <2> QED BY <2>1, <2>2, <1>2, <1>4 DEF AnswersTruthful
<1> QED BY <1>8, <1>9, <1>10, <1>11, <1>12 DEF RegistryInv

(* A step that leaves the registry and the queues it looks at alone. *)
LEMMA FrameInv ==
  ASSUME RegistryInv, DOMAIN inbox' = Pids, inbox'[KERNEL] = inbox[KERNEL],
         \A c \in Programs : inbox'[c] = inbox[c],
         alive' \subseteq Programs, UNCHANGED <<services, claims>>,
         kernel'.at = "reply" => kernel' = kernel
  PROVE  RegistryInv'
<1>1. Shape'
  BY DEF RegistryInv, Shape
<1>2. ServicesClaimed'
  BY DEF RegistryInv, ServicesClaimed
<1>3. ClaimsKept' /\ InFront'
  BY DEF RegistryInv, ClaimsKept, InFront
<1>4. AnswersTruthful'
  BY DEF RegistryInv, AnswersTruthful
<1> QED BY <1>1, <1>2, <1>3, <1>4 DEF RegistryInv

(* kernel_process takes the first message, and lists what it registers. *)
LEMMA DequeueInv ==
  ASSUME RegistryInv, inbox[KERNEL] # <<>>,
         inbox' = [inbox EXCEPT ![KERNEL] = Tail(inbox[KERNEL])],
         UNCHANGED <<alive, claims>>,
         services' \in Seq(Service),
         \A j \in 1 .. Len(services') :
           <<services'[j].name, services'[j].pid>> \in claims,
         \A name \in ServiceNames :
           Listed(services, name) \/ Registers(inbox[KERNEL][1], name)
             => Listed(services', name),
         kernel'.at = "reply" => TrueLookup(kernel'.msg, claims)
  PROVE  RegistryInv'
<1> DEFINE q == inbox[KERNEL]
           n == Len(q)
           r == Tail(q)
<1>0. q \in Seq(KernelMessage) /\ n \in Nat \ {0} /\ DOMAIN inbox = Pids
  BY EmptySeq DEF RegistryInv, Shape
<1>1. /\ r \in Seq(KernelMessage) /\ Len(r) = n - 1
      /\ \A i \in 1 .. n - 1 : r[i] = q[i + 1]
  BY <1>0, HeadTailProperties
<1>2. inbox'[KERNEL] = r /\ \A d \in Programs : inbox'[d] = inbox[d]
  BY <1>0, ServersAssumption DEF Pids
<1>3. DOMAIN inbox' = Pids
  BY <1>0
<1> HIDE DEF q, n, r
<1>4. \A i \in 1 .. n - 1 : i + 1 \in 1 .. n
  BY <1>0
<1>5. Shape'
  BY <1>1, <1>2, <1>3 DEF RegistryInv, Shape
<1>6. ServicesClaimed'
  <2>1. ASSUME NEW i \in 1 .. n - 1, r[i].rq.signal = "register"
        PROVE  <<r[i].rq.name, r[i].sender>> \in claims
    BY <2>1, <1>1, <1>4 DEF RegistryInv, ServicesClaimed, q, n
  <2>2. \A i \in 1 .. Len(inbox'[KERNEL]) :
          inbox'[KERNEL][i].rq.signal = "register" =>
            <<inbox'[KERNEL][i].rq.name, inbox'[KERNEL][i].sender>> \in claims'
    <3>1. inbox'[KERNEL] = r /\ Len(r) = n - 1 /\ claims' = claims
      BY <1>1, <1>2
    <3> QED BY <2>1, <3>1, Zenon
  <2>3. \A j \in 1 .. Len(services') : <<services'[j].name, services'[j].pid>> \in claims'
    OBVIOUS
  <2> QED BY <2>2, <2>3, Zenon DEF ServicesClaimed
<1>7. ASSUME NEW k \in 1 .. n, NEW name \in ServiceNames, Registers(q[k], name)
      PROVE  Listed(services', name) \/ (k - 1 \in 1 .. n - 1 /\ Registers(r[k - 1], name))
  <2>1. CASE k = 1
    BY <2>1, <1>7 DEF q
  <2>2. CASE k # 1
    <3>1. k - 1 \in 1 .. n - 1 /\ (k - 1) + 1 = k
      BY <2>2, <1>0
    <3>2. r[k - 1] = q[k]
      BY <3>1, <1>1
    <3> QED BY <3>1, <3>2, <1>7
  <2> QED BY <2>1, <2>2
<1>8. ClaimsKept'
  <2>1. ASSUME NEW name \in ServiceNames, NEW d \in Programs, <<name, d>> \in claims
        PROVE  Listed(services', name) \/ \E i \in 1 .. n - 1 : Registers(r[i], name)
    <3>1. Listed(services, name) \/ \E k \in 1 .. n : Registers(q[k], name)
      BY <2>1 DEF RegistryInv, ClaimsKept, q, n
    <3> QED BY <3>1, <1>7
  <2> QED BY <2>1, <1>1, <1>2 DEF ClaimsKept
<1>9. InFront'
  <2>1. ASSUME NEW i \in 1 .. n - 1
        PROVE  Backed(r, services', i)
    <3>1. SUFFICES ASSUME r[i].rq.signal = "get", r[i].known
                   PROVE  \/ Listed(services', r[i].rq.name)
                          \/ \E j \in 1 .. i - 1 : Registers(r[j], r[i].rq.name)
      BY DEF Backed
    <3>2. r[i] = q[i + 1] /\ i + 1 \in 1 .. n /\ (i + 1) - 1 = i
      BY <1>0, <1>1, <1>4
    <3>3. r[i].rq.name \in ServiceNames
      <4>1. r[i] \in KernelMessage
        BY <1>0, <3>2, ElementOfSeq DEF n
      <4> QED BY <4>1, <3>1, KernelMessageFacts
    <3>4. Listed(services, r[i].rq.name) \/ \E k \in 1 .. i : Registers(q[k], r[i].rq.name)
      <4>1. Backed(q, services, i + 1)
        BY <3>2 DEF RegistryInv, InFront, Backed, q, n
      <4> QED BY <4>1, <3>1, <3>2 DEF Backed
    <3>5. CASE Listed(services, r[i].rq.name)
      BY <3>3, <3>5
    <3>6. CASE \E k \in 1 .. i : Registers(q[k], r[i].rq.name)
      <4>1. PICK k \in 1 .. i : Registers(q[k], r[i].rq.name)
        BY <3>6
      <4>2. k \in 1 .. n
        BY <1>0
      <4>3. Listed(services', r[i].rq.name)
              \/ (k - 1 \in 1 .. n - 1 /\ Registers(r[k - 1], r[i].rq.name))
        BY <1>7, <3>3, <4>1, <4>2
      <4>4. k - 1 \in 1 .. n - 1 => k - 1 \in 1 .. i - 1
        BY <1>0
      <4> QED BY <4>3, <4>4
    <3> QED BY <3>4, <3>5, <3>6
  <2> QED BY <2>1, <1>1, <1>2 DEF InFront, Backed
<1>10. AnswersTruthful'
  BY <1>2 DEF RegistryInv, AnswersTruthful
<1> QED BY <1>5, <1>6, <1>8, <1>9, <1>10 DEF RegistryInv

(* The first message of the queue. *)
LEMMA FirstMessage ==
  ASSUME RegistryInv, inbox[KERNEL] # <<>>
  PROVE  /\ Head(inbox[KERNEL]) = inbox[KERNEL][1]
         /\ inbox[KERNEL][1] \in KernelMessage /\ 1 \in 1 .. Len(inbox[KERNEL])
<1>1. inbox[KERNEL] \in Seq(KernelMessage) /\ Len(inbox[KERNEL]) \in Nat \ {0}
  BY EmptySeq DEF RegistryInv, Shape
<1> QED BY <1>1, ElementOfSeq

LEMMA KernelRegisterInv ==
  ASSUME RegistryInv, KernelRegister
  PROVE  RegistryInv'
<1> DEFINE m == inbox[KERNEL][1]
           e == [pid |-> m.sender, name |-> m.rq.name]
           new == <<e>> \o services
<1>1. /\ inbox[KERNEL] # <<>> /\ m.rq.signal = "register"
      /\ inbox' = [inbox EXCEPT ![KERNEL] = Tail(inbox[KERNEL])]
      /\ services' = new /\ UNCHANGED <<alive, claims>>
      /\ kernel' = [at |-> "reply", msg |-> Answered(m, OK)]
  BY FirstMessage DEF KernelRegister, KernelReceives
<1>2. m \in KernelMessage /\ m.sender \in Programs /\ m.rq.name \in ServiceNames
  BY <1>1, FirstMessage, KernelMessageFacts
<1>3. <<m.rq.name, m.sender>> \in claims
  BY <1>1, FirstMessage DEF RegistryInv, ServicesClaimed
<1>4. TrueLookup(kernel'.msg, claims)
  BY <1>1 DEF TrueLookup, Answered
<1> HIDE DEF m
<1>5. e \in Service /\ e.name = m.rq.name /\ e.pid = m.sender
  BY <1>2 DEF Service
<1> HIDE DEF e
<1>6. services \in Seq(Service) /\ Len(services) \in Nat
  BY LenProperties DEF RegistryInv, Shape
<1>7. <<e>> \in Seq(Service) /\ Len(<<e>>) = 1 /\ <<e>>[1] = e
  BY <1>5
<1>8. /\ new \in Seq(Service) /\ Len(new) = 1 + Len(services)
      /\ \A i \in 1 .. 1 + Len(services) :
           new[i] = IF i <= 1 THEN <<e>>[i] ELSE services[i - 1]
  BY <1>6, <1>7, ConcatProperties
<1>9. new[1] = e /\ \A j \in 1 .. Len(services) : new[j + 1] = services[j]
  BY <1>6, <1>7, <1>8
<1> HIDE DEF new
<1>10. ASSUME NEW j \in 1 .. Len(services')
       PROVE  <<services'[j].name, services'[j].pid>> \in claims
  <2>1. j \in 1 .. 1 + Len(services)
    BY <1>1, <1>8
  <2>2. CASE j = 1
    BY <2>2, <1>1, <1>3, <1>5, <1>9
  <2>3. CASE j # 1
    <3>1. j - 1 \in 1 .. Len(services) /\ new[j] = services[j - 1]
      BY <2>1, <2>3, <1>6, <1>8
    <3> QED BY <3>1, <1>1 DEF RegistryInv, ServicesClaimed
  <2> QED BY <2>2, <2>3
<1>11. ASSUME NEW name \in ServiceNames, Listed(services, name) \/ Registers(inbox[KERNEL][1], name)
       PROVE  Listed(services', name)
  <2>1. CASE Registers(inbox[KERNEL][1], name)
    <3>1. new[1].name = name /\ 1 \in 1 .. Len(new)
      BY <2>1, <1>5, <1>6, <1>8, <1>9 DEF Registers, m
    <3> QED BY <3>1, <1>1 DEF Listed
  <2>2. CASE Listed(services, name)
    <3>1. PICK j \in 1 .. Len(services) : services[j].name = name
      BY <2>2 DEF Listed
    <3>2. j + 1 \in 1 .. Len(new) /\ new[j + 1].name = name
      BY <3>1, <1>6, <1>8, <1>9
    <3> QED BY <3>2, <1>1 DEF Listed
  <2> QED BY <2>1, <2>2, <1>11
<1> QED BY <1>1, <1>4, <1>8, <1>10, <1>11, DequeueInv

LEMMA KernelGetInv ==
  ASSUME RegistryInv, KernelGet
  PROVE  RegistryInv'
<1> DEFINE m == inbox[KERNEL][1]
           pid == ServicePid(m.rq.name)
           a == Answered(m, [sig |-> "PID", pid |-> pid])
<1>1. /\ inbox[KERNEL] # <<>> /\ m.rq.signal = "get"
      /\ inbox' = [inbox EXCEPT ![KERNEL] = Tail(inbox[KERNEL])]
      /\ UNCHANGED <<services, alive, claims>>
      /\ kernel' = [at |-> "reply", msg |-> a]
  BY FirstMessage DEF KernelGet, KernelReceives
<1>2. m.rq.name \in ServiceNames
  BY <1>1, FirstMessage, KernelMessageFacts
<1>3. pid # NULL => <<m.rq.name, pid>> \in claims
  BY <1>2, ServicePidFacts DEF RegistryInv, ServicesClaimed
<1>4. m.known => pid # NULL
  <2>1. ASSUME m.known PROVE Listed(services, m.rq.name)
    <3>1. Backed(inbox[KERNEL], services, 1)
      BY <1>1, FirstMessage DEF RegistryInv, InFront, Backed
    <3> QED BY <2>1, <3>1, <1>1 DEF Backed
  <2> QED BY <2>1, <1>2, ServicePidFacts DEF RegistryInv
<1> HIDE DEF pid, m
<1>5. TrueLookup(kernel'.msg, claims)
  <2>1. a.rq = m.rq /\ a.known = m.known /\ a.answer.pid = pid
    BY DEF Answered
  <2>2. kernel'.msg = a
    BY <1>1
  <2> HIDE DEF a
  <2> QED BY <2>1, <2>2, <1>3, <1>4 DEF TrueLookup
<1>6. services' \in Seq(Service)
  BY <1>1 DEF RegistryInv, Shape
<1>7. \A j \in 1 .. Len(services') : <<services'[j].name, services'[j].pid>> \in claims
  BY <1>1 DEF RegistryInv, ServicesClaimed
<1>8. \A name \in ServiceNames :
        Listed(services, name) \/ Registers(inbox[KERNEL][1], name) => Listed(services', name)
  BY <1>1 DEF Registers, m
<1> QED BY <1>1, <1>5, <1>6, <1>7, <1>8, DequeueInv

LEMMA KernelRemoveInv ==
  ASSUME RegistryInv, KernelRemove
  PROVE  RegistryInv'
<1>1. /\ inbox[KERNEL] # <<>> /\ inbox[KERNEL][1].rq.signal = "remove"
      /\ inbox' = [inbox EXCEPT ![KERNEL] = Tail(inbox[KERNEL])]
      /\ UNCHANGED <<services, alive, claims, kernel>>
  BY FirstMessage DEF KernelRemove, KernelReceives
<1>2. kernel'.at = "reply" => TrueLookup(kernel'.msg, claims)
  BY <1>1 DEF RegistryInv, AnswersTruthful
<1>3. services' \in Seq(Service)
  BY <1>1 DEF RegistryInv, Shape
<1>4. \A j \in 1 .. Len(services') : <<services'[j].name, services'[j].pid>> \in claims
  BY <1>1 DEF RegistryInv, ServicesClaimed
<1>5. \A name \in ServiceNames :
        Listed(services, name) \/ Registers(inbox[KERNEL][1], name) => Listed(services', name)
  BY <1>1 DEF Registers
<1> QED BY <1>1, <1>2, <1>3, <1>4, <1>5, DequeueInv

(* A server sends an answer; that of kernel_process is true. *)
LEMMA ReplyInv ==
  ASSUME RegistryInv, NEW server, NEW msg, Reply(server, msg),
         server = KERNEL => TrueLookup(msg, claims),
         UNCHANGED <<alive, services, claims>>,
         kernel'.at = "reply" => kernel' = kernel
  PROVE  RegistryInv'
<1> DEFINE s == msg.sender
           e == [server |-> server, rq |-> msg.rq, known |-> msg.known, answer |-> msg.answer]
           r == Append(inbox[s], e)
<1>0. DOMAIN inbox = Pids /\ alive \subseteq Programs /\ \A c \in Programs : Sequence(inbox[c])
  BY DEF RegistryInv, Shape
<1>1. CASE s \notin alive
  <2>1. UNCHANGED inbox
    BY <1>1 DEF Reply
  <2> QED BY <2>1, <1>0, FrameInv
<1>2. CASE s \in alive
  <2>1. inbox' = [inbox EXCEPT ![s] = r] /\ s \in Programs
    BY <1>0, <1>2 DEF Reply
  <2>2. e.server = server /\ (server = KERNEL => TrueLookup(e, claims))
    BY DEF TrueLookup
  <2> HIDE DEF e
  <2>3. /\ Sequence(r)
        /\ \A i \in DOMAIN r : r[i] = e \/ (i \in DOMAIN inbox[s] /\ r[i] = inbox[s][i])
    BY <2>1, <1>0, AppendAny
  <2> HIDE DEF r, s
  <2>4. /\ inbox'[KERNEL] = inbox[KERNEL] /\ inbox'[s] = r
        /\ \A c \in Programs : c # s => inbox'[c] = inbox[c]
        /\ DOMAIN inbox' = Pids
    BY <2>1, <1>0, ServersAssumption DEF Pids
  <2>5. Shape'
    BY <2>3, <2>4 DEF RegistryInv, Shape
  <2>6. ServicesClaimed'
    BY <2>4 DEF RegistryInv, ServicesClaimed
  <2>7. ClaimsKept' /\ InFront'
    BY <2>4 DEF RegistryInv, ClaimsKept, InFront
  <2>8. AnswersTruthful'
    <3>1. ASSUME NEW c \in Programs, NEW i \in DOMAIN inbox'[c], inbox'[c][i].server = KERNEL
          PROVE  TrueLookup(inbox'[c][i], claims)
      <4>1. CASE c = s
        <5>1. i \in DOMAIN r /\ r[i].server = KERNEL /\ inbox'[c][i] = r[i]
          BY <4>1, <3>1, <2>4
        <5>2. CASE r[i] = e
          BY <5>1, <5>2, <2>2
        <5>3. CASE i \in DOMAIN inbox[s] /\ r[i] = inbox[s][i]
          BY <5>1, <5>3, <2>1 DEF RegistryInv, AnswersTruthful
        <5> QED BY <5>1, <5>2, <5>3, <2>3
      <4>2. CASE c # s
        BY <4>2, <3>1, <2>4 DEF RegistryInv, AnswersTruthful
      <4> QED BY <4>1, <4>2
    <3>2. kernel'.at = "reply" => TrueLookup(kernel'.msg, claims)
      BY DEF RegistryInv, AnswersTruthful
    <3> QED BY <3>1, <3>2 DEF AnswersTruthful
  <2> QED BY <2>5, <2>6, <2>7, <2>8 DEF RegistryInv
<1> QED BY <1>1, <1>2

LEMMA RegistryNext == RegistryInv /\ [ServersNext]_serverVars => RegistryInv'
<1> SUFFICES ASSUME RegistryInv, [ServersNext]_serverVars PROVE RegistryInv'
  OBVIOUS
<1>0. DOMAIN inbox = Pids /\ alive \subseteq Programs
  BY DEF RegistryInv, Shape
<1>1. CASE \E c \in Programs : \E rq \in KernelRequests : Ask(c, KERNEL, rq)
  BY <1>1, AskKernelInv
<1>2. CASE \E c \in Programs : \E rq \in FileRequests : Ask(c, RAMDISK, rq)
  <2>1. PICK c \in Programs, rq \in FileRequests : Ask(c, RAMDISK, rq)
    BY <1>2
  <2>2. rq.signal # "register"
    BY ServersAssumption
  <2> DEFINE r == Append(inbox[RAMDISK], [sender |-> c, rq |-> rq, known |-> Known(rq)])
  <2>3. inbox' = [inbox EXCEPT ![RAMDISK] = r] /\ UNCHANGED <<alive, services, claims, kernel>>
    BY <2>1, <2>2 DEF Ask
  <2> HIDE DEF r
  <2>4. /\ DOMAIN inbox' = Pids /\ inbox'[KERNEL] = inbox[KERNEL]
        /\ \A d \in Programs : inbox'[d] = inbox[d]
    BY <2>3, <1>0, ServersAssumption DEF Pids
  <2> QED BY <2>3, <2>4, <1>0, FrameInv
<1>3. CASE \E c \in Programs : Die(c)
  <2>1. alive' \subseteq Programs /\ UNCHANGED <<inbox, services, claims, kernel>>
    BY <1>0, <1>3 DEF Die
  <2> QED BY <2>1, <1>0, FrameInv
<1>4. CASE KernelProcess
  <2>1. CASE KernelLaunch
    <3>1. alive' \subseteq Programs /\ UNCHANGED <<inbox, services, claims>>
      BY <2>1 DEF KernelLaunch
    <3>2. kernel'.at # "reply" \/ kernel' = kernel
      <4>1. kernel.at = "launch" /\ kernel' = [kernel EXCEPT !.at = "receive"]
        BY <2>1 DEF KernelLaunch
      <4>2. CASE "at" \in DOMAIN kernel
        BY <4>1, <4>2
      <4>3. CASE "at" \notin DOMAIN kernel
        BY <4>1, <4>3
      <4> QED BY <4>2, <4>3
    <3> QED BY <3>1, <3>2, <1>0, FrameInv
  <2>2. CASE KernelRegister
    BY <2>2, KernelRegisterInv
  <2>3. CASE KernelGet
    BY <2>3, KernelGetInv
  <2>4. CASE KernelRemove
    BY <2>4, KernelRemoveInv
  <2>5. CASE KernelReply
    <3>1. /\ Reply(KERNEL, kernel.msg) /\ UNCHANGED <<alive, services, claims>>
          /\ kernel'.at = "receive" /\ kernel.at = "reply"
      BY <2>5 DEF KernelReply
    <3>2. TrueLookup(kernel.msg, claims)
      BY <3>1 DEF RegistryInv, AnswersTruthful
    <3> QED BY <3>1, <3>2, ReplyInv
  <2> QED BY <1>4, <2>1, <2>2, <2>3, <2>4, <2>5 DEF KernelProcess
<1>5. CASE RamdiskProcess
  <2>1. CASE RamdiskMount
    <3>1. UNCHANGED <<inbox, alive, services, claims, kernel>>
      BY <2>1 DEF RamdiskMount
    <3> QED BY <3>1, <1>0, FrameInv
  <2>2. CASE RamdiskReceive
    <3>1. /\ inbox' = [inbox EXCEPT ![RAMDISK] = Tail(inbox[RAMDISK])]
          /\ UNCHANGED <<alive, services, claims, kernel>>
      BY <2>2 DEF RamdiskReceive
    <3>2. /\ DOMAIN inbox' = Pids /\ inbox'[KERNEL] = inbox[KERNEL]
          /\ \A d \in Programs : inbox'[d] = inbox[d]
      BY <3>1, <1>0, ServersAssumption DEF Pids
    <3> QED BY <3>1, <3>2, <1>0, FrameInv
  <2>3. CASE RamdiskReply
    <3>1. /\ Reply(RAMDISK, ramdisk.msg) /\ UNCHANGED <<alive, services, claims, kernel>>
      BY <2>3 DEF RamdiskReply
    <3> QED BY <3>1, ReplyInv, ServersAssumption
  <2> QED BY <1>5, <2>1, <2>2, <2>3 DEF RamdiskProcess
<1>6. CASE UNCHANGED serverVars
  <2>1. UNCHANGED <<inbox, alive, services, claims, kernel>>
    BY <1>6 DEF serverVars
  <2> QED BY <2>1, <1>0, FrameInv
<1> QED BY <1>1, <1>2, <1>3, <1>4, <1>5, <1>6 DEF ServersNext

(* The inductive invariant holds in every reachable state. *)
THEOREM RegistryInvariant == ServersSpec => []RegistryInv
BY RegistryInit, RegistryNext, PTL DEF ServersSpec

(* A service asked for after its registration is found, whatever happens   *)
(* in between, and the pid in the answer registered that name.             *)
THEOREM RegistryAnswers == ServersSpec => []LookupsFind
<1>1. RegistryInv => LookupsFind
  <2> SUFFICES ASSUME RegistryInv, NEW m \in AnswersFrom(KERNEL) PROVE TrueLookup(m, claims)
    BY DEF LookupsFind, TrueLookup
  <2>1. m.server = KERNEL /\ \E c \in Programs : m \in ToSet(inbox[c])
    BY DEF AnswersFrom
  <2>2. PICK c \in Programs : m \in ToSet(inbox[c])
    BY <2>1
  <2>3. PICK i \in DOMAIN inbox[c] : m = inbox[c][i]
    BY <2>2 DEF ToSet
  <2> QED BY <2>1, <2>3 DEF RegistryInv, AnswersTruthful
<1> QED BY <1>1, RegistryInvariant, PTL

-----------------------------------------------------------------------------
(* Arithmetic.                                                             *)

(* The quotient and the remainder. *)
LEMMA DivMod ==
  ASSUME NEW a \in Nat, NEW b \in Nat \ {0}
  PROVE  /\ a \div b \in Nat /\ a % b \in Nat /\ a % b < b
         /\ a = (a \div b) * b + (a % b)
OBVIOUS

(* A positive multiple is not smaller than its factor. *)
LEMMA ProductBound ==
  ASSUME NEW b \in Nat \ {0}, NEW q \in Int, q >= 1
  PROVE  q * b >= b
OBVIOUS

(* There is one quotient and one remainder. *)
LEMMA QuotientUnique ==
  ASSUME NEW b \in Nat \ {0}, NEW q \in Int, NEW r \in 0 .. b - 1,
         NEW p \in Int, NEW s \in 0 .. b - 1, q * b + r = p * b + s
  PROVE  q = p /\ r = s
<1> DEFINE d == q - p
<1>1. d \in Int /\ d * b = q * b - p * b /\ q * b \in Int /\ p * b \in Int /\ d * b \in Int
  OBVIOUS
<1> DEFINE x == d * b
           y == q * b
           z == p * b
<1>2. (-d) \in Int /\ (-d) * b = -x
  BY <1>1
<1>3. d >= 1 => x >= b
  BY <1>1, ProductBound
<1>4. -d >= 1 => (-d) * b >= b
  BY <1>1, ProductBound
<1>5. d = 0
  <2> HIDE DEF x, y, z, d
  <2>1. x = y - z /\ y + r = z + s /\ x \in Int /\ y \in Int /\ z \in Int /\ d \in Int
    BY <1>1 DEF x, y, z
  <2>2. -d >= 1 => -x >= b
    BY <1>2, <1>4
  <2> QED BY <2>1, <2>2, <1>3
<1>6. q = p
  BY <1>5
<1> QED BY <1>6

(* What div and mod make of a multiple and a remainder. *)
LEMMA DivOf ==
  ASSUME NEW b \in Nat \ {0}, NEW q \in Nat, NEW r \in 0 .. b - 1
  PROVE  (q * b + r) \div b = q /\ (q * b + r) % b = r
<1> DEFINE a == q * b + r
<1>1. a \in Nat
  OBVIOUS
<1> HIDE DEF a
<1>2. /\ a \div b \in Nat /\ a % b \in Nat /\ a % b < b
      /\ a = (a \div b) * b + (a % b)
  BY <1>1, DivMod
<1>3. a \div b \in Int /\ a % b \in 0 .. b - 1 /\ q \in Int
  BY <1>2
<1>4. q * b + r = (a \div b) * b + (a % b)
  BY <1>2 DEF a
<1>5. q = a \div b /\ r = a % b
  BY <1>3, <1>4, QuotientUnique, Zenon
<1> QED BY <1>5 DEF a

(* The block that the remainder of a file takes. *)
LEMMA BlocksFacts ==
  ASSUME NEW size \in Nat
  PROVE  /\ Blocks(size) = (size \div BLOCK) + IF size % BLOCK # 0 THEN 1 ELSE 0
         /\ Blocks(size) \in Nat /\ BLOCK * Blocks(size) >= size
<1> DEFINE q == size \div BLOCK
           r == size % BLOCK
<1>0. BLOCK \in Nat \ {0}
  BY RamdiskAssumption
<1>1. q \in Nat /\ r \in Nat /\ r < BLOCK /\ size = q * BLOCK + r
  BY <1>0, DivMod
<1> HIDE DEF q, r
<1>2. CASE r = 0
  <2>1. BLOCK - 1 \in 0 .. BLOCK - 1
    BY <1>0
  <2>2. (q * BLOCK + (BLOCK - 1)) \div BLOCK = q
    BY <2>1, <1>0, <1>1, DivOf
  <2>3. size + BLOCK - 1 = q * BLOCK + (BLOCK - 1)
    BY <1>0, <1>1, <1>2
  <2>4. Blocks(size) = q
    BY <2>2, <2>3 DEF Blocks
  <2>5. BLOCK * q >= size
    BY <1>0, <1>1, <1>2
  <2> QED BY <2>4, <2>5, <1>1, <1>2 DEF q, r
<1>3. CASE r # 0
  <2>1. r - 1 \in 0 .. BLOCK - 1 /\ q + 1 \in Nat
    BY <1>0, <1>1, <1>3
  <2>2. ((q + 1) * BLOCK + (r - 1)) \div BLOCK = q + 1
    BY <2>1, <1>0, DivOf
  <2>3. size + BLOCK - 1 = (q + 1) * BLOCK + (r - 1)
    BY <1>0, <1>1
  <2>4. Blocks(size) = q + 1
    BY <2>2, <2>3 DEF Blocks
  <2>5. BLOCK * (q + 1) >= size
    BY <1>0, <1>1
  <2> QED BY <2>4, <2>5, <1>1, <1>3 DEF q, r
<1> QED BY <1>2, <1>3

-----------------------------------------------------------------------------
(* The recursive functions of the model exist and do what they say.        *)

(* HeaderBlock. *)
HeadersOf(g, a) ==
  /\ HeaderBlock(a) = g /\ g[1] = 0
  /\ \A k \in 2 .. Len(a) + 1 : g[k] = g[k - 1] + 1 + Blocks(a[k - 1].size)

LEMMA HeaderRounds ==
  ASSUME NEW a, Len(a) \in Nat
  PROVE  \E g : HeadersOf(g, a)
<1> DEFINE n == Len(a) + 1
           Rec(f, x) == f = [k \in 1 .. x |-> IF k = 1 THEN 0 ELSE f[k - 1] + 1 + Blocks(a[k - 1].size)]
           Missing == {x \in 1 .. n : ~ \E f : Rec(f, x)}
<1>0. n \in Nat /\ n >= 1
  OBVIOUS
<1> HIDE DEF n
<1>1. Missing = {}
  <2>1. SUFFICES ASSUME Missing # {} PROVE FALSE
    OBVIOUS
  <2>2. Missing \in SUBSET Nat
    BY <1>0
  <2>3. PICK x \in Missing : \A y \in Missing : x <= y
    <3> HIDE DEF Missing
    <3> QED BY <2>1, <2>2, LeastIndex
  <2>4. x # 1
    <3>1. SUFFICES ASSUME x = 1 PROVE \E f : Rec(f, x)
      OBVIOUS
    <3>2. Rec([k \in 1 .. 1 |-> 0], 1)
      OBVIOUS
    <3> QED BY <3>1, <3>2
  <2>5. x - 1 \in 1 .. n /\ x - 1 \notin Missing /\ x \in Nat
    <3>1. x \in 1 .. n
      OBVIOUS
    <3> HIDE DEF Missing
    <3> QED BY <3>1, <2>3, <2>4, <1>0
  <2>6. PICK f : Rec(f, x - 1)
    BY <2>5
  <2>7. \A k \in 1 .. x - 1 : f[k] = IF k = 1 THEN 0 ELSE f[k - 1] + 1 + Blocks(a[k - 1].size)
    BY <2>6
  <2> DEFINE last == f[x - 1] + 1 + Blocks(a[x - 1].size)
             h == [k \in 1 .. x |-> IF k = x THEN last ELSE f[k]]
  <2>h. h[x] = last /\ \A k \in 1 .. x - 1 : h[k] = f[k]
    <3> HIDE DEF last
    <3> QED BY <2>5
  <2>8. ASSUME NEW k \in 1 .. x
        PROVE  h[k] = IF k = 1 THEN 0 ELSE h[k - 1] + 1 + Blocks(a[k - 1].size)
    <3> HIDE DEF h
    <3>1. CASE k = x
      <4>1. h[x - 1] = f[x - 1]
        BY <2>4, <2>5, <2>h
      <4> QED BY <4>1, <3>1, <2>h, <2>4, Zenon
    <3>2. CASE k # x
      <4>1. k \in 1 .. x - 1 /\ (k # 1 => k - 1 \in 1 .. x - 1)
        BY <3>2, <2>5
      <4>2. h[k] = f[k] /\ (k # 1 => h[k - 1] = f[k - 1])
        BY <4>1, <2>h, Zenon
      <4> QED BY <4>1, <4>2, <2>7, Zenon
    <3> QED BY <3>1, <3>2
  <2>9. Rec(h, x)
    <3>1. h = [k \in 1 .. x |-> h[k]]
      OBVIOUS
    <3> HIDE DEF h
    <3> QED BY <3>1, <2>8
  <2>10. \E ff : Rec(ff, x)
    <3> HIDE DEF h
    <3> QED BY <2>9
  <2> QED BY <2>3, <2>10
<1>2. \E f : Rec(f, n)
  <2>1. n \in 1 .. n
    BY <1>0
  <2> QED BY <2>1, <1>1, Zenon
<1> DEFINE g == CHOOSE f : Rec(f, n)
<1>3. Rec(g, n)
  BY <1>2, Zenon
<1>4. HeaderBlock(a) = g
  BY Zenon DEF HeaderBlock, n
<1> HIDE DEF g
<1>5. \A k \in 1 .. n : g[k] = IF k = 1 THEN 0 ELSE g[k - 1] + 1 + Blocks(a[k - 1].size)
  BY <1>3
<1>6. g[1] = 0 /\ \A k \in 1 + 1 .. n : g[k] = g[k - 1] + 1 + Blocks(a[k - 1].size)
  BY <1>0, <1>5
<1> QED BY <1>4, <1>6 DEF HeadersOf, n

(* Shifted. *)
ShiftsOf(g, size) ==
  /\ Shifted(size) = g /\ g[0] = size
  /\ \A k \in 1 .. SizeDigits : g[k] = g[k - 1] \div 8

LEMMA ShiftRounds ==
  ASSUME NEW size
  PROVE  \E g : ShiftsOf(g, size)
<1> DEFINE n == SizeDigits
           Rec(f, x) == f = [k \in 0 .. x |-> IF k = 0 THEN size ELSE f[k - 1] \div 8]
           Missing == {x \in 0 .. n : ~ \E f : Rec(f, x)}
<1>0. n \in Nat /\ n >= 0
  BY RamdiskAssumption
<1> HIDE DEF n
<1>1. Missing = {}
  <2>1. SUFFICES ASSUME Missing # {} PROVE FALSE
    OBVIOUS
  <2>2. Missing \in SUBSET Nat
    BY <1>0
  <2>3. PICK x \in Missing : \A y \in Missing : x <= y
    <3> HIDE DEF Missing
    <3> QED BY <2>1, <2>2, LeastIndex
  <2>4. x # 0
    <3>1. SUFFICES ASSUME x = 0 PROVE \E f : Rec(f, x)
      OBVIOUS
    <3>2. Rec([k \in 0 .. 0 |-> size], 0)
      OBVIOUS
    <3> QED BY <3>1, <3>2
  <2>5. x - 1 \in 0 .. n /\ x - 1 \notin Missing /\ x \in Nat
    <3>1. x \in 0 .. n
      OBVIOUS
    <3> HIDE DEF Missing
    <3> QED BY <3>1, <2>3, <2>4, <1>0
  <2>6. PICK f : Rec(f, x - 1)
    BY <2>5
  <2>7. \A k \in 0 .. x - 1 : f[k] = IF k = 0 THEN size ELSE f[k - 1] \div 8
    BY <2>6
  <2> DEFINE last == f[x - 1] \div 8
             h == [k \in 0 .. x |-> IF k = x THEN last ELSE f[k]]
  <2>h. h[x] = last /\ \A k \in 0 .. x - 1 : h[k] = f[k]
    <3> HIDE DEF last
    <3> QED BY <2>5
  <2>8. ASSUME NEW k \in 0 .. x
        PROVE  h[k] = IF k = 0 THEN size ELSE h[k - 1] \div 8
    <3> HIDE DEF h
    <3>1. CASE k = x
      <4>1. h[x - 1] = f[x - 1]
        BY <2>4, <2>5, <2>h
      <4> QED BY <4>1, <3>1, <2>h, <2>4, Zenon
    <3>2. CASE k # x
      <4>1. k \in 0 .. x - 1 /\ (k # 0 => k - 1 \in 0 .. x - 1)
        BY <3>2, <2>5
      <4>2. h[k] = f[k] /\ (k # 0 => h[k - 1] = f[k - 1])
        BY <4>1, <2>h, Zenon
      <4> QED BY <4>1, <4>2, <2>7, Zenon
    <3> QED BY <3>1, <3>2
  <2>9. Rec(h, x)
    <3>1. h = [k \in 0 .. x |-> h[k]]
      OBVIOUS
    <3> HIDE DEF h
    <3> QED BY <3>1, <2>8
  <2>10. \E ff : Rec(ff, x)
    <3> HIDE DEF h
    <3> QED BY <2>9
  <2> QED BY <2>3, <2>10
<1>2. \E f : Rec(f, n)
  <2>1. n \in 0 .. n
    BY <1>0
  <2> QED BY <2>1, <1>1, Zenon
<1> DEFINE g == CHOOSE f : Rec(f, n)
<1>3. Rec(g, n)
  BY <1>2, Zenon
<1>4. Shifted(size) = g
  BY Zenon DEF Shifted, n
<1> HIDE DEF g
<1>5. \A k \in 0 .. n : g[k] = IF k = 0 THEN size ELSE g[k - 1] \div 8
  BY <1>3
<1>6. g[0] = size /\ \A k \in 0 + 1 .. n : g[k] = g[k - 1] \div 8
  BY <1>0, <1>5
<1> QED BY <1>4, <1>6 DEF ShiftsOf, n

(* The loop of get_size. *)
SumsOf(g, in) ==
  /\ get_size(in) = g[SizeDigits].size /\ g[0] = [size |-> 0, count |-> 1]
  /\ \A k \in 1 .. SizeDigits : g[k] = AddDigit(g[k - 1], in[SizeDigits + 1 - k])

LEMMA SumRounds ==
  ASSUME NEW in
  PROVE  \E g : SumsOf(g, in)
<1> DEFINE n == SizeDigits
           Rec(f, x) == f = [k \in 0 .. x |-> IF k = 0 THEN [size |-> 0, count |-> 1] ELSE AddDigit(f[k - 1], in[SizeDigits + 1 - k])]
           Missing == {x \in 0 .. n : ~ \E f : Rec(f, x)}
<1>0. n \in Nat /\ n >= 0
  BY RamdiskAssumption
<1> HIDE DEF n
<1>1. Missing = {}
  <2>1. SUFFICES ASSUME Missing # {} PROVE FALSE
    OBVIOUS
  <2>2. Missing \in SUBSET Nat
    BY <1>0
  <2>3. PICK x \in Missing : \A y \in Missing : x <= y
    <3> HIDE DEF Missing
    <3> QED BY <2>1, <2>2, LeastIndex
  <2>4. x # 0
    <3>1. SUFFICES ASSUME x = 0 PROVE \E f : Rec(f, x)
      OBVIOUS
    <3>2. Rec([k \in 0 .. 0 |-> [size |-> 0, count |-> 1]], 0)
      OBVIOUS
    <3> QED BY <3>1, <3>2
  <2>5. x - 1 \in 0 .. n /\ x - 1 \notin Missing /\ x \in Nat
    <3>1. x \in 0 .. n
      OBVIOUS
    <3> HIDE DEF Missing
    <3> QED BY <3>1, <2>3, <2>4, <1>0
  <2>6. PICK f : Rec(f, x - 1)
    BY <2>5
  <2>7. \A k \in 0 .. x - 1 : f[k] = IF k = 0 THEN [size |-> 0, count |-> 1] ELSE AddDigit(f[k - 1], in[SizeDigits + 1 - k])
    BY <2>6
  <2> DEFINE last == AddDigit(f[x - 1], in[SizeDigits + 1 - x])
             h == [k \in 0 .. x |-> IF k = x THEN last ELSE f[k]]
  <2>h. h[x] = last /\ \A k \in 0 .. x - 1 : h[k] = f[k]
    <3> HIDE DEF last
    <3> QED BY <2>5
  <2>8. ASSUME NEW k \in 0 .. x
        PROVE  h[k] = IF k = 0 THEN [size |-> 0, count |-> 1] ELSE AddDigit(h[k - 1], in[SizeDigits + 1 - k])
    <3> HIDE DEF h
    <3>1. CASE k = x
      <4>1. h[x - 1] = f[x - 1]
        BY <2>4, <2>5, <2>h
      <4> QED BY <4>1, <3>1, <2>h, <2>4, Zenon
    <3>2. CASE k # x
      <4>1. k \in 0 .. x - 1 /\ (k # 0 => k - 1 \in 0 .. x - 1)
        BY <3>2, <2>5
      <4>2. h[k] = f[k] /\ (k # 0 => h[k - 1] = f[k - 1])
        BY <4>1, <2>h, Zenon
      <4> QED BY <4>1, <4>2, <2>7, Zenon
    <3> QED BY <3>1, <3>2
  <2>9. Rec(h, x)
    <3>1. h = [k \in 0 .. x |-> h[k]]
      OBVIOUS
    <3> HIDE DEF h
    <3> QED BY <3>1, <2>8
  <2>10. \E ff : Rec(ff, x)
    <3> HIDE DEF h
    <3> QED BY <2>9
  <2> QED BY <2>3, <2>10
<1>2. \E f : Rec(f, n)
  <2>1. n \in 0 .. n
    BY <1>0
  <2> QED BY <2>1, <1>1, Zenon
<1> DEFINE g == CHOOSE f : Rec(f, n)
<1>3. Rec(g, n)
  BY <1>2, Zenon
<1>4. get_size(in) = g[n].size
  BY Zenon DEF get_size, n
<1> HIDE DEF g
<1>5. \A k \in 0 .. n : g[k] = IF k = 0 THEN [size |-> 0, count |-> 1] ELSE AddDigit(g[k - 1], in[SizeDigits + 1 - k])
  BY <1>3
<1>6. g[0] = [size |-> 0, count |-> 1] /\ \A k \in 0 + 1 .. n : g[k] = AddDigit(g[k - 1], in[SizeDigits + 1 - k])
  BY <1>0, <1>5
<1> QED BY <1>4, <1>6 DEF SumsOf, n

(* The loop of add_files_to_list. *)
WalksOf(g, mem) ==
  /\ add_files_to_list(mem) = g[Cardinality(DOMAIN mem)] /\ g[0] = <<>>
  /\ \A k \in 1 .. Cardinality(DOMAIN mem) : g[k] = WalkOn(mem, g[k - 1])

LEMMA WalkRounds ==
  ASSUME NEW mem, Cardinality(DOMAIN mem) \in Nat
  PROVE  \E g : WalksOf(g, mem)
<1> DEFINE n == Cardinality(DOMAIN mem)
           Rec(f, x) == f = [k \in 0 .. x |-> IF k = 0 THEN <<>> ELSE WalkOn(mem, f[k - 1])]
           Missing == {x \in 0 .. n : ~ \E f : Rec(f, x)}
<1>0. n \in Nat /\ n >= 0
  OBVIOUS
<1> HIDE DEF n
<1>1. Missing = {}
  <2>1. SUFFICES ASSUME Missing # {} PROVE FALSE
    OBVIOUS
  <2>2. Missing \in SUBSET Nat
    BY <1>0
  <2>3. PICK x \in Missing : \A y \in Missing : x <= y
    <3> HIDE DEF Missing
    <3> QED BY <2>1, <2>2, LeastIndex
  <2>4. x # 0
    <3>1. SUFFICES ASSUME x = 0 PROVE \E f : Rec(f, x)
      OBVIOUS
    <3>2. Rec([k \in 0 .. 0 |-> <<>>], 0)
      OBVIOUS
    <3> QED BY <3>1, <3>2
  <2>5. x - 1 \in 0 .. n /\ x - 1 \notin Missing /\ x \in Nat
    <3>1. x \in 0 .. n
      OBVIOUS
    <3> HIDE DEF Missing
    <3> QED BY <3>1, <2>3, <2>4, <1>0
  <2>6. PICK f : Rec(f, x - 1)
    BY <2>5
  <2>7. \A k \in 0 .. x - 1 : f[k] = IF k = 0 THEN <<>> ELSE WalkOn(mem, f[k - 1])
    BY <2>6
  <2> DEFINE last == WalkOn(mem, f[x - 1])
             h == [k \in 0 .. x |-> IF k = x THEN last ELSE f[k]]
  <2>h. h[x] = last /\ \A k \in 0 .. x - 1 : h[k] = f[k]
    <3> HIDE DEF last
    <3> QED BY <2>5
  <2>8. ASSUME NEW k \in 0 .. x
        PROVE  h[k] = IF k = 0 THEN <<>> ELSE WalkOn(mem, h[k - 1])
    <3> HIDE DEF h
    <3>1. CASE k = x
      <4>1. h[x - 1] = f[x - 1]
        BY <2>4, <2>5, <2>h
      <4> QED BY <4>1, <3>1, <2>h, <2>4, Zenon
    <3>2. CASE k # x
      <4>1. k \in 0 .. x - 1 /\ (k # 0 => k - 1 \in 0 .. x - 1)
        BY <3>2, <2>5
      <4>2. h[k] = f[k] /\ (k # 0 => h[k - 1] = f[k - 1])
        BY <4>1, <2>h, Zenon
      <4> QED BY <4>1, <4>2, <2>7, Zenon
    <3> QED BY <3>1, <3>2
  <2>9. Rec(h, x)
    <3>1. h = [k \in 0 .. x |-> h[k]]
      OBVIOUS
    <3> HIDE DEF h
    <3> QED BY <3>1, <2>8
  <2>10. \E ff : Rec(ff, x)
    <3> HIDE DEF h
    <3> QED BY <2>9
  <2> QED BY <2>3, <2>10
<1>2. \E f : Rec(f, n)
  <2>1. n \in 0 .. n
    BY <1>0
  <2> QED BY <2>1, <1>1, Zenon
<1> DEFINE g == CHOOSE f : Rec(f, n)
<1>3. Rec(g, n)
  BY <1>2, Zenon
<1>4. add_files_to_list(mem) = g[n]
  BY Zenon DEF add_files_to_list, n
<1> HIDE DEF g
<1>5. \A k \in 0 .. n : g[k] = IF k = 0 THEN <<>> ELSE WalkOn(mem, g[k - 1])
  BY <1>3
<1>6. g[0] = <<>> /\ \A k \in 0 + 1 .. n : g[k] = WalkOn(mem, g[k - 1])
  BY <1>0, <1>5
<1> QED BY <1>4, <1>6 DEF WalksOf, n


-----------------------------------------------------------------------------
(* The octal digits.                                                       *)

Congruent(x, n) == \E p \in Int : x = n + p * WORD

(* One round of get_size: the digits read and those still to come make up  *)
(* the size, modulo WORD.                                                  *)
LEMMA DigitStep ==
  ASSUME NEW s \in Nat, NEW c \in Nat, NEW r \in Nat, NEW n \in Nat, Congruent(s + r * c, n)
  PROVE  Congruent(((s + (r % 8) * c) % WORD) + (r \div 8) * ((c * 8) % WORD), n)
<1>q. PICK q \in Int : s + r * c = n + q * WORD
  BY DEF Congruent
<1> DEFINE d == r % 8
           e == r \div 8
           A == s + d * c
           B == c * 8
           a == A \div WORD
           b == B \div WORD
           A1 == A % WORD
           B1 == B % WORD
<1>0. WORD \in Nat \ {0}
  BY RamdiskAssumption
<1>1. d \in Nat /\ e \in Nat /\ r = 8 * e + d
  OBVIOUS
<1> HIDE DEF d, e
<1>2. A \in Nat /\ B \in Nat
  BY <1>1
<1> HIDE DEF A, B
<1>3. a \in Nat /\ A1 \in Nat /\ A = a * WORD + A1
  BY <1>0, <1>2, DivMod
<1>4. b \in Nat /\ B1 \in Nat /\ B = b * WORD + B1
  BY <1>0, <1>2, DivMod
<1> HIDE DEF a, b, A1, B1
<1>5. e * B = e * (b * WORD) + e * B1
  BY <1>0, <1>1, <1>4
<1>6. e * B = 8 * (e * c) /\ A = s + d * c
  BY <1>1 DEF A, B
<1>7. r * c = 8 * (e * c) + d * c
  BY <1>1
<1>8. e * (b * WORD) = (e * b) * WORD
  BY <1>0, <1>1, <1>4
<1> DEFINE p == q - a - e * b
<1>9. p \in Int /\ p * WORD = q * WORD - a * WORD - (e * b) * WORD
  BY <1>0, <1>1, <1>3, <1>4, <1>q
<1>10. A1 + e * B1 = n + p * WORD
  <2> DEFINE x1 == a * WORD
             x2 == (e * b) * WORD
             x3 == e * c
             x4 == d * c
             x5 == e * B1
             x6 == q * WORD
             x7 == p * WORD
  <2>1. x1 \in Int /\ x2 \in Int /\ x3 \in Int /\ x4 \in Int /\ x5 \in Int /\ x6 \in Int /\ x7 \in Int
    BY <1>0, <1>1, <1>3, <1>4, <1>9
  <2>2. /\ A = x1 + A1 /\ 8 * x3 = x2 + x5 /\ A = s + x4
        /\ s + (8 * x3 + x4) = n + x6 /\ x7 = x6 - x1 - x2
    BY <1>3, <1>5, <1>6, <1>7, <1>8, <1>9, <1>q
  <2> HIDE DEF x1, x2, x3, x4, x5, x6, x7
  <2>3. A1 + x5 = n + x7
    BY <2>1, <2>2, <1>2, <1>3
  <2> QED BY <2>3 DEF x5, x7
<1> HIDE DEF p
<1>11. Congruent(A1 + e * B1, n)
  BY <1>9, <1>10 DEF Congruent
<1> QED BY <1>11 DEF A1, B1, A, B, d, e

(* get_size reads what tar has written. *)
LEMMA SizeReadsBack ==
  ASSUME NEW size \in Nat, Shifted(size)[SizeDigits] = 0, size < WORD
  PROVE  get_size(Octal(size)) = size
<1>0. WORD \in Nat \ {0} /\ SizeDigits \in Nat
  BY RamdiskAssumption
<1>1. PICK r : ShiftsOf(r, size)
  BY ShiftRounds
<1>2. /\ Shifted(size) = r /\ r[0] = size
      /\ \A k \in 1 .. SizeDigits : r[k] = r[k - 1] \div 8
  BY <1>1 DEF ShiftsOf
<1>3. PICK g : SumsOf(g, Octal(size))
  BY SumRounds
<1>4. /\ get_size(Octal(size)) = g[SizeDigits].size /\ g[0] = [size |-> 0, count |-> 1]
      /\ \A k \in 1 .. SizeDigits : g[k] = AddDigit(g[k - 1], Octal(size)[SizeDigits + 1 - k])
  BY <1>3 DEF SumsOf
<1>5. ASSUME NEW k \in 1 .. SizeDigits
      PROVE  Octal(size)[SizeDigits + 1 - k] = r[k - 1] % 8
  <2> DEFINE j == SizeDigits + 1 - k
  <2>1. j \in 1 .. SizeDigits /\ SizeDigits - j = k - 1
    BY <1>0
  <2> HIDE DEF j
  <2>2. Octal(size)[j] = Shifted(size)[SizeDigits - j] % 8
    BY <2>1 DEF Octal
  <2>3. Octal(size)[j] = r[k - 1] % 8
    BY <2>1, <2>2, <1>2
  <2> QED BY <2>3 DEF j
<1> DEFINE Good(k) == /\ r[k] \in Nat /\ g[k].size \in Nat /\ g[k].count \in Nat
                      /\ g[k].size < WORD
                      /\ Congruent(g[k].size + r[k] * g[k].count, size)
           Bad == {k \in 0 .. SizeDigits : ~Good(k)}
<1>6. Bad = {}
  <2>1. SUFFICES ASSUME Bad # {} PROVE FALSE
    OBVIOUS
  <2>2. Bad \in SUBSET Nat
    BY <1>0
  <2>3. PICK k \in Bad : \A y \in Bad : k <= y
    <3> HIDE DEF Bad
    <3> QED BY <2>1, <2>2, LeastIndex
  <2>4. k # 0
    <3>1. g[0].size = 0 /\ g[0].count = 1
      BY <1>4
    <3>2. Congruent(0 + size * 1, size) /\ 0 < WORD
      <4>1. 0 + size * 1 = size + 0 * WORD /\ 0 < WORD
        BY <1>0
      <4> QED BY <4>1 DEF Congruent
    <3>3. Good(0)
      BY <3>1, <3>2, <1>2, <1>0
    <3> QED BY <3>3, <2>3
  <2>5. k \in 1 .. SizeDigits /\ k - 1 \in 0 .. SizeDigits /\ k - 1 \notin Bad
    <3>1. k \in 0 .. SizeDigits
      OBVIOUS
    <3> HIDE DEF Bad
    <3> QED BY <3>1, <2>3, <2>4, <1>0
  <2> DEFINE s == g[k - 1].size
             c == g[k - 1].count
             e == r[k - 1]
  <2>6. s \in Nat /\ c \in Nat /\ e \in Nat
    BY <2>5
  <2>7. Congruent(s + e * c, size)
    BY <2>5
  <2>8. g[k] = AddDigit(g[k - 1], e % 8) /\ r[k] = e \div 8
    BY <2>5, <1>2, <1>4, <1>5
  <2>9. g[k].size = (s + (e % 8) * c) % WORD /\ g[k].count = (c * 8) % WORD
    BY <2>8 DEF AddDigit
  <2> HIDE DEF s, c, e
  <2>10. e % 8 \in Nat /\ e \div 8 \in Nat
    BY <2>6
  <2>11. /\ g[k].size \in Nat /\ g[k].size < WORD /\ g[k].count \in Nat
    <3>1. s + (e % 8) * c \in Nat /\ c * 8 \in Nat
      BY <2>6, <2>10
    <3> QED BY <3>1, <2>9, <1>0, DivMod, Zenon
  <2>12. Congruent(((s + (e % 8) * c) % WORD) + (e \div 8) * ((c * 8) % WORD), size)
    BY <2>6, <2>7, DigitStep, Zenon
  <2>13. Good(k)
    BY <2>8, <2>9, <2>10, <2>11, <2>12, Zenon
  <2> QED BY <2>3, <2>13
<1> DEFINE u == g[SizeDigits]
<1>7. Good(SizeDigits)
  BY <1>0, <1>6
<1>8. PICK q \in Int : u.size + r[SizeDigits] * u.count = size + q * WORD
  BY <1>7 DEF Congruent
<1>9. u.size \in Nat /\ u.size < WORD /\ u.count \in Nat
  BY <1>7
<1>10. r[SizeDigits] = 0
  BY <1>2
<1> HIDE DEF u, Good, Bad
<1>11. u.size = size + q * WORD
  BY <1>8, <1>9, <1>10, <1>0
<1>12. 0 * WORD + u.size = q * WORD + size
  BY <1>9, <1>11, <1>0
<1>13. u.size \in 0 .. WORD - 1 /\ size \in 0 .. WORD - 1 /\ 0 \in Int
  BY <1>9, <1>0
<1>14. u.size = size
  BY <1>0, <1>12, <1>13, QuotientUnique
<1> QED BY <1>4, <1>14 DEF u

-----------------------------------------------------------------------------
(* The layout of an archive.                                               *)

(* The headers follow each other: each file takes one block for its header *)
(* and those of its contents.                                              *)
LEMMA HeaderFacts ==
  ASSUME NEW a, Loadable(a)
  PROVE  /\ HeaderBlock(a)[1] = 0
         /\ \A i \in 1 .. Len(a) :
              HeaderBlock(a)[i + 1] = HeaderBlock(a)[i] + 1 + Blocks(a[i].size)
         /\ \A i \in 1 .. Len(a) + 1 : HeaderBlock(a)[i] \in Nat /\ HeaderBlock(a)[i] >= i - 1
         /\ \A i, j \in 1 .. Len(a) + 1 : i < j => HeaderBlock(a)[i] < HeaderBlock(a)[j]
<1> DEFINE n == Len(a)
           b == HeaderBlock(a)
<1>0. n \in Nat /\ \A i \in 1 .. n : a[i].size \in Nat
  BY DEF Loadable
<1>1. PICK g : HeadersOf(g, a)
  BY <1>0, HeaderRounds
<1>2. b[1] = 0 /\ \A k \in 2 .. n + 1 : b[k] = b[k - 1] + 1 + Blocks(a[k - 1].size)
  BY <1>1 DEF HeadersOf
<1> HIDE DEF n, b
<1>3. ASSUME NEW i \in 1 .. n PROVE b[i + 1] = b[i] + 1 + Blocks(a[i].size)
  <2>1. i + 1 \in 2 .. n + 1 /\ (i + 1) - 1 = i
    BY <1>0
  <2> QED BY <2>1, <1>2
<1> DEFINE Good(j) == b[j] \in Nat /\ b[j] >= j - 1 /\ \A i \in 1 .. j - 1 : b[i] < b[j]
           Bad == {j \in 1 .. n + 1 : ~Good(j)}
<1>4. Bad = {}
  <2>1. SUFFICES ASSUME Bad # {} PROVE FALSE
    OBVIOUS
  <2>2. Bad \in SUBSET Nat
    BY <1>0
  <2>3. PICK j \in Bad : \A y \in Bad : j <= y
    <3> HIDE DEF Bad
    <3> QED BY <2>1, <2>2, LeastIndex
  <2>4. j # 1
    <3>1. Good(1)
      BY <1>2
    <3> QED BY <3>1, <2>3
  <2>5. j \in 2 .. n + 1 /\ j - 1 \in 1 .. n + 1 /\ j - 1 \in 1 .. n /\ j - 1 \notin Bad
    <3>1. j \in 1 .. n + 1
      OBVIOUS
    <3> HIDE DEF Bad
    <3> QED BY <3>1, <2>3, <2>4, <1>0
  <2>6. Good(j - 1)
    BY <2>5
  <2> DEFINE m == Blocks(a[j - 1].size)
  <2>7. m \in Nat /\ b[j] = b[j - 1] + 1 + m
    BY <2>5, <1>0, <1>2, BlocksFacts
  <2>8. \A i \in 1 .. j - 1 : b[i] \in Nat
    <3>1. ASSUME NEW i \in 1 .. j - 1 PROVE i \in 1 .. n + 1 /\ i \notin Bad
      <4>1. i \in 1 .. n + 1 /\ ~(j <= i)
        <5> HIDE DEF Bad, m
        <5> QED BY <2>5, <1>0
      <4> HIDE DEF Bad
      <4> QED BY <4>1, <2>3
    <3> QED BY <3>1
  <2> HIDE DEF m, Bad
  <2>9. b[j] \in Nat /\ b[j] >= j - 1 /\ b[j - 1] < b[j]
    BY <2>5, <2>6, <2>7
  <2>10. ASSUME NEW i \in 1 .. j - 1 PROVE b[i] < b[j]
    <3>1. CASE i = j - 1
      BY <3>1, <2>9
    <3>2. CASE i # j - 1
      <4>1. i \in 1 .. (j - 1) - 1
        BY <3>2, <2>5
      <4>2. b[i] < b[j - 1] /\ b[i] \in Nat /\ b[j - 1] \in Nat
        BY <4>1, <2>6, <2>8
      <4> QED BY <4>2, <2>9
    <3> QED BY <3>1, <3>2
  <2> QED BY <2>3, <2>9, <2>10 DEF Bad
<1>5. \A j \in 1 .. n + 1 : Good(j)
  BY <1>4
<1>6. ASSUME NEW i \in 1 .. n + 1, NEW j \in 1 .. n + 1, i < j PROVE b[i] < b[j]
  <2>1. i \in 1 .. j - 1
    BY <1>0, <1>6
  <2> QED BY <2>1, <1>5
<1>7. \A i \in 1 .. n + 1 : b[i] \in Nat /\ b[i] >= i - 1
  BY <1>5
<1> HIDE DEF Good, Bad
<1> QED BY <1>2, <1>3, <1>6, <1>7 DEF n, b

(* Where the headers lie. *)
LEMMA AddressFacts ==
  ASSUME NEW a, Loadable(a)
  PROVE  /\ \A i \in 1 .. Len(a) + 1 : HeaderAt(a, i) \in Nat
         /\ HeaderAt(a, 1) = Base
         /\ \A i \in 1 .. Len(a) :
              /\ HeaderAt(a, i + 1) = HeaderAt(a, i) + BLOCK + BLOCK * Blocks(a[i].size)
              /\ 2 * (HeaderAt(a, i) + BLOCK + a[i].size) <= WORD
<1> DEFINE n == Len(a)
           b == HeaderBlock(a)
<1>0. n \in Nat /\ BLOCK \in Nat \ {0} /\ Base \in Nat /\ WORD \in Nat
      /\ 2 * HeaderAt(a, n + 1) <= WORD
  BY RamdiskAssumption DEF Loadable
<1>1. /\ b[1] = 0 /\ \A i \in 1 .. n : b[i + 1] = b[i] + 1 + Blocks(a[i].size)
      /\ \A i \in 1 .. n + 1 : b[i] \in Nat
      /\ \A i, j \in 1 .. n + 1 : i < j => b[i] < b[j]
  BY HeaderFacts
<1> HIDE DEF n, b
<1>2. \A i : HeaderAt(a, i) = Base + BLOCK * b[i]
  BY DEF HeaderAt, b
<1>3. ASSUME NEW i \in 1 .. n + 1 PROVE HeaderAt(a, i) \in Nat
  <2> DEFINE x == b[i]
  <2>1. x \in Nat /\ HeaderAt(a, i) = Base + BLOCK * x
    BY <1>1, <1>2
  <2> HIDE DEF x
  <2> QED BY <2>1, <1>0
<1>4. HeaderAt(a, 1) = Base
  BY <1>0, <1>1, <1>2
<1>5. ASSUME NEW i \in 1 .. n
      PROVE  /\ HeaderAt(a, i + 1) = HeaderAt(a, i) + BLOCK + BLOCK * Blocks(a[i].size)
             /\ 2 * (HeaderAt(a, i) + BLOCK + a[i].size) <= WORD
  <2> DEFINE m == Blocks(a[i].size)
             x == b[i]
             z == b[n + 1]
             sz == a[i].size
  <2>1. sz \in Nat /\ m \in Nat /\ BLOCK * m >= sz
    BY BlocksFacts DEF Loadable, n
  <2>2. i \in 1 .. n + 1 /\ i + 1 \in 1 .. n + 1 /\ n + 1 \in 1 .. n + 1
    BY <1>0
  <2>3. x \in Nat /\ z \in Nat /\ b[i + 1] = x + 1 + m /\ b[i + 1] <= z
    <3>1. i + 1 = n + 1 \/ i + 1 < n + 1
      BY <1>0
    <3>2. b[i + 1] \in Nat /\ z \in Nat
      BY <2>2, <1>1
    <3> QED BY <3>1, <3>2, <2>2, <1>1
  <2> HIDE DEF m, x, z, sz
  <2>4. BLOCK * (x + 1 + m) = BLOCK * x + BLOCK + BLOCK * m
    BY <2>1, <2>3, <1>0
  <2>5. BLOCK * (x + 1 + m) <= BLOCK * z
    BY <2>1, <2>3, <1>0
  <2>6. HeaderAt(a, i) = Base + BLOCK * x /\ HeaderAt(a, i + 1) = Base + BLOCK * (x + 1 + m)
        /\ HeaderAt(a, n + 1) = Base + BLOCK * z
    BY <2>3, <1>2 DEF x, z
  <2> DEFINE u == BLOCK * x
             v == BLOCK * m
             w == BLOCK * z
  <2>7. u \in Nat /\ v \in Nat /\ w \in Nat
    BY <2>1, <2>3, <1>0
  <2>8. /\ HeaderAt(a, i) = Base + u /\ HeaderAt(a, i + 1) = Base + (u + BLOCK + v)
        /\ u + BLOCK + v <= w /\ 2 * (Base + w) <= WORD /\ v >= sz
    BY <2>1, <2>4, <2>5, <2>6, <1>0
  <2> HIDE DEF u, v, w
  <2>9. HeaderAt(a, i + 1) = HeaderAt(a, i) + BLOCK + v /\ 2 * (HeaderAt(a, i) + BLOCK + sz) <= WORD
    BY <2>1, <2>7, <2>8, <1>0
  <2> QED BY <2>9 DEF v, m, sz
<1> QED BY <1>3, <1>4, <1>5 DEF n

(* What the walk sees at the headers, and at the end. *)
LEMMA MemoryFacts ==
  ASSUME NEW a, Loadable(a)
  PROVE  /\ \A i \in 1 .. Len(a) :
              /\ HeaderAt(a, i) \in DOMAIN Memory(a)
              /\ Memory(a)[HeaderAt(a, i)] =
                   [kind |-> "header", filename |-> a[i].name, size |-> Octal(a[i].size)]
         /\ HeaderAt(a, Len(a) + 1) \in DOMAIN Memory(a)
         /\ Memory(a)[HeaderAt(a, Len(a) + 1)] = [kind |-> "end"]
         /\ Cardinality(DOMAIN Memory(a)) \in Nat /\ Cardinality(DOMAIN Memory(a)) >= Len(a)
<1> DEFINE n == Len(a)
           b == HeaderBlock(a)
           e == b[n + 1]
           D == {Base + BLOCK * m : m \in 0 .. e}
<1>0. n \in Nat /\ BLOCK \in Nat \ {0} /\ Base \in Nat
  BY RamdiskAssumption DEF Loadable
<1>1. /\ \A i \in 1 .. n + 1 : b[i] \in Nat /\ b[i] >= i - 1
      /\ \A i, j \in 1 .. n + 1 : i < j => b[i] < b[j]
  BY HeaderFacts
<1>2. Memory(a) = [x \in D |-> BlockOf(a, (x - Base) \div BLOCK)]
  BY DEF Memory
<1>3. \A i : HeaderAt(a, i) = Base + BLOCK * b[i]
  BY DEF HeaderAt
<1>4. \A m : BlockOf(a, m) =
        IF m = e THEN [kind |-> "end"]
        ELSE IF \E i \in 1 .. n : b[i] = m
        THEN [kind |-> "header", filename |-> a[CHOOSE i \in 1 .. n : b[i] = m].name,
              size |-> Octal(a[CHOOSE i \in 1 .. n : b[i] = m].size)]
        ELSE [kind |-> "contents"]
  BY Zenon DEF BlockOf
<1> HIDE DEF n, b
<1>5. e \in Nat /\ e >= n /\ n + 1 \in 1 .. n + 1
  BY <1>0, <1>1
<1>6. ASSUME NEW i \in 1 .. n + 1
      PROVE  HeaderAt(a, i) \in D /\ Memory(a)[HeaderAt(a, i)] = BlockOf(a, b[i])
  <2> DEFINE m == b[i]
             x == HeaderAt(a, i)
  <2>1. m \in 0 .. e
    <3>1. i = n + 1 \/ i < n + 1
      BY <1>0
    <3>2. b[i] \in Nat /\ (i < n + 1 => b[i] < e)
      BY <1>1, <1>5
    <3> QED BY <3>1, <3>2, <1>5
  <2>2. x = Base + BLOCK * m
    BY <1>3
  <2> HIDE DEF m, x
  <2>3. x \in D
    BY <2>1, <2>2
  <2>4. x - Base = m * BLOCK + 0 /\ 0 \in 0 .. BLOCK - 1
    BY <2>1, <2>2, <1>0, <1>5
  <2>5. (x - Base) \div BLOCK = m
    BY <2>1, <2>4, <1>0, <1>5, DivOf
  <2> HIDE DEF D
  <2>6. Memory(a)[x] = BlockOf(a, m)
    BY <2>3, <2>5, <1>2
  <2> QED BY <2>3, <2>6 DEF x, m
<1>7. DOMAIN Memory(a) = D
  <2> HIDE DEF D
  <2> QED BY <1>2
<1>8. ASSUME NEW i \in 1 .. n
      PROVE  BlockOf(a, b[i]) =
               [kind |-> "header", filename |-> a[i].name, size |-> Octal(a[i].size)]
  <2> DEFINE k == CHOOSE j \in 1 .. n : b[j] = b[i]
  <2>1. i \in 1 .. n + 1 /\ i < n + 1
    BY <1>0
  <2>2. b[i] # e
    BY <2>1, <1>1, <1>5
  <2>3. k \in 1 .. n /\ b[k] = b[i]
    BY Zenon
  <2>4. k = i
    <3> HIDE DEF k
    <3>1. k \in 1 .. n + 1 /\ (k = i \/ k < i \/ i < k)
      BY <2>3, <1>0
    <3>2. b[i] \in Nat
      BY <2>1, <1>1
    <3> QED BY <3>1, <3>2, <2>1, <2>3, <1>1
  <2>5. BlockOf(a, b[i]) = [kind |-> "header", filename |-> a[k].name, size |-> Octal(a[k].size)]
    BY <2>2, <1>4, Zenon
  <2> HIDE DEF k
  <2> QED BY <2>4, <2>5
<1>9. BlockOf(a, e) = [kind |-> "end"]
  BY <1>4
<1>10. Cardinality(D) \in Nat /\ Cardinality(D) >= n
  <2> DEFINE f == [m \in 0 .. e |-> Base + BLOCK * m]
  <2>1. f \in [0 .. e -> D]
    OBVIOUS
  <2>2. ASSUME NEW x \in 0 .. e, NEW y \in 0 .. e, f[x] = f[y] PROVE x = y
    <3>1. x \in Int /\ y \in Int /\ x * BLOCK + 0 = y * BLOCK + 0 /\ 0 \in 0 .. BLOCK - 1
      <4>1. Base + BLOCK * x = Base + BLOCK * y
        BY <2>2
      <4>2. x \in Int /\ y \in Int
        BY <1>5
      <4> HIDE DEF f, D, e
      <4> QED BY <4>1, <4>2, <1>0
    <3> QED BY <3>1, <1>0, QuotientUnique
  <2>3. \A t \in D : \E m \in 0 .. e : f[m] = t
    OBVIOUS
  <2> HIDE DEF f, D
  <2>4. f \in Bijection(0 .. e, D)
    BY <2>1, <2>2, <2>3, Fun_IsBij
  <2>5. ExistsBijection(0 .. e, D)
    BY <2>4 DEF ExistsBijection
  <2>6. IsFiniteSet(0 .. e) /\ Cardinality(0 .. e) = e + 1
    <3>1. 0 \in Int /\ e \in Int /\ ~(0 > e)
      BY <1>5
    <3>2. IsFiniteSet(0 .. e) /\ Cardinality(0 .. e) = e - 0 + 1
      BY <3>1, FS_Interval
    <3> QED BY <3>2, <1>5
  <2>7. Cardinality(D) = e + 1
    BY <2>5, <2>6, FS_Bijection
  <2> QED BY <2>7, <1>0, <1>5
<1> HIDE DEF D, e
<1>11. ASSUME NEW i \in 1 .. n
       PROVE  /\ HeaderAt(a, i) \in DOMAIN Memory(a)
              /\ Memory(a)[HeaderAt(a, i)] =
                   [kind |-> "header", filename |-> a[i].name, size |-> Octal(a[i].size)]
  <2>1. i \in 1 .. n + 1
    BY <1>0
  <2> QED BY <2>1, <1>6, <1>7, <1>8
<1>12. HeaderAt(a, n + 1) \in D /\ Memory(a)[HeaderAt(a, n + 1)] = [kind |-> "end"]
  BY <1>5, <1>6, <1>9 DEF e
<1> QED BY <1>7, <1>10, <1>11, <1>12 DEF n

(* From header to header. *)
LEMMA NextHeaderFacts ==
  ASSUME NEW a, Loadable(a), NEW i \in 1 .. Len(a)
  PROVE  /\ get_size(Memory(a)[HeaderAt(a, i)].size) = a[i].size
         /\ NextHeader(Memory(a), HeaderAt(a, i)) = HeaderAt(a, i + 1)
<1> DEFINE size == a[i].size
           x == HeaderAt(a, i)
           mem == Memory(a)
<1>0. /\ Len(a) \in Nat /\ size \in Nat /\ Shifted(size)[SizeDigits] = 0
      /\ BLOCK \in Nat \ {0} /\ WORD \in Nat
  BY RamdiskAssumption DEF Loadable
<1>1. i \in 1 .. Len(a) + 1
  BY <1>0
<1>2. /\ x \in Nat /\ HeaderAt(a, i + 1) = x + BLOCK + BLOCK * Blocks(size)
      /\ 2 * (x + BLOCK + size) <= WORD
  BY <1>1, AddressFacts
<1>3. mem[x].size = Octal(size)
  <2>1. mem[x] = [kind |-> "header", filename |-> a[i].name, size |-> Octal(size)]
    BY MemoryFacts, Zenon
  <2> HIDE DEF mem, x, size
  <2> QED BY <2>1
<1> HIDE DEF size, x, mem
<1>4. size < WORD
  BY <1>0, <1>2
<1>5. get_size(mem[x].size) = size
  BY <1>0, <1>3, <1>4, SizeReadsBack
<1>6. NextHeader(mem, x) = x + (size \div BLOCK + 1) * BLOCK + IF size % BLOCK # 0 THEN BLOCK ELSE 0
  BY <1>5 DEF NextHeader
<1>7. Blocks(size) = (size \div BLOCK) + IF size % BLOCK # 0 THEN 1 ELSE 0
  BY <1>0, BlocksFacts
<1>8. size \div BLOCK \in Nat
  BY <1>0, DivMod
<1> DEFINE q == size \div BLOCK
           r == size % BLOCK
<1> HIDE DEF q, r
<1>9. /\ NextHeader(mem, x) = x + (q + 1) * BLOCK + IF r # 0 THEN BLOCK ELSE 0
      /\ Blocks(size) = q + IF r # 0 THEN 1 ELSE 0
      /\ q \in Nat
  BY <1>6, <1>7, <1>8 DEF q, r
<1>10. (q + 1) * BLOCK = BLOCK * q + BLOCK /\ BLOCK * (q + 1) = BLOCK * q + BLOCK
  BY <1>0, <1>9
<1>11. CASE r = 0
  <2>1. Blocks(size) = q
    BY <1>9, <1>11
  <2>2. NextHeader(mem, x) = x + (BLOCK * q + BLOCK) + 0
    BY <1>9, <1>10, <1>11
  <2>3. HeaderAt(a, i + 1) = x + BLOCK + BLOCK * q
    BY <1>2, <2>1
  <2> QED BY <2>2, <2>3, <1>0, <1>2, <1>5, <1>9 DEF size, x, mem
<1>12. CASE r # 0
  <2>1. Blocks(size) = q + 1
    BY <1>9, <1>12
  <2>2. NextHeader(mem, x) = x + (BLOCK * q + BLOCK) + BLOCK
    BY <1>9, <1>10, <1>12
  <2>3. HeaderAt(a, i + 1) = x + BLOCK + (BLOCK * q + BLOCK)
    BY <1>2, <1>10, <2>1
  <2> QED BY <2>2, <2>3, <1>0, <1>2, <1>5, <1>9 DEF size, x, mem
<1> QED BY <1>11, <1>12

(* The walk finds every header of the archive, in order, and nothing else. *)
LEMMA WalkFindsFiles ==
  ASSUME NEW a, Loadable(a)
  PROVE  LET files_ == add_files_to_list(Memory(a))
         IN  /\ Len(files_) = Len(a)
             /\ \A i \in 1 .. Len(a) : files_[i] = HeaderAt(a, i)
<1> DEFINE n == Len(a)
           mem == Memory(a)
           C == Cardinality(DOMAIN mem)
           at(i) == HeaderAt(a, i)
<1>0. n \in Nat /\ C \in Nat /\ C >= n
  BY MemoryFacts DEF Loadable
<1>1. PICK g : WalksOf(g, mem)
  BY <1>0, WalkRounds
<1>2. add_files_to_list(mem) = g[C] /\ g[0] = <<>> /\ \A k \in 1 .. C : g[k] = WalkOn(mem, g[k - 1])
  BY <1>1 DEF WalksOf
<1>3. /\ \A i \in 1 .. n + 1 : at(i) \in Nat
      /\ at(1) = Base
  BY AddressFacts
<1>4. /\ \A i \in 1 .. n : at(i) \in DOMAIN mem /\ mem[at(i)].kind = "header"
      /\ mem[at(n + 1)].kind # "header"
  <2>1. /\ \A i \in 1 .. n :
             /\ at(i) \in DOMAIN mem
             /\ mem[at(i)] = [kind |-> "header", filename |-> a[i].name, size |-> Octal(a[i].size)]
        /\ mem[at(n + 1)] = [kind |-> "end"]
    BY MemoryFacts, Zenon
  <2>2. mem[at(n + 1)].kind # "header"
    <3> DEFINE r == mem[at(n + 1)]
    <3>1. r = [kind |-> "end"]
      BY <2>1
    <3> HIDE DEF r
    <3>2. r.kind # "header"
      BY <3>1
    <3> QED BY <3>2 DEF r
  <2>3. ASSUME NEW i \in 1 .. n PROVE mem[at(i)].kind = "header"
    <3> DEFINE r == mem[at(i)]
    <3>1. r = [kind |-> "header", filename |-> a[i].name, size |-> Octal(a[i].size)]
      BY <2>1, Zenon
    <3> HIDE DEF r
    <3>2. r.kind = "header"
      BY <3>1
    <3> QED BY <3>2 DEF r
  <2> HIDE DEF mem, at, n, C
  <2> QED BY <2>1, <2>2, <2>3, Zenon
<1>5. \A i \in 1 .. n : NextHeader(mem, at(i)) = at(i + 1)
  BY NextHeaderFacts
<1> HIDE DEF n, mem, C, at
<1> DEFINE m(k) == IF k < n THEN k ELSE n
           Good(k) == g[k] \in Seq(Nat) /\ Len(g[k]) = m(k) /\ \A i \in 1 .. m(k) : g[k][i] = at(i)
           Bad == {k \in 0 .. C : ~Good(k)}
<1>6. Bad = {}
  <2>1. SUFFICES ASSUME Bad # {} PROVE FALSE
    OBVIOUS
  <2>2. Bad \in SUBSET Nat
    BY <1>0
  <2>3. PICK k \in Bad : \A y \in Bad : k <= y
    <3> HIDE DEF Bad
    <3> QED BY <2>1, <2>2, LeastIndex
  <2>4. k # 0
    <3>1. m(0) = 0
      BY <1>0
    <3>2. g[0] \in Seq(Nat) /\ Len(g[0]) = 0
      BY <1>2
    <3>3. Good(0)
      <4> HIDE DEF m
      <4> QED BY <3>1, <3>2
    <3> QED BY <3>3, <2>3
  <2>5. k \in 1 .. C /\ k - 1 \in 0 .. C /\ k - 1 \notin Bad
    <3>1. k \in 0 .. C
      OBVIOUS
    <3> HIDE DEF Bad
    <3> QED BY <3>1, <2>3, <2>4, <1>0
  <2> DEFINE d == g[k - 1]
             l == m(k - 1)
             x == IF d = <<>> THEN Base ELSE NextHeader(mem, Last(d))
  <2>6. d \in Seq(Nat) /\ Len(d) = l /\ \A i \in 1 .. l : d[i] = at(i)
    BY <2>5
  <2>7. g[k] = IF x \in DOMAIN mem /\ mem[x].kind = "header" THEN Append(d, x) ELSE d
    BY <2>5, <1>2, Zenon DEF WalkOn
  <2>8. l \in 0 .. n
    BY <1>0, <2>5
  <2> HIDE DEF d
  <2>9. x = at(l + 1)
    <3> HIDE DEF l
    <3>1. CASE l = 0
      <4>1. d = <<>>
        BY <3>1, <2>6
      <4> QED BY <4>1, <3>1, <1>3
    <3>2. CASE l # 0
      <4>1. d # <<>> /\ Last(d) = d[l] /\ l \in 1 .. l /\ l \in 1 .. n
        BY <3>2, <2>6, <2>8, <1>0 DEF Last
      <4>2. Last(d) = at(l)
        BY <4>1, <2>6
      <4> QED BY <4>1, <4>2, <1>5
    <3> QED BY <3>1, <3>2
  <2>10. CASE l < n
    <3>1. l = k - 1 /\ m(k) = l + 1
      BY <2>10, <2>5, <2>8, <1>0
    <3> HIDE DEF l, x, m
    <3>2. l + 1 \in 1 .. n /\ l \in Nat
      BY <2>8, <2>10, <1>0
    <3>3. g[k] = Append(d, x) /\ x \in Nat
      <4>1. l + 1 \in 1 .. n + 1
        BY <3>2, <1>0
      <4> QED BY <4>1, <3>2, <2>7, <2>9, <1>3, <1>4
    <3>4. Append(d, x) \in Seq(Nat) /\ Len(Append(d, x)) = l + 1
      BY <3>3, <2>6
    <3>5. \A i \in 1 .. l + 1 : Append(d, x)[i] = at(i)
      <4>1. SUFFICES ASSUME NEW i \in 1 .. l + 1 PROVE Append(d, x)[i] = at(i)
        OBVIOUS
      <4>2. CASE i = l + 1
        BY <4>2, <2>6, <2>9, <3>2, <3>3
      <4>3. CASE i # l + 1
        <5>1. i \in 1 .. l
          BY <4>3, <3>2
        <5> QED BY <5>1, <2>6, <3>2, <3>3
      <4> QED BY <4>2, <4>3
    <3>6. Good(k)
      BY <3>1, <3>3, <3>4, <3>5
    <3> QED BY <3>6, <2>3
  <2>11. CASE ~(l < n)
    <3>1. l = n /\ m(k) = n
      BY <2>11, <2>5, <2>8, <1>0
    <3> HIDE DEF l, x, m
    <3>2. g[k] = d
      BY <3>1, <2>7, <2>9, <1>4
    <3>3. Good(k)
      BY <3>1, <3>2, <2>6
    <3> QED BY <3>3, <2>3
  <2> QED BY <2>10, <2>11
<1>7. m(C) = n
  BY <1>0
<1>8. Good(C)
  BY <1>0, <1>6
<1> HIDE DEF m, Bad
<1>9. Len(g[C]) = n /\ \A i \in 1 .. n : g[C][i] = at(i)
  BY <1>7, <1>8
<1> QED BY <1>2, <1>9 DEF n, mem, at

-----------------------------------------------------------------------------
(* The answers of the daemon.                                              *)

(* The array files as InitRamdisk leaves it. *)
FilesOf(fs, a) ==
  Len(fs) = Len(a) /\ \A i \in 1 .. Len(a) : fs[i] = HeaderAt(a, i)

(* GetRamDiskFile finds the first file of that name, or none. *)
LEMMA LookupFacts ==
  ASSUME NEW a, Loadable(a), NEW fs, FilesOf(fs, a), NEW name
  PROVE  /\ FileIndex(a, name) \in 0 .. Len(a)
         /\ FileIndex(a, name) = 0 => GetRamDiskFile(Memory(a), fs, name) = NULL
         /\ FileIndex(a, name) # 0 =>
              GetRamDiskFile(Memory(a), fs, name) = HeaderAt(a, FileIndex(a, name))
<1> DEFINE n == Len(a)
           mem == Memory(a)
           I == {i \in 1 .. n : a[i].name = name}
           J == {i \in 1 .. Len(fs) : mem[fs[i]].filename = name}
           j == SelectInSeq(fs, LAMBDA x : mem[x].filename = name)
           k == FileIndex(a, name)
<1>0. n \in Nat
  BY DEF Loadable
<1>1. k = IF I # {} THEN Min(I) ELSE 0
  BY Zenon DEF FileIndex, SelectInSeq
<1>2. j = IF J # {} THEN Min(J) ELSE 0
  BY Zenon DEF SelectInSeq
<1>3. GetRamDiskFile(mem, fs, name) = IF j = 0 THEN NULL ELSE fs[j]
  BY Zenon DEF GetRamDiskFile
<1>4. Len(fs) = n /\ \A i \in 1 .. n : fs[i] = HeaderAt(a, i)
  BY DEF FilesOf
<1>5. ASSUME NEW i \in 1 .. n PROVE mem[fs[i]].filename = a[i].name
  <2> DEFINE r == mem[fs[i]]
  <2>1. r = [kind |-> "header", filename |-> a[i].name, size |-> Octal(a[i].size)]
    BY <1>4, MemoryFacts, Zenon
  <2> HIDE DEF r
  <2>2. r.filename = a[i].name
    BY <2>1
  <2> QED BY <2>2 DEF r
<1>6. I = J
  BY <1>4, <1>5
<1> HIDE DEF k, j, J, mem
<1>7. k = j
  BY <1>1, <1>2, <1>6
<1>8. k \in 0 .. n
  <2>1. I \in SUBSET Nat /\ I \subseteq 1 .. n
    BY <1>0
  <2> HIDE DEF I
  <2>2. CASE I # {}
    <3>1. Min(I) \in I
      BY <2>1, <2>2, LeastIndex
    <3>2. k \in 1 .. n
      BY <3>1, <2>1, <2>2, <1>1, Zenon
    <3> HIDE DEF n
    <3> QED BY <3>2, <1>0
  <2>3. CASE I = {}
    BY <2>3, <1>0, <1>1
  <2> QED BY <2>2, <2>3
<1>9. k # 0 => k \in 1 .. n
  BY <1>8, <1>0
<1> HIDE DEF I
<1> QED BY <1>3, <1>4, <1>7, <1>8, <1>9 DEF k, mem, n

(* FS_SIGNAL_OPEN is answered from the archive. *)
LEMMA OpenTrue ==
  ASSUME NEW a, Loadable(a), NEW fs, FilesOf(fs, a), NEW rq, rq.signal = "open"
  PROVE  TrueAnswer(a, rq, Open(Memory(a), fs, rq))
<1> DEFINE name == <<".">> \o rq.path
           i == FileIndex(a, name)
           f == GetRamDiskFile(Memory(a), fs, name)
           answer == Open(Memory(a), fs, rq)
<1>1. answer = IF rq.mode # "RO" \/ f = NULL THEN FAIL ELSE OK
  BY Zenon DEF Open, GetRamDiskFileRel
<1> HIDE DEF name
<1>2. i \in 0 .. Len(a) /\ (i = 0 => f = NULL) /\ (i # 0 => f = HeaderAt(a, i))
  BY LookupFacts, Zenon
<1> HIDE DEF i, f
<1>3. i # 0 => f # NULL
  <2>1. SUFFICES ASSUME i # 0 PROVE f # NULL
    OBVIOUS
  <2>2. i \in 1 .. Len(a) + 1
    BY <2>1, <1>2 DEF Loadable
  <2>3. HeaderAt(a, i) \in Nat
    BY <2>2, AddressFacts
  <2> QED BY <2>1, <2>3, <1>2, RamdiskAssumption
<1> HIDE DEF answer
<1>4. OK # FAIL
  BY DEF OK, FAIL
<1>5. answer = OK <=> i # 0 /\ rq.mode = "RO"
  BY <1>1, <1>2, <1>3, <1>4, Zenon
<1>6. rq.signal # "stat" /\ rq.signal # "read"
  OBVIOUS
<1> QED BY <1>5, <1>6, Zenon DEF TrueAnswer, i, name, answer

(* FS_SIGNAL_STAT is answered from the archive. *)
LEMMA StatTrue ==
  ASSUME NEW a, Loadable(a), NEW fs, FilesOf(fs, a), NEW rq, rq.signal = "stat"
  PROVE  TrueAnswer(a, rq, Stat(Memory(a), fs, rq))
<1> DEFINE name == <<".">> \o rq.path
           i == FileIndex(a, name)
           f == GetRamDiskFile(Memory(a), fs, name)
           answer == Stat(Memory(a), fs, rq)
           size == a[i].size
<1>1. answer = IF f = NULL THEN FAIL
               ELSE [sig |-> "SIGNAL_OK", st_size |-> get_size(Memory(a)[f].size)]
  BY Zenon DEF Stat, GetRamDiskFileRel
<1> HIDE DEF name
<1>2. i \in 0 .. Len(a) /\ (i = 0 => f = NULL) /\ (i # 0 => f = HeaderAt(a, i))
  BY LookupFacts, Zenon
<1> HIDE DEF i, f
<1>3. i # 0 => f # NULL /\ get_size(Memory(a)[f].size) = size
  <2>1. SUFFICES ASSUME i # 0 PROVE f # NULL /\ get_size(Memory(a)[f].size) = size
    OBVIOUS
  <2>2. i \in 1 .. Len(a) + 1 /\ i \in 1 .. Len(a)
    BY <2>1, <1>2 DEF Loadable
  <2>3. HeaderAt(a, i) \in Nat
    BY <2>2, AddressFacts
  <2>4. get_size(Memory(a)[HeaderAt(a, i)].size) = size
    BY <2>2, NextHeaderFacts
  <2> QED BY <2>1, <2>3, <2>4, <1>2, RamdiskAssumption
<1> HIDE DEF answer, size
<1>4. /\ i = 0 => answer = FAIL
      /\ i # 0 => answer = [sig |-> "SIGNAL_OK", st_size |-> size]
  BY <1>1, <1>2, <1>3, Zenon
<1>5. rq.signal # "open" /\ rq.signal # "read"
  OBVIOUS
<1> QED BY <1>4, <1>5, Zenon DEF TrueAnswer, i, name, answer, size

(* FS_SIGNAL_READ is answered from the archive. *)
LEMMA ReadTrue ==
  ASSUME NEW a, Loadable(a), NEW fs, FilesOf(fs, a), NEW rq, rq.signal = "read",
         rq.offset \in Nat, rq.size \in Nat
  PROVE  TrueAnswer(a, rq, Read(Memory(a), fs, rq))
<1> DEFINE name == <<".">> \o rq.path
           i == FileIndex(a, name)
           f == GetRamDiskFile(Memory(a), fs, name)
           answer == Read(Memory(a), fs, rq)
           size == a[i].size
           fsz == get_size(Memory(a)[f].size)
           sz == IF rq.size < fsz THEN rq.size ELSE fsz
           n == IF rq.size < size THEN rq.size ELSE size
           o == rq.offset
<1>1. answer = IF f = NULL THEN FAIL
               ELSE IF (o + sz) % WORD > fsz THEN FAIL
               ELSE [sig |-> "STREAM", from |-> (f + BLOCK + o) % WORD, size |-> sz]
  BY Zenon DEF Read, GetRamDiskFileRel
<1> HIDE DEF name
<1>2. i \in 0 .. Len(a) /\ (i = 0 => f = NULL) /\ (i # 0 => f = HeaderAt(a, i))
  BY LookupFacts, Zenon
<1>3. o \in Nat /\ rq.size \in Nat
  OBVIOUS
<1> HIDE DEF i, f, answer, o
<1>4. ASSUME i # 0, o <= size
      PROVE  answer = IF o + n > size THEN FAIL
                      ELSE [sig |-> "STREAM", size |-> n, from |-> HeaderAt(a, i) + BLOCK + o]
  <2>1. i \in 1 .. Len(a) + 1 /\ i \in 1 .. Len(a)
    BY <1>4, <1>2 DEF Loadable
  <2>2. f \in Nat /\ f # NULL /\ f = HeaderAt(a, i)
    BY <2>1, <1>2, <1>4, AddressFacts, RamdiskAssumption
  <2>3. fsz = size
    BY <2>1, <2>2, NextHeaderFacts
  <2>4. size \in Nat /\ 2 * (f + BLOCK + size) <= WORD /\ BLOCK \in Nat \ {0} /\ WORD \in Nat \ {0}
    BY <2>1, <2>2, AddressFacts, RamdiskAssumption DEF Loadable
  <2>5. sz = n
    BY <2>3
  <2>6. n \in Nat /\ n <= size
    <3> HIDE DEF size
    <3> QED BY <2>4, <1>3
  <2> HIDE DEF fsz, sz, n, size
  <2>7. (o + n) % WORD = o + n /\ (f + BLOCK + o) % WORD = f + BLOCK + o
    <3>1. o + n \in Nat /\ o + n < WORD /\ f + BLOCK + o \in Nat /\ f + BLOCK + o < WORD
      BY <2>2, <2>4, <2>6, <1>3, <1>4
    <3>2. ASSUME NEW t \in Nat, t < WORD PROVE t % WORD = t
      BY <3>2, <2>4
    <3> QED BY <3>1, <3>2
  <2>8. answer = IF o + n > size THEN FAIL
                 ELSE [sig |-> "STREAM", from |-> f + BLOCK + o, size |-> n]
    BY <1>1, <2>2, <2>3, <2>5, <2>7, Zenon
  <2> QED BY <2>2, <2>8
<1>5. i = 0 => answer = FAIL
  BY <1>1, <1>2
<1>6. rq.signal # "open" /\ rq.signal # "stat"
  OBVIOUS
<1> HIDE DEF size, n, fsz, sz
<1> QED BY <1>4, <1>5, <1>6, Zenon DEF TrueAnswer, i, name, answer, size, n, o

(* So is every request that has an answer. *)
LEMMA AnswerToTrue ==
  ASSUME NEW a, Loadable(a), NEW fs, FilesOf(fs, a), NEW rq \in FileRequests, ~NoAnswer(rq)
  PROVE  TrueAnswer(a, rq, AnswerTo(Memory(a), fs, rq))
<1>1. rq.signal \in {"open", "stat", "read"}
  BY ServersAssumption DEF NoAnswer
<1>2. CASE rq.signal = "open"
  <2>1. AnswerTo(Memory(a), fs, rq) = Open(Memory(a), fs, rq)
    BY <1>2 DEF AnswerTo
  <2> QED BY <2>1, <1>2, OpenTrue, Zenon
<1>3. CASE rq.signal = "stat"
  <2>1. AnswerTo(Memory(a), fs, rq) = Stat(Memory(a), fs, rq)
    BY <1>3 DEF AnswerTo
  <2> QED BY <2>1, <1>3, StatTrue, Zenon
<1>4. CASE rq.signal = "read"
  <2>1. AnswerTo(Memory(a), fs, rq) = Read(Memory(a), fs, rq)
    BY <1>4 DEF AnswerTo
  <2>2. rq.offset \in Nat /\ rq.size \in Nat
    BY <1>4, ServersAssumption
  <2> QED BY <2>1, <2>2, <1>4, ReadTrue, Zenon
<1> QED BY <1>1, <1>2, <1>3, <1>4

-----------------------------------------------------------------------------
(* The inductive invariant of the RAM disk.                                *)

DiskMessage == [sender : Programs, rq : FileRequests, known : BOOLEAN]

(* The archive is loaded and the walk has found its files. *)
DiskLoaded ==
  archive \in Archives /\ memory = Memory(archive) /\ FilesOf(files, archive)

(* The answer ramdisk_process is about to send, and the answers sent. *)
PendingTrue ==
  ramdisk.at = "reply" => TrueAnswer(archive, ramdisk.msg.rq, ramdisk.msg.answer)

SentTrue ==
  \A c \in Programs : \A i \in DOMAIN inbox[c] :
    inbox[c][i].server = RAMDISK =>
      TrueAnswer(archive, inbox[c][i].rq, inbox[c][i].answer)

DiskInv ==
  /\ DiskLoaded
  /\ inbox[RAMDISK] \in Seq(DiskMessage)
  /\ PendingTrue
  /\ SentTrue

(* InitRamdisk establishes it: the walk has found the files. *)
LEMMA DiskInit == ServersInit => DiskInv
<1> SUFFICES ASSUME ServersInit PROVE DiskInv
  OBVIOUS
<1>1. /\ archive \in Archives /\ memory = Memory(archive)
      /\ files = add_files_to_list(memory) /\ ramdisk.at = "mount"
      /\ inbox = [p \in Pids |-> <<>>]
  BY DEF ServersInit, Pids
<1>2. Loadable(archive)
  BY <1>1, ServersAssumption
<1>3. FilesOf(files, archive)
  BY <1>1, <1>2, WalkFindsFiles, Zenon DEF FilesOf
<1>4. inbox[RAMDISK] = <<>> /\ \A c \in Programs : inbox[c] = <<>>
  BY <1>1 DEF Pids
<1>5. <<>> \in Seq(DiskMessage) /\ DOMAIN <<>> = {}
  <2>1. DOMAIN <<>> = 1 .. Len(<<>>)
    BY EmptySeq, LenProperties
  <2> QED BY EmptySeq, <2>1
<1> QED BY <1>1, <1>3, <1>4, <1>5 DEF DiskInv, DiskLoaded, PendingTrue, SentTrue

(* A step that leaves the disk, its queue and the answers alone. *)
LEMMA DiskFrame ==
  ASSUME DiskInv, UNCHANGED diskVars, inbox'[RAMDISK] \in Seq(DiskMessage),
         \A c \in Programs : inbox'[c] = inbox[c],
         ramdisk'.at = "reply" =>
           TrueAnswer(archive, ramdisk'.msg.rq, ramdisk'.msg.answer)
  PROVE  DiskInv'
<1>1. UNCHANGED <<archive, memory, files>>
  BY DEF diskVars
<1>2. DiskLoaded'
  BY <1>1 DEF DiskInv, DiskLoaded
<1>3. PendingTrue'
  BY <1>1 DEF PendingTrue
<1>4. SentTrue'
  BY <1>1 DEF DiskInv, SentTrue
<1> QED BY <1>2, <1>3, <1>4 DEF DiskInv

(* A request joins the queue of ramdisk_process. *)
LEMMA AskDiskInv ==
  ASSUME RegistryInv, DiskInv, NEW c \in Programs, NEW rq \in FileRequests,
         Ask(c, RAMDISK, rq)
  PROVE  DiskInv'
<1> DEFINE q == inbox[RAMDISK]
           e == [sender |-> c, rq |-> rq, known |-> Known(rq)]
           r == Append(q, e)
<1>1. q \in Seq(DiskMessage) /\ DOMAIN inbox = Pids
  BY DEF RegistryInv, Shape, DiskInv
<1>2. e \in DiskMessage
  <2>1. Known(rq) \in BOOLEAN
    BY DEF Known
  <2> QED BY <2>1 DEF DiskMessage
<1>3. inbox' = [inbox EXCEPT ![RAMDISK] = r] /\ UNCHANGED diskVars /\ UNCHANGED ramdisk
  BY DEF Ask
<1> HIDE DEF e
<1>4. r \in Seq(DiskMessage)
  BY <1>1, <1>2, AppendProperties
<1> HIDE DEF r
<1>5. inbox'[RAMDISK] = r /\ \A d \in Programs : inbox'[d] = inbox[d]
  BY <1>1, <1>3, ServersAssumption DEF Pids
<1>6. ramdisk'.at = "reply" => TrueAnswer(archive, ramdisk'.msg.rq, ramdisk'.msg.answer)
  BY <1>3 DEF DiskInv, PendingTrue
<1> QED BY <1>3, <1>4, <1>5, <1>6, DiskFrame

(* ramdisk_process takes the first request and works out the answer. *)
LEMMA ReceiveDiskInv ==
  ASSUME RegistryInv, DiskInv, RamdiskReceive
  PROVE  DiskInv'
<1> DEFINE q == inbox[RAMDISK]
           m == Head(q)
           r == Tail(q)
           rq == m.rq
           answer == AnswerTo(memory, files, rq)
<1>1. q \in Seq(DiskMessage) /\ DOMAIN inbox = Pids
  BY DEF RegistryInv, Shape, DiskInv
<1>2. /\ q # <<>> /\ inbox' = [inbox EXCEPT ![RAMDISK] = r] /\ UNCHANGED diskVars
      /\ ramdisk' = IF NoAnswer(rq) THEN ramdisk
                    ELSE [at |-> "reply", msg |-> Answered(m, answer)]
  BY DEF RamdiskReceive
<1>3. r \in Seq(DiskMessage) /\ m \in DiskMessage
  BY <1>1, <1>2, HeadTailProperties
<1> HIDE DEF r, m
<1>4. inbox'[RAMDISK] = r /\ \A d \in Programs : inbox'[d] = inbox[d]
  BY <1>1, <1>2, ServersAssumption DEF Pids
<1>5. rq \in FileRequests
  BY <1>3 DEF DiskMessage
<1>6. ~NoAnswer(rq) => TrueAnswer(archive, rq, answer)
  <2>1. Loadable(archive) /\ memory = Memory(archive) /\ FilesOf(files, archive)
    BY ServersAssumption DEF DiskInv, DiskLoaded
  <2> HIDE DEF rq
  <2>2. ~NoAnswer(rq) => TrueAnswer(archive, rq, AnswerTo(Memory(archive), files, rq))
    BY <2>1, <1>5, AnswerToTrue, Zenon
  <2> QED BY <2>1, <2>2, Zenon
<1>7. ramdisk'.at = "reply" => TrueAnswer(archive, ramdisk'.msg.rq, ramdisk'.msg.answer)
  <2>1. CASE NoAnswer(rq)
    BY <2>1, <1>2 DEF DiskInv, PendingTrue
  <2>2. CASE ~NoAnswer(rq)
    <3> HIDE DEF answer
    <3>1. ramdisk'.msg.rq = rq /\ ramdisk'.msg.answer = answer
      BY <2>2, <1>2 DEF Answered
    <3> QED BY <2>2, <3>1, <1>6
  <2> QED BY <2>1, <2>2
<1> QED BY <1>2, <1>3, <1>4, <1>7, DiskFrame

(* A server sends an answer; that of ramdisk_process is true. *)
LEMMA ReplyDiskInv ==
  ASSUME RegistryInv, DiskInv, NEW server, NEW msg, Reply(server, msg),
         server = RAMDISK => TrueAnswer(archive, msg.rq, msg.answer),
         UNCHANGED diskVars, ramdisk'.at = "reply" => ramdisk' = ramdisk
  PROVE  DiskInv'
<1> DEFINE s == msg.sender
           e == [server |-> server, rq |-> msg.rq, known |-> msg.known, answer |-> msg.answer]
           r == Append(inbox[s], e)
<1>0. DOMAIN inbox = Pids /\ alive \subseteq Programs /\ \A c \in Programs : Sequence(inbox[c])
  BY DEF RegistryInv, Shape
<1>1. ramdisk'.at = "reply" => TrueAnswer(archive, ramdisk'.msg.rq, ramdisk'.msg.answer)
  BY DEF DiskInv, PendingTrue
<1>2. CASE s \notin alive
  <2>1. UNCHANGED inbox
    BY <1>2 DEF Reply
  <2>2. inbox'[RAMDISK] \in Seq(DiskMessage)
    BY <2>1 DEF DiskInv
  <2> QED BY <2>1, <2>2, <1>1, DiskFrame
<1>3. CASE s \in alive
  <2>1. inbox' = [inbox EXCEPT ![s] = r] /\ s \in Programs
    BY <1>0, <1>3 DEF Reply
  <2>2. e.server = server /\ e.rq = msg.rq /\ e.answer = msg.answer
    OBVIOUS
  <2> HIDE DEF e
  <2>3. \A i \in DOMAIN r : r[i] = e \/ (i \in DOMAIN inbox[s] /\ r[i] = inbox[s][i])
    BY <2>1, <1>0, AppendAny
  <2> HIDE DEF r, s
  <2>4. /\ inbox'[RAMDISK] = inbox[RAMDISK] /\ inbox'[s] = r
        /\ \A c \in Programs : c # s => inbox'[c] = inbox[c]
    BY <2>1, <1>0, ServersAssumption DEF Pids
  <2>5. UNCHANGED <<archive, memory, files>>
    BY DEF diskVars
  <2>6. DiskLoaded' /\ PendingTrue' /\ inbox'[RAMDISK] \in Seq(DiskMessage)
    BY <2>4, <2>5, <1>1 DEF DiskInv, DiskLoaded, PendingTrue
  <2>7. ASSUME NEW c \in Programs, NEW i \in DOMAIN inbox'[c], inbox'[c][i].server = RAMDISK
        PROVE  TrueAnswer(archive, inbox'[c][i].rq, inbox'[c][i].answer)
    <3>1. CASE c = s
      <4>1. i \in DOMAIN r /\ inbox'[c][i] = r[i] /\ r[i].server = RAMDISK
        BY <3>1, <2>4, <2>7
      <4>2. CASE r[i] = e
        BY <4>1, <4>2, <2>2
      <4>3. CASE i \in DOMAIN inbox[s] /\ r[i] = inbox[s][i]
        BY <4>1, <4>3, <2>1 DEF DiskInv, SentTrue
      <4> QED BY <4>1, <4>2, <4>3, <2>3
    <3>2. CASE c # s
      BY <3>2, <2>4, <2>7 DEF DiskInv, SentTrue
    <3> QED BY <3>1, <3>2
  <2>8. SentTrue'
    BY <2>5, <2>7 DEF SentTrue
  <2> QED BY <2>6, <2>8 DEF DiskInv
<1> QED BY <1>2, <1>3

(* Every step of the servers and the programs preserves it. *)
LEMMA DiskNext ==
  RegistryInv /\ DiskInv /\ [ServersNext]_serverVars => DiskInv'
<1> SUFFICES ASSUME RegistryInv, DiskInv, [ServersNext]_serverVars PROVE DiskInv'
  OBVIOUS
<1>0. DOMAIN inbox = Pids /\ inbox[RAMDISK] \in Seq(DiskMessage)
  BY DEF RegistryInv, Shape, DiskInv
<1>p. ramdisk.at = "reply" => TrueAnswer(archive, ramdisk.msg.rq, ramdisk.msg.answer)
  BY DEF DiskInv, PendingTrue
<1>1. CASE \E c \in Programs : \E rq \in KernelRequests : Ask(c, KERNEL, rq)
  <2>1. PICK c \in Programs, rq \in KernelRequests : Ask(c, KERNEL, rq)
    BY <1>1
  <2> DEFINE r == Append(inbox[KERNEL], [sender |-> c, rq |-> rq, known |-> Known(rq)])
  <2>2. inbox' = [inbox EXCEPT ![KERNEL] = r] /\ UNCHANGED diskVars /\ UNCHANGED ramdisk
    BY <2>1 DEF Ask
  <2> HIDE DEF r
  <2>3. inbox'[RAMDISK] = inbox[RAMDISK] /\ \A d \in Programs : inbox'[d] = inbox[d]
    BY <2>2, <1>0, ServersAssumption DEF Pids
  <2> QED BY <2>2, <2>3, <1>0, <1>p, DiskFrame
<1>2. CASE \E c \in Programs : \E rq \in FileRequests : Ask(c, RAMDISK, rq)
  BY <1>2, AskDiskInv
<1>3. CASE \E c \in Programs : Die(c)
  <2>1. UNCHANGED diskVars /\ UNCHANGED <<inbox, ramdisk>>
    BY <1>3 DEF Die
  <2> QED BY <2>1, <1>0, <1>p, DiskFrame
<1>4. CASE KernelProcess
  <2>1. CASE KernelLaunch
    <3>1. UNCHANGED diskVars /\ UNCHANGED <<inbox, ramdisk>>
      BY <2>1 DEF KernelLaunch
    <3> QED BY <3>1, <1>0, <1>p, DiskFrame
  <2>2. CASE KernelRegister \/ KernelGet \/ KernelRemove
    <3>1. /\ inbox' = [inbox EXCEPT ![KERNEL] = Tail(inbox[KERNEL])]
          /\ UNCHANGED diskVars /\ UNCHANGED ramdisk
      BY <2>2 DEF KernelRegister, KernelGet, KernelRemove, KernelReceives
    <3>2. inbox'[RAMDISK] = inbox[RAMDISK] /\ \A d \in Programs : inbox'[d] = inbox[d]
      BY <3>1, <1>0, ServersAssumption DEF Pids
    <3> QED BY <3>1, <3>2, <1>0, <1>p, DiskFrame
  <2>3. CASE KernelReply
    <3>1. Reply(KERNEL, kernel.msg) /\ UNCHANGED diskVars /\ UNCHANGED ramdisk
      BY <2>3 DEF KernelReply
    <3> QED BY <3>1, ReplyDiskInv, ServersAssumption
  <2> QED BY <1>4, <2>1, <2>2, <2>3 DEF KernelProcess
<1>5. CASE RamdiskProcess
  <2>1. CASE RamdiskMount
    <3>1. /\ UNCHANGED diskVars /\ UNCHANGED inbox /\ ramdisk.at = "mount"
          /\ \E next \in {"receive", "asleep"} : ramdisk' = [ramdisk EXCEPT !.at = next]
      BY <2>1 DEF RamdiskMount
    <3>2. ramdisk'.at # "reply" \/ ramdisk' = ramdisk
      <4>1. CASE "at" \in DOMAIN ramdisk
        BY <3>1, <4>1
      <4>2. CASE "at" \notin DOMAIN ramdisk
        BY <3>1, <4>2
      <4> QED BY <4>1, <4>2
    <3> QED BY <3>1, <3>2, <1>0, <1>p, DiskFrame
  <2>2. CASE RamdiskReceive
    BY <2>2, ReceiveDiskInv
  <2>3. CASE RamdiskReply
    <3>1. /\ Reply(RAMDISK, ramdisk.msg) /\ UNCHANGED diskVars
          /\ ramdisk.at = "reply" /\ ramdisk'.at = "receive"
      BY <2>3 DEF RamdiskReply
    <3> QED BY <3>1, <1>p, ReplyDiskInv
  <2> QED BY <1>5, <2>1, <2>2, <2>3 DEF RamdiskProcess
<1>6. CASE UNCHANGED serverVars
  <2>1. UNCHANGED diskVars /\ UNCHANGED <<inbox, ramdisk>>
    BY <1>6 DEF serverVars
  <2> QED BY <2>1, <1>0, <1>p, DiskFrame
<1> QED BY <1>1, <1>2, <1>3, <1>4, <1>5, <1>6 DEF ServersNext

(* The invariant of the RAM disk holds in every reachable state: the walk  *)
(* of InitRamdisk has found the files, and every answer on its way is true.*)
THEOREM DiskInvariant == ServersSpec => []DiskInv
<1>1. ServersInit => RegistryInv /\ DiskInv
  BY RegistryInit, DiskInit
<1>2. RegistryInv /\ DiskInv /\ [ServersNext]_serverVars => (RegistryInv /\ DiskInv)'
  BY RegistryNext, DiskNext
<1> QED BY <1>1, <1>2, PTL DEF ServersSpec

(* The daemon answers OPEN, STAT and READ from the archive as tar has      *)
(* written it, for every archive that the boot loader can load.            *)
THEOREM DiskAnswers == ServersSpec => []AnswersTrue
<1>1. DiskInv => AnswersTrue
  <2> SUFFICES ASSUME DiskInv, NEW m \in AnswersFrom(RAMDISK)
               PROVE  TrueAnswer(archive, m.rq, m.answer)
    BY DEF AnswersTrue
  <2>1. m.server = RAMDISK /\ \E c \in Programs : m \in ToSet(inbox[c])
    BY DEF AnswersFrom
  <2>2. PICK c \in Programs : m \in ToSet(inbox[c])
    BY <2>1
  <2>3. PICK i \in DOMAIN inbox[c] : m = inbox[c][i]
    BY <2>2 DEF ToSet
  <2> QED BY <2>1, <2>3 DEF DiskInv, SentTrue
<1> QED BY <1>1, DiskInvariant, PTL
=============================================================================

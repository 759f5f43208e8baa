--------------------------- MODULE MailboxProofs ---------------------------
(***************************************************************************)
(* The order of messages, for any number of processes and messages.        *)
(***************************************************************************)
EXTENDS Mailbox, SequenceTheorems, TLAPS


(* Numbers are handed out in order. *)
Numbered ==
  \A r \in Pids : \A i \in 1 .. Len(queue[r]) : queue[r][i].no <= sends

SeenIsOld == \A r, s \in Pids : seen[r][s] <= sends

(* A process that does not exist yet has received nothing. *)
UnbornSawNothing ==
  /\ alive \cap unborn = {}
  /\ \A p \in unborn : \A s \in Pids : seen[p][s] = 0

(* SenderOrder alone is not inductive: that the message just sent is newer *)
(* than those before it needs that no number exceeds the count of sends,   *)
(* and that a new process can take over the queue of a dead one needs that *)
(* it has not received anything before.                                    *)
MailboxInv ==
  MailboxTypeOK /\ SenderOrder /\ Numbered /\ SeenIsOld /\ UnbornSawNothing

-----------------------------------------------------------------------------

(* What RemoveAt returns. *)
LEMMA RemoveAtProperties ==
  ASSUME NEW S, NEW q \in Seq(S), NEW i \in 1 .. Len(q)
  PROVE  /\ RemoveAt(q, i) \in Seq(S)
         /\ Len(RemoveAt(q, i)) = Len(q) - 1
         /\ \A k \in 1 .. Len(q) - 1 :
              RemoveAt(q, i)[k] = IF k < i THEN q[k] ELSE q[k + 1]
<1> DEFINE a == SubSeq(q, 1, i - 1)
           b == SubSeq(q, i + 1, Len(q))
<1>1. Len(q) \in Nat /\ i \in Nat /\ 1 <= i /\ i <= Len(q)
  OBVIOUS
<1>2. /\ a \in Seq(S) /\ Len(a) = i - 1
      /\ \A k \in 1 .. i - 1 : a[k] = q[k]
  BY <1>1
<1>3. /\ b \in Seq(S) /\ Len(b) = Len(q) - i
      /\ \A k \in 1 .. Len(q) - i : b[k] = q[k + i]
  BY <1>1
<1>4. RemoveAt(q, i) = a \o b
  BY DEF RemoveAt
<1> HIDE DEF a, b
<1>5. /\ a \o b \in Seq(S)
      /\ Len(a \o b) = Len(q) - 1
  <2>1. a \o b \in Seq(S) /\ Len(a \o b) = Len(a) + Len(b)
    BY <1>2, <1>3, ConcatProperties
  <2>2. (i - 1) + (Len(q) - i) = Len(q) - 1
    BY <1>1
  <2> QED BY <2>1, <2>2, <1>2, <1>3
<1>6. ASSUME NEW k \in 1 .. Len(q) - 1
      PROVE  (a \o b)[k] = IF k < i THEN q[k] ELSE q[k + 1]
  <2>1. k \in 1 .. Len(a) + Len(b)
    BY <1>1, <1>2, <1>3
  <2>2. (a \o b)[k] = IF k <= Len(a) THEN a[k] ELSE b[k - Len(a)]
    BY <2>1, <1>2, <1>3
  <2>3. CASE k < i
    BY <2>2, <2>3, <1>1, <1>2
  <2>4. CASE ~(k < i)
    <3>1. k - (i - 1) \in 1 .. Len(q) - i /\ (k - (i - 1)) + i = k + 1
      BY <2>4, <1>1
    <3> QED BY <3>1, <2>2, <2>4, <1>1, <1>2, <1>3
  <2> QED BY <2>3, <2>4
<1> QED BY <1>4, <1>5, <1>6

(* The fields of a waiting message. *)
LEMMA FieldTypes ==
  ASSUME NEW q \in Seq(Messages), NEW k \in 1 .. Len(q)
  PROVE  q[k] \in Messages /\ q[k].no \in Nat /\ q[k].sender \in Pids
<1>1. q[k] \in Messages
  OBVIOUS
<1> QED BY <1>1 DEF Messages

(* The initial queues are empty. *)
LEMMA InitInv == MailboxInit => MailboxInv
  BY MailboxAssumption
  DEF MailboxInit, MailboxInv, MailboxTypeOK, SenderOrder, Numbered, SeenIsOld,
      UnbornSawNothing

(* Appending a message with the next number keeps the order. *)
LEMMA SendInv ==
  ASSUME MailboxInv, NEW s \in Pids, NEW r \in Pids, Send(s, r)
  PROVE  MailboxInv'
<1> DEFINE m == [no |-> sends + 1, sender |-> s]
           q == Append(queue[r], m)
<1>0. sends \in Nat /\ queue[r] \in Seq(Messages)
  BY DEF MailboxInv, MailboxTypeOK
<1>1. m \in Messages /\ sends \in Nat /\ queue[r] \in Seq(Messages)
  BY <1>0 DEF Messages
<1>2. /\ q \in Seq(Messages)
      /\ Len(queue[r]) \in Nat
      /\ Len(q) = Len(queue[r]) + 1
      /\ \A k \in 1 .. Len(queue[r]) : q[k] = queue[r][k]
      /\ q[Len(queue[r]) + 1] = m
  BY <1>1
<1>3. queue' = [queue EXCEPT ![r] = q] /\ sends' = sends + 1
      /\ alive' = alive /\ unborn' = unborn /\ graves' = graves /\ seen' = seen
  BY DEF Send
<1>4. queue'[r] = q /\ \A p \in Pids \ {r} : queue'[p] = queue[p]
  BY <1>3 DEF MailboxInv, MailboxTypeOK
<1>5. MailboxTypeOK'
  BY <1>1, <1>2, <1>3 DEF MailboxInv, MailboxTypeOK
<1>6. \A k \in 1 .. Len(queue[r]) :
        q[k].no \in Nat /\ q[k].no <= sends /\ q[k].sender \in Pids
  <2> TAKE k \in 1 .. Len(queue[r])
  <2>1. queue[r][k].no \in Nat /\ queue[r][k].sender \in Pids
    BY <1>1, FieldTypes
  <2> QED BY <2>1, <1>2 DEF MailboxInv, Numbered
<1>7. Numbered'
  <2> SUFFICES ASSUME NEW p \in Pids, NEW i \in 1 .. Len(queue'[p])
               PROVE  queue'[p][i].no <= sends + 1
    BY <1>3 DEF Numbered
  <2>1. CASE p # r
    <3>1. queue[p] \in Seq(Messages) /\ i \in 1 .. Len(queue[p])
      BY <2>1, <1>4 DEF MailboxInv, MailboxTypeOK
    <3>2. queue[p][i].no \in Nat /\ queue[p][i].no <= sends
      BY <3>1, FieldTypes DEF MailboxInv, Numbered
    <3> QED BY <3>2, <2>1, <1>1, <1>4
  <2>2. CASE p = r
    BY <2>2, <1>1, <1>2, <1>4, <1>6
  <2> QED BY <2>1, <2>2
<1>8. SeenIsOld'
  <2> SUFFICES ASSUME NEW p \in Pids, NEW t \in Pids PROVE seen[p][t] <= sends + 1
    BY <1>3 DEF SeenIsOld
  <2>1. seen[p][t] \in Nat /\ seen[p][t] <= sends
    BY DEF MailboxInv, MailboxTypeOK, SeenIsOld
  <2> QED BY <2>1, <1>1
<1>9. SenderOrder'
  <2> SUFFICES ASSUME NEW p \in Pids, NEW i \in 1 .. Len(queue'[p])
               PROVE  /\ queue'[p][i].no > seen[p][queue'[p][i].sender]
                      /\ \A j \in 1 .. i - 1 : queue'[p][j].no < queue'[p][i].no
    BY <1>3 DEF SenderOrder
  <2>1. CASE p # r
    BY <2>1, <1>4 DEF MailboxInv, SenderOrder
  <2>2. CASE p = r /\ i # Len(queue[r]) + 1
    <3>1. i \in 1 .. Len(queue[r]) /\ \A j \in 1 .. i - 1 : j \in 1 .. Len(queue[r])
      BY <2>2, <1>2, <1>4
    <3> QED BY <3>1, <2>2, <1>2, <1>4 DEF MailboxInv, SenderOrder
  <2>3. CASE p = r /\ i = Len(queue[r]) + 1
    <3>1. seen[r][s] \in Nat /\ seen[r][s] <= sends
      BY DEF MailboxInv, MailboxTypeOK, SeenIsOld
    <3>2. q[i].no = sends + 1 /\ q[i].sender = s
      BY <2>3, <1>2
    <3>3. \A j \in 1 .. i - 1 : j \in 1 .. Len(queue[r])
      BY <2>3, <1>2
    <3> QED BY <3>1, <3>2, <3>3, <2>3, <1>1, <1>4, <1>6
  <2> QED BY <2>1, <2>2, <2>3
<1>10. UnbornSawNothing'
  BY <1>3 DEF MailboxInv, UnbornSawNothing
<1> QED BY <1>5, <1>7, <1>8, <1>9, <1>10 DEF MailboxInv

(* Taking the oldest message, or the oldest one of a sender, keeps the     *)
(* order: what stays from that sender is behind it in the queue.           *)
LEMMA TakeInv ==
  ASSUME MailboxInv, NEW p \in Pids, NEW i \in 1 .. Len(queue[p]), Take(p, i),
         p \in alive,
         \A j \in 1 .. i - 1 : queue[p][j].sender # queue[p][i].sender
  PROVE  MailboxInv'
<1> DEFINE old == queue[p]
           q   == RemoveAt(old, i)
           at(k) == IF k < i THEN k ELSE k + 1
<1>1. old \in Seq(Messages) /\ Len(old) \in Nat /\ sends \in Nat
  BY DEF MailboxInv, MailboxTypeOK
<1>2. /\ q \in Seq(Messages)
      /\ Len(q) = Len(old) - 1
      /\ \A k \in 1 .. Len(old) - 1 : q[k] = old[at(k)]
  BY <1>1, RemoveAtProperties
<1>3. \A k \in 1 .. Len(q) : at(k) \in 1 .. Len(old) /\ at(k) # i
  BY <1>1, <1>2
<1>4. /\ queue' = [queue EXCEPT ![p] = q]
      /\ seen' = [seen EXCEPT ![p][old[i].sender] = old[i].no]
      /\ alive' = alive /\ unborn' = unborn /\ graves' = graves /\ sends' = sends
  BY DEF Take
<1>5. queue'[p] = q /\ \A r \in Pids \ {p} : queue'[r] = queue[r]
  BY <1>4 DEF MailboxInv, MailboxTypeOK
<1>6. \A k \in 1 .. Len(old) :
        /\ old[k].no \in Nat /\ old[k].no <= sends /\ old[k].sender \in Pids
        /\ old[k].no > seen[p][old[k].sender]
        /\ \A j \in 1 .. k - 1 : old[j].no < old[k].no
  <2> TAKE k \in 1 .. Len(old)
  <2>1. old[k].no \in Nat /\ old[k].sender \in Pids
    BY <1>1, FieldTypes
  <2> QED BY <2>1 DEF MailboxInv, Numbered, SenderOrder
<1>7. MailboxTypeOK'
  BY <1>1, <1>2, <1>4, <1>6 DEF MailboxInv, MailboxTypeOK
<1>8. Numbered'
  <2> SUFFICES ASSUME NEW r \in Pids, NEW k \in 1 .. Len(queue'[r])
               PROVE  queue'[r][k].no <= sends
    BY <1>4 DEF Numbered
  <2>1. CASE r # p
    BY <2>1, <1>5 DEF MailboxInv, Numbered
  <2>2. CASE r = p
    <3>1. k \in 1 .. Len(q) /\ q[k] = old[at(k)] /\ at(k) \in 1 .. Len(old)
      BY <2>2, <1>1, <1>2, <1>3, <1>5
    <3> QED BY <3>1, <2>2, <1>5, <1>6
  <2> QED BY <2>1, <2>2
<1>9. SeenIsOld'
  BY <1>1, <1>4, <1>6 DEF MailboxInv, MailboxTypeOK, SeenIsOld
<1>10. SenderOrder'
  <2> SUFFICES ASSUME NEW r \in Pids, NEW k \in 1 .. Len(queue'[r])
               PROVE  /\ queue'[r][k].no > seen'[r][queue'[r][k].sender]
                      /\ \A j \in 1 .. k - 1 : queue'[r][j].no < queue'[r][k].no
    BY DEF SenderOrder
  <2>1. CASE r # p
    <3>1. seen'[r] = seen[r] /\ queue'[r] = queue[r]
      BY <2>1, <1>4, <1>5 DEF MailboxInv, MailboxTypeOK
    <3> QED BY <3>1 DEF MailboxInv, SenderOrder
  <2>2. CASE r = p
    <3>1. k \in 1 .. Len(q) /\ q[k] = old[at(k)] /\ at(k) \in 1 .. Len(old) /\ at(k) # i
      BY <2>2, <1>1, <1>2, <1>3, <1>5
    <3>2. \A s \in Pids : seen'[p][s] = IF s = old[i].sender THEN old[i].no ELSE seen[p][s]
      BY <1>4, <1>6 DEF MailboxInv, MailboxTypeOK
    <3>3. old[at(k)].no > seen'[p][old[at(k)].sender]
      <4>1. CASE old[at(k)].sender # old[i].sender
        BY <4>1, <3>1, <3>2, <1>6
      <4>2. CASE old[at(k)].sender = old[i].sender
        <5>1. i \in 1 .. at(k) - 1
          BY <4>2, <3>1, <1>1
        <5>2. old[i].no < old[at(k)].no
          BY <5>1, <3>1, <1>6
        <5> QED BY <5>2, <4>2, <3>1, <3>2, <1>6
      <4> QED BY <4>1, <4>2
    <3>4. ASSUME NEW j \in 1 .. k - 1 PROVE q[j].no < q[k].no
      <4>1. j \in 1 .. Len(q) /\ at(j) \in 1 .. at(k) - 1
        BY <3>1, <1>1, <1>2
      <4>2. q[j] = old[at(j)]
        BY <4>1, <1>1, <1>2
      <4> QED BY <4>1, <4>2, <3>1, <1>6
    <3> QED BY <3>1, <3>3, <3>4, <2>2, <1>5
  <2> QED BY <2>1, <2>2
<1>11. UnbornSawNothing'
  <2>1. p \notin unborn
    BY DEF MailboxInv, UnbornSawNothing
  <2>2. \A r \in Pids \ {p} : seen'[r] = seen[r]
    BY <1>1, <1>4 DEF MailboxInv, MailboxTypeOK
  <2> QED BY <2>1, <2>2, <1>4 DEF MailboxInv, MailboxTypeOK, UnbornSawNothing
<1> QED BY <1>7, <1>8, <1>9, <1>10, <1>11 DEF MailboxInv

(* A new process starts with an empty queue or with that of a dead one.    *)
LEMMA CreateInv ==
  ASSUME MailboxInv, NEW p \in Pids, Create(p)
  PROVE  MailboxInv'
<1>1. /\ p \in unborn /\ alive' = alive \cup {p} /\ unborn' = unborn \ {p}
      /\ sends' = sends /\ seen' = seen
  BY DEF Create
<1>2. UnbornSawNothing' /\ SeenIsOld'
  BY <1>1 DEF MailboxInv, UnbornSawNothing, SeenIsOld
<1>3. CASE UNCHANGED <<graves, queue>>
  BY <1>1, <1>2, <1>3 DEF MailboxInv, MailboxTypeOK, SenderOrder, Numbered
<1>4. ASSUME NEW d \in graves, graves' = graves \ {d},
             queue' = [queue EXCEPT ![p] = queue[d], ![d] = <<>>]
      PROVE  MailboxInv'
  <2>1. d \in Pids /\ queue \in [Pids -> Seq(Messages)]
    BY DEF MailboxInv, MailboxTypeOK
  <2>2. MailboxTypeOK'
    <3>1. queue[d] \in Seq(Messages) /\ <<>> \in Seq(Messages)
      BY <2>1
    <3>2. queue' \in [Pids -> Seq(Messages)]
      BY <3>1, <2>1, <1>4
    <3> QED BY <3>2, <1>1, <1>4 DEF MailboxInv, MailboxTypeOK
  <2>3. \A r \in Pids :
          \/ queue'[r] = queue[r]
          \/ queue'[r] = <<>>
          \/ r = p /\ queue'[r] = queue[d]
    BY <2>1, <1>4
  <2>4. Numbered'
    BY <2>1, <2>3, <1>1 DEF MailboxInv, Numbered
  <2>5. SenderOrder'
    <3> SUFFICES ASSUME NEW r \in Pids, NEW i \in 1 .. Len(queue'[r])
                 PROVE  /\ queue'[r][i].no > seen[r][queue'[r][i].sender]
                        /\ \A j \in 1 .. i - 1 : queue'[r][j].no < queue'[r][i].no
      BY <1>1 DEF SenderOrder
    <3>1. CASE queue'[r] = queue[r]
      BY <3>1 DEF MailboxInv, SenderOrder
    <3>2. CASE queue'[r] = <<>>
      BY <3>2
    <3>3. CASE r = p /\ queue'[r] = queue[d]
      <4>1. i \in 1 .. Len(queue[d])
        BY <3>3
      <4>2. queue[d][i].no \in Nat /\ queue[d][i].sender \in Pids
        BY <4>1, <2>1, FieldTypes
      <4>3. seen[d][queue[d][i].sender] \in Nat /\ seen[p][queue[d][i].sender] = 0
        BY <4>2, <2>1, <1>1 DEF MailboxInv, MailboxTypeOK, UnbornSawNothing
      <4>4. /\ queue[d][i].no > seen[d][queue[d][i].sender]
            /\ \A j \in 1 .. i - 1 : queue[d][j].no < queue[d][i].no
        BY <4>1, <2>1 DEF MailboxInv, SenderOrder
      <4> QED BY <4>2, <4>3, <4>4, <3>3
    <3> QED BY <3>1, <3>2, <3>3, <2>3
  <2> QED BY <2>2, <2>4, <2>5, <1>2 DEF MailboxInv
<1> QED BY <1>3, <1>4 DEF Create

(* Every step of the message passing keeps the invariant. *)
LEMMA NextInv == MailboxInv /\ [MailboxNext]_mailboxVars => MailboxInv'
<1> SUFFICES ASSUME MailboxInv, [MailboxNext]_mailboxVars PROVE MailboxInv'
  OBVIOUS
<1>1. ASSUME NEW s \in Pids, NEW r \in Pids, Send(s, r) PROVE MailboxInv'
  BY <1>1, SendInv
<1>2. ASSUME NEW p \in Pids, ReceiveAny(p) PROVE MailboxInv'
  <2>1. p \in alive /\ queue[p] \in Seq(Messages) /\ queue[p] # <<>> /\ Take(p, 1)
    BY <1>2 DEF ReceiveAny, MailboxInv, MailboxTypeOK
  <2>2. 1 \in 1 .. Len(queue[p])
    BY <2>1
  <2> QED BY <2>1, <2>2, TakeInv
<1>3. ASSUME NEW p \in Pids, NEW who \in Pids, ReceiveFrom(p, who) PROVE MailboxInv'
  <2>1. PICK i \in 1 .. Len(queue[p]) :
          /\ queue[p][i].sender = who
          /\ \A j \in 1 .. i - 1 : queue[p][j].sender # who
          /\ Take(p, i)
    BY <1>3 DEF ReceiveFrom
  <2>2. p \in alive
    BY <1>3 DEF ReceiveFrom
  <2> QED BY <2>1, <2>2, TakeInv
<1>4. ASSUME NEW p \in Pids, Create(p) PROVE MailboxInv'
  BY <1>4, CreateInv
<1>5. ASSUME NEW p \in Pids, Exit(p) PROVE MailboxInv'
  BY <1>5 DEF Exit, MailboxInv, MailboxTypeOK, SenderOrder, Numbered, SeenIsOld,
              UnbornSawNothing
<1>6. CASE UNCHANGED mailboxVars
  BY <1>6 DEF mailboxVars, MailboxInv, MailboxTypeOK, SenderOrder, Numbered, SeenIsOld,
              UnbornSawNothing
<1> QED BY <1>1, <1>2, <1>3, <1>4, <1>5, <1>6 DEF MailboxNext

(* The inductive invariant holds in every reachable state. *)
THEOREM MailboxInvariant == MailboxSpec => []MailboxInv
  BY InitInv, NextInv, PTL DEF MailboxSpec

(* The queues always have their type. *)
THEOREM MailboxTypeCorrect == MailboxSpec => []MailboxTypeOK
<1>1. MailboxInv => MailboxTypeOK
  BY DEF MailboxInv
<1> QED BY <1>1, MailboxInvariant, PTL

(* Messages of one sender arrive in the order they were sent, for any      *)
(* number of processes and of messages, however receive_message is used.   *)
THEOREM OrderIsKept == MailboxSpec => []SenderOrder
<1>1. MailboxInv => SenderOrder
  BY DEF MailboxInv
<1> QED BY <1>1, MailboxInvariant, PTL

=============================================================================

------------------------- MODULE ConnectionsProofs -------------------------
(***************************************************************************)
(* What connect_lock and the finally block of maintain_device guarantee    *)
(* for any number of devices: one connection attempt at a time, and        *)
(* availability that tells the truth.                                      *)
(***************************************************************************)
EXTENDS Connections, SequenceTheorems, TLAPS

(* In the queue for the lock, each once; holding it; or neither.           *)
LockPcs == {"waiting", "connecting", "subscribing"}

LockInv ==
    /\ \A i \in 1 .. Len(waiters) : pc[waiters[i]] = "waiting"
    /\ \A d \in Devices : pc[d] = "waiting" => \E i \in 1 .. Len(waiters) : waiters[i] = d
    /\ \A i, j \in 1 .. Len(waiters) : waiters[i] = waiters[j] => i = j
    /\ \A d \in Devices : holder = d <=> Establishing(d)
    /\ holder = None => waiters = <<>>

LockType ==
    /\ pc \in [Devices -> Pcs]
    /\ holder \in Devices \cup {None}
    /\ waiters \in Seq(Devices)

-----------------------------------------------------------------------------
(* Without its i-th element, a sequence is as it was up to there, and has  *)
(* moved up by one from there on (RemoveAt, for a waiter that is           *)
(* cancelled).                                                             *)
LEMMA RemoveAtProperties ==
    ASSUME NEW S, NEW s \in Seq(S), NEW i \in 1 .. Len(s)
    PROVE  /\ RemoveAt(s, i) \in Seq(S)
           /\ Len(RemoveAt(s, i)) = Len(s) - 1
           /\ \A j \in 1 .. Len(s) - 1 : RemoveAt(s, i)[j] = IF j < i THEN s[j] ELSE s[j + 1]
<1> DEFINE a == SubSeq(s, 1, i - 1)
           b == SubSeq(s, i + 1, Len(s))
<1>1. Len(s) \in Nat
  BY LenProperties
<1>2. /\ a \in Seq(S) /\ Len(a) = i - 1
      /\ \A j \in 1 .. i - 1 : a[j] = s[j]
  <2>1. CASE i = 1
    BY <1>1, <2>1, SubSeqEmpty, EmptySeq
  <2>2. CASE i > 1
    BY <1>1, <2>2, SubSeqProperties
  <2> QED
    BY <1>1, <2>1, <2>2
<1>3. /\ b \in Seq(S) /\ Len(b) = Len(s) - i
      /\ \A j \in 1 .. Len(s) - i : b[j] = s[i + j]
  <2>1. CASE i = Len(s)
    BY <1>1, <2>1, SubSeqEmpty, EmptySeq
  <2>2. CASE i < Len(s)
    BY <1>1, <2>2, SubSeqProperties
  <2> QED
    BY <1>1, <2>1, <2>2
<1> DEFINE c == a \o b
<1>4. RemoveAt(s, i) = c
  BY DEF RemoveAt
<1> HIDE DEF a, b
<1>5. /\ c \in Seq(S)
      /\ Len(c) = Len(a) + Len(b)
      /\ \A j \in 1 .. Len(a) + Len(b) : c[j] = IF j <= Len(a) THEN a[j] ELSE b[j - Len(a)]
  BY <1>2, <1>3, ConcatProperties
<1> HIDE DEF c
<1>6. Len(a) + Len(b) = Len(s) - 1
  BY <1>1, <1>2, <1>3
<1>7. ASSUME NEW j \in 1 .. Len(s) - 1
      PROVE  c[j] = IF j < i THEN s[j] ELSE s[j + 1]
  <2>1. c[j] = IF j <= Len(a) THEN a[j] ELSE b[j - Len(a)]
    BY <1>6, <1>5
  <2>2. CASE j < i
    BY <1>1, <1>2, <2>1, <2>2
  <2>3. CASE j >= i
    <3>1. j - (i - 1) \in 1 .. Len(s) - i
      BY <1>1, <2>3
    <3>2. b[j - (i - 1)] = s[i + (j - (i - 1))]
      BY <1>3, <3>1
    <3>3. i + (j - (i - 1)) = j + 1
      BY <1>1
    <3> QED
      BY <1>1, <1>2, <2>1, <2>3, <3>2, <3>3
  <2> QED
    BY <1>1, <2>2, <2>3
<1> QED
  BY <1>4, <1>6, <1>7, <1>5

-----------------------------------------------------------------------------
(* The operations on connect_lock, each from the awaits it is called in.   *)
Others(d) == Devices \ {d}

LEMMA RequestLock ==
    ASSUME NEW d \in Devices, LockType, LockInv, Request(d), pc[d] \notin LockPcs
    PROVE  /\ LockType' /\ LockInv'
           /\ pc'[d] \in {"waiting", "connecting"}
           /\ \A e \in Others(d) : pc'[e] = pc[e]
<1> USE ConnectionsAssumption DEF LockType, LockPcs, Others
<1>1. Len(waiters) \in Nat /\ \A i \in 1 .. Len(waiters) : waiters[i] \in Devices
  BY LenProperties
<1>2. CASE holder = None
  <2>1. /\ holder' = d /\ waiters' = <<>> /\ waiters = <<>>
        /\ pc' = [pc EXCEPT ![d] = "connecting"]
    BY <1>2 DEF Request, LockInv
  <2>2. \A e \in Devices : pc[e] # "waiting" /\ ~Establishing(e)
    BY <1>2, <2>1, EmptySeq DEF LockInv
  <2> QED
    BY <2>1, <2>2, EmptySeq DEF LockInv, Establishing, Pcs
<1>3. CASE holder # None
  <2>1. /\ holder' = holder
        /\ waiters' = Append(waiters, d)
        /\ pc' = [pc EXCEPT ![d] = "waiting"]
    BY <1>3 DEF Request
  <2>2. /\ waiters' \in Seq(Devices)
        /\ Len(waiters') = Len(waiters) + 1
        /\ \A i \in 1 .. Len(waiters) : waiters'[i] = waiters[i]
        /\ waiters'[Len(waiters) + 1] = d
    BY <2>1, AppendProperties
  <2>3. \A i \in 1 .. Len(waiters) : waiters[i] # d
    BY DEF LockInv
  <2>4. \A i \in 1 .. Len(waiters') : i \in 1 .. Len(waiters) \/ i = Len(waiters) + 1
    BY <1>1, <2>2
  <2>5. \A i \in 1 .. Len(waiters) : i \in 1 .. Len(waiters') /\ Len(waiters) + 1 \in 1 .. Len(waiters')
    BY <1>1, <2>2
  <2>6. LockType'
    BY <2>1, <2>2 DEF Pcs
  <2>7. \A i \in 1 .. Len(waiters') : pc'[waiters'[i]] = "waiting"
    BY <1>1, <2>1, <2>2, <2>3, <2>4 DEF LockInv
  <2>8. \A e \in Devices : pc'[e] = "waiting" => \E i \in 1 .. Len(waiters') : waiters'[i] = e
    <3> SUFFICES ASSUME NEW e \in Devices, pc'[e] = "waiting"
                 PROVE  \E i \in 1 .. Len(waiters') : waiters'[i] = e
      OBVIOUS
    <3>1. CASE e = d
      BY <1>1, <2>2, <3>1
    <3>2. CASE e # d
      <4>1. PICK i \in 1 .. Len(waiters) : waiters[i] = e
        BY <2>1, <3>2 DEF LockInv
      <4> QED
        BY <2>2, <2>5, <4>1
    <3> QED
      BY <3>1, <3>2
  <2>9. \A i, j \in 1 .. Len(waiters') : waiters'[i] = waiters'[j] => i = j
    BY <2>2, <2>3, <2>4 DEF LockInv
  <2>10. \A e \in Devices : holder' = e <=> Establishing(e)'
    BY <2>1 DEF LockInv, Establishing
  <2> QED
    BY <1>3, <2>1, <2>6, <2>7, <2>8, <2>9, <2>10 DEF LockInv
<1> QED
  BY <1>2, <1>3

LEMMA ReleaseLock ==
    ASSUME NEW d \in Devices, NEW next \in Pcs \ LockPcs, LockType, LockInv,
           Establishing(d), Release(d, next)
    PROVE  /\ LockType' /\ LockInv'
           /\ pc'[d] = next
           /\ \A e \in Others(d) :
                 \/ pc'[e] = pc[e]
                 \/ pc[e] = "waiting" /\ pc'[e] = "connecting"
<1> USE ConnectionsAssumption DEF LockType, LockPcs, Others
<1>1. Len(waiters) \in Nat /\ \A i \in 1 .. Len(waiters) : waiters[i] \in Devices
  BY LenProperties
<1>2. holder = d
  BY DEF LockInv
<1>3. CASE waiters = <<>>
  <2>1. holder' = None /\ waiters' = <<>> /\ pc' = [pc EXCEPT ![d] = next]
    BY <1>3 DEF Release
  <2>2. \A e \in Devices : pc[e] # "waiting" /\ (Establishing(e) => e = d)
    BY <1>2, <1>3, EmptySeq DEF LockInv
  <2> QED
    BY <2>1, <2>2, EmptySeq DEF LockInv, Establishing
<1>4. CASE waiters # <<>>
  <2> DEFINE h == Head(waiters)
  <2>1. /\ holder' = h /\ waiters' = Tail(waiters)
        /\ pc' = [pc EXCEPT ![d] = next, ![h] = "connecting"]
    BY <1>4 DEF Release
  <2>2. /\ Len(waiters) > 0
        /\ waiters' \in Seq(Devices)
        /\ Len(waiters') = Len(waiters) - 1
        /\ \A i \in 1 .. Len(waiters') : waiters'[i] = waiters[i + 1]
    BY <1>1, <1>4, <2>1, HeadTailProperties, EmptySeq
  <2>3. h = waiters[1] /\ h \in Devices /\ pc[h] = "waiting" /\ h # d
    BY <1>1, <1>4, <2>2 DEF LockInv, Establishing
  <2> HIDE DEF h
  <2>4. \A e \in Devices : pc'[e] = IF e = h THEN "connecting" ELSE IF e = d THEN next ELSE pc[e]
    BY <2>1, <2>3
  <2>5. \A i \in 1 .. Len(waiters') :
            i + 1 \in 1 .. Len(waiters) /\ waiters[i + 1] # h /\ waiters[i + 1] # d
    <3>1. \A i \in 1 .. Len(waiters') : i + 1 \in 1 .. Len(waiters) /\ 1 \in 1 .. Len(waiters) /\ i + 1 # 1
      BY <1>1, <2>2
    <3> QED
      BY <2>3, <3>1 DEF LockInv, Establishing
  <2>6. LockType'
    BY <2>1, <2>2, <2>3 DEF Pcs
  <2>7. \A i \in 1 .. Len(waiters') : pc'[waiters'[i]] = "waiting"
    BY <1>1, <2>2, <2>4, <2>5 DEF LockInv
  <2>8. \A e \in Devices : pc'[e] = "waiting" => \E i \in 1 .. Len(waiters') : waiters'[i] = e
    <3> SUFFICES ASSUME NEW e \in Devices, pc'[e] = "waiting"
                 PROVE  \E i \in 1 .. Len(waiters') : waiters'[i] = e
      OBVIOUS
    <3>1. pc[e] = "waiting" /\ e # h
      BY <2>4
    <3>2. PICK i \in 1 .. Len(waiters) : waiters[i] = e
      BY <3>1 DEF LockInv
    <3>3. i # 1
      BY <2>3, <3>1, <3>2
    <3>4. i - 1 \in 1 .. Len(waiters') /\ (i - 1) + 1 = i
      BY <1>1, <2>2, <3>3
    <3> QED
      BY <2>2, <3>2, <3>4
  <2>9. \A i, j \in 1 .. Len(waiters') : waiters'[i] = waiters'[j] => i = j
    <3> SUFFICES ASSUME NEW i \in 1 .. Len(waiters'), NEW j \in 1 .. Len(waiters'),
                        waiters'[i] = waiters'[j]
                 PROVE  i = j
      OBVIOUS
    <3>1. i + 1 = j + 1
      BY <2>2, <2>5 DEF LockInv
    <3> QED
      BY <3>1
  <2>10. \A e \in Devices : holder' = e <=> Establishing(e)'
    BY <1>2, <2>1, <2>3, <2>4 DEF LockInv, Establishing
  <2>11. holder' # None
    BY <2>1, <2>3
  <2> QED
    BY <2>3, <2>4, <2>6, <2>7, <2>8, <2>9, <2>10, <2>11 DEF LockInv
<1> QED
  BY <1>3, <1>4

LEMMA LeaveQueue ==
    ASSUME NEW d \in Devices, NEW next \in Pcs \ LockPcs, LockType, LockInv,
           pc[d] = "waiting",
           NEW k \in 1 .. Len(waiters), waiters[k] = d, waiters' = RemoveAt(waiters, k),
           pc' = [pc EXCEPT ![d] = next], holder' = holder
    PROVE  LockType' /\ LockInv'
<1> USE DEF LockType, LockPcs
<1>1. Len(waiters) \in Nat /\ Len(waiters) > 0
  BY LenProperties
<1>2. /\ waiters' \in Seq(Devices)
      /\ Len(waiters') = Len(waiters) - 1
      /\ \A j \in 1 .. Len(waiters) - 1 :
            waiters'[j] = IF j < k THEN waiters[j] ELSE waiters[j + 1]
  BY RemoveAtProperties
<1> DEFINE old(j) == IF j < k THEN j ELSE j + 1
<1>3. ASSUME NEW j \in 1 .. Len(waiters')
      PROVE  /\ old(j) \in 1 .. Len(waiters) /\ old(j) # k
             /\ waiters'[j] = waiters[old(j)]
  BY <1>1, <1>2
<1>4. \A i, j \in 1 .. Len(waiters') : old(i) = old(j) => i = j
  BY <1>1, <1>2
<1>5. \A i \in 1 .. Len(waiters) : i # k => \E j \in 1 .. Len(waiters') : old(j) = i
  <2> SUFFICES ASSUME NEW i \in 1 .. Len(waiters), i # k
               PROVE  \E j \in 1 .. Len(waiters') : old(j) = i
    OBVIOUS
  <2>1. CASE i < k
    BY <1>1, <1>2, <2>1
  <2>2. CASE i > k
    <3>1. i - 1 \in 1 .. Len(waiters') /\ old(i - 1) = i
      BY <1>1, <1>2, <2>2
    <3> QED
      BY <3>1
  <2> QED
    BY <1>1, <2>1, <2>2
<1> HIDE DEF old
<1>6. LockType'
  BY <1>2 DEF Pcs
<1>7. \A i \in 1 .. Len(waiters') : pc'[waiters'[i]] = "waiting"
  <2> SUFFICES ASSUME NEW i \in 1 .. Len(waiters') PROVE pc'[waiters'[i]] = "waiting"
    OBVIOUS
  <2>1. waiters'[i] # d /\ pc[waiters'[i]] = "waiting"
    BY <1>3 DEF LockInv
  <2>2. waiters'[i] \in Devices
    BY <1>2, ElementOfSeq
  <2> QED
    BY <2>1, <2>2
<1>8. \A e \in Devices : pc'[e] = "waiting" => \E i \in 1 .. Len(waiters') : waiters'[i] = e
  <2> SUFFICES ASSUME NEW e \in Devices, pc'[e] = "waiting"
               PROVE  \E i \in 1 .. Len(waiters') : waiters'[i] = e
    OBVIOUS
  <2>1. e # d /\ pc[e] = "waiting"
    OBVIOUS
  <2>2. PICK i \in 1 .. Len(waiters) : waiters[i] = e
    BY <2>1 DEF LockInv
  <2>3. PICK j \in 1 .. Len(waiters') : old(j) = i
    BY <1>5, <2>1, <2>2
  <2> QED
    BY <1>3, <2>2, <2>3
<1>9. \A i, j \in 1 .. Len(waiters') : waiters'[i] = waiters'[j] => i = j
  BY <1>3, <1>4 DEF LockInv
<1>10. \A e \in Devices : holder' = e <=> Establishing(e)'
  BY DEF LockInv, Establishing
<1>11. holder' # None
  BY <1>1, EmptySeq DEF LockInv
<1> QED
  BY <1>6, <1>7, <1>8, <1>9, <1>10, <1>11 DEF LockInv

LEMMA KeepLock ==
    ASSUME NEW d \in Devices, NEW next \in Pcs, LockType, LockInv,
           \/ pc[d] \notin LockPcs /\ next \notin LockPcs
           \/ pc[d] = "connecting" /\ next = "subscribing",
           pc' = [pc EXCEPT ![d] = next], UNCHANGED lock
    PROVE  LockType' /\ LockInv'
<1> USE DEF LockType, LockPcs, lock
<1>1. \A i \in 1 .. Len(waiters) : waiters[i] \in Devices /\ waiters[i] # d
  BY ElementOfSeq DEF LockInv
<1> QED
  BY <1>1 DEF LockInv, Establishing

-----------------------------------------------------------------------------
(* What a step of d does, as far as locks and availability can tell: other *)
(* tasks are at most handed the lock, and d's client and availability are  *)
(* set on the way into, and cleared on the way out of, the awaits in which *)
(* the link is being held.                                                 *)
Held == {"subscribing", "polling", "holding"}

Effect(d) ==
    /\ \A e \in Others(d) :
          \/ pc'[e] = pc[e]
          \/ pc[e] = "waiting" /\ pc'[e] = "connecting"
    /\ \/ OnConnected(d) /\ pc'[d] \in Held
       \/ OnDisconnected(d) /\ pc'[d] \notin Held
       \/ UNCHANGED <<client, online>> /\ (pc'[d] \in Held <=> pc[d] \in Held)

LockAndEffect(d) == LockType' /\ LockInv' /\ Effect(d)

LEMMA TypeGivesLockType == TypeOK => LockType
  BY DEF TypeOK, LockType

LEMMA EffectAvailability ==
    ASSUME NEW d \in Devices, TypeOK, AvailabilityFollowsClient, Effect(d)
    PROVE  AvailabilityFollowsClient'
<1>1. \A e \in Others(d) : pc'[e] \in Held <=> pc[e] \in Held
  BY DEF Effect, Held
<1>2. \A e \in Others(d) : client'[e] = client[e] /\ online'[e] = online[e]
  BY DEF TypeOK, Effect, OnConnected, OnDisconnected, Others
<1>3. \A e \in Others(d) : online'[e] = client'[e] /\ (client'[e] <=> pc'[e] \in Held)
  BY <1>1, <1>2 DEF AvailabilityFollowsClient, Held, Others
<1>4. online'[d] = client'[d] /\ (client'[d] <=> pc'[d] \in Held)
  <2>1. CASE OnConnected(d) /\ pc'[d] \in Held
    BY <2>1 DEF TypeOK, OnConnected
  <2>2. CASE OnDisconnected(d) /\ pc'[d] \notin Held
    BY <2>2 DEF TypeOK, OnDisconnected
  <2>3. CASE UNCHANGED <<client, online>> /\ (pc'[d] \in Held <=> pc[d] \in Held)
    BY <2>3 DEF AvailabilityFollowsClient, Held
  <2> QED
    BY <2>1, <2>2, <2>3 DEF Effect
<1> QED
  BY <1>3, <1>4 DEF AvailabilityFollowsClient, Held, Others

(* d gives up before its connection is good.                               *)
LEMMA FailureEffect ==
    ASSUME NEW d \in Devices, TypeOK, LockInv, Establishing(d), EstablishmentFails(d)
    PROVE  LockAndEffect(d)
<1>1. LockType
  BY TypeGivesLockType
<1>2. PICK next \in {"disconnecting", PcAfterFailure} : Release(d, next)
  BY DEF EstablishmentFails
<1>3. next \in Pcs \ LockPcs /\ next \notin Held
  BY DEF PcAfterFailure, Pcs, LockPcs, Held
<1> QED
  BY <1>1, <1>2, <1>3, ReleaseLock DEF LockAndEffect, Effect, EstablishmentFails

LEMMA NextAttemptEffect ==
    ASSUME NEW d \in Devices, TypeOK, LockInv, pc[d] \notin LockPcs, AfterGoodConnection(d)
    PROVE  /\ LockType' /\ LockInv'
           /\ pc'[d] \notin Held
           /\ \A e \in Others(d) : pc'[e] = pc[e]
<1>1. LockType
  BY TypeGivesLockType
<1>2. CASE UNCHANGED lock /\ pc' = [pc EXCEPT ![d] = "done"]
  BY <1>1, <1>2, KeepLock DEF Pcs, LockPcs, Held, Others, LockType
<1>3. CASE Request(d)
  BY <1>1, <1>3, RequestLock DEF Held
<1> QED
  BY <1>2, <1>3 DEF AfterGoodConnection

LEMMA LeaveHoldEffect ==
    ASSUME NEW d \in Devices, TypeOK, LockInv, pc[d] \in {"polling", "holding"}, LeaveHold(d)
    PROVE  LockAndEffect(d)
<1>1. LockType /\ pc[d] \notin LockPcs
  BY TypeGivesLockType DEF LockPcs
<1>2. CASE UNCHANGED lock /\ pc' = [pc EXCEPT ![d] = "disconnecting"]
  BY <1>1, <1>2, KeepLock DEF LockAndEffect, Effect, LeaveHold, Pcs, LockPcs, Held, Others, LockType
<1>3. CASE AfterGoodConnection(d)
  BY <1>1, <1>3, NextAttemptEffect DEF LockAndEffect, Effect, LeaveHold
<1> QED
  BY <1>2, <1>3 DEF LeaveHold

LEMMA StepEffect ==
    ASSUME NEW d \in Devices, TypeOK, LockInv, Register(d) \/ Step(d) \/ LinkDrops(d)
    PROVE  LockAndEffect(d)
<1>0. LockType
  BY TypeGivesLockType
<1>1. CASE Register(d)
  <2>1. pc[d] = "unborn" /\ UNCHANGED <<client, online>>
    BY <1>1 DEF Register
  <2>2. CASE UNCHANGED lock /\ pc' = [pc EXCEPT ![d] = "done"]
    BY <1>0, <2>1, <2>2, KeepLock DEF LockAndEffect, Effect, Pcs, LockPcs, Held, Others, LockType
  <2>3. CASE Request(d)
    BY <1>0, <2>1, <2>3, RequestLock DEF LockAndEffect, Effect, LockPcs, Held
  <2> QED
    BY <1>1, <2>2, <2>3 DEF Register
<1>2. CASE ConnectSucceeds(d)
  BY <1>0, <1>2, KeepLock
  DEF ConnectSucceeds, LockAndEffect, Effect, Pcs, LockPcs, Held, Others, LockType
<1>3. CASE ConnectFails(d)
  BY <1>3, FailureEffect DEF ConnectFails, Establishing
<1>4. CASE SubscribeSucceeds(d)
  <2>1. PICK next \in {"polling", "holding"} : Release(d, next)
    BY <1>4 DEF SubscribeSucceeds, HoldPcs
  <2>2. next \in Pcs \ LockPcs
    BY DEF Pcs, LockPcs
  <2> QED
    BY <1>0, <1>4, <2>1, <2>2, ReleaseLock
    DEF SubscribeSucceeds, Establishing, LockAndEffect, Effect, Held
<1>5. CASE SubscribeFails(d)
  BY <1>5, FailureEffect DEF SubscribeFails, Establishing
<1>6. CASE PollSucceeds(d)
  BY <1>0, <1>6, KeepLock
  DEF PollSucceeds, LockAndEffect, Effect, Pcs, LockPcs, Held, Others, LockType
<1>7. CASE PollFails(d)
  BY <1>7, LeaveHoldEffect DEF PollFails
<1>8. CASE HoldWakes(d)
  <2>1. CASE LeaveHold(d)
    BY <1>8, <2>1, LeaveHoldEffect DEF HoldWakes
  <2>2. CASE /\ \E next \in HoldPcs(d) : pc' = [pc EXCEPT ![d] = next]
             /\ UNCHANGED <<client, online, lock>>
    BY <1>0, <1>8, <2>2, KeepLock
    DEF HoldWakes, HoldPcs, LockAndEffect, Effect, Pcs, LockPcs, Held, Others, LockType
  <2> QED
    BY <1>8, <2>1, <2>2 DEF HoldWakes
<1>9. CASE Disconnected(d)
  <2>1. pc[d] = "disconnecting" /\ UNCHANGED <<client, online>>
    BY <1>9 DEF Disconnected
  <2>2. CASE AfterGoodConnection(d)
    BY <2>1, <2>2, NextAttemptEffect DEF LockAndEffect, Effect, LockPcs, Held
  <2>3. CASE pc' = [pc EXCEPT ![d] = PcAfterFailure] /\ UNCHANGED lock
    BY <1>0, <2>1, <2>3, KeepLock
    DEF PcAfterFailure, LockAndEffect, Effect, Pcs, LockPcs, Held, Others, LockType
  <2> QED
    BY <1>9, <2>2, <2>3 DEF Disconnected
<1>10. CASE BackoffEnds(d)
  <2>1. pc[d] = "backoff" /\ UNCHANGED <<client, online>>
    BY <1>10 DEF BackoffEnds
  <2>2. CASE UNCHANGED lock /\ pc' = [pc EXCEPT ![d] = "done"]
    BY <1>0, <2>1, <2>2, KeepLock DEF LockAndEffect, Effect, Pcs, LockPcs, Held, Others, LockType
  <2>3. CASE Request(d)
    BY <1>0, <2>1, <2>3, RequestLock DEF LockAndEffect, Effect, LockPcs, Held
  <2> QED
    BY <1>10, <2>2, <2>3 DEF BackoffEnds
<1>11. CASE Cancelled(d)
  <2> DEFINE next == IF link[d] /\ pc[d] \notin {"disconnecting", "backoff"}
                     THEN "disconnecting" ELSE "done"
  <2>1. next \in Pcs \ LockPcs /\ next \notin Held
    BY DEF Pcs, LockPcs, Held
  <2>2. OnDisconnected(d)
    BY <1>11 DEF Cancelled
  <2>3. \/ /\ pc[d] = "waiting"
           /\ \E i \in 1 .. Len(waiters) : waiters[i] = d /\ waiters' = RemoveAt(waiters, i)
           /\ pc' = [pc EXCEPT ![d] = next]
           /\ UNCHANGED holder
        \/ pc[d] \in {"connecting", "subscribing"} /\ Release(d, next)
        \/ /\ pc[d] \in {"polling", "holding", "disconnecting", "backoff"}
           /\ pc' = [pc EXCEPT ![d] = next]
           /\ UNCHANGED lock
    BY <1>11 DEF Cancelled
  <2> HIDE DEF next
  <2>4. CASE /\ pc[d] = "waiting"
             /\ \E i \in 1 .. Len(waiters) : waiters[i] = d /\ waiters' = RemoveAt(waiters, i)
             /\ pc' = [pc EXCEPT ![d] = next]
             /\ UNCHANGED holder
    BY <1>0, <2>1, <2>2, <2>4, LeaveQueue DEF LockAndEffect, Effect, Others, LockType
  <2>5. CASE pc[d] \in {"connecting", "subscribing"} /\ Release(d, next)
    BY <1>0, <2>1, <2>2, <2>5, ReleaseLock DEF LockAndEffect, Effect, Establishing
  <2>6. CASE /\ pc[d] \in {"polling", "holding", "disconnecting", "backoff"}
             /\ pc' = [pc EXCEPT ![d] = next]
             /\ UNCHANGED lock
    <3>1. pc[d] \notin LockPcs
      BY <2>6 DEF LockPcs
    <3> QED
      BY <1>0, <2>1, <2>2, <2>6, <3>1, KeepLock DEF LockAndEffect, Effect, Others, LockType
  <2> QED
    BY <2>3, <2>4, <2>5, <2>6
<1>12. CASE LinkDrops(d)
  BY <1>0, <1>12 DEF LinkDrops, lock, LockAndEffect, Effect, LockType, LockInv, Establishing
<1> QED
  BY <1>1, <1>2, <1>3, <1>4, <1>5, <1>6, <1>7, <1>8, <1>9, <1>10, <1>11, <1>12 DEF Step

-----------------------------------------------------------------------------
(* The other variables keep their types.                                   *)
LEMMA OneMoreType == \A n \in 0 .. MaxAttempt : OneMore(n) \in 0 .. MaxAttempt
  BY ConnectionsAssumption DEF OneMore

LocalsType ==
    /\ link \in [Devices -> BOOLEAN] /\ connected \in [Devices -> BOOLEAN]
    /\ client \in [Devices -> BOOLEAN] /\ online \in [Devices -> BOOLEAN]
    /\ attempt \in [Devices -> 0 .. MaxAttempt] /\ fails \in [Devices -> 0 .. MaxAttempt]
    /\ stopCall \in {"none", "waiting", "gave up"}
    /\ stop \in BOOLEAN /\ loop \in BOOLEAN /\ cancelled \subseteq Devices

LEMMA TypeSplit == TypeOK <=> LockType /\ LocalsType
  BY DEF TypeOK, LockType, LocalsType

LEMMA SetEntry ==
    ASSUME NEW S, NEW f \in [Devices -> S], NEW d \in Devices, NEW v \in S
    PROVE  [f EXCEPT ![d] = v] \in [Devices -> S]
  OBVIOUS

LEMMA AfterFailureType ==
    ASSUME NEW d \in Devices, LocalsType, AfterFailure(d)
    PROVE  attempt' \in [Devices -> 0 .. MaxAttempt]
<1>1. attempt \in [Devices -> 0 .. MaxAttempt] /\ OneMore(attempt[d]) \in 0 .. MaxAttempt
  BY OneMoreType DEF LocalsType
<1> QED
  BY <1>1, SetEntry DEF AfterFailure

LEMMA OnDisconnectedType ==
    ASSUME NEW d \in Devices, LocalsType, OnDisconnected(d)
    PROVE  client' \in [Devices -> BOOLEAN] /\ online' \in [Devices -> BOOLEAN]
  BY SetEntry DEF LocalsType, OnDisconnected

LEMMA FailureType ==
    ASSUME NEW d \in Devices, LocalsType, link' \in [Devices -> BOOLEAN], EstablishmentFails(d)
    PROVE  LocalsType'
<1>1. fails' \in [Devices -> 0 .. MaxAttempt]
  <2>1. fails \in [Devices -> 0 .. MaxAttempt] /\ OneMore(fails[d]) \in 0 .. MaxAttempt
    BY OneMoreType DEF LocalsType
  <2> QED
    BY <2>1, SetEntry DEF EstablishmentFails
<1>2. attempt' \in [Devices -> 0 .. MaxAttempt]
  BY AfterFailureType DEF EstablishmentFails, LocalsType
<1>3. client' \in [Devices -> BOOLEAN] /\ online' \in [Devices -> BOOLEAN]
  BY OnDisconnectedType DEF EstablishmentFails
<1>4. connected' = connected /\ stopCall' = stopCall /\ stop' = stop /\ loop' = loop
      /\ cancelled' = cancelled
  BY DEF EstablishmentFails, shutdown
<1> QED
  BY <1>1, <1>2, <1>3, <1>4 DEF LocalsType

LEMMA RequestType ==
    ASSUME NEW d \in Devices, LocalsType, Request(d)
    PROVE  link' \in [Devices -> BOOLEAN] /\ connected' \in [Devices -> BOOLEAN]
  BY SetEntry DEF LocalsType, Request

LEMMA NextAttemptType ==
    ASSUME NEW d \in Devices, LocalsType, AfterGoodConnection(d)
    PROVE  /\ link' \in [Devices -> BOOLEAN] /\ connected' \in [Devices -> BOOLEAN]
           /\ attempt' \in [Devices -> 0 .. MaxAttempt]
<1>1. 0 \in 0 .. MaxAttempt
  BY ConnectionsAssumption
<1>2. CASE UNCHANGED <<attempt, connected>> /\ link' = [link EXCEPT ![d] = FALSE]
  BY <1>2, SetEntry DEF LocalsType
<1>3. CASE attempt' = [attempt EXCEPT ![d] = 0] /\ Request(d)
  BY <1>1, <1>3, RequestType, SetEntry DEF LocalsType
<1> QED
  BY <1>2, <1>3 DEF AfterGoodConnection

LEMMA LeaveHoldType ==
    ASSUME NEW d \in Devices, LocalsType, LeaveHold(d)
    PROVE  /\ link' \in [Devices -> BOOLEAN] /\ connected' \in [Devices -> BOOLEAN]
           /\ client' \in [Devices -> BOOLEAN] /\ online' \in [Devices -> BOOLEAN]
           /\ attempt' \in [Devices -> 0 .. MaxAttempt]
<1>1. client' \in [Devices -> BOOLEAN] /\ online' \in [Devices -> BOOLEAN]
  BY OnDisconnectedType DEF LeaveHold
<1>2. CASE UNCHANGED <<attempt, connected, link>>
  BY <1>1, <1>2 DEF LocalsType
<1>3. CASE AfterGoodConnection(d)
  BY <1>1, <1>3, NextAttemptType
<1> QED
  BY <1>2, <1>3 DEF LeaveHold

LEMMA StepLocalsType ==
    ASSUME NEW d \in Devices, LocalsType, Register(d) \/ Step(d) \/ LinkDrops(d)
    PROVE  LocalsType'
<1>1. CASE Register(d)
  BY <1>1, RequestType DEF Register, LocalsType, shutdown
<1>2. CASE ConnectSucceeds(d)
  BY <1>2, SetEntry DEF ConnectSucceeds, OnConnected, LocalsType, shutdown
<1>3. CASE ConnectFails(d)
  <2>1. link' \in [Devices -> BOOLEAN]
    BY <1>3, SetEntry DEF ConnectFails, LocalsType
  <2> QED
    BY <1>3, <2>1, FailureType DEF ConnectFails
<1>4. CASE SubscribeSucceeds(d)
  <2>1. 0 \in 0 .. MaxAttempt
    BY ConnectionsAssumption
  <2>2. connected' \in [Devices -> BOOLEAN] /\ fails' \in [Devices -> 0 .. MaxAttempt]
    BY <1>4, <2>1, SetEntry DEF SubscribeSucceeds, LocalsType
  <2> QED
    BY <1>4, <2>2 DEF SubscribeSucceeds, LocalsType, shutdown
<1>5. CASE SubscribeFails(d)
  <2>1. link' \in [Devices -> BOOLEAN]
    BY <1>5 DEF SubscribeFails, LocalsType
  <2> QED
    BY <1>5, <2>1, FailureType DEF SubscribeFails
<1>6. CASE PollSucceeds(d)
  BY <1>6 DEF PollSucceeds, LocalsType, shutdown
<1>7. CASE PollFails(d)
  BY <1>7, LeaveHoldType DEF PollFails, LocalsType, shutdown
<1>8. CASE HoldWakes(d)
  <2>1. /\ cancelled' \subseteq Devices /\ stopCall' = stopCall /\ stop' = stop /\ loop' = loop
        /\ fails' = fails
    BY <1>8 DEF HoldWakes, LocalsType
  <2>2. CASE UNCHANGED <<link, connected, attempt, client, online, lock>>
    BY <2>1, <2>2 DEF LocalsType
  <2>3. CASE LeaveHold(d)
    BY <2>1, <2>3, LeaveHoldType DEF LocalsType
  <2> QED
    BY <1>8, <2>2, <2>3 DEF HoldWakes
<1>9. CASE Disconnected(d)
  <2>1. UNCHANGED <<client, online, shutdown, fails>>
    BY <1>9 DEF Disconnected
  <2>2. CASE AfterGoodConnection(d)
    BY <2>1, <2>2, NextAttemptType DEF LocalsType, shutdown
  <2>3. CASE /\ AfterFailure(d)
             /\ link' = [link EXCEPT ![d] = FALSE]
             /\ UNCHANGED <<connected, lock>>
    BY <2>1, <2>3, AfterFailureType, SetEntry DEF LocalsType, shutdown
  <2> QED
    BY <1>9, <2>2, <2>3 DEF Disconnected
<1>10. CASE BackoffEnds(d)
  BY <1>10, RequestType DEF BackoffEnds, LocalsType
<1>11. CASE Cancelled(d)
  BY <1>11, OnDisconnectedType DEF Cancelled, LocalsType
<1>12. CASE LinkDrops(d)
  BY <1>12, SetEntry DEF LinkDrops, LocalsType, shutdown
<1> QED
  BY <1>1, <1>2, <1>3, <1>4, <1>5, <1>6, <1>7, <1>8, <1>9, <1>10, <1>11, <1>12 DEF Step

-----------------------------------------------------------------------------
ConnInv == TypeOK /\ LockInv /\ AvailabilityFollowsClient

LEMMA InitConnInv == Init => ConnInv
<1> SUFFICES ASSUME Init PROVE ConnInv
  OBVIOUS
<1> USE ConnectionsAssumption DEF Init
<1>1. TypeOK
  <2>1. LocalsType
    <3>1. /\ attempt \in [Devices -> 0 .. MaxAttempt]
          /\ fails \in [Devices -> 0 .. MaxAttempt]
      OBVIOUS
    <3>2. /\ link \in [Devices -> BOOLEAN] /\ connected \in [Devices -> BOOLEAN]
          /\ client \in [Devices -> BOOLEAN] /\ online \in [Devices -> BOOLEAN]
      BY Zenon
    <3> QED
      BY <3>1, <3>2 DEF LocalsType
  <2>2. waiters \in Seq(Devices)
    BY EmptySeq
  <2>3. LockType
    BY <2>2 DEF LockType, Pcs
  <2> QED
    BY <2>1, <2>3, TypeSplit
<1>2. LockInv
  BY EmptySeq DEF LockInv, Establishing
<1>3. AvailabilityFollowsClient
  BY DEF AvailabilityFollowsClient
<1> QED
  BY <1>1, <1>2, <1>3 DEF ConnInv

LEMMA NextConnInv == ConnInv /\ [Next]_vars => ConnInv'
<1> SUFFICES ASSUME ConnInv, [Next]_vars PROVE ConnInv'
  OBVIOUS
<1> USE DEF ConnInv
<1>1. ASSUME NEW d \in Devices, Register(d) \/ Step(d) \/ LinkDrops(d) PROVE ConnInv'
  <2>1. LocalsType
    BY TypeSplit
  <2>2. LockType' /\ LockInv' /\ Effect(d)
    BY <1>1, StepEffect DEF LockAndEffect
  <2>3. LocalsType'
    BY <1>1, <2>1, StepLocalsType
  <2>4. TypeOK'
    BY <2>2, <2>3 DEF TypeOK, LockType, LocalsType
  <2>5. AvailabilityFollowsClient'
    BY <2>2, EffectAvailability
  <2> QED
    BY <2>2, <2>4, <2>5
<1>2. CASE StopCalled \/ Shutdown \/ StopGivesUp \/ LoopStops \/ UNCHANGED vars
  <2>1. UNCHANGED <<pc, link, connected, attempt, client, online, holder, waiters, fails>>
    BY <1>2 DEF StopCalled, Shutdown, StopGivesUp, LoopStops, vars, lock
  <2>2. /\ stopCall' \in {"none", "waiting", "gave up"}
        /\ stop' \in BOOLEAN /\ loop' \in BOOLEAN /\ cancelled' \subseteq Devices
    BY <1>2 DEF StopCalled, Shutdown, StopGivesUp, LoopStops, vars, shutdown, TypeOK
  <2>3. TypeOK'
    BY <2>1, <2>2 DEF TypeOK
  <2>4. LockInv'
    BY <2>1 DEF LockInv, Establishing
  <2>5. AvailabilityFollowsClient'
    BY <2>1 DEF AvailabilityFollowsClient
  <2> QED
    BY <2>3, <2>4, <2>5
<1> QED
  BY <1>1, <1>2 DEF Next, Stopped

-----------------------------------------------------------------------------
(* Stopping.  A task that has noticed the stop (its cancel is delivered)   *)
(* only disconnects or is over; that it is offline then is availability.   *)
(* A loop that was stopped without giving up has delivered every cancel.   *)
Resting == {"unborn", "disconnecting", "done"}

RestInv == stop => \A d \in Devices \ cancelled : pc[d] \in Resting

OrderlyInv == ~loop /\ stopCall # "gave up" => stop /\ cancelled = {}

StopInv == RestInv /\ OrderlyInv

LEMMA StepRests ==
    ASSUME NEW d \in Devices, TypeOK, LockInv, RestInv, stop,
           Register(d) \/ Step(d) \/ LinkDrops(d)
    PROVE  /\ stop' = stop
           /\ cancelled \ {d} \subseteq cancelled'
           /\ d \in cancelled' \/ pc'[d] \in Resting
<1>0. LockType /\ (d \in cancelled \/ pc[d] \in Resting)
  BY TypeGivesLockType DEF RestInv
<1>1. CASE Register(d)
  BY <1>0, <1>1 DEF Register, shutdown, LockType, Resting
<1>2. CASE ConnectSucceeds(d) \/ ConnectFails(d) \/ SubscribeSucceeds(d) \/ SubscribeFails(d)
           \/ PollSucceeds(d) \/ PollFails(d)
  BY <1>0, <1>2 DEF ConnectSucceeds, ConnectFails, SubscribeSucceeds, SubscribeFails,
                    PollSucceeds, PollFails, Resumes, Resting
<1>3. CASE HoldWakes(d)
  <2>1. LeaveHold(d) /\ cancelled' = cancelled \ {d} /\ stop' = stop
    BY <1>3 DEF HoldWakes
  <2> QED
    BY <1>0, <2>1 DEF LeaveHold, AfterGoodConnection, LockType, Resting
<1>4. CASE Disconnected(d)
  BY <1>0, <1>4 DEF Disconnected, AfterGoodConnection, PcAfterFailure, shutdown, LockType, Resting
<1>5. CASE BackoffEnds(d)
  BY <1>0, <1>5 DEF BackoffEnds, LockType, Resting
<1>6. CASE Cancelled(d)
  <2> DEFINE next == IF link[d] /\ pc[d] \notin {"disconnecting", "backoff"}
                     THEN "disconnecting" ELSE "done"
  <2>1. next \in Pcs \ LockPcs /\ next \in Resting
    BY DEF Pcs, LockPcs, Resting
  <2>2. \/ pc[d] \in {"connecting", "subscribing"} /\ Release(d, next)
        \/ pc' = [pc EXCEPT ![d] = next]
    BY <1>6 DEF Cancelled
  <2>3. cancelled' = cancelled \ {d} /\ stop' = stop
    BY <1>6 DEF Cancelled
  <2> HIDE DEF next
  <2>4. pc'[d] = next
    BY <1>0, <2>1, <2>2, ReleaseLock DEF Establishing, LockType
  <2> QED
    BY <2>1, <2>3, <2>4
<1>7. CASE LinkDrops(d)
  BY <1>0, <1>7 DEF LinkDrops, shutdown
<1> QED
  BY <1>1, <1>2, <1>3, <1>4, <1>5, <1>6, <1>7 DEF Step

LEMMA NextRestInv == ConnInv /\ RestInv /\ [Next]_vars => RestInv'
<1> SUFFICES ASSUME ConnInv, RestInv, [Next]_vars PROVE RestInv'
  OBVIOUS
<1>1. ASSUME NEW d \in Devices, Register(d) \/ Step(d) \/ LinkDrops(d) PROVE RestInv'
  <2>1. stop' = stop
    BY <1>1 DEF Register, Step, LinkDrops, ConnectSucceeds, ConnectFails, SubscribeSucceeds,
                SubscribeFails, EstablishmentFails, PollSucceeds, PollFails, HoldWakes,
                Disconnected, BackoffEnds, Cancelled, shutdown
  <2>2. CASE stop
    <3>1. /\ cancelled \ {d} \subseteq cancelled'
          /\ d \in cancelled' \/ pc'[d] \in Resting
      BY <1>1, <2>2, StepRests DEF ConnInv
    <3>2. \A e \in Others(d) : pc'[e] = pc[e] \/ pc[e] = "waiting"
      BY <1>1, StepEffect DEF ConnInv, LockAndEffect, Effect
    <3>3. ASSUME NEW e \in Devices \ cancelled' PROVE pc'[e] \in Resting
      <4>1. CASE e = d
        BY <3>1, <3>3, <4>1
      <4>2. CASE e # d
        <5>1. e \in Devices \ cancelled /\ pc[e] \in Resting
          BY <2>2, <3>1, <3>3, <4>2 DEF RestInv
        <5> QED
          BY <3>2, <4>2, <5>1 DEF Others, Resting
      <4> QED
        BY <4>1, <4>2
    <3> QED
      BY <3>3 DEF RestInv
  <2> QED
    BY <2>1, <2>2 DEF RestInv
<1>2. CASE Shutdown
  BY <1>2 DEF Shutdown, RestInv, Resting
<1>3. CASE StopCalled \/ StopGivesUp \/ LoopStops \/ UNCHANGED vars
  BY <1>3 DEF StopCalled, StopGivesUp, LoopStops, vars, shutdown, RestInv
<1> QED
  BY <1>1, <1>2, <1>3 DEF Next, Stopped

LEMMA NextOrderlyInv == OrderlyInv /\ [Next]_vars => OrderlyInv'
<1> SUFFICES ASSUME OrderlyInv, [Next]_vars PROVE OrderlyInv'
  OBVIOUS
<1>1. ASSUME NEW d \in Devices, Register(d) \/ Step(d) PROVE OrderlyInv'
  <2>1. loop /\ loop' = loop
    BY <1>1 DEF Register, Step, ConnectSucceeds, ConnectFails, SubscribeSucceeds,
                SubscribeFails, EstablishmentFails, PollSucceeds, PollFails, HoldWakes,
                Disconnected, BackoffEnds, Cancelled, Resumes, shutdown
  <2> QED
    BY <2>1 DEF OrderlyInv
<1>2. CASE (\E d \in Devices : LinkDrops(d)) \/ UNCHANGED vars
  BY <1>2 DEF LinkDrops, vars, shutdown, OrderlyInv
<1>3. CASE StopCalled \/ Shutdown \/ StopGivesUp \/ LoopStops
  BY <1>3 DEF StopCalled, Shutdown, StopGivesUp, LoopStops, OrderlyInv
<1> QED
  BY <1>1, <1>2, <1>3 DEF Next, Stopped

LEMMA NextStopInv == ConnInv /\ StopInv /\ [Next]_vars => StopInv'
  BY NextRestInv, NextOrderlyInv DEF StopInv

-----------------------------------------------------------------------------
(* The count of attempts.  It is that of the failures while an attempt is  *)
(* made or waited for; one behind in the disconnect() of a failed attempt; *)
(* and of no matter during a good connection, after which both begin anew. *)
CountInv(d) ==
    /\ pc[d] \in {"unborn", "waiting", "connecting", "subscribing", "backoff"}
            => attempt[d] = fails[d]
    /\ pc[d] \in {"waiting", "connecting", "subscribing"} => ~connected[d]
    /\ pc[d] \in {"polling", "holding"} => connected[d] /\ fails[d] = 0
    /\ pc[d] = "disconnecting" /\ ~stop =>
            fails[d] = IF connected[d] THEN 0 ELSE OneMore(attempt[d])

CancelInv == cancelled # {} => stop

CountsInv == CancelInv /\ \A d \in Devices : CountInv(d)

Counts(d) == <<attempt[d], fails[d], connected[d]>>

LEMMA CountsOfOthers ==
    ASSUME NEW d \in Devices, TypeOK, Register(d) \/ Step(d) \/ LinkDrops(d)
    PROVE  \A e \in Others(d) : Counts(e)' = Counts(e)
<1> USE DEF Others, Counts, TypeOK
<1>1. CASE Register(d) \/ BackoffEnds(d) \/ ConnectSucceeds(d) \/ SubscribeSucceeds(d)
           \/ PollSucceeds(d) \/ Cancelled(d) \/ LinkDrops(d)
  BY <1>1 DEF Register, BackoffEnds, ConnectSucceeds, SubscribeSucceeds, PollSucceeds,
              Cancelled, LinkDrops, Request
<1>2. CASE ConnectFails(d) \/ SubscribeFails(d)
  BY <1>2 DEF ConnectFails, SubscribeFails, EstablishmentFails, AfterFailure
<1>3. CASE PollFails(d) \/ HoldWakes(d) \/ Disconnected(d)
  BY <1>3 DEF PollFails, HoldWakes, Disconnected, LeaveHold, AfterGoodConnection, AfterFailure,
              Request
<1> QED
  BY <1>1, <1>2, <1>3 DEF Step

(* What a failed attempt, and the next one, do to the counts of d.         *)
LEMMA FailureCounts ==
    ASSUME NEW d \in Devices, TypeOK, LockInv, CountInv(d), Establishing(d),
           EstablishmentFails(d)
    PROVE  CountInv(d)'
<1> USE DEF CountInv, TypeOK
<1>1. attempt[d] = fails[d] /\ ~connected[d] /\ connected' = connected /\ stop' = stop
  BY DEF Establishing, EstablishmentFails, shutdown
<1>2. fails'[d] = OneMore(fails[d])
  BY DEF EstablishmentFails
<1>3. CASE Release(d, "disconnecting") /\ UNCHANGED attempt
  <2>1. "disconnecting" \in Pcs \ LockPcs
    BY DEF Pcs, LockPcs
  <2>2. pc'[d] = "disconnecting"
    BY <1>3, <2>1, ReleaseLock, TypeGivesLockType
  <2> QED
    BY <1>1, <1>2, <1>3, <2>2
<1>4. CASE AfterFailure(d) /\ Release(d, PcAfterFailure)
  <2>1. PcAfterFailure \in Pcs \ LockPcs
    BY DEF PcAfterFailure, Pcs, LockPcs
  <2>2. pc'[d] = PcAfterFailure
    BY <1>4, <2>1, ReleaseLock, TypeGivesLockType
  <2>3. ~stop => attempt'[d] = OneMore(attempt[d])
    BY <1>4 DEF AfterFailure
  <2> QED
    BY <1>1, <1>2, <2>2, <2>3 DEF PcAfterFailure
<1> QED
  BY <1>3, <1>4 DEF EstablishmentFails

LEMMA RequestCounts ==
    ASSUME NEW d \in Devices, TypeOK, LockInv, pc[d] \notin LockPcs, Request(d),
           attempt'[d] = fails'[d]
    PROVE  CountInv(d)'
<1>1. pc'[d] \in {"waiting", "connecting"}
  BY RequestLock, TypeGivesLockType
<1>2. ~connected'[d]
  BY DEF Request, TypeOK
<1> QED
  BY <1>1, <1>2 DEF CountInv

LEMMA NextAttemptCounts ==
    ASSUME NEW d \in Devices, TypeOK, LockInv, pc[d] \notin LockPcs, AfterGoodConnection(d),
           ~stop => fails'[d] = 0
    PROVE  CountInv(d)'
<1>1. CASE stop
  <2>1. pc'[d] = "done"
    BY <1>1 DEF AfterGoodConnection, TypeOK
  <2> QED
    BY <2>1 DEF CountInv
<1>2. CASE ~stop
  <2>1. Request(d) /\ attempt'[d] = 0
    BY <1>2 DEF AfterGoodConnection, TypeOK
  <2> QED
    BY <1>2, <2>1, RequestCounts
<1> QED
  BY <1>1, <1>2

LEMMA LeaveHoldCounts ==
    ASSUME NEW d \in Devices, TypeOK, LockInv, CountInv(d), pc[d] \in {"polling", "holding"},
           LeaveHold(d), fails' = fails
    PROVE  CountInv(d)'
<1>1. connected[d] /\ fails'[d] = 0 /\ pc[d] \notin LockPcs
  BY DEF CountInv, LockPcs
<1>2. CASE pc' = [pc EXCEPT ![d] = "disconnecting"] /\ connected' = connected
  <2>1. pc'[d] = "disconnecting" /\ connected'[d]
    BY <1>1, <1>2 DEF TypeOK
  <2> QED
    BY <1>1, <2>1 DEF CountInv
<1>3. CASE AfterGoodConnection(d)
  BY <1>1, <1>3, NextAttemptCounts
<1> QED
  BY <1>2, <1>3 DEF LeaveHold

LEMMA StepCounts ==
    ASSUME NEW d \in Devices, TypeOK, LockInv, CancelInv, CountInv(d),
           Register(d) \/ Step(d) \/ LinkDrops(d)
    PROVE  CountInv(d)'
<1>0. LockType
  BY TypeGivesLockType
<1>1. CASE Register(d)
  <2>1. pc[d] = "unborn" /\ attempt'[d] = fails'[d]
    BY <1>1 DEF Register, CountInv
  <2>2. CASE pc' = [pc EXCEPT ![d] = "done"]
    BY <1>0, <2>2 DEF CountInv, LockType
  <2>3. CASE Request(d)
    BY <2>1, <2>3, RequestCounts DEF LockPcs
  <2> QED
    BY <1>1, <2>2, <2>3 DEF Register
<1>2. CASE ConnectSucceeds(d)
  BY <1>0, <1>2 DEF ConnectSucceeds, CountInv, LockType
<1>3. CASE ConnectFails(d)
  BY <1>3, FailureCounts DEF ConnectFails, Establishing
<1>4. CASE SubscribeSucceeds(d)
  <2>1. PICK next \in {"polling", "holding"} : Release(d, next)
    BY <1>4 DEF SubscribeSucceeds, HoldPcs
  <2>2. next \in Pcs \ LockPcs
    BY DEF Pcs, LockPcs
  <2>3. pc'[d] = next
    BY <1>0, <1>4, <2>1, <2>2, ReleaseLock DEF SubscribeSucceeds, Establishing
  <2>4. connected'[d] /\ fails'[d] = 0
    BY <1>4 DEF SubscribeSucceeds, TypeOK
  <2> QED
    BY <2>3, <2>4 DEF CountInv
<1>5. CASE SubscribeFails(d)
  BY <1>5, FailureCounts DEF SubscribeFails, Establishing
<1>6. CASE PollSucceeds(d)
  BY <1>0, <1>6 DEF PollSucceeds, CountInv, LockType
<1>7. CASE PollFails(d)
  BY <1>7, LeaveHoldCounts DEF PollFails
<1>8. CASE HoldWakes(d)
  <2>1. CASE LeaveHold(d)
    BY <1>8, <2>1, LeaveHoldCounts DEF HoldWakes
  <2>2. CASE /\ \E next \in HoldPcs(d) : pc' = [pc EXCEPT ![d] = next]
             /\ UNCHANGED <<link, connected, attempt, client, online, lock>>
    BY <1>0, <1>8, <2>2 DEF HoldWakes, HoldPcs, CountInv, LockType
  <2> QED
    BY <1>8, <2>1, <2>2 DEF HoldWakes
<1>9. CASE Disconnected(d)
  <2>1. pc[d] = "disconnecting" /\ fails' = fails /\ stop' = stop
    BY <1>9 DEF Disconnected, shutdown
  <2>2. CASE connected[d] /\ AfterGoodConnection(d)
    BY <2>1, <2>2, NextAttemptCounts DEF CountInv, LockPcs
  <2>3. CASE /\ ~connected[d]
             /\ AfterFailure(d)
             /\ pc' = [pc EXCEPT ![d] = PcAfterFailure]
    <3>1. pc'[d] = PcAfterFailure
      BY <1>0, <2>3 DEF LockType
    <3>2. ~stop => attempt'[d] = OneMore(attempt[d])
      BY <2>3 DEF AfterFailure, TypeOK
    <3> QED
      BY <2>1, <2>3, <3>1, <3>2 DEF CountInv, PcAfterFailure
  <2> QED
    BY <1>9, <2>2, <2>3 DEF Disconnected
<1>10. CASE BackoffEnds(d)
  <2>1. pc[d] = "backoff" /\ attempt'[d] = fails'[d]
    BY <1>10 DEF BackoffEnds, CountInv
  <2>2. CASE pc' = [pc EXCEPT ![d] = "done"]
    BY <1>0, <2>2 DEF CountInv, LockType
  <2>3. CASE Request(d)
    BY <2>1, <2>3, RequestCounts DEF LockPcs
  <2> QED
    BY <1>10, <2>2, <2>3 DEF BackoffEnds
<1>11. CASE Cancelled(d)
  <2>1. stop' /\ cancelled' \subseteq cancelled
    BY <1>11 DEF Cancelled, CancelInv
  <2> DEFINE next == IF link[d] /\ pc[d] \notin {"disconnecting", "backoff"}
                     THEN "disconnecting" ELSE "done"
  <2>2. next \in Pcs \ LockPcs /\ next \in {"disconnecting", "done"}
    BY DEF Pcs, LockPcs
  <2>3. \/ pc[d] \in {"connecting", "subscribing"} /\ Release(d, next)
        \/ pc' = [pc EXCEPT ![d] = next]
    BY <1>11 DEF Cancelled
  <2> HIDE DEF next
  <2>4. pc'[d] = next
    BY <1>0, <2>2, <2>3, ReleaseLock DEF Establishing, LockType
  <2> QED
    BY <2>1, <2>2, <2>4 DEF CountInv
<1>12. CASE LinkDrops(d)
  BY <1>12 DEF LinkDrops, shutdown, CountInv
<1> QED
  BY <1>1, <1>2, <1>3, <1>4, <1>5, <1>6, <1>7, <1>8, <1>9, <1>10, <1>11, <1>12 DEF Step

LEMMA NextCountsInv == ConnInv /\ CountsInv /\ [Next]_vars => CountsInv'
<1> SUFFICES ASSUME ConnInv, CountsInv, [Next]_vars PROVE CountsInv'
  OBVIOUS
<1> USE DEF ConnInv, CountsInv
<1>1. ASSUME NEW d \in Devices, Register(d) \/ Step(d) \/ LinkDrops(d) PROVE CountsInv'
  <2>1. stop' = stop /\ cancelled' \subseteq cancelled
    BY <1>1 DEF Register, Step, LinkDrops, ConnectSucceeds, ConnectFails, SubscribeSucceeds,
                SubscribeFails, EstablishmentFails, PollSucceeds, PollFails, HoldWakes,
                Disconnected, BackoffEnds, Cancelled, shutdown
  <2>2. CountInv(d)'
    BY <1>1, StepCounts
  <2>3. ASSUME NEW e \in Others(d) PROVE CountInv(e)'
    <3>1. Counts(e)' = Counts(e)
      BY <1>1, CountsOfOthers
    <3>2. pc'[e] = pc[e] \/ (pc[e] = "waiting" /\ pc'[e] = "connecting")
      BY <1>1, StepEffect DEF LockAndEffect, Effect
    <3>3. CountInv(e)
      BY DEF Others
    <3> QED
      BY <2>1, <3>1, <3>2, <3>3 DEF Counts, CountInv
  <2> QED
    BY <2>1, <2>2, <2>3 DEF CancelInv, Others
<1>2. CASE Shutdown
  BY <1>2 DEF Shutdown, CancelInv, CountInv
<1>3. CASE StopCalled \/ StopGivesUp \/ LoopStops \/ UNCHANGED vars
  BY <1>3 DEF StopCalled, StopGivesUp, LoopStops, vars, shutdown, CancelInv, CountInv
<1> QED
  BY <1>1, <1>2, <1>3 DEF Next, Stopped

-----------------------------------------------------------------------------

(* The state of every coroutine, the lock and its queue stays well formed, *)
(* for any set of devices.                                                 *)
THEOREM ConnectionsTypeCorrect == Spec => []TypeOK
<1>1. ConnInv => TypeOK
  BY DEF ConnInv
<1> QED
  BY InitConnInv, NextConnInv, <1>1, PTL DEF Spec

(* The lock is held by exactly the device that is connecting, and by       *)
(* nobody only when nobody wants it: no failure, drop or cancellation      *)
(* leaks it or strands a waiter.                                           *)
THEOREM LockNeverLeaks == Spec => []LockAccounted
<1>1. ConnInv => LockAccounted
  <2> SUFFICES ASSUME ConnInv PROVE LockAccounted
    OBVIOUS
  <2>1. \A i \in 1 .. Len(waiters) : waiters[i] \in Devices
    BY ElementOfSeq DEF ConnInv, TypeOK
  <2> QED
    BY <2>1 DEF ConnInv, LockInv, LockAccounted
<1> QED
  BY InitConnInv, NextConnInv, <1>1, PTL DEF Spec

(* The controller never sees two connection attempts at once, however many *)
(* devices are configured.                                                 *)
THEOREM EstablishmentIsExclusive == Spec => []OneEstablishment
<1>1. ConnInv => OneEstablishment
  BY DEF ConnInv, LockInv, OneEstablishment
<1> QED
  BY InitConnInv, NextConnInv, <1>1, PTL DEF Spec

(* A device is marked online, and its commands have a client to go to,     *)
(* exactly while its coroutine holds a link it has connected.              *)
THEOREM AvailabilityIsTruthful == Spec => []AvailabilityFollowsClient
<1>1. ConnInv => AvailabilityFollowsClient
  BY DEF ConnInv
<1> QED
  BY InitConnInv, NextConnInv, <1>1, PTL DEF Spec

(* Once the program stops, a task that has noticed it never connects       *)
(* again, and its device is offline; and unless stop() gave up, every      *)
(* device is offline when the loop has stopped: for any set of devices     *)
(* (BleManager.stop, maintain_device).                                     *)
THEOREM StoppingIsFinal == Spec => []StopIsFinal
<1>1. Init => StopInv
  BY DEF Init, StopInv, RestInv, OrderlyInv
<1>2. ConnInv /\ StopInv => StopIsFinal
  <2> SUFFICES ASSUME ConnInv, StopInv PROVE StopIsFinal
    OBVIOUS
  <2>1. ASSUME stop, NEW d \in Devices \ cancelled PROVE AtRest(d)
    <3>1. pc[d] \in {"unborn", "disconnecting", "done"}
      BY <2>1 DEF StopInv, RestInv, Resting
    <3> QED
      BY <3>1 DEF ConnInv, AvailabilityFollowsClient, AtRest
  <2>2. ~loop /\ stopCall # "gave up" => stop /\ cancelled = {}
    BY DEF StopInv, OrderlyInv
  <2> QED
    BY <2>1, <2>2 DEF StopIsFinal
<1> QED
  BY InitConnInv, NextConnInv, <1>1, NextStopInv, <1>2, PTL DEF Spec

(* The backoff grows with the failures in a row and nothing else, for any  *)
(* set of devices and any cut-off of the count.                            *)
THEOREM BackoffIsRight == Spec => []BackoffCountsFailures
<1>1. Init => CountsInv
  BY DEF Init, CountsInv, CancelInv, CountInv
<1>2. CountsInv => BackoffCountsFailures
  BY DEF CountsInv, CountInv, BackoffCountsFailures
<1> QED
  BY InitConnInv, NextConnInv, <1>1, NextCountsInv, <1>2, PTL DEF Spec
=============================================================================

------------------------- MODULE DeviceWritesProofs -------------------------
(***************************************************************************)
(* What the write lock of a connection guarantees for any number of        *)
(* payloads, connections and attempts: writes that do not overlap, and an  *)
(* order that only a retry can change.                                     *)
(***************************************************************************)
EXTENDS DeviceWrites, SequenceTheorems, FiniteSetTheorems, TLAPS

(* What a queue without repetitions keeps when somebody joins at its end,  *)
(* is served from its front, or leaves from its middle.                    *)
Once(s) == \A i, j \in 1 .. Len(s) : s[i] = s[j] => i = j

Has(s, x) == \E i \in 1 .. Len(s) : s[i] = x

Before(s, x, y) == \A i, j \in 1 .. Len(s) : s[i] = x /\ s[j] = y => i < j

-----------------------------------------------------------------------------
(* Without its i-th element, a sequence is as it was up to there, and has  *)
(* moved up by one from there on (RemoveAt, for a waiter that is           *)
(* cancelled).                                                             *)
LEMMA RemoveAtProperties ==
    ASSUME NEW S, NEW s \in Seq(S), NEW i \in 1 .. Len(s)
    PROVE  /\ RemoveAt(s, i) \in Seq(S)
           /\ Len(RemoveAt(s, i)) = Len(s) - 1
           /\ \A j \in 1 .. Len(s) - 1 : RemoveAt(s, i)[j] = IF j < i THEN s[j] ELSE s[j + 1]
<1> DEFINE a == SubSeq(s, 1, i - 1)
           b == SubSeq(s, i + 1, Len(s))
<1>1. Len(s) \in Nat
  BY LenProperties
<1>2. /\ a \in Seq(S) /\ Len(a) = i - 1
      /\ \A j \in 1 .. i - 1 : a[j] = s[j]
  <2>1. CASE i = 1
    BY <1>1, <2>1, SubSeqEmpty, EmptySeq
  <2>2. CASE i > 1
    BY <1>1, <2>2, SubSeqProperties
  <2> QED
    BY <1>1, <2>1, <2>2
<1>3. /\ b \in Seq(S) /\ Len(b) = Len(s) - i
      /\ \A j \in 1 .. Len(s) - i : b[j] = s[i + j]
  <2>1. CASE i = Len(s)
    BY <1>1, <2>1, SubSeqEmpty, EmptySeq
  <2>2. CASE i < Len(s)
    BY <1>1, <2>2, SubSeqProperties
  <2> QED
    BY <1>1, <2>1, <2>2
<1> DEFINE c == a \o b
<1>4. RemoveAt(s, i) = c
  BY DEF RemoveAt
<1> HIDE DEF a, b
<1>5. /\ c \in Seq(S)
      /\ Len(c) = Len(a) + Len(b)
      /\ \A j \in 1 .. Len(a) + Len(b) : c[j] = IF j <= Len(a) THEN a[j] ELSE b[j - Len(a)]
  BY <1>2, <1>3, ConcatProperties
<1> HIDE DEF c
<1>6. Len(a) + Len(b) = Len(s) - 1
  BY <1>1, <1>2, <1>3
<1>7. ASSUME NEW j \in 1 .. Len(s) - 1
      PROVE  c[j] = IF j < i THEN s[j] ELSE s[j + 1]
  <2>1. c[j] = IF j <= Len(a) THEN a[j] ELSE b[j - Len(a)]
    BY <1>6, <1>5
  <2>2. CASE j < i
    BY <1>1, <1>2, <2>1, <2>2
  <2>3. CASE j >= i
    <3>1. j - (i - 1) \in 1 .. Len(s) - i
      BY <1>1, <2>3
    <3>2. b[j - (i - 1)] = s[i + (j - (i - 1))]
      BY <1>3, <3>1
    <3>3. i + (j - (i - 1)) = j + 1
      BY <1>1
    <3> QED
      BY <1>1, <1>2, <2>1, <2>3, <3>2, <3>3
  <2> QED
    BY <1>1, <2>2, <2>3
<1> QED
  BY <1>4, <1>6, <1>7, <1>5

LEMMA EmptyQueue ==
    ASSUME NEW S
    PROVE  /\ <<>> \in Seq(S) /\ Once(<<>>) /\ \A x : ~Has(<<>>, x)
           /\ \A s \in Seq(S) : (\A x : ~Has(s, x)) => s = <<>>
<1>1. <<>> \in Seq(S) /\ Len(<<>>) = 0
  BY EmptySeq
<1>2. ASSUME NEW s \in Seq(S), \A x : ~Has(s, x)
      PROVE  s = <<>>
  <2>1. Len(s) \in Nat
    BY LenProperties
  <2>2. ~(1 \in 1 .. Len(s))
    BY <1>2 DEF Has
  <2> QED
    BY <2>1, <2>2, EmptySeq
<1> QED
  BY <1>1, <1>2 DEF Once, Has

LEMMA JoinQueue ==
    ASSUME NEW S, NEW s \in Seq(S), NEW e \in S, Once(s), ~Has(s, e),
           NEW t, t = Append(s, e)
    PROVE  /\ t \in Seq(S) /\ Once(t)
           /\ \A x : Has(t, x) <=> Has(s, x) \/ x = e
           /\ \A x, y : x # e /\ (y = e \/ Before(s, x, y)) => Before(t, x, y)
<1>1. Len(s) \in Nat
  BY LenProperties
<1>2. /\ t \in Seq(S) /\ Len(t) = Len(s) + 1
      /\ \A i \in 1 .. Len(s) : t[i] = s[i]
      /\ t[Len(s) + 1] = e
  BY AppendProperties
<1>3. \A i \in 1 .. Len(s) : i \in 1 .. Len(t) /\ i < Len(s) + 1 /\ s[i] # e
  BY <1>1, <1>2 DEF Has
<1>4. \A i \in 1 .. Len(t) : i \in 1 .. Len(s) \/ i = Len(s) + 1
  BY <1>1, <1>2
<1>5. Len(s) + 1 \in 1 .. Len(t)
  BY <1>1, <1>2
<1>6. Once(t)
  BY <1>2, <1>3, <1>4 DEF Once
<1>7. \A x : Has(t, x) <=> Has(s, x) \/ x = e
  BY <1>2, <1>3, <1>4, <1>5 DEF Has
<1>8. \A x, y : x # e /\ (y = e \/ Before(s, x, y)) => Before(t, x, y)
  BY <1>2, <1>3, <1>4 DEF Before
<1> QED
  BY <1>2, <1>6, <1>7, <1>8

LEMMA ServeQueue ==
    ASSUME NEW S, NEW s \in Seq(S), s # <<>>, Once(s), NEW t, t = Tail(s)
    PROVE  /\ Head(s) \in S /\ Has(s, Head(s))
           /\ t \in Seq(S) /\ Once(t)
           /\ \A x : Has(t, x) <=> Has(s, x) /\ x # Head(s)
           /\ \A x, y : Before(s, x, y) => Before(t, x, y)
           /\ \A x : Has(s, x) => ~Before(s, x, Head(s))
<1>1. Len(s) \in Nat /\ Len(s) > 0
  BY LenProperties, EmptySeq
<1>2. /\ t \in Seq(S) /\ Len(t) = Len(s) - 1
      /\ \A i \in 1 .. Len(t) : t[i] = s[i + 1]
      /\ Head(s) = s[1] /\ Head(s) \in S
  BY <1>1, HeadTailProperties
<1>3. 1 \in 1 .. Len(s) /\ \A i \in 1 .. Len(s) : ~(i < 1)
  BY <1>1
<1>4. \A i \in 1 .. Len(t) : i + 1 \in 1 .. Len(s) /\ i + 1 # 1
  BY <1>1, <1>2
<1>5. \A i \in 1 .. Len(s) : i # 1 => i - 1 \in 1 .. Len(t) /\ (i - 1) + 1 = i
  BY <1>1, <1>2
<1>6. Once(t)
  <2> SUFFICES ASSUME NEW i \in 1 .. Len(t), NEW j \in 1 .. Len(t), t[i] = t[j]
               PROVE  i = j
    BY DEF Once
  <2>1. i + 1 = j + 1
    BY <1>2, <1>4 DEF Once
  <2> QED
    BY <2>1
<1>7. ASSUME NEW x
      PROVE  Has(t, x) <=> Has(s, x) /\ x # Head(s)
  <2>1. ASSUME Has(t, x) PROVE Has(s, x) /\ x # Head(s)
    BY <1>2, <1>3, <1>4, <2>1 DEF Has, Once
  <2>2. ASSUME Has(s, x), x # Head(s) PROVE Has(t, x)
    <3>1. PICK i \in 1 .. Len(s) : s[i] = x
      BY <2>2 DEF Has
    <3>2. i # 1
      BY <1>2, <2>2, <3>1
    <3>3. i - 1 \in 1 .. Len(t) /\ t[i - 1] = x
      BY <1>2, <1>5, <3>1, <3>2
    <3> QED
      BY <3>3 DEF Has
  <2> QED
    BY <2>1, <2>2
<1>8. ASSUME NEW x, NEW y, Before(s, x, y) PROVE Before(t, x, y)
  <2> SUFFICES ASSUME NEW i \in 1 .. Len(t), NEW j \in 1 .. Len(t), t[i] = x, t[j] = y
               PROVE  i < j
    BY DEF Before
  <2>1. i + 1 < j + 1
    BY <1>2, <1>4, <1>8 DEF Before
  <2> QED
    BY <2>1
<1>9. \A x : Has(s, x) => ~Before(s, x, Head(s))
  BY <1>2, <1>3 DEF Has, Before
<1> QED
  BY <1>2, <1>3, <1>6, <1>7, <1>8, <1>9 DEF Has

LEMMA LeaveFromMiddle ==
    ASSUME NEW S, NEW s \in Seq(S), Once(s), NEW k \in 1 .. Len(s),
           NEW t, t = RemoveAt(s, k)
    PROVE  /\ t \in Seq(S) /\ Once(t)
           /\ \A x : Has(t, x) <=> Has(s, x) /\ x # s[k]
           /\ \A x, y : Before(s, x, y) => Before(t, x, y)
<1>1. Len(s) \in Nat
  BY LenProperties
<1> DEFINE old(j) == IF j < k THEN j ELSE j + 1
<1>2. /\ t \in Seq(S) /\ Len(t) = Len(s) - 1
      /\ \A j \in 1 .. Len(s) - 1 : t[j] = IF j < k THEN s[j] ELSE s[j + 1]
  BY RemoveAtProperties
<1>3. \A j \in 1 .. Len(t) : old(j) \in 1 .. Len(s) /\ old(j) # k /\ t[j] = s[old(j)]
  BY <1>1, <1>2
<1>4. \A i, j \in 1 .. Len(t) : /\ old(i) = old(j) => i = j
                                /\ old(i) < old(j) => i < j
  BY <1>1, <1>2
<1>5. ASSUME NEW i \in 1 .. Len(s), i # k
      PROVE  \E j \in 1 .. Len(t) : old(j) = i
  <2>1. CASE i < k
    <3>1. i \in 1 .. Len(t) /\ old(i) = i
      BY <1>1, <1>2, <2>1
    <3> QED
      BY <3>1
  <2>2. CASE i > k
    <3>1. i - 1 \in 1 .. Len(t) /\ old(i - 1) = i
      BY <1>1, <1>2, <2>2
    <3> QED
      BY <3>1
  <2> QED
    BY <1>1, <1>5, <2>1, <2>2
<1> HIDE DEF old
<1>6. Once(t)
  BY <1>3, <1>4 DEF Once
<1>7. ASSUME NEW x
      PROVE  Has(t, x) <=> Has(s, x) /\ x # s[k]
  <2>1. ASSUME Has(t, x) PROVE Has(s, x) /\ x # s[k]
    BY <1>3, <2>1 DEF Has, Once
  <2>2. ASSUME Has(s, x), x # s[k] PROVE Has(t, x)
    <3>1. PICK i \in 1 .. Len(s) : s[i] = x
      BY <2>2 DEF Has
    <3>2. PICK j \in 1 .. Len(t) : old(j) = i
      BY <1>5, <2>2, <3>1
    <3> QED
      BY <1>3, <3>1, <3>2 DEF Has
  <2> QED
    BY <2>1, <2>2
<1>8. \A x, y : Before(s, x, y) => Before(t, x, y)
  BY <1>3, <1>4 DEF Before
<1> QED
  BY <1>2, <1>6, <1>7, <1>8

-----------------------------------------------------------------------------
PayloadPcs ==
    {"unborn", "scheduled", "waiting", "writing", "sleeping", "accepted", "refused", "dropped"}
PollPcs == {"none", "subscribing", "idle", "waiting", "writing", "leaving"}

Pcs == PayloadPcs \cup PollPcs

LockType ==
    /\ pc \in [Users -> Pcs]
    /\ on \in [Users -> 0 .. MaxConns]
    /\ holder \in [Conns -> Users \cup {None}]
    /\ waiters \in [Conns -> Seq(Users)]

WritesType ==
    /\ LockType
    /\ tries \in [Payloads -> Nat]
    /\ conns \in 0 .. MaxConns /\ client \in {0, conns} /\ link \in {0, conns}
    /\ device \in Seq(Payloads)

(* The lock of each connection: its queue is that of the users that wait   *)
(* to write through it, each of them once.                                 *)
LockInv ==
    /\ \A c \in Conns : Once(waiters[c])
    /\ \A c \in Conns : \A u \in Users : Has(waiters[c], u) <=> pc[u] = "waiting" /\ on[u] = c
    /\ WritesSerialised

(* Who is at work has a connection to work on.                             *)
AtWork == {"scheduled", "waiting", "writing", "sleeping", "subscribing", "idle", "leaving"}

WorkInv == \A u \in Users : pc[u] \in AtWork => on[u] \in Conns

(* Payloads are born in the order of their numbers, on no earlier          *)
(* connection than those before them.                                      *)
BirthInv ==
    /\ \E k \in 1 .. MaxPayloads + 1 : \A p \in Payloads : pc[p] = "unborn" <=> p >= k
    /\ \A p \in Payloads : pc[p] = "unborn" => on[p] = 0
    /\ \A p \in Payloads : on[p] <= conns
    /\ \A p, q \in Payloads : p < q /\ on[p] # 0 /\ on[q] # 0 => on[p] <= on[q]

LineInv == WritesType /\ LockInv /\ WorkInv /\ BirthInv

(* Still at its first attempt: nobody born later, on the same connection,  *)
(* has come past it.                                                       *)
Ahead(p) == \/ pc[p] = "scheduled"
            \/ tries[p] = 1 /\ pc[p] \in {"waiting", "writing"}

Behind(p, q) ==
    /\ tries[q] <= 1 /\ ~Has(device, q)
    /\ \/ pc[q] = "scheduled"
       \/ pc[q] = "waiting" /\ pc[p] = "writing"
       \/ pc[q] = "waiting" /\ pc[p] = "waiting" /\ Before(waiters[on[p]], p, q)

TriesInv ==
    /\ \A p \in Payloads : pc[p] \in {"unborn", "scheduled"} => tries[p] = 0
    /\ \A p \in Payloads : pc[p] \in {"waiting", "writing", "sleeping"} => tries[p] >= 1
    /\ \A p \in Payloads : Has(device, p) => on[p] # 0 /\ pc[p] \notin {"unborn", "scheduled"}

OrderInv ==
    \A p, q \in Payloads : p < q /\ Ahead(p) /\ on[p] = on[q] => Behind(p, q)

WritesInv == LineInv /\ TriesInv /\ OrderInv /\ OvertakenOnlyByRetry
-----------------------------------------------------------------------------
LEMMA Names == /\ Poll \in Users /\ Poll \notin Payloads /\ None \notin Users
               /\ Payloads \subseteq Users /\ Payloads \subseteq Nat
               /\ Conns \subseteq Nat /\ 0 \notin Conns /\ Conns \subseteq 0 .. MaxConns
BY WritesAssumption DEF Users, Payloads, Conns

(* The operations on the lock.  Each keeps the order of those who wait.    *)
OnLock == {"waiting", "writing"}

OrderOfWaiting ==
    \A d \in Conns : \A q, r \in Users :
        q # r /\ pc[q] \in OnLock /\ Before(waiters[d], q, r) => Before(waiters'[d], q, r)

LEMMA AcquireLock ==
    ASSUME LockType, LockInv, NEW u \in Users, NEW c \in Conns,
           on[u] = c, pc[u] \notin OnLock, Acquire(u, c), on' = on
    PROVE  /\ LockType' /\ LockInv' /\ OrderOfWaiting
           /\ pc'[u] \in OnLock /\ \A q \in Users : q # u => pc'[q] = pc[q]
           /\ \A q \in Users : on[q] = c /\ pc[q] \in OnLock =>
                 pc'[u] = "waiting" /\ Before(waiters'[c], q, u)
<1> USE Names DEF LockType, OnLock
<1>1. ~Has(waiters[c], u)
  BY DEF LockInv
<1>2. CASE holder[c] = None
  <2>1. /\ holder' = [holder EXCEPT ![c] = u] /\ waiters' = waiters /\ waiters[c] = <<>>
        /\ pc' = [pc EXCEPT ![u] = "writing"]
    BY <1>2 DEF Acquire, LockInv, WritesSerialised
  <2>2. \A q \in Users : ~(on[q] = c /\ pc[q] \in OnLock)
    BY <1>2, <2>1, EmptyQueue DEF LockInv, WritesSerialised
  <2>3. LockType'
    BY <2>1 DEF Pcs, PayloadPcs
  <2>4. WritesSerialised'
    BY <2>1, <2>2 DEF LockInv, WritesSerialised
  <2>5. LockInv'
    BY <2>1, <2>2, <2>4 DEF LockInv
  <2> QED
    BY <2>1, <2>2, <2>3, <2>5 DEF OrderOfWaiting
<1>3. CASE holder[c] # None
  <2> DEFINE t == Append(waiters[c], u)
  <2>1. /\ holder' = holder /\ waiters' = [waiters EXCEPT ![c] = t]
        /\ pc' = [pc EXCEPT ![u] = "waiting"]
    BY <1>3 DEF Acquire
  <2>2. /\ t \in Seq(Users) /\ Once(t)
        /\ \A x : Has(t, x) <=> Has(waiters[c], x) \/ x = u
        /\ \A x, y : x # u /\ (y = u \/ Before(waiters[c], x, y)) => Before(t, x, y)
    <3>1. waiters[c] \in Seq(Users) /\ Once(waiters[c])
      BY DEF LockInv
    <3>2. t = Append(waiters[c], u)
      OBVIOUS
    <3> HIDE DEF t, LockType, OnLock
    <3> QED
      <4>1. t \in Seq(Users) /\ Once(t)
        BY <1>1, <3>1, <3>2, JoinQueue
      <4>2. \A x : Has(t, x) <=> Has(waiters[c], x) \/ x = u
        BY <1>1, <3>1, <3>2, JoinQueue
      <4>3. \A x, y : x # u /\ (y = u \/ Before(waiters[c], x, y)) => Before(t, x, y)
        BY <1>1, <3>1, <3>2, JoinQueue
      <4> QED
        BY <4>1, <4>2, <4>3
  <2> HIDE DEF t
  <2>3. LockType'
    BY <2>1, <2>2 DEF Pcs, PayloadPcs
  <2>4. WritesSerialised'
    BY <1>3, <2>1 DEF LockInv, WritesSerialised
  <2>5. LockInv'
    BY <2>1, <2>2, <2>4 DEF LockInv
  <2>6. OrderOfWaiting
    BY <2>1, <2>2 DEF OrderOfWaiting
  <2> QED
    BY <2>1, <2>2, <2>3, <2>5, <2>6
<1> QED
  BY <1>2, <1>3

LEMMA ReleaseLock ==
    ASSUME LockType, LockInv, WorkInv, NEW u \in Users, NEW next \in Pcs \ OnLock,
           pc[u] = "writing", Release(u, next), on' = on
    PROVE  /\ LockType' /\ LockInv' /\ OrderOfWaiting
           /\ pc'[u] = next
           /\ \A q \in Users : q # u /\ pc'[q] # pc[q] =>
                 /\ pc[q] = "waiting" /\ pc'[q] = "writing" /\ on[q] = on[u]
                 /\ \A r \in Users : pc[r] = "waiting" /\ on[r] = on[u] =>
                       ~Before(waiters[on[u]], r, q)
<1> USE Names DEF LockType, OnLock
<1> DEFINE c == on[u]
<1>1. c \in Conns /\ holder[c] = u
  BY DEF WorkInv, AtWork, LockInv, WritesSerialised
<1>2. \A q \in Users : pc[q] = "writing" /\ on[q] = c => q = u
  BY <1>1 DEF LockInv, WritesSerialised
<1>3. CASE waiters[c] = <<>>
  <2>1. /\ holder' = [holder EXCEPT ![c] = None] /\ waiters' = waiters
        /\ pc' = [pc EXCEPT ![u] = next]
    BY <1>3 DEF Release
  <2>2. \A q \in Users : ~(pc[q] = "waiting" /\ on[q] = c)
    BY <1>1, <1>3, EmptyQueue DEF LockInv
  <2>3. WritesSerialised'
    BY <1>1, <1>2, <1>3, <2>1 DEF LockInv, WritesSerialised
  <2> QED
    BY <1>1, <2>1, <2>2, <2>3 DEF LockInv, OrderOfWaiting
<1>4. CASE waiters[c] # <<>>
  <2> DEFINE h == Head(waiters[c])
             t == Tail(waiters[c])
  <2>1. /\ holder' = [holder EXCEPT ![c] = h] /\ waiters' = [waiters EXCEPT ![c] = t]
        /\ pc' = [pc EXCEPT ![u] = next, ![h] = "writing"]
    BY <1>4 DEF Release
  <2>2. /\ h \in Users /\ Has(waiters[c], h)
        /\ t \in Seq(Users) /\ Once(t)
        /\ \A x : Has(t, x) <=> Has(waiters[c], x) /\ x # h
        /\ \A x, y : Before(waiters[c], x, y) => Before(t, x, y)
        /\ \A x : Has(waiters[c], x) => ~Before(waiters[c], x, h)
    <3>1. waiters[c] \in Seq(Users) /\ Once(waiters[c])
      BY <1>1 DEF LockInv
    <3> HIDE DEF c
    <3> QED
      BY <1>4, <3>1, ServeQueue
  <2> HIDE DEF h, t
  <2>3. pc[h] = "waiting" /\ on[h] = c /\ h # u
    BY <1>1, <2>2 DEF LockInv
  <2>4. \A q \in Users : pc'[q] = IF q = h THEN "writing" ELSE IF q = u THEN next ELSE pc[q]
    BY <2>1, <2>2
  <2>5. LockType'
    BY <1>1, <2>1, <2>2 DEF Pcs, PayloadPcs
  <2>6. WritesSerialised'
    <3>1. \A d \in Conns : holder'[d] = IF d = c THEN h ELSE holder[d]
      BY <1>1, <2>1
    <3>2. \A q \in Users : pc'[q] = "writing" => holder'[on[q]] = q
      BY <1>1, <1>2, <2>2, <2>3, <2>4, <3>1 DEF LockInv, WritesSerialised, WorkInv, AtWork
    <3>3. \A d \in Conns : holder'[d] # None => pc'[holder'[d]] = "writing" /\ on[holder'[d]] = d
      <4> SUFFICES ASSUME NEW d \in Conns, holder'[d] # None
                   PROVE  pc'[holder'[d]] = "writing" /\ on[holder'[d]] = d
        OBVIOUS
      <4>1. CASE d = c
        BY <2>2, <2>3, <2>4, <3>1, <4>1
      <4>2. CASE d # c
        <5>1. /\ holder'[d] = holder[d] /\ holder[d] \in Users
              /\ pc[holder[d]] = "writing" /\ on[holder[d]] = d
          BY <3>1, <4>2 DEF LockInv, WritesSerialised
        <5>2. holder[d] # h /\ holder[d] # u
          BY <2>3, <4>2, <5>1
        <5> QED
          BY <2>4, <5>1, <5>2
      <4> QED
        BY <4>1, <4>2
    <3>4. \A d \in Conns : holder'[d] = None => waiters'[d] = <<>>
      BY <1>1, <2>1, <2>2, <3>1 DEF LockInv, WritesSerialised
    <3> QED
      BY <3>2, <3>3, <3>4 DEF WritesSerialised
  <2>7. \A d \in Conns : Once(waiters'[d])
    BY <1>1, <2>1, <2>2 DEF LockInv
  <2>8. \A d \in Conns : \A q \in Users : Has(waiters'[d], q) <=> pc'[q] = "waiting" /\ on'[q] = d
    BY <1>1, <2>1, <2>2, <2>3, <2>4 DEF LockInv
  <2>9. OrderOfWaiting
    BY <1>1, <2>1, <2>2 DEF OrderOfWaiting
  <2>10. \A r \in Users : pc[r] = "waiting" /\ on[r] = c => ~Before(waiters[c], r, h)
    BY <1>1, <2>2 DEF LockInv
  <2> QED
    BY <2>3, <2>4, <2>5, <2>6, <2>7, <2>8, <2>9, <2>10 DEF LockInv
<1> QED
  BY <1>3, <1>4

LEMMA GiveUpLock ==
    ASSUME LockType, LockInv, WorkInv, NEW u \in Users, NEW next \in Pcs \ OnLock,
           pc[u] = "waiting", GiveUpWaiting(u, next), on' = on
    PROVE  /\ LockType' /\ LockInv' /\ OrderOfWaiting
           /\ pc' = [pc EXCEPT ![u] = next]
<1> USE Names DEF LockType, OnLock
<1> DEFINE c == on[u]
<1>1. c \in Conns
  BY DEF WorkInv, AtWork
<1>2. PICK i \in 1 .. Len(waiters[c]) :
          waiters[c][i] = u /\ waiters' = [waiters EXCEPT ![c] = RemoveAt(@, i)]
  BY DEF GiveUpWaiting
<1> DEFINE t == RemoveAt(waiters[c], i)
<1>3. /\ waiters' = [waiters EXCEPT ![c] = t] /\ holder' = holder
      /\ pc' = [pc EXCEPT ![u] = next]
  BY <1>2 DEF GiveUpWaiting
<1>4. /\ t \in Seq(Users) /\ Once(t)
      /\ \A x : Has(t, x) <=> Has(waiters[c], x) /\ x # u
      /\ \A x, y : Before(waiters[c], x, y) => Before(t, x, y)
  BY <1>1, <1>2, LeaveFromMiddle DEF LockInv
<1> HIDE DEF t
<1>5. holder[c] # None
  <2>1. Has(waiters[c], u)
    BY <1>1 DEF LockInv
  <2> QED
    BY <1>1, <2>1, EmptyQueue DEF LockInv, WritesSerialised
<1>6. WritesSerialised'
  BY <1>1, <1>3, <1>5 DEF LockInv, WritesSerialised
<1>7. LockInv'
  BY <1>1, <1>3, <1>4, <1>6 DEF LockInv
<1>8. OrderOfWaiting
  BY <1>1, <1>3, <1>4 DEF OrderOfWaiting
<1> QED
  BY <1>1, <1>3, <1>4, <1>7, <1>8

LEMMA KeepLock ==
    ASSUME LockType, LockInv, pc' \in [Users -> Pcs], on' \in [Users -> 0 .. MaxConns],
           \A q \in Users : pc[q] \in OnLock \/ pc'[q] \in OnLock =>
              pc'[q] = pc[q] /\ on'[q] = on[q],
           UNCHANGED lock
    PROVE  LockType' /\ LockInv' /\ OrderOfWaiting
<1>1. waiters' = waiters /\ holder' = holder
  BY DEF lock
<1>2. \A c \in Conns : holder[c] # None => holder[c] \in Users
  BY DEF LockType
<1>3. WritesSerialised'
  BY <1>1, <1>2 DEF LockInv, WritesSerialised, OnLock
<1>4. \A c \in Conns : \A q \in Users : Has(waiters'[c], q) <=> pc'[q] = "waiting" /\ on'[q] = c
  BY <1>1 DEF LockInv, OnLock
<1> QED
  BY <1>1, <1>3, <1>4 DEF LockInv, LockType, OrderOfWaiting

-----------------------------------------------------------------------------
(* What steps that are not about births and orders leave as it was.        *)
LEMMA KeepBirth ==
    ASSUME WritesType, BirthInv, conns' \in Nat, conns <= conns',
           \A p \in Payloads : on'[p] = on[p] /\ (pc'[p] = "unborn" <=> pc[p] = "unborn")
    PROVE  BirthInv'
<1>1. \A p \in Payloads : on[p] \in Nat
  BY Names DEF WritesType, LockType
<1>2. conns \in Nat
  BY DEF WritesType
<1> QED
  BY <1>1, <1>2 DEF BirthInv

LEMMA KeepOrder ==
    ASSUME WritesType, TriesInv, OrderInv, OvertakenOnlyByRetry, WorkInv, OrderOfWaiting,
           \A p \in Payloads : pc'[p] = pc[p] /\ on'[p] = on[p],
           UNCHANGED <<tries, device>>
    PROVE  TriesInv' /\ OrderInv' /\ OvertakenOnlyByRetry'
<1>1. TriesInv'
  BY DEF TriesInv
<1>2. OvertakenOnlyByRetry'
  BY DEF OvertakenOnlyByRetry
<1>3. ASSUME NEW p \in Payloads, NEW q \in Payloads, p < q, Ahead(p)', on'[p] = on'[q]
      PROVE  Behind(p, q)'
  <2>1. Ahead(p) /\ Behind(p, q)
    BY <1>3 DEF Ahead, OrderInv
  <2>2. p \in Users /\ q \in Users /\ p # q
    BY <1>3, Names
  <2>3. pc[p] = "waiting" => on[p] \in Conns
    BY <2>2 DEF WorkInv, AtWork
  <2> QED
    BY <2>1, <2>2, <2>3 DEF Behind, OrderOfWaiting, OnLock
<1> QED
  BY <1>1, <1>2, <1>3 DEF OrderInv

-----------------------------------------------------------------------------
(* The steps of the polls: they take the lock and give it up among the     *)
(* payloads, whose order they do not disturb.                              *)
LEMMA PollOnly ==
    ASSUME WritesInv, LockType', LockInv', OrderOfWaiting,
           \A p \in Payloads : pc'[p] = pc[p],
           pc'[Poll] \in AtWork => pc[Poll] \in AtWork,
           UNCHANGED <<on, tries, conns, link, device>>, client' \in {0, client}
    PROVE  WritesInv'
<1> USE Names
<1>1. WorkInv'
  BY DEF WritesInv, LineInv, WorkInv, Users
<1>2. WritesType'
  BY DEF WritesInv, LineInv, WritesType
<1>3. BirthInv'
  BY KeepBirth DEF WritesInv, LineInv, WritesType
<1> QED
  BY <1>1, <1>2, <1>3, KeepOrder DEF WritesInv, LineInv

(* Whoever gives the lock back may hand it to a payload.                   *)
LEMMA Handover ==
    ASSUME WritesInv, NEW u \in Users, NEW next \in Pcs \ OnLock,
           next \notin {"unborn", "scheduled"},
           pc[u] = "writing", Release(u, next),
           UNCHANGED <<on, tries, conns, link, device>>, client' \in {0, client}
    PROVE  WritesInv'
<1> USE Names
<1>1. /\ LockType' /\ LockInv' /\ OrderOfWaiting
      /\ pc'[u] = next
      /\ \A q \in Users : q # u /\ pc'[q] # pc[q] =>
            /\ pc[q] = "waiting" /\ pc'[q] = "writing" /\ on[q] = on[u]
            /\ \A r \in Users : pc[r] = "waiting" /\ on[r] = on[u] =>
                  ~Before(waiters[on[u]], r, q)
  BY ReleaseLock DEF WritesInv, LineInv, WritesType
<1>2. WorkInv'
  BY <1>1 DEF WritesInv, LineInv, WorkInv, AtWork
<1>3. WritesType'
  BY <1>1 DEF WritesInv, LineInv, WritesType
<1>4. BirthInv'
  BY <1>1, KeepBirth DEF WritesInv, LineInv, WritesType
<1>5. TriesInv'
  BY <1>1 DEF WritesInv, TriesInv
<1>6. ASSUME NEW p \in Payloads, NEW q \in Payloads, p < q, Ahead(p)', on'[p] = on'[q]
      PROVE  Behind(p, q)'
  <2>1. p # u /\ Ahead(p) /\ (pc'[p] # pc[p] => pc[p] = "waiting" /\ pc'[p] = "writing")
    BY <1>1, <1>6 DEF Ahead, OnLock
  <2>2. Behind(p, q) /\ on[p] = on[q] /\ p # q
    BY <1>6, <2>1 DEF WritesInv, OrderInv
  <2>3. pc[q] # "writing" /\ q # u
    BY <2>2 DEF Behind
  <2>4. CASE pc[q] = "scheduled"
    <3>1. pc'[q] = "scheduled"
      BY <1>1, <2>3, <2>4
    <3> QED
      BY <2>2, <3>1 DEF Behind
  <2>5. CASE pc[q] = "waiting" /\ pc[p] = "writing"
    <3>1. on[p] # on[u]
      BY <2>1, <2>5 DEF WritesInv, LineInv, LockInv, WritesSerialised
    <3>2. pc'[q] = "waiting" /\ pc'[p] = "writing"
      BY <1>1, <2>1, <2>2, <2>3, <2>5, <3>1
    <3> QED
      BY <2>2, <3>2 DEF Behind
  <2>6. CASE pc[q] = "waiting" /\ pc[p] = "waiting" /\ Before(waiters[on[p]], p, q)
    <3>1. pc'[q] = "waiting"
      BY <1>1, <2>2, <2>3, <2>6
    <3>2. on[p] \in Conns
      BY <2>6 DEF WritesInv, LineInv, WorkInv, AtWork
    <3>3. Before(waiters'[on[p]], p, q)
      BY <1>1, <2>2, <2>6, <3>2 DEF OrderOfWaiting, OnLock
    <3> QED
      BY <2>1, <2>2, <2>6, <3>1, <3>3 DEF Behind
  <2> QED
    BY <2>2, <2>3, <2>4, <2>5, <2>6 DEF Behind
<1>7. OvertakenOnlyByRetry'
  BY DEF WritesInv, OvertakenOnlyByRetry
<1> QED
  BY <1>1, <1>2, <1>3, <1>4, <1>5, <1>6, <1>7 DEF WritesInv, LineInv, OrderInv

LEMMA PollSteps ==
    ASSUME WritesInv,
           \/ Connects \/ Subscribes \/ PollStarts \/ Maintain
    PROVE  WritesInv'
<1> USE Names
<1>0. WritesType /\ LockType /\ LockInv /\ WorkInv /\ BirthInv /\ TriesInv /\ OrderInv
      /\ OvertakenOnlyByRetry
  BY DEF WritesInv, LineInv, WritesType
<1>1. CASE Connects
  <2>1. /\ pc' = [pc EXCEPT ![Poll] = "subscribing"] /\ pc[Poll] = "none"
        /\ on' = [on EXCEPT ![Poll] = conns + 1]
        /\ conns' = conns + 1 /\ link' = conns + 1 /\ client' = conns + 1
        /\ conns < MaxConns /\ UNCHANGED <<tries, lock, device>>
    BY <1>1 DEF Connects
  <2>2. conns + 1 \in Conns /\ conns \in Nat /\ conns + 1 \in Nat /\ conns <= conns + 1
    BY <1>0, <2>1, WritesAssumption DEF WritesType, Conns
  <2>3. LockType' /\ LockInv' /\ OrderOfWaiting
    <3>1. pc' \in [Users -> Pcs] /\ on' \in [Users -> 0 .. MaxConns]
      BY <1>0, <2>1, <2>2 DEF LockType, Pcs, PollPcs
    <3>2. \A q \in Users : pc[q] \in OnLock \/ pc'[q] \in OnLock =>
             pc'[q] = pc[q] /\ on'[q] = on[q]
      BY <1>0, <2>1 DEF LockType, OnLock
    <3> QED
      BY <1>0, <2>1, <3>1, <3>2, KeepLock
  <2>4. \A p \in Payloads : pc'[p] = pc[p] /\ on'[p] = on[p]
    BY <1>0, <2>1 DEF LockType
  <2>5. WorkInv'
    BY <1>0, <2>1, <2>2 DEF LockType, WorkInv
  <2>6. WritesType'
    BY <1>0, <2>1, <2>2, <2>3 DEF WritesType
  <2>7. BirthInv'
    BY <1>0, <2>1, <2>2, <2>4, KeepBirth
  <2> QED
    BY <1>0, <2>1, <2>3, <2>4, <2>5, <2>6, <2>7, KeepOrder DEF WritesInv, LineInv
<1>2. CASE Subscribes
  <2>1. /\ pc' = [pc EXCEPT ![Poll] = "idle"] /\ pc[Poll] = "subscribing"
        /\ UNCHANGED <<on, tries, client, link, conns, lock, device>>
    BY <1>2 DEF Subscribes, radio
  <2>2. pc' \in [Users -> Pcs]
    BY <1>0, <2>1 DEF LockType, Pcs, PollPcs
  <2>3. LockType' /\ LockInv' /\ OrderOfWaiting
    BY <1>0, <2>1, <2>2, KeepLock DEF LockType, OnLock
  <2> QED
    BY <1>0, <2>1, <2>3, PollOnly DEF LockType, AtWork
<1>3. CASE PollStarts
  <2>1. /\ pc[Poll] = "idle" /\ Acquire(Poll, on[Poll])
        /\ UNCHANGED <<on, tries, client, link, conns, device>>
    BY <1>3 DEF PollStarts, radio
  <2>2. on[Poll] \in Conns
    BY <1>0, <2>1 DEF WorkInv, AtWork
  <2>3. /\ LockType' /\ LockInv' /\ OrderOfWaiting
        /\ \A q \in Users : q # Poll => pc'[q] = pc[q]
    BY <1>0, <2>1, <2>2, AcquireLock DEF OnLock
  <2> QED
    BY <2>1, <2>3, PollOnly DEF AtWork
<1>4. CASE PollReturns
  BY <1>4, Handover DEF PollReturns, OnLock, Pcs, PollPcs, radio
<1>5. CASE PollRaises
  BY <1>5, Handover DEF PollRaises, Leaves, OnLock, Pcs, PollPcs
<1>6. CASE HoldEnds
  <2>1. /\ pc' = [pc EXCEPT ![Poll] = "leaving"] /\ pc[Poll] \in {"idle", "subscribing"}
        /\ client' = 0 /\ UNCHANGED <<on, tries, link, conns, lock, device>>
    BY <1>6 DEF HoldEnds, Leaves
  <2>2. pc' \in [Users -> Pcs]
    BY <1>0, <2>1 DEF LockType, Pcs, PollPcs
  <2>3. LockType' /\ LockInv' /\ OrderOfWaiting
    BY <1>0, <2>1, <2>2, KeepLock DEF LockType, OnLock
  <2> QED
    BY <1>0, <2>1, <2>3, PollOnly DEF LockType, AtWork
<1>7. CASE PollCancelled
  <2>1. CASE pc[Poll] = "writing" /\ Release(Poll, "leaving")
    BY <1>7, <2>1, Handover DEF PollCancelled, Leaves, OnLock, Pcs, PollPcs
  <2>2. CASE pc[Poll] = "waiting" /\ GiveUpWaiting(Poll, "leaving")
    <3>1. client' = 0 /\ UNCHANGED <<on, tries, link, conns, device>>
      BY <1>7 DEF PollCancelled, Leaves
    <3>2. "leaving" \in Pcs \ OnLock
      BY DEF OnLock, Pcs, PollPcs
    <3>3. /\ LockType' /\ LockInv' /\ OrderOfWaiting
          /\ pc' = [pc EXCEPT ![Poll] = "leaving"]
      BY <1>0, <2>2, <3>1, <3>2, GiveUpLock
    <3> QED
      BY <1>0, <2>2, <3>1, <3>3, PollOnly DEF LockType, AtWork
  <2> QED
    BY <1>7, <2>1, <2>2 DEF PollCancelled
<1>8. CASE Disconnects
  <2>1. /\ pc' = [pc EXCEPT ![Poll] = "none"] /\ pc[Poll] = "leaving"
        /\ on' = [on EXCEPT ![Poll] = 0] /\ link' = 0
        /\ UNCHANGED <<tries, client, conns, lock, device>>
    BY <1>8 DEF Disconnects
  <2>2. LockType' /\ LockInv' /\ OrderOfWaiting
    <3>1. pc' \in [Users -> Pcs] /\ on' \in [Users -> 0 .. MaxConns]
      BY <1>0, <2>1, WritesAssumption DEF LockType, Pcs, PollPcs
    <3>2. \A q \in Users : pc[q] \in OnLock \/ pc'[q] \in OnLock =>
             pc'[q] = pc[q] /\ on'[q] = on[q]
      BY <1>0, <2>1 DEF LockType, OnLock
    <3> QED
      BY <1>0, <2>1, <3>1, <3>2, KeepLock
  <2>3. \A p \in Payloads : pc'[p] = pc[p] /\ on'[p] = on[p]
    BY <1>0, <2>1 DEF LockType
  <2>4. WorkInv'
    BY <1>0, <2>1 DEF LockType, WorkInv, AtWork
  <2>5. WritesType'
    BY <1>0, <2>1, <2>2 DEF WritesType
  <2>6. BirthInv'
    BY <1>0, <2>1, <2>3, KeepBirth DEF WritesType
  <2> QED
    BY <1>0, <2>1, <2>2, <2>3, <2>4, <2>5, <2>6, KeepOrder DEF WritesInv, LineInv
<1> QED
  BY <1>1, <1>2, <1>3, <1>4, <1>5, <1>6, <1>7, <1>8 DEF Maintain

-----------------------------------------------------------------------------
(* The steps of the payloads.  A command's are born behind all the others. *)
LEMMA BirthStep ==
    ASSUME WritesInv, NEW n \in Payloads, RunCommand(n)
    PROVE  WritesInv'
<1> USE Names
<1>0. WritesType /\ LockType /\ LockInv /\ WorkInv /\ BirthInv /\ TriesInv /\ OrderInv
      /\ OvertakenOnlyByRetry
  BY DEF WritesInv, LineInv, WritesType
<1> DEFINE first == MaxPayloads - Cardinality(Unborn) + 1
           born == first .. first + n - 1
<1>1. PICK k \in 1 .. MaxPayloads + 1 : \A p \in Payloads : pc[p] = "unborn" <=> p >= k
  BY <1>0 DEF BirthInv
<1>2. MaxPayloads \in Nat /\ k \in Nat /\ n \in Nat /\ n >= 1
  BY WritesAssumption DEF Payloads
<1>3. Cardinality(Unborn) = MaxPayloads - k + 1
  <2>1. Unborn = k .. MaxPayloads
    BY <1>1, <1>2 DEF Unborn, Payloads
  <2>2. Cardinality(k .. MaxPayloads) = IF k > MaxPayloads THEN 0 ELSE MaxPayloads - k + 1
    BY <1>2, FS_Interval
  <2> QED
    BY <1>2, <2>1, <2>2
<1>4. first = k
  BY <1>2, <1>3
<1>5. /\ n <= Cardinality(Unborn)
      /\ pc' = [u \in Users |-> IF u \notin born THEN pc[u]
                                ELSE IF client = 0 THEN "dropped" ELSE "scheduled"]
      /\ on' = [u \in Users |-> IF u \in born THEN client ELSE on[u]]
      /\ UNCHANGED <<tries, client, link, conns, lock, device>>
  BY DEF RunCommand, radio
<1>6. /\ k + n \in 1 .. MaxPayloads + 1
      /\ \A p \in Payloads : p \in born <=> p >= k /\ p < k + n
      /\ Poll \notin born
  <2>1. born \subseteq Nat
    BY <1>2, <1>4
  <2> QED
    BY <1>2, <1>3, <1>4, <1>5, <2>1, WritesAssumption DEF Payloads
<1> HIDE DEF first, born
<1>7. \A p \in Payloads : p \in born => pc[p] = "unborn" /\ on[p] = 0 /\ tries[p] = 0 /\ ~Has(device, p)
  BY <1>0, <1>1, <1>6 DEF BirthInv, TriesInv
<1>8. /\ \A u \in Users : u \notin born => pc'[u] = pc[u] /\ on'[u] = on[u]
      /\ \A p \in Payloads : p \in born =>
            on'[p] = client /\ pc'[p] = IF client = 0 THEN "dropped" ELSE "scheduled"
  BY <1>5
<1>9. \A u \in Users : u \in born => u \in Payloads
  BY <1>6 DEF Users
<1>10. client \in 0 .. MaxConns /\ client <= conns /\ conns \in Nat /\ client \in Nat
       /\ (client # 0 => client \in Conns /\ client = conns)
  BY <1>0, WritesAssumption DEF WritesType, Conns
<1>11. LockType' /\ LockInv' /\ OrderOfWaiting
  <2>1. pc' \in [Users -> Pcs] /\ on' \in [Users -> 0 .. MaxConns]
    BY <1>0, <1>5, <1>10 DEF LockType, Pcs, PayloadPcs
  <2>2. \A q \in Users : pc[q] \in OnLock \/ pc'[q] \in OnLock => pc'[q] = pc[q] /\ on'[q] = on[q]
    BY <1>7, <1>8, <1>9 DEF OnLock
  <2> QED
    BY <1>0, <1>5, <2>1, <2>2, KeepLock
<1>12. WritesType'
  BY <1>0, <1>5, <1>11 DEF WritesType
<1>13. WorkInv'
  BY <1>0, <1>8, <1>9, <1>10 DEF WorkInv, AtWork
<1>14. BirthInv'
  <2>1. \A p \in Payloads : pc'[p] = "unborn" <=> p >= k + n
    BY <1>1, <1>2, <1>6, <1>8
  <2>2. \A p \in Payloads : pc'[p] = "unborn" => on'[p] = 0
    BY <1>0, <1>8 DEF BirthInv
  <2>3. \A p \in Payloads : on'[p] <= conns' /\ on[p] <= conns
    BY <1>0, <1>5, <1>8, <1>10 DEF BirthInv
  <2>4. ASSUME NEW p \in Payloads, NEW q \in Payloads, p < q, on'[p] # 0, on'[q] # 0
        PROVE  on'[p] <= on'[q]
    <3>1. CASE q \in born
      BY <1>5, <1>8, <1>10, <2>3, <2>4, <3>1
    <3>2. CASE q \notin born
      <4>1. on[q] # 0 /\ on'[q] = on[q]
        BY <1>8, <2>4, <3>2
      <4>2. pc[q] # "unborn"
        BY <1>0, <4>1 DEF BirthInv
      <4>3. p \notin born
        BY <1>1, <1>2, <1>6, <2>4, <4>2
      <4> QED
        BY <1>0, <1>8, <2>4, <4>1, <4>3 DEF BirthInv
    <3> QED
      BY <3>1, <3>2
  <2> QED
    BY <1>6, <2>1, <2>2, <2>3, <2>4 DEF BirthInv
<1>15. TriesInv'
  BY <1>0, <1>5, <1>7, <1>8 DEF TriesInv
<1>16. ASSUME NEW p \in Payloads, NEW q \in Payloads, p < q, Ahead(p)', on'[p] = on'[q]
       PROVE  Behind(p, q)'
  <2>1. on'[p] # 0
    BY <1>6, <1>13, <1>16 DEF WorkInv, AtWork, Ahead
  <2>2. CASE q \in born
    BY <1>5, <1>7, <1>8, <1>16, <2>1, <2>2 DEF Behind
  <2>3. CASE q \notin born
    <3>1. on[q] # 0 /\ on'[q] = on[q] /\ pc'[q] = pc[q]
      BY <1>8, <1>16, <2>1, <2>3
    <3>2. pc[q] # "unborn"
      BY <1>0, <3>1 DEF BirthInv
    <3>3. p \notin born
      BY <1>1, <1>2, <1>6, <1>16, <3>2
    <3>4. Ahead(p) /\ on[p] = on[q] /\ pc'[p] = pc[p] /\ on'[p] = on[p]
      BY <1>5, <1>8, <1>16, <3>1, <3>3 DEF Ahead
    <3> QED
      BY <1>0, <1>5, <1>16, <3>1, <3>4 DEF OrderInv, Behind, lock
  <2> QED
    BY <2>2, <2>3
<1>17. OvertakenOnlyByRetry'
  BY <1>0, <1>5 DEF OvertakenOnlyByRetry
<1> QED
  BY <1>11, <1>12, <1>13, <1>14, <1>15, <1>16, <1>17 DEF WritesInv, LineInv, OrderInv

(* An attempt begins: the first behind all that are older, a later one     *)
(* when none that is older is at its first.                                *)
LEMMA AttemptStep ==
    ASSUME WritesInv, NEW p0 \in Payloads, Starts(p0) \/ TriesAgain(p0)
    PROVE  WritesInv'
<1> USE Names
<1>0. WritesType /\ LockType /\ LockInv /\ WorkInv /\ BirthInv /\ TriesInv /\ OrderInv
      /\ OvertakenOnlyByRetry
  BY DEF WritesInv, LineInv, WritesType
<1>1. /\ pc[p0] \in {"scheduled", "sleeping"} /\ Acquire(p0, on[p0])
      /\ tries' = [tries EXCEPT ![p0] = tries[p0] + 1]
      /\ UNCHANGED <<on, client, link, conns, device>>
      /\ pc[p0] = "scheduled" => \A q \in Payloads : q < p0 => pc[q] # "scheduled"
  <2>1. CASE Starts(p0)
    <3>1. tries[p0] = 0
      BY <1>0, <2>1 DEF Starts, TriesInv
    <3> QED
      BY <2>1, <3>1 DEF Starts, radio
  <2>2. CASE TriesAgain(p0)
    BY <2>2 DEF TriesAgain, radio
  <2> QED
    BY <2>1, <2>2
<1> DEFINE c == on[p0]
<1>2. c \in Conns
  BY <1>0, <1>1 DEF WorkInv, AtWork
<1>3. /\ LockType' /\ LockInv' /\ OrderOfWaiting
      /\ pc'[p0] \in OnLock /\ \A q \in Users : q # p0 => pc'[q] = pc[q]
      /\ \A q \in Users : on[q] = c /\ pc[q] \in OnLock =>
            pc'[p0] = "waiting" /\ Before(waiters'[c], q, p0)
  BY <1>0, <1>1, <1>2, AcquireLock DEF OnLock
<1>4. /\ \A q \in Payloads : tries'[q] = IF q = p0 THEN tries[q] + 1 ELSE tries[q]
      /\ \A q \in Payloads : tries[q] \in Nat
  BY <1>0, <1>1 DEF WritesType
<1>5. WritesType'
  BY <1>0, <1>1, <1>3, <1>4 DEF WritesType
<1>6. WorkInv'
  BY <1>0, <1>1, <1>2, <1>3 DEF WorkInv
<1>7. BirthInv'
  <2>1. \A p \in Payloads : on'[p] = on[p] /\ (pc'[p] = "unborn" <=> pc[p] = "unborn")
    BY <1>1, <1>3 DEF OnLock
  <2>2. conns' \in Nat /\ conns <= conns'
    BY <1>0, <1>1 DEF WritesType
  <2> QED
    BY <1>0, <2>1, <2>2, KeepBirth
<1>8. TriesInv'
  BY <1>0, <1>1, <1>3, <1>4 DEF TriesInv, OnLock
<1>9. ASSUME NEW p \in Payloads, NEW q \in Payloads, p < q, Ahead(p)', on'[p] = on'[q]
      PROVE  Behind(p, q)'
  <2>1. p # q /\ on[p] = on[q] /\ p \in Nat /\ q \in Nat
    BY <1>1, <1>9
  <2>2. CASE p = p0
    <3>1. pc[p0] = "scheduled"
      BY <1>0, <1>1, <1>3, <1>4, <1>9, <2>2 DEF Ahead, OnLock, TriesInv
    <3>2. pc[q] = "scheduled" /\ tries[q] <= 1 /\ ~Has(device, q)
      BY <1>0, <1>9, <2>1, <2>2, <3>1 DEF OrderInv, Ahead, Behind
    <3> QED
      BY <1>1, <1>3, <1>4, <2>1, <2>2, <3>2 DEF Behind
  <2>3. CASE q = p0
    <3>1. Ahead(p) /\ pc'[p] = pc[p]
      BY <1>3, <1>4, <1>9, <2>1, <2>3 DEF Ahead
    <3>2. pc[p0] = "scheduled"
      BY <1>0, <1>1, <1>9, <2>1, <2>3, <3>1 DEF OrderInv, Behind
    <3>3. pc[p] \in OnLock
      BY <1>1, <1>9, <2>3, <3>1, <3>2 DEF Ahead, OnLock
    <3>4. pc'[p0] = "waiting" /\ Before(waiters'[c], p, p0)
      BY <1>3, <2>1, <2>3, <3>3
    <3>5. tries'[p0] <= 1 /\ ~Has(device, p0)
      BY <1>0, <1>4, <3>2 DEF TriesInv
    <3> QED
      BY <1>1, <2>1, <2>3, <3>1, <3>3, <3>4, <3>5 DEF Behind, OnLock
  <2>4. CASE p # p0 /\ q # p0
    <3>1. Ahead(p) /\ pc'[p] = pc[p] /\ pc'[q] = pc[q] /\ tries'[q] = tries[q]
      BY <1>3, <1>4, <1>9, <2>4 DEF Ahead
    <3>2. Behind(p, q)
      BY <1>0, <1>9, <2>1, <3>1 DEF OrderInv
    <3>3. pc[p] = "waiting" => on[p] \in Conns
      BY <1>0 DEF WorkInv, AtWork
    <3> QED
      BY <1>1, <1>3, <2>1, <3>1, <3>2, <3>3 DEF Behind, OrderOfWaiting, OnLock
  <2> QED
    BY <2>2, <2>3, <2>4
<1>10. OvertakenOnlyByRetry'
  <2>1. \A i \in 1 .. Len(device) : device[i] \in Payloads
    BY <1>0, ElementOfSeq DEF WritesType
  <2> QED
    BY <1>0, <1>1, <1>4, <2>1 DEF OvertakenOnlyByRetry
<1> QED
  BY <1>3, <1>5, <1>6, <1>7, <1>8, <1>9, <1>10 DEF WritesInv, LineInv, OrderInv

(* What is written reaches the device only through the newest connection,  *)
(* on which no payload at its first attempt has been passed.               *)
LEMMA ReachStep ==
    ASSUME WritesInv, NEW u \in Users, Reaches(u)
    PROVE  WritesInv'
<1> USE Names
<1>0. WritesType /\ LockType /\ LockInv /\ WorkInv /\ BirthInv /\ TriesInv /\ OrderInv
      /\ OvertakenOnlyByRetry
  BY DEF WritesInv, LineInv, WritesType
<1>1. /\ pc[u] = "writing" /\ link # 0 /\ link = on[u]
      /\ device' = IF u = Poll THEN device ELSE Append(device, u)
      /\ UNCHANGED <<pc, on, tries, client, link, conns, lock>>
  BY DEF Reaches, radio
<1>2. LockType' /\ LockInv' /\ OrderOfWaiting
  BY <1>0, <1>1, KeepLock DEF LockType
<1>3. WorkInv' /\ BirthInv'
  BY <1>0, <1>1 DEF WorkInv, BirthInv
<1>4. CASE u = Poll
  BY <1>0, <1>1, <1>2, <1>3, <1>4, KeepOrder DEF WritesInv, LineInv, WritesType
<1>5. CASE u \in Payloads
  <2>1. device' = Append(device, u) /\ device \in Seq(Payloads)
    BY <1>0, <1>1, <1>5 DEF WritesType
  <2>2. /\ device' \in Seq(Payloads) /\ Len(device') = Len(device) + 1
        /\ \A i \in 1 .. Len(device) : device'[i] = device[i]
        /\ device'[Len(device) + 1] = u /\ Len(device) \in Nat
    BY <1>5, <2>1, AppendProperties, LenProperties
  <2>3. \A i \in 1 .. Len(device') : i \in 1 .. Len(device) \/ i = Len(device) + 1
    BY <2>2
  <2>4. \A x : Has(device', x) => Has(device, x) \/ x = u
    BY <2>2, <2>3 DEF Has
  <2>5. WritesType'
    BY <1>0, <1>1, <1>2, <2>2 DEF WritesType
  <2>6. on[u] # 0 /\ on[u] \in Nat /\ on[u] = conns
    BY <1>0, <1>1, WritesAssumption DEF WritesType, LockType
  <2>7. TriesInv'
    BY <1>0, <1>1, <2>4, <2>6 DEF TriesInv
  <2>8. ASSUME NEW p \in Payloads, NEW q \in Payloads, p < q, Ahead(p)', on'[p] = on'[q]
        PROVE  Behind(p, q)'
    <3>1. Behind(p, q) /\ q # u
      BY <1>0, <1>1, <2>8 DEF OrderInv, Ahead, Behind
    <3> QED
      BY <1>1, <2>4, <3>1 DEF Behind, lock
  <2>9. ASSUME Ahead(u), NEW q \in Payloads, u < q, Has(device, q)
        PROVE  FALSE
    <3>1. on[q] # 0 /\ on[q] \in Nat
      BY <1>0, <2>9 DEF TriesInv, LockType
    <3>2. on[u] <= on[q] /\ on[q] <= conns
      BY <1>0, <1>5, <2>6, <2>9, <3>1 DEF BirthInv
    <3>3. on[u] = on[q]
      BY <2>6, <3>1, <3>2
    <3> QED
      BY <1>0, <1>5, <2>9, <3>3 DEF OrderInv, Behind
  <2>10. Ahead(u) \/ tries[u] > 1
    <3>1. tries[u] \in Nat /\ tries[u] >= 1
      BY <1>0, <1>1, <1>5 DEF WritesType, TriesInv
    <3> QED
      BY <1>1, <3>1 DEF Ahead
  <2>11. OvertakenOnlyByRetry'
    <3> SUFFICES ASSUME NEW i \in 1 .. Len(device'), NEW j \in 1 .. Len(device'),
                        i < j, device'[i] > device'[j]
                 PROVE  tries'[device'[j]] > 1
      BY DEF OvertakenOnlyByRetry
    <3>1. i \in 1 .. Len(device) /\ device'[i] = device[i] /\ device[i] \in Payloads
      BY <2>1, <2>2, <2>3, ElementOfSeq
    <3>2. CASE j \in 1 .. Len(device)
      BY <1>0, <1>1, <2>2, <3>1, <3>2 DEF OvertakenOnlyByRetry
    <3>3. CASE j = Len(device) + 1
      <4>1. u < device[i] /\ Has(device, device[i])
        BY <1>5, <2>2, <3>1, <3>3 DEF Has
      <4> QED
        BY <1>1, <2>2, <2>9, <2>10, <3>1, <3>3, <4>1
    <3> QED
      BY <2>3, <3>2, <3>3
  <2> QED
    BY <1>2, <1>3, <2>5, <2>7, <2>8, <2>11 DEF WritesInv, LineInv, OrderInv
<1> QED
  BY <1>4, <1>5 DEF Users

-----------------------------------------------------------------------------
LEMMA InitWritesInv == Init => WritesInv
<1> SUFFICES ASSUME Init PROVE WritesInv
  OBVIOUS
<1> USE Names DEF Init
<1>1. \A u \in Users : on[u] = 0 /\ pc[u] = IF u = Poll THEN "none" ELSE "unborn"
  OBVIOUS
<1>2. \A c \in Conns : waiters[c] = <<>> /\ holder[c] = None
  OBVIOUS
<1>3. WritesType
  BY EmptyQueue, EmptySeq, WritesAssumption
  DEF WritesType, LockType, Pcs, PollPcs, PayloadPcs
<1>4. LockInv
  <2>1. WritesSerialised
    BY <1>1, <1>2 DEF WritesSerialised
  <2> QED
    BY <1>1, <1>2, <2>1, EmptyQueue DEF LockInv
<1>5. WorkInv
  BY <1>1 DEF WorkInv, AtWork
<1>6. BirthInv
  <2>1. 1 \in 1 .. MaxPayloads + 1 /\ \A p \in Payloads : p >= 1 /\ pc[p] = "unborn"
    BY <1>1, WritesAssumption DEF Payloads
  <2>2. \E k \in 1 .. MaxPayloads + 1 : \A p \in Payloads : pc[p] = "unborn" <=> p >= k
    BY <2>1
  <2>3. conns = 0 /\ \A p \in Payloads : on[p] = 0
    BY <1>1
  <2>4. \A p \in Payloads : on[p] <= conns
    BY <2>3
  <2> HIDE DEF Init
  <2> QED
    BY <2>2, <2>3, <2>4 DEF BirthInv
<1>7. TriesInv /\ OrderInv
  BY <1>1, EmptyQueue DEF TriesInv, OrderInv, Ahead
<1>8. OvertakenOnlyByRetry
  BY EmptySeq DEF OvertakenOnlyByRetry
<1> QED
  BY <1>3, <1>4, <1>5, <1>6, <1>7, <1>8 DEF WritesInv, LineInv

LEMMA NextWritesInv == WritesInv /\ [Next]_vars => WritesInv'
<1> SUFFICES ASSUME WritesInv, [Next]_vars PROVE WritesInv'
  OBVIOUS
<1> USE Names
<1>0. WritesType /\ LockType /\ LockInv /\ WorkInv /\ BirthInv /\ TriesInv /\ OrderInv
      /\ OvertakenOnlyByRetry
  BY DEF WritesInv, LineInv, WritesType
<1>1. CASE \E n \in Payloads : RunCommand(n)
  BY <1>1, BirthStep
<1>2. CASE \E p \in Payloads : Writes(p)
  <2> PICK p \in Payloads : Writes(p)
    BY <1>2
  <2>1. CASE Starts(p) \/ TriesAgain(p)
    BY <2>1, AttemptStep
  <2>2. CASE WriteReturns(p)
    BY <2>2, Handover DEF WriteReturns, OnLock, Pcs, PayloadPcs, radio
  <2>3. CASE WriteRaises(p)
    <3>1. CASE MoreAttempts(p)
      BY <2>3, <3>1, Handover DEF WriteRaises, OnLock, Pcs, PayloadPcs, radio
    <3>2. CASE ~MoreAttempts(p)
      BY <2>3, <3>2, Handover DEF WriteRaises, OnLock, Pcs, PayloadPcs, radio
    <3> QED
      BY <3>1, <3>2
  <2> QED
    BY <2>1, <2>2, <2>3 DEF Writes
<1>3. CASE \E u \in Users : Reaches(u)
  BY <1>3, ReachStep
<1>4. CASE Connects \/ Subscribes \/ PollStarts \/ Maintain
  BY <1>4, PollSteps
<1>5. CASE LinkDrops \/ Stop \/ LoopStops \/ Stopped \/ UNCHANGED vars
  <2>1. link' \in {0, link} /\ UNCHANGED <<pc, on, tries, client, conns, lock, device>>
    BY <1>5 DEF LinkDrops, Stop, LoopStops, Stopped, vars, radio
  <2>2. LockType' /\ LockInv' /\ OrderOfWaiting
    BY <1>0, <2>1, KeepLock DEF LockType
  <2>3. WritesType' /\ WorkInv' /\ BirthInv'
    BY <1>0, <2>1, <2>2 DEF WritesType, WorkInv, BirthInv
  <2> QED
    BY <1>0, <2>1, <2>2, <2>3, KeepOrder DEF WritesInv, LineInv
<1> QED
  BY <1>1, <1>2, <1>3, <1>4, <1>5 DEF Next

LEMMA WritesInvHolds == Spec => []WritesInv
  BY InitWritesInv, NextWritesInv, PTL DEF Spec

(* Whoever writes holds the lock of its connection, and a lock nobody uses *)
(* is free, over failures, retries, cancelled polls and lost links         *)
(* (write_with_retry and _hold under _write_lock).                         *)
THEOREM WritesNeverOverlap == Spec => []WritesSerialised
<1>1. WritesInv => WritesSerialised
  BY DEF WritesInv, LineInv, LockInv
<1> QED
  BY <1>1, WritesInvHolds, PTL

(* A payload that is overtaken on its way to the device has had an attempt *)
(* refused (write_with_retry; characteristic_write_value schedules them in *)
(* order).                                                                 *)
THEOREM OnlyRetriesAreOvertaken == Spec => []OvertakenOnlyByRetry
<1>1. WritesInv => OvertakenOnlyByRetry
  BY DEF WritesInv
<1> QED
  BY <1>1, WritesInvHolds, PTL
=============================================================================

--------------------------- MODULE DeliveryProofs ---------------------------
(***************************************************************************)
(* What DataLogger remembers as sent, for any readings, any number of      *)
(* failures and a queue of any length: only what every sink accepted, and, *)
(* for a switch over any lost connections, what the broker shows.          *)
(***************************************************************************)
EXTENDS Delivery, SequenceTheorems, TLAPS

Packets == Items \X Values

Mentions(s, i) == \E k \in 1 .. Len(s) : s[k][1] = i

(* The last packet about i in s, if there is one, says v.                  *)
LastIs(s, i, v) ==
    \A k \in 1 .. Len(s) :
        s[k][1] = i /\ (\A j \in 1 .. Len(s) : j > k => s[j][1] # i) => s[k][2] = v

(* While there is a connection, each QoS 1 packet on the wire is one that  *)
(* the client keeps: f[k] of the kept ones are among the first k, in the   *)
(* same order.                                                             *)
Kept(f, w, o) ==
    /\ f \in [0 .. Len(w) -> Int]
    /\ f[0] = 0 /\ f[Len(w)] = Len(o)
    /\ \A j, k \in 0 .. Len(w) : j <= k => f[j] <= f[k]
    /\ \A k \in 1 .. Len(w) : f[k] = IF w[k][1] \in Qos1 THEN f[k - 1] + 1 ELSE f[k - 1]
    /\ \A k \in 1 .. Len(w) : w[k][1] \in Qos1 => o[f[k]] = w[k]

WireInv == /\ ~up => wire = <<>>
           /\ up => \E f : Kept(f, wire, outbox)

(* What the worker knows of the reading in its hands.                      *)
WorkerInv ==
    /\ worker.pc = "mqtt" => ~worker.handed
    /\ worker.pc = "http" => (worker.delivered <=> worker.handed)
    /\ worker.pc = "remember" /\ worker.delivered =>
          worker.handed /\ (http => server[worker.item] = worker.val)
    /\ worker.pc = "remember" /\ ~worker.delivered /\ worker.handed => worker.item \in doubtful

(* The broker shows v for i, or will once it has the packets on the wire   *)
(* and those the client keeps.                                             *)
Heads(i, v) == /\ LastIs(wire, i, v) /\ LastIs(outbox, i, v)
               /\ ~Mentions(wire, i) /\ ~Mentions(outbox, i) => broker[i] = v

InHand(i) == worker.pc \in {"http", "remember"} /\ worker.item = i /\ worker.handed

HeadsInv ==
    \A i \in Items : i \notin doubtful =>
        /\ InHand(i) => Heads(i, worker.val)
        /\ ~InHand(i) /\ logdata[i] # None => Heads(i, logdata[i])

DeliveryInv == TypeOK /\ WireInv /\ WorkerInv /\ HeadsInv

-----------------------------------------------------------------------------
LEMMA AppendPacket ==
    ASSUME NEW S, NEW s \in Seq(S), NEW i, NEW v, <<i, v>> \in S, NEW t, t = Append(s, <<i, v>>)
    PROVE  /\ t \in Seq(S) /\ Mentions(t, i) /\ LastIs(t, i, v)
           /\ \A j : j # i => (Mentions(t, j) <=> Mentions(s, j))
           /\ \A j, w : j # i /\ LastIs(s, j, w) => LastIs(t, j, w)
<1>1. Len(s) \in Nat
  BY LenProperties
<1>2. /\ t \in Seq(S) /\ Len(t) = Len(s) + 1
      /\ \A k \in 1 .. Len(s) : t[k] = s[k]
      /\ t[Len(s) + 1] = <<i, v>>
  BY AppendProperties
<1>3. t[Len(s) + 1][1] = i /\ t[Len(s) + 1][2] = v
  BY <1>2
<1>4. /\ \A k \in 1 .. Len(s) : k \in 1 .. Len(t) /\ k < Len(s) + 1
      /\ \A k \in 1 .. Len(t) : k \in 1 .. Len(s) \/ k = Len(s) + 1
      /\ Len(s) + 1 \in 1 .. Len(t)
  BY <1>1, <1>2
<1>5. Mentions(t, i)
  BY <1>3, <1>4 DEF Mentions
<1>6. LastIs(t, i, v)
  BY <1>3, <1>4 DEF LastIs
<1>7. \A j : j # i => (Mentions(t, j) <=> Mentions(s, j))
  BY <1>2, <1>3, <1>4 DEF Mentions
<1>8. ASSUME NEW j, NEW w, j # i, LastIs(s, j, w) PROVE LastIs(t, j, w)
  <2> SUFFICES ASSUME NEW k \in 1 .. Len(t), t[k][1] = j,
                      \A m \in 1 .. Len(t) : m > k => t[m][1] # j
               PROVE  t[k][2] = w
    BY DEF LastIs
  <2>1. k \in 1 .. Len(s) /\ s[k][1] = j
    BY <1>2, <1>3, <1>4, <1>8
  <2>2. \A m \in 1 .. Len(s) : m > k => s[m][1] # j
    BY <1>2, <1>4
  <2> QED
    BY <1>2, <1>8, <2>1, <2>2 DEF LastIs
<1> QED
  BY <1>2, <1>5, <1>6, <1>7, <1>8

LEMMA TakePacket ==
    ASSUME NEW S, NEW s \in Seq(S), s # <<>>, NEW t, t = Tail(s)
    PROVE  /\ t \in Seq(S) /\ Head(s) \in S
           /\ \A j : Mentions(s, j) <=> Mentions(t, j) \/ Head(s)[1] = j
           /\ \A j, w : LastIs(s, j, w) => LastIs(t, j, w)
           /\ \A j, w : LastIs(s, j, w) /\ Head(s)[1] = j /\ ~Mentions(t, j) => Head(s)[2] = w
<1>1. Len(s) \in Nat /\ Len(s) > 0
  BY LenProperties, EmptySeq
<1>2. /\ t \in Seq(S) /\ Len(t) = Len(s) - 1
      /\ \A k \in 1 .. Len(t) : t[k] = s[k + 1]
      /\ Head(s) = s[1] /\ Head(s) \in S
  BY <1>1, HeadTailProperties
<1>3. /\ 1 \in 1 .. Len(s)
      /\ \A k \in 1 .. Len(t) : k + 1 \in 1 .. Len(s)
      /\ \A k \in 1 .. Len(s) : k # 1 => k - 1 \in 1 .. Len(t) /\ (k - 1) + 1 = k
  BY <1>1, <1>2
<1>4. \A k \in 1 .. Len(s) : k # 1 => t[k - 1] = s[k]
  BY <1>2, <1>3
<1>5. ASSUME NEW j PROVE Mentions(s, j) <=> Mentions(t, j) \/ Head(s)[1] = j
  BY <1>2, <1>3, <1>4 DEF Mentions
<1>6. ASSUME NEW j, NEW w, LastIs(s, j, w) PROVE LastIs(t, j, w)
  <2> SUFFICES ASSUME NEW k \in 1 .. Len(t), t[k][1] = j,
                      \A m \in 1 .. Len(t) : m > k => t[m][1] # j
               PROVE  t[k][2] = w
    BY DEF LastIs
  <2>1. k + 1 \in 1 .. Len(s) /\ s[k + 1][1] = j /\ s[k + 1] = t[k]
    BY <1>2, <1>3
  <2>2. ASSUME NEW m \in 1 .. Len(s), m > k + 1 PROVE s[m][1] # j
    <3>1. m - 1 \in 1 .. Len(t) /\ t[m - 1] = s[m] /\ m - 1 > k
      BY <1>1, <1>2, <1>3, <1>4, <2>2
    <3> QED
      BY <3>1
  <2> QED
    BY <1>6, <2>1, <2>2 DEF LastIs
<1>7. ASSUME NEW j, NEW w, LastIs(s, j, w), Head(s)[1] = j, ~Mentions(t, j)
      PROVE  Head(s)[2] = w
  <2>1. \A m \in 1 .. Len(s) : m > 1 => s[m][1] # j
    BY <1>3, <1>4, <1>7 DEF Mentions
  <2> QED
    BY <1>2, <1>3, <1>7, <2>1 DEF LastIs
<1> QED
  BY <1>2, <1>5, <1>6, <1>7

-----------------------------------------------------------------------------
(* Each QoS 1 packet on the wire is one that the client keeps.             *)
LEMMA OnWireIsKept ==
    ASSUME TypeOK, WireInv, NEW i \in Qos1, Mentions(wire, i)
    PROVE  Mentions(outbox, i)
<1>1. Len(wire) \in Nat /\ Len(outbox) \in Nat
  BY LenProperties DEF TypeOK
<1>2. PICK k \in 1 .. Len(wire) : wire[k][1] = i
  BY DEF Mentions
<1>3. wire # <<>>
  BY <1>1, <1>2, EmptySeq
<1>4. PICK f : Kept(f, wire, outbox)
  BY <1>3 DEF WireInv, TypeOK
<1>5. k \in 0 .. Len(wire) /\ k - 1 \in 0 .. Len(wire) /\ 0 \in 0 .. Len(wire)
      /\ Len(wire) \in 0 .. Len(wire) /\ 0 <= k - 1 /\ k <= Len(wire)
  BY <1>1, <1>2
<1>6. /\ f[k] \in Int /\ f[k - 1] \in Int /\ f[0] = 0 /\ f[Len(wire)] = Len(outbox)
      /\ f[0] <= f[k - 1] /\ f[k] <= f[Len(wire)]
      /\ f[k] = f[k - 1] + 1 /\ outbox[f[k]] = wire[k]
  BY <1>2, <1>4, <1>5 DEF Kept
<1>7. f[k] \in 1 .. Len(outbox)
  BY <1>1, <1>6
<1> QED
  BY <1>2, <1>6, <1>7 DEF Mentions

(* A QoS 1 packet that the broker takes is the first the client keeps.     *)
LEMMA TakenIsKept ==
    ASSUME TypeOK, WireInv, wire # <<>>, Head(wire)[1] \in Qos1
    PROVE  outbox # <<>> /\ Head(outbox) = Head(wire)
<1>1. PICK f : Kept(f, wire, outbox)
  BY DEF WireInv, TypeOK
<1>2. Len(wire) \in Nat /\ Len(wire) > 0 /\ Head(wire) = wire[1]
  BY LenProperties, EmptySeq, HeadTailProperties DEF TypeOK
<1>3. f[1] = f[0] + 1 /\ f[1] <= f[Len(wire)] /\ f[0] = 0 /\ f[Len(wire)] = Len(outbox)
      /\ outbox[f[1]] = wire[1]
  BY <1>1, <1>2 DEF Kept
<1>4. outbox # <<>> /\ outbox[1] = wire[1]
  BY <1>3, EmptySeq
<1> QED
  BY <1>2, <1>4, HeadTailProperties DEF TypeOK

LEMMA PublishType ==
    ASSUME TypeOK, WireInv, SendMqtt
    PROVE  TypeOK'
<1> DEFINE i == worker.item
           v == worker.val
<1>1. /\ worker \in [pc : {"mqtt", "http", "remember"}, item : Items, val : Values,
                     delivered : BOOLEAN, handed : BOOLEAN]
      /\ worker' = [worker EXCEPT !.pc = "http", !.delivered = up, !.handed = up]
      /\ wire' = IF up THEN Append(wire, <<i, v>>) ELSE wire
      /\ outbox' = IF i \in Qos1 THEN Append(outbox, <<i, v>>) ELSE outbox
      /\ doubtful' = IF up THEN doubtful \ {i}
                     ELSE IF i \in Qos1 THEN doubtful \cup {i} ELSE doubtful
      /\ UNCHANGED <<reading, queue, logdata, due, up, broker, server, http>>
  BY DEF SendMqtt, ClientPublish, Packet, Accepted, TypeOK, Idle
<1>2. i \in Items /\ v \in Values
  BY <1>1
<1>3. worker' \in [pc : {"mqtt", "http", "remember"}, item : Items, val : Values,
                   delivered : BOOLEAN, handed : BOOLEAN]
  BY <1>1 DEF TypeOK
<1>4. wire' \in Seq(Items \X Values)
  BY <1>1, <1>2, AppendPacket DEF TypeOK
<1>5. outbox' \in Seq(Qos1 \X Values)
  BY <1>1, <1>2, AppendPacket DEF TypeOK
<1>6. doubtful' \subseteq Items
  BY <1>1, <1>2 DEF TypeOK
<1> QED
  BY <1>1, <1>3, <1>4, <1>5, <1>6 DEF TypeOK

LEMMA NextType ==
    ASSUME TypeOK, WireInv, [Next]_vars
    PROVE  TypeOK'
<1> USE DeliveryAssumption
<1>1. ASSUME NEW i \in Items, NEW v \in Values, Report(i, v)
      PROVE  TypeOK'
  <2>1. /\ reading' = [reading EXCEPT ![i] = v]
        /\ queue' = IF Len(queue) < QueueMax THEN Append(queue, <<i, v>>) ELSE queue
        /\ UNCHANGED <<worker, logdata, due, up, wire, outbox, broker, server, doubtful, http>>
    BY <1>1 DEF Report, Enqueue, mqtt
  <2>2. queue' \in Seq(Items \X Values) /\ Len(queue') <= QueueMax
    <3>1. queue \in Seq(Items \X Values) /\ Len(queue) \in Nat /\ Len(queue) <= QueueMax
      BY LenProperties DEF TypeOK
    <3>2. CASE Len(queue) < QueueMax
      <4>1. queue' \in Seq(Items \X Values) /\ Len(queue') = Len(queue) + 1
        BY <2>1, <3>1, <3>2, AppendProperties
      <4> QED
        BY <3>1, <3>2, <4>1
    <3> QED
      BY <2>1, <3>1, <3>2
  <2>3. reading' \in [Items -> Values]
    BY <2>1 DEF TypeOK
  <2> QED
    BY <2>1, <2>2, <2>3 DEF TypeOK
<1>2. CASE Take
  <2>1. /\ queue # <<>> /\ queue' = Tail(queue)
        /\ UNCHANGED <<reading, logdata, due, up, wire, outbox, broker, server, doubtful, http>>
    BY <1>2 DEF Take, mqtt
  <2>2. /\ Head(queue) \in Items \X Values
        /\ queue' \in Seq(Items \X Values) /\ Len(queue') <= QueueMax
    <3>1. Len(queue) \in Nat /\ Len(queue) > 0 /\ Len(queue) <= QueueMax
      BY <2>1, LenProperties, EmptySeq DEF TypeOK
    <3>2. /\ Head(queue) \in Items \X Values
          /\ queue' \in Seq(Items \X Values) /\ Len(queue') = Len(queue) - 1
      BY <2>1, <3>1, HeadTailProperties DEF TypeOK
    <3> QED
      BY <3>1, <3>2
  <2>3. \/ worker' = Idle
        \/ worker' \in [pc : {"mqtt", "http", "remember"}, item : Items, val : Values,
                         delivered : BOOLEAN, handed : BOOLEAN]
    BY <1>2, <2>2 DEF Take
  <2> QED
    BY <2>1, <2>2, <2>3 DEF TypeOK
<1>3. CASE SendMqtt
  BY <1>3, PublishType
<1>4. CASE SendHttp
  <2>1. worker \in [pc : {"mqtt", "http", "remember"}, item : Items, val : Values,
                    delivered : BOOLEAN, handed : BOOLEAN]
    BY <1>4 DEF SendHttp, TypeOK, Idle
  <2>2. /\ worker' \in {[worker EXCEPT !.pc = "remember"],
                        [worker EXCEPT !.pc = "remember", !.delivered = FALSE]}
        /\ server' \in {server, [server EXCEPT ![worker.item] = worker.val]}
        /\ doubtful' \in {doubtful, doubtful \cup {worker.item}}
        /\ UNCHANGED <<reading, queue, logdata, due, up, wire, outbox, broker, http>>
    BY <1>4 DEF SendHttp, Doubt, mqtt
  <2>3. worker' \in [pc : {"mqtt", "http", "remember"}, item : Items, val : Values,
                     delivered : BOOLEAN, handed : BOOLEAN]
    BY <2>1, <2>2
  <2>4. server' \in [Items -> Values \cup {None}] /\ doubtful' \subseteq Items
    BY <2>1, <2>2 DEF TypeOK
  <2> QED
    BY <2>2, <2>3, <2>4 DEF TypeOK
<1>5. CASE Remember
  <2>1. worker.item \in Items /\ worker.val \in Values
    BY <1>5 DEF Remember, TypeOK, Idle
  <2>2. CASE /\ logdata' = [logdata EXCEPT ![worker.item] = worker.val]
             /\ due' = due \ {worker.item}
    BY <1>5, <2>1, <2>2 DEF Remember, TypeOK, mqtt
  <2>3. CASE UNCHANGED <<logdata, due>>
    BY <1>5, <2>3 DEF Remember, TypeOK, mqtt
  <2> QED
    BY <1>5, <2>2, <2>3 DEF Remember
<1>6. CASE LogRaises
  BY <1>6 DEF LogRaises, Doubt, TypeOK, mqtt, Idle
<1>7. CASE \E i \in Items : BecomesDue(i)
  BY <1>7 DEF BecomesDue, TypeOK, mqtt
<1>8. CASE Connect
  <2>1. outbox \in Seq(Items \X Values)
    <3>1. outbox \in Seq(Qos1 \X Values) /\ Len(outbox) \in Nat
      BY LenProperties DEF TypeOK
    <3>2. \A k \in 1 .. Len(outbox) : outbox[k] \in Items \X Values
      BY <3>1, ElementOfSeq
    <3> QED
      BY <3>1, <3>2, SeqDef
  <2> QED
    BY <1>8, <2>1 DEF Connect, TypeOK
<1>9. CASE Drop \/ BrokerTakesAckLost
  <2>1. /\ up' = FALSE /\ wire' = <<>>
        /\ broker' \in {broker, [broker EXCEPT ![Head(wire)[1]] = Head(wire)[2]]}
        /\ broker' # broker => wire # <<>>
        /\ UNCHANGED <<reading, queue, worker, logdata, due, outbox, server, http>>
    BY <1>9 DEF Drop, BrokerTakesAckLost
  <2>2. PICK s \in Seq(Items \X Values) : Lost(s)
    <3>1. CASE Drop
      BY <3>1 DEF Drop, TypeOK
    <3>2. CASE BrokerTakesAckLost
      BY <3>2, TakePacket DEF BrokerTakesAckLost, TypeOK
    <3> QED
      BY <1>9, <3>1, <3>2
  <2>3. doubtful' \subseteq Items
    <3>1. \A k \in 1 .. Len(s) : s[k] \in Items \X Values
      BY ElementOfSeq
    <3> QED
      BY <2>2, <3>1 DEF TypeOK, Lost
  <2>4. wire # <<>> => Head(wire) \in Items \X Values
    BY TakePacket DEF TypeOK
  <2>5. broker' \in [Items -> Values \cup {None}]
    BY <2>1, <2>4 DEF TypeOK
  <2> QED
    BY <2>1, <2>3, <2>5, EmptySeq DEF TypeOK
<1>10. CASE BrokerTakes
  <2>1. /\ wire # <<>> /\ wire' = Tail(wire)
        /\ broker' = [broker EXCEPT ![Head(wire)[1]] = Head(wire)[2]]
        /\ outbox' = IF Head(wire)[1] \in Qos1 THEN Tail(outbox) ELSE outbox
        /\ UNCHANGED <<reading, queue, worker, logdata, due, up, server, doubtful, http>>
    BY <1>10 DEF BrokerTakes
  <2>2. Head(wire) \in Items \X Values /\ wire' \in Seq(Items \X Values)
    BY <2>1, TakePacket DEF TypeOK
  <2>3. outbox' \in Seq(Qos1 \X Values)
    BY <2>1, TakenIsKept, TakePacket DEF TypeOK
  <2>4. broker' \in [Items -> Values \cup {None}]
    BY <2>1, <2>2 DEF TypeOK
  <2> QED
    BY <2>1, <2>2, <2>3, <2>4 DEF TypeOK
<1>11. CASE UNCHANGED vars
  BY <1>11 DEF vars, mqtt, TypeOK
<1> QED
  BY <1>1, <1>2, <1>3, <1>4, <1>5, <1>6, <1>7, <1>8, <1>9, <1>10, <1>11 DEF Next, RunLogger

-----------------------------------------------------------------------------
LEMMA NextWire ==
    ASSUME TypeOK, WireInv, [Next]_vars
    PROVE  WireInv'
<1>0. /\ wire \in Seq(Items \X Values) /\ outbox \in Seq(Qos1 \X Values) /\ up \in BOOLEAN
      /\ Len(wire) \in Nat /\ Len(outbox) \in Nat
  BY LenProperties DEF TypeOK
<1>1. CASE SendMqtt
  <2> DEFINE i == worker.item
             p == <<worker.item, worker.val>>
  <2>1. /\ up' = up
        /\ wire' = IF up THEN Append(wire, p) ELSE wire
        /\ outbox' = IF i \in Qos1 THEN Append(outbox, p) ELSE outbox
        /\ i \in Items /\ worker.val \in Values
    BY <1>1 DEF SendMqtt, ClientPublish, Packet, TypeOK, Idle
  <2>2. CASE ~up
    BY <2>1, <2>2 DEF WireInv
  <2>3. CASE up
    <3>1. PICK f : Kept(f, wire, outbox)
      BY <2>3 DEF WireInv
    <3>2. /\ Len(wire') = Len(wire) + 1 /\ wire'[Len(wire) + 1] = p /\ p[1] = i
          /\ \A k \in 1 .. Len(wire) : wire'[k] = wire[k]
      BY <1>0, <2>1, <2>3, AppendProperties
    <3>3. Len(outbox') = IF i \in Qos1 THEN Len(outbox) + 1 ELSE Len(outbox)
      BY <1>0, <2>1, AppendProperties
    <3> DEFINE g == [k \in 0 .. Len(wire') |->
                        IF k <= Len(wire) THEN f[k] ELSE Len(outbox')]
    <3>4. /\ g \in [0 .. Len(wire') -> Int] /\ g[0] = 0 /\ g[Len(wire')] = Len(outbox')
          /\ \A k \in 0 .. Len(wire) : g[k] = f[k]
      BY <1>0, <3>1, <3>2, <3>3 DEF Kept
    <3>5. \A j, k \in 0 .. Len(wire') : j <= k => g[j] <= g[k]
      <4>1. \A j \in 0 .. Len(wire) : f[j] \in Int /\ f[j] <= Len(outbox)
        BY <1>0, <3>1 DEF Kept
      <4>2. \A k \in 0 .. Len(wire') : k \in 0 .. Len(wire) \/ k = Len(wire')
        BY <1>0, <3>2
      <4> QED
        BY <1>0, <3>1, <3>2, <3>3, <3>4, <4>1, <4>2 DEF Kept
    <3>6. \A k \in 1 .. Len(wire') :
             g[k] = IF wire'[k][1] \in Qos1 THEN g[k - 1] + 1 ELSE g[k - 1]
      <4> SUFFICES ASSUME NEW k \in 1 .. Len(wire')
                   PROVE  g[k] = IF wire'[k][1] \in Qos1 THEN g[k - 1] + 1 ELSE g[k - 1]
        OBVIOUS
      <4>1. CASE k <= Len(wire)
        <5>1. k \in 1 .. Len(wire) /\ k \in 0 .. Len(wire) /\ k - 1 \in 0 .. Len(wire)
          BY <1>0, <3>2, <4>1
        <5> QED
          BY <3>1, <3>2, <3>4, <5>1 DEF Kept
      <4>2. CASE k = Len(wire) + 1
        <5>1. g[k] = Len(outbox') /\ g[k - 1] = Len(outbox)
          BY <1>0, <3>1, <3>2, <3>4, <4>2 DEF Kept
        <5> QED
          BY <3>2, <3>3, <4>2, <5>1
      <4> QED
        BY <1>0, <3>2, <4>1, <4>2
    <3>7. ASSUME NEW k \in 1 .. Len(wire'), wire'[k][1] \in Qos1
          PROVE  outbox'[g[k]] = wire'[k]
      <4>1. CASE k <= Len(wire)
        <5>1. /\ k \in 1 .. Len(wire) /\ k \in 0 .. Len(wire) /\ k - 1 \in 0 .. Len(wire)
              /\ 0 \in 0 .. Len(wire) /\ Len(wire) \in 0 .. Len(wire) /\ 0 <= k - 1
          BY <1>0, <3>2, <4>1
        <5>2. /\ g[k] = f[k] /\ wire'[k] = wire[k] /\ outbox[f[k]] = wire[k]
              /\ f[k] = f[k - 1] + 1 /\ f[0] <= f[k - 1] /\ f[k] <= f[Len(wire)]
              /\ f[0] = 0 /\ f[Len(wire)] = Len(outbox)
              /\ f[k] \in Int /\ f[k - 1] \in Int
          BY <3>1, <3>2, <3>4, <3>7, <4>1, <5>1 DEF Kept
        <5>3. f[k] \in 1 .. Len(outbox)
          BY <1>0, <5>2
        <5>4. outbox'[f[k]] = outbox[f[k]]
          BY <1>0, <2>1, <5>3, AppendProperties
        <5> QED
          BY <5>2, <5>4
      <4>2. CASE k = Len(wire) + 1
        <5>1. wire'[k] = p /\ i \in Qos1
          BY <3>2, <3>7, <4>2
        <5>2. g[k] = Len(outbox) + 1
          BY <3>2, <3>3, <3>4, <4>2, <5>1
        <5>3. p \in Qos1 \X Values /\ outbox' = Append(outbox, p)
          BY <2>1, <5>1
        <5>4. outbox'[Len(outbox) + 1] = p
          BY <1>0, <5>3, AppendProperties
        <5> QED
          BY <5>1, <5>2, <5>4
      <4> QED
        BY <1>0, <3>2, <4>1, <4>2
    <3> HIDE DEF g
    <3>8. Kept(g, wire', outbox')
      BY <3>4, <3>5, <3>6, <3>7 DEF Kept
    <3> QED
      BY <2>1, <2>3, <3>8 DEF WireInv
  <2> QED
    BY <1>0, <2>2, <2>3
<1>2. CASE Connect
  <2>1. up' = TRUE /\ wire' = outbox /\ outbox' = outbox
    BY <1>2 DEF Connect
  <2> DEFINE g == [k \in 0 .. Len(outbox) |-> k]
  <2>2. \A k \in 1 .. Len(outbox) : outbox[k][1] \in Qos1
    BY <1>0, ElementOfSeq
  <2>3. Kept(g, wire', outbox')
    BY <1>0, <2>1, <2>2 DEF Kept
  <2> QED
    BY <2>1, <2>3 DEF WireInv
<1>3. CASE Drop \/ BrokerTakesAckLost
  BY <1>3 DEF Drop, BrokerTakesAckLost, WireInv
<1>4. CASE BrokerTakes
  <2>1. /\ wire # <<>> /\ wire' = Tail(wire) /\ up' = up /\ up
        /\ outbox' = IF Head(wire)[1] \in Qos1 THEN Tail(outbox) ELSE outbox
    BY <1>4 DEF BrokerTakes, WireInv
  <2>2. PICK f : Kept(f, wire, outbox)
    BY <2>1 DEF WireInv
  <2>3. /\ Len(wire) > 0 /\ Len(wire') = Len(wire) - 1 /\ Head(wire) = wire[1]
        /\ \A k \in 1 .. Len(wire') : wire'[k] = wire[k + 1]
    BY <1>0, <2>1, HeadTailProperties, EmptySeq
  <2>4. Len(outbox') = IF wire[1][1] \in Qos1 THEN Len(outbox) - 1 ELSE Len(outbox)
    <3>1. CASE wire[1][1] \in Qos1
      <4>1. outbox # <<>>
        BY <2>1, <2>3, <3>1, TakenIsKept
      <4> QED
        BY <1>0, <2>1, <2>3, <3>1, <4>1, HeadTailProperties, EmptySeq
    <3> QED
      BY <2>1, <2>3, <3>1
  <2>5. f[1] = IF wire[1][1] \in Qos1 THEN 1 ELSE 0
    BY <1>0, <2>2, <2>3 DEF Kept
  <2> DEFINE g == [k \in 0 .. Len(wire') |-> f[k + 1] - f[1]]
  <2>6. \A k \in 0 .. Len(wire') : k + 1 \in 0 .. Len(wire) /\ k + 1 \in 1 .. Len(wire)
                                  /\ f[k + 1] \in Int
    <3>1. f \in [0 .. Len(wire) -> Int]
      BY <2>2 DEF Kept
    <3>2. \A k \in 0 .. Len(wire') : k + 1 \in 0 .. Len(wire) /\ k + 1 \in 1 .. Len(wire)
      BY <1>0, <2>3
    <3> QED
      BY <3>1, <3>2
  <2>7. \A k \in 0 .. Len(wire') : g[k] = f[k + 1] - f[1] /\ g[k] \in Int
    BY <2>5, <2>6
  <2>8. g \in [0 .. Len(wire') -> Int]
    BY <2>5, <2>6
  <2>9. g[0] = 0 /\ g[Len(wire')] = Len(outbox')
    BY <1>0, <2>2, <2>3, <2>4, <2>5, <2>7 DEF Kept
  <2>10. \A j, k \in 0 .. Len(wire') : j <= k => g[j] <= g[k]
    <3> SUFFICES ASSUME NEW j \in 0 .. Len(wire'), NEW k \in 0 .. Len(wire'), j <= k
                 PROVE  g[j] <= g[k]
      OBVIOUS
    <3>1. f[j + 1] <= f[k + 1]
      BY <2>2, <2>6 DEF Kept
    <3>2. f[j + 1] \in Int /\ f[k + 1] \in Int /\ f[1] \in Int
      BY <2>5, <2>6
    <3>3. g[j] = f[j + 1] - f[1] /\ g[k] = f[k + 1] - f[1]
      BY <2>7
    <3> HIDE DEF g
    <3> QED
      BY ONLY <3>1, <3>2, <3>3
  <2>11. \A k \in 1 .. Len(wire') :
            g[k] = IF wire'[k][1] \in Qos1 THEN g[k - 1] + 1 ELSE g[k - 1]
    <3> SUFFICES ASSUME NEW k \in 1 .. Len(wire')
                 PROVE  g[k] = IF wire'[k][1] \in Qos1 THEN g[k - 1] + 1 ELSE g[k - 1]
      OBVIOUS
    <3>1. k \in 0 .. Len(wire') /\ k - 1 \in 0 .. Len(wire') /\ (k - 1) + 1 = k /\ (k + 1) - 1 = k
      BY <1>0, <2>3
    <3>2. f[k + 1] = IF wire[k + 1][1] \in Qos1 THEN f[k] + 1 ELSE f[k]
      BY <2>2, <2>6, <3>1 DEF Kept
    <3>3. f[k] \in Int /\ f[k + 1] \in Int /\ f[1] \in Int
      <4>1. f[(k - 1) + 1] \in Int /\ f[k + 1] \in Int
        BY <2>6, <3>1
      <4> QED
        BY <2>5, <3>1, <4>1
    <3>4. g[k] = f[k + 1] - f[1] /\ g[k - 1] = f[k] - f[1]
      BY <2>7, <3>1
    <3> HIDE DEF g
    <3>5. wire'[k] = wire[k + 1]
      BY <2>3
    <3> QED
      BY <3>2, <3>3, <3>4, <3>5
  <2>12. ASSUME NEW k \in 1 .. Len(wire'), wire'[k][1] \in Qos1
         PROVE  outbox'[g[k]] = wire'[k]
    <3>1. /\ k \in 0 .. Len(wire') /\ k + 1 \in 1 .. Len(wire) /\ k + 1 \in 0 .. Len(wire)
          /\ (k + 1) - 1 = k /\ k \in 0 .. Len(wire) /\ 1 \in 0 .. Len(wire)
          /\ Len(wire) \in 0 .. Len(wire) /\ 1 <= k /\ k + 1 <= Len(wire)
      BY <1>0, <2>3
    <3>2. wire'[k] = wire[k + 1] /\ outbox[f[k + 1]] = wire[k + 1] /\ g[k] = f[k + 1] - f[1]
      BY <2>2, <2>3, <2>7, <2>12, <3>1 DEF Kept
    <3>3. /\ f[k + 1] = f[k] + 1 /\ f[1] <= f[k] /\ f[k + 1] <= f[Len(wire)]
          /\ f[Len(wire)] = Len(outbox)
          /\ f[k] \in Int /\ f[1] \in Int /\ f[k + 1] \in Int
      BY <2>2, <2>3, <2>12, <3>1, <3>2 DEF Kept
    <3>4. CASE wire[1][1] \in Qos1
      <4>1. outbox # <<>> /\ outbox' = Tail(outbox) /\ f[1] = 1
        BY <2>1, <2>3, <2>5, <3>4, TakenIsKept
      <4>2. \A m \in 1 .. Len(outbox') : outbox'[m] = outbox[m + 1]
        BY <1>0, <4>1, HeadTailProperties
      <4>3. f[k + 1] - 1 \in 1 .. Len(outbox') /\ (f[k + 1] - 1) + 1 = f[k + 1]
        BY <1>0, <2>4, <3>3, <3>4, <4>1
      <4> HIDE DEF g
      <4> QED
        BY <3>2, <4>1, <4>2, <4>3
    <3>5. CASE wire[1][1] \notin Qos1
      <4>1. outbox' = outbox /\ f[1] = 0
        BY <2>1, <2>3, <2>5, <3>5
      <4>2. g[k] = f[k + 1]
        BY <3>2, <3>3, <4>1
      <4> QED
        BY <3>2, <4>1, <4>2
    <3> QED
      BY <3>4, <3>5
  <2> HIDE DEF g
  <2>13. Kept(g, wire', outbox')
    BY <2>8, <2>9, <2>10, <2>11, <2>12 DEF Kept
  <2> QED
    BY <2>1, <2>13 DEF WireInv
<1>5. CASE UNCHANGED <<up, wire, outbox>>
  BY <1>5 DEF WireInv, Kept
<1>6. \/ UNCHANGED <<up, wire, outbox>> \/ SendMqtt \/ Connect \/ Drop \/ BrokerTakes
      \/ BrokerTakesAckLost
  BY DEF Next, RunLogger, Report, Take, SendHttp, Remember, LogRaises, BecomesDue, vars, mqtt
<1> QED
  BY <1>1, <1>2, <1>3, <1>4, <1>5, <1>6

-----------------------------------------------------------------------------
LEMMA NextWorker ==
    ASSUME TypeOK, WorkerInv, [Next]_vars
    PROVE  WorkerInv'
<1>1. CASE Take
  BY <1>1 DEF Take, WorkerInv, Idle
<1>2. CASE SendMqtt
  <2>1. /\ worker \in [pc : {"mqtt", "http", "remember"}, item : Items, val : Values,
                       delivered : BOOLEAN, handed : BOOLEAN]
        /\ worker' = [worker EXCEPT !.pc = "http", !.delivered = up, !.handed = up]
    BY <1>2 DEF SendMqtt, Accepted, TypeOK, Idle
  <2> QED
    BY <2>1 DEF WorkerInv
<1>3. CASE SendHttp
  <2>1. /\ worker \in [pc : {"mqtt", "http", "remember"}, item : Items, val : Values,
                       delivered : BOOLEAN, handed : BOOLEAN]
        /\ worker.pc = "http"
    BY <1>3 DEF SendHttp, TypeOK, Idle
  <2>2. CASE /\ http /\ server' = [server EXCEPT ![worker.item] = worker.val]
             /\ worker' = [worker EXCEPT !.pc = "remember"]
    BY <2>1, <2>2 DEF WorkerInv, TypeOK
  <2>3. CASE worker' = [worker EXCEPT !.pc = "remember", !.delivered = FALSE] /\ Doubt
    BY <2>1, <2>3 DEF WorkerInv, Doubt
  <2>4. CASE ~http /\ worker' = [worker EXCEPT !.pc = "remember"]
    BY <1>3, <2>1, <2>4 DEF WorkerInv, SendHttp
  <2> QED
    BY <1>3, <2>2, <2>3, <2>4 DEF SendHttp
<1>4. CASE worker' = Idle
  BY <1>4 DEF WorkerInv, Idle
<1>5. CASE UNCHANGED <<worker, server, http>> /\ doubtful \subseteq doubtful'
  BY <1>5 DEF WorkerInv
<1>6. \/ Take \/ SendMqtt \/ SendHttp \/ worker' = Idle
      \/ UNCHANGED <<worker, server, http>> /\ doubtful \subseteq doubtful'
  BY DEF Next, RunLogger, Report, Remember, LogRaises, BecomesDue, Connect, Drop,
         BrokerTakes, BrokerTakesAckLost, Lost, vars, mqtt
<1> QED
  BY <1>1, <1>2, <1>3, <1>4, <1>5, <1>6

(* Steps that touch neither packets nor what is remembered.                *)
LEMMA KeepHeads ==
    ASSUME HeadsInv, UNCHANGED <<wire, outbox, broker, logdata>>, doubtful \subseteq doubtful',
           \A i \in Items : i \notin doubtful' =>
              /\ InHand(i)' <=> InHand(i)
              /\ InHand(i) => worker'.val = worker.val
    PROVE  HeadsInv'
<1>1. \A i, v : Heads(i, v)' <=> Heads(i, v)
  BY DEF Heads
<1> QED
  BY <1>1 DEF HeadsInv

LEMMA PublishHeads ==
    ASSUME TypeOK, HeadsInv, WorkerInv, SendMqtt
    PROVE  HeadsInv'
<1>0. PICK i \in Items, v \in Values : i = worker.item /\ v = worker.val
  BY DEF SendMqtt, TypeOK, Idle
<1>1. /\ worker.pc = "mqtt" /\ worker'.pc = "http" /\ worker'.item = i /\ worker'.val = v
      /\ worker'.handed = up /\ ~worker.handed
      /\ i \in Items /\ v \in Values
      /\ wire' = IF up THEN Append(wire, <<i, v>>) ELSE wire
      /\ outbox' = IF i \in Qos1 THEN Append(outbox, <<i, v>>) ELSE outbox
      /\ doubtful' = IF up THEN doubtful \ {i}
                     ELSE IF i \in Qos1 THEN doubtful \cup {i} ELSE doubtful
      /\ broker' = broker /\ logdata' = logdata
  <2>1. worker \in [pc : {"mqtt", "http", "remember"}, item : Items, val : Values,
                    delivered : BOOLEAN, handed : BOOLEAN]
    BY DEF SendMqtt, TypeOK, Idle
  <2> QED
    BY <1>0, <2>1 DEF SendMqtt, ClientPublish, Packet, Accepted, WorkerInv
<1>2. /\ wire \in Seq(Items \X Values) /\ outbox \in Seq(Qos1 \X Values)
      /\ <<i, v>> \in Items \X Values
  BY <1>1 DEF TypeOK
<1>3. i \in Qos1 => <<i, v>> \in Qos1 \X Values
  BY <1>1
<1>4. /\ \A j : j # i => (Mentions(wire', j) <=> Mentions(wire, j))
      /\ \A j : j # i => (Mentions(outbox', j) <=> Mentions(outbox, j))
  <2>1. \A j : j # i => (Mentions(wire', j) <=> Mentions(wire, j))
    BY <1>1, <1>2, AppendPacket
  <2>2. \A j : j # i => (Mentions(outbox', j) <=> Mentions(outbox, j))
    BY <1>1, <1>2, <1>3, AppendPacket
  <2> QED
    BY <2>1, <2>2
<1>5. \A j, w : j # i /\ LastIs(wire, j, w) => LastIs(wire', j, w)
  BY <1>1, <1>2, AppendPacket
<1>6. \A j, w : j # i /\ LastIs(outbox, j, w) => LastIs(outbox', j, w)
  BY <1>1, <1>2, <1>3, AppendPacket
<1>7. ASSUME NEW j \in Items, j \notin doubtful', j # i
      PROVE  /\ InHand(j)' => Heads(j, worker.val)'
             /\ ~InHand(j)' /\ logdata'[j] # None => Heads(j, logdata[j])'
  <2>1. ~InHand(j)' /\ ~InHand(j) /\ j \notin doubtful
    BY <1>1, <1>7 DEF InHand
  <2>2. logdata[j] # None => Heads(j, logdata[j])
    BY <2>1 DEF HeadsInv
  <2>3. ASSUME logdata'[j] # None PROVE Heads(j, logdata[j])'
    <3>1. /\ LastIs(wire, j, logdata'[j]) /\ LastIs(outbox, j, logdata'[j])
          /\ ~Mentions(wire, j) /\ ~Mentions(outbox, j) => broker[j] = logdata'[j]
      BY <1>1, <2>2, <2>3 DEF Heads
    <3>2. LastIs(wire', j, logdata'[j]) /\ LastIs(outbox', j, logdata'[j])
      BY <1>5, <1>6, <1>7, <3>1
    <3>3. ~Mentions(wire', j) /\ ~Mentions(outbox', j) => broker'[j] = logdata'[j]
      <4>1. /\ Mentions(wire', j) <=> Mentions(wire, j)
            /\ Mentions(outbox', j) <=> Mentions(outbox, j)
        BY <1>4, <1>7
      <4> QED
        BY <1>1, <3>1, <4>1
    <3> QED
      BY <3>2, <3>3 DEF Heads
  <2> QED
    BY <2>1, <2>3
<1>8. ASSUME i \notin doubtful'
      PROVE  /\ InHand(i)' => Heads(i, worker.val)'
             /\ ~InHand(i)' /\ logdata'[i] # None => Heads(i, logdata[i])'
  <2>1. CASE up
    <3>1. Mentions(wire', i) /\ LastIs(wire', i, v)
      <4>1. wire' = Append(wire, <<i, v>>)
        BY <1>1, <2>1
      <4>2. Mentions(wire', i)
        BY ONLY <1>2, <4>1, AppendPacket
      <4>3. LastIs(wire', i, v)
        BY ONLY <1>2, <4>1, AppendPacket
      <4> QED
        BY <4>2, <4>3
    <3>2. LastIs(outbox', i, v)
      <4>1. CASE i \in Qos1
        <5>1. outbox' = Append(outbox, <<i, v>>) /\ <<i, v>> \in Qos1 \X Values
          BY <1>1, <1>3, <4>1
        <5> QED
          BY ONLY <1>2, <5>1, AppendPacket
      <4>2. CASE i \notin Qos1
        <5>1. \A k \in 1 .. Len(outbox) : outbox[k][1] \in Qos1
          BY <1>2, ElementOfSeq
        <5> QED
          BY <1>1, <4>2, <5>1 DEF LastIs
      <4> QED
        BY <4>1, <4>2
    <3>3. InHand(i)' /\ worker'.val = v
      BY <1>1, <2>1 DEF InHand
    <3> QED
      BY <3>1, <3>2, <3>3 DEF Heads
  <2>2. CASE ~up
    <3>1. i \notin doubtful /\ wire' = wire /\ outbox' = outbox /\ ~InHand(i)' /\ ~InHand(i)
      BY <1>1, <1>8, <2>2 DEF InHand
    <3> QED
      BY <1>1, <3>1 DEF HeadsInv, Heads
  <2> QED
    BY <2>1, <2>2
<1> QED
  BY <1>7, <1>8 DEF HeadsInv

LEMMA NextHeads ==
    ASSUME DeliveryInv, [Next]_vars
    PROVE  HeadsInv'
<1>0. TypeOK /\ WireInv /\ WorkerInv /\ HeadsInv
      /\ wire \in Seq(Items \X Values) /\ outbox \in Seq(Qos1 \X Values)
  BY DEF DeliveryInv, TypeOK
<1>1. ASSUME NEW i \in Items, NEW v \in Values, Report(i, v)
      PROVE  HeadsInv'
  BY <1>0, <1>1, KeepHeads DEF Report, mqtt, InHand
<1>2. CASE Take
  BY <1>0, <1>2, KeepHeads DEF Take, mqtt, InHand, Idle
<1>3. CASE SendMqtt
  BY <1>0, <1>3, PublishHeads
<1>4. CASE SendHttp
  <2>1. /\ worker \in [pc : {"mqtt", "http", "remember"}, item : Items, val : Values,
                       delivered : BOOLEAN, handed : BOOLEAN]
        /\ worker.pc = "http"
    BY <1>4 DEF SendHttp, TypeOK, Idle, DeliveryInv
  <2>2. /\ worker'.pc = "remember" /\ worker'.item = worker.item
        /\ worker'.val = worker.val /\ worker'.handed = worker.handed
    BY <1>4, <2>1 DEF SendHttp
  <2>3. doubtful \subseteq doubtful' /\ UNCHANGED <<wire, outbox, broker, logdata>>
    BY <1>4 DEF SendHttp, Doubt, mqtt
  <2> QED
    BY <1>0, <2>1, <2>2, <2>3, KeepHeads DEF InHand
<1>5. CASE Remember
  <2> DEFINE i == worker.item
  <2>1. /\ worker.pc = "remember" /\ i \in Items /\ \A j : ~InHand(j)'
        /\ UNCHANGED <<wire, outbox, broker, doubtful>>
    BY <1>0, <1>5 DEF Remember, mqtt, TypeOK, Idle, InHand
  <2>2. \A j, w : Heads(j, w)' <=> Heads(j, w)
    BY <2>1 DEF Heads
  <2>3. CASE worker.delivered /\ logdata' = [logdata EXCEPT ![i] = worker.val]
    <3>1. InHand(i) /\ \A j : j # i => ~InHand(j)
      BY <1>0, <2>1, <2>3 DEF WorkerInv, InHand
    <3>2. logdata'[i] = worker.val /\ \A j \in Items : j # i => logdata'[j] = logdata[j]
      BY <1>0, <2>1, <2>3 DEF TypeOK
    <3>3. \A j \in Items : j \notin doubtful /\ logdata'[j] # None => Heads(j, logdata'[j])
      BY <1>0, <2>1, <3>1, <3>2 DEF HeadsInv
    <3>4. \A j \in Items : Heads(j, logdata'[j]) => Heads(j, logdata[j])'
      BY <2>1 DEF Heads
    <3> QED
      BY <2>1, <3>3, <3>4 DEF HeadsInv
  <2>4. CASE ~worker.delivered /\ UNCHANGED logdata
    <3>1. \A j \in Items : j \notin doubtful => ~InHand(j)
      BY <1>0, <2>1, <2>4 DEF WorkerInv, InHand
    <3> QED
      BY <1>0, <2>1, <2>4, <3>1, KeepHeads
  <2> QED
    BY <1>5, <2>3, <2>4 DEF Remember
<1>6. CASE LogRaises
  <2>1. /\ worker.pc \in {"mqtt", "http"} /\ \A j : ~InHand(j)'
        /\ doubtful' = (IF worker.handed THEN doubtful \cup {worker.item} ELSE doubtful)
        /\ UNCHANGED <<wire, outbox, broker, logdata>>
    BY <1>6 DEF LogRaises, Doubt, mqtt, InHand, Idle
  <2>2. \A j \in Items : j \notin doubtful' => ~InHand(j)
    BY <2>1 DEF InHand
  <2>3. doubtful \subseteq doubtful'
    BY <2>1
  <2> QED
    BY <1>0, <2>1, <2>2, <2>3, KeepHeads
<1>7. CASE \E i \in Items : BecomesDue(i)
  BY <1>0, <1>7, KeepHeads DEF BecomesDue, mqtt, InHand
<1>8. CASE Connect
  <2>1. /\ wire = <<>> /\ wire' = outbox
        /\ UNCHANGED <<worker, outbox, broker, logdata, doubtful>>
    BY <1>0, <1>8 DEF Connect, WireInv
  <2>2. Len(wire) = 0
    BY <2>1, EmptySeq
  <2>3. ASSUME NEW j, NEW w, Heads(j, w) PROVE Heads(j, w)'
    BY <2>1, <2>2, <2>3 DEF Heads, Mentions
  <2> QED
    BY <1>0, <2>1, <2>3 DEF HeadsInv, InHand
<1>9. CASE Drop \/ BrokerTakesAckLost
  <2>1. /\ wire' = <<>> /\ UNCHANGED <<worker, outbox, logdata>> /\ doubtful \subseteq doubtful'
    BY <1>9 DEF Drop, BrokerTakesAckLost, Lost
  <2>2. Len(wire') = 0
    BY <2>1, EmptySeq
  <2>3. ASSUME NEW j \in Items, j \notin doubtful', NEW w, Heads(j, w)
        PROVE  Heads(j, w)'
    <3>1. LastIs(wire', j, w) /\ LastIs(outbox', j, w)
      BY <2>1, <2>2, <2>3 DEF LastIs, Heads
    <3>2. ASSUME ~Mentions(outbox, j) PROVE broker'[j] = w
      <4>1. CASE Mentions(wire, j)
        <5>1. j \notin Qos1
          BY <1>0, <3>2, <4>1, OnWireIsKept
        <5>2. ~Drop
          BY <2>3, <4>1, <5>1 DEF Drop, Lost, Mentions
        <5>3. /\ wire # <<>> /\ broker' = [broker EXCEPT ![Head(wire)[1]] = Head(wire)[2]]
              /\ ~Mentions(Tail(wire), j)
          BY <1>9, <2>3, <5>1, <5>2 DEF BrokerTakesAckLost, Lost, Mentions
        <5>4. Head(wire)[1] = j /\ Head(wire)[2] = w
          BY <1>0, <2>3, <4>1, <5>3, TakePacket DEF Heads
        <5> QED
          BY <1>0, <5>3, <5>4 DEF TypeOK
      <4>2. CASE ~Mentions(wire, j)
        <5>1. broker[j] = w
          BY <2>3, <3>2, <4>2 DEF Heads
        <5>2. wire # <<>> => Head(wire)[1] # j
          BY <1>0, <4>2, TakePacket
        <5>3. broker'[j] = broker[j]
          BY <1>0, <1>9, <5>2 DEF Drop, BrokerTakesAckLost, TypeOK
        <5> QED
          BY <5>1, <5>3
      <4> QED
        BY <4>1, <4>2
    <3> QED
      BY <2>1, <3>1, <3>2 DEF Heads
  <2> QED
    BY <1>0, <2>1, <2>3 DEF HeadsInv, InHand
<1>10. CASE BrokerTakes
  <2>1. /\ wire # <<>> /\ wire' = Tail(wire)
        /\ broker' = [broker EXCEPT ![Head(wire)[1]] = Head(wire)[2]]
        /\ outbox' = IF Head(wire)[1] \in Qos1 THEN Tail(outbox) ELSE outbox
        /\ UNCHANGED <<worker, logdata, doubtful>>
    BY <1>10 DEF BrokerTakes
  <2>2. ASSUME NEW j \in Items, NEW w, Heads(j, w)
        PROVE  Heads(j, w)'
    <3>1. /\ LastIs(wire, j, w) /\ LastIs(outbox, j, w)
          /\ ~Mentions(wire, j) /\ ~Mentions(outbox, j) => broker[j] = w
      BY <2>2 DEF Heads
    <3>2. LastIs(wire', j, w)
      BY <1>0, <2>1, <3>1, TakePacket
    <3>3. LastIs(outbox', j, w)
      <4>1. CASE Head(wire)[1] \in Qos1
        <5>1. outbox # <<>>
          BY <1>0, <2>1, <4>1, TakenIsKept
        <5> QED
          BY <1>0, <2>1, <3>1, <4>1, <5>1, TakePacket
      <4> QED
        BY <2>1, <3>1, <4>1
    <3>4. ~Mentions(wire', j) /\ ~Mentions(outbox', j) => broker'[j] = w
      <4>1. CASE Head(wire)[1] = j
        <5>1. ~Mentions(wire', j) => Head(wire)[2] = w
          BY <1>0, <2>1, <3>1, <4>1, TakePacket
        <5>2. broker'[j] = Head(wire)[2]
          BY <1>0, <2>1, <4>1 DEF TypeOK
        <5> QED
          BY <5>1, <5>2
      <4>2. CASE Head(wire)[1] # j
        <5>1. Mentions(wire', j) <=> Mentions(wire, j)
          BY <1>0, <2>1, <4>2, TakePacket
        <5>2. Mentions(outbox', j) <=> Mentions(outbox, j)
          <6>1. CASE Head(wire)[1] \in Qos1
            <7>1. outbox # <<>> /\ Head(outbox)[1] # j /\ outbox' = Tail(outbox)
              BY <1>0, <2>1, <4>2, <6>1, TakenIsKept
            <7> QED
              BY <1>0, <7>1, TakePacket
          <6> QED
            BY <2>1, <6>1
        <5>3. broker'[j] = broker[j]
          BY <1>0, <2>1, <4>2 DEF TypeOK
        <5> QED
          BY <3>1, <5>1, <5>2, <5>3
      <4> QED
        BY <4>1, <4>2
    <3> QED
      BY <3>2, <3>3, <3>4 DEF Heads
  <2> QED
    BY <1>0, <2>1, <2>2 DEF HeadsInv, InHand
<1>11. CASE UNCHANGED vars
  BY <1>0, <1>11, KeepHeads DEF vars, mqtt, InHand
<1> QED
  BY <1>1, <1>2, <1>3, <1>4, <1>5, <1>6, <1>7, <1>8, <1>9, <1>10, <1>11 DEF Next, RunLogger

-----------------------------------------------------------------------------
LEMMA InitDelivery == Init => DeliveryInv
<1> SUFFICES ASSUME Init PROVE DeliveryInv
  OBVIOUS
<1> USE DEF Init
<1>1. TypeOK
  <2>1. \A S : <<>> \in Seq(S)
    BY EmptySeq
  <2>2. Len(queue) <= QueueMax
    BY EmptySeq, DeliveryAssumption
  <2>3. worker = Idle /\ due = {} /\ doubtful = {} /\ up \in BOOLEAN /\ http \in BOOLEAN
    OBVIOUS
  <2>4. /\ logdata \in [Items -> Values \cup {None}] /\ broker \in [Items -> Values \cup {None}]
        /\ server \in [Items -> Values \cup {None}] /\ reading \in [Items -> Values]
    OBVIOUS
  <2> QED
    BY <2>1, <2>2, <2>3, <2>4 DEF TypeOK
<1>2. WireInv /\ WorkerInv
  BY DEF WireInv, WorkerInv, Idle
<1>3. HeadsInv
  <2>1. \A i \in Items : ~InHand(i) /\ logdata[i] = None
    BY DEF InHand, Idle
  <2> QED
    BY <2>1 DEF HeadsInv
<1> QED
  BY <1>1, <1>2, <1>3 DEF DeliveryInv

LEMMA NextDelivery == DeliveryInv /\ [Next]_vars => DeliveryInv'
  BY NextType, NextWire, NextWorker, NextHeads DEF DeliveryInv

LEMMA DeliveryInvHolds == Spec => []DeliveryInv
  BY InitDelivery, NextDelivery, PTL DEF Spec

(* Types of the way to the sinks, among them that the queue never exceeds  *)
(* its size (_enqueue, run_logger, DataLogger).                            *)
THEOREM DeliveryTypeCorrect == Spec => []TypeOK
<1>1. DeliveryInv => TypeOK
  BY DEF DeliveryInv
<1> QED
  BY <1>1, DeliveryInvHolds, PTL

(* A value remembered as sent is what the broker shows once nothing about  *)
(* it is under way: for a switch over any number of lost connections and   *)
(* acknowledgements, for a sensor as long as none of its packets was lost, *)
(* with the exceptions of RememberedIsPublished (DataLogger.log and        *)
(* send_to_server; the client's resending).                                *)
THEOREM BrokerShowsRemembered == Spec => []RememberedIsPublished
<1>1. DeliveryInv => RememberedIsPublished
  <2> SUFFICES ASSUME DeliveryInv, NEW i \in Items, Quiet(i), i \notin doubtful, logdata[i] # None
               PROVE  broker[i] = logdata[i]
    BY DEF RememberedIsPublished
  <2>1. ~InHand(i) /\ ~Mentions(wire, i) /\ ~Mentions(outbox, i)
    BY DEF Quiet, InHand, Mentions
  <2> QED
    BY <2>1 DEF DeliveryInv, HeadsInv, Heads
<1> QED
  BY <1>1, DeliveryInvHolds, PTL

(* Only what the MQTT client took, and the server has, is remembered as    *)
(* sent (DataLogger.send_to_server combines what the sinks say).           *)
THEOREM OnlyAcceptedIsRemembered == Spec => RememberedOnlyIfAccepted
<1> DEFINE A == \A i \in Items : logdata'[i] # logdata[i] =>
                  /\ worker.handed
                  /\ http => server[i] = logdata'[i]
<1>1. DeliveryInv /\ [Next]_vars => [A]_vars
  <2> SUFFICES ASSUME DeliveryInv, [Next]_vars PROVE A
    OBVIOUS
  <2>1. CASE logdata' = logdata
    BY <2>1
  <2>2. CASE Remember /\ logdata' # logdata
    <3>1. /\ worker.pc = "remember" /\ worker.delivered
          /\ logdata' = [logdata EXCEPT ![worker.item] = worker.val]
      BY <2>2 DEF Remember
    <3>2. worker.handed /\ (http => server[worker.item] = worker.val)
      BY <3>1 DEF DeliveryInv, WorkerInv
    <3>3. \A i \in Items : logdata'[i] # logdata[i] => i = worker.item /\ logdata'[i] = worker.val
      BY <3>1 DEF DeliveryInv, TypeOK
    <3> QED
      BY <3>2, <3>3
  <2>3. logdata' = logdata \/ Remember
    BY DEF Next, RunLogger, Report, Take, SendMqtt, SendHttp, LogRaises, BecomesDue, Connect,
           Drop, BrokerTakes, BrokerTakesAckLost, vars
  <2> QED
    BY <2>1, <2>2, <2>3
<1> QED
  BY <1>1, DeliveryInvHolds, PTL DEF Spec, RememberedOnlyIfAccepted
=============================================================================

------------------------ MODULE CommandBridgeProofs ------------------------
(***************************************************************************)
(* The command path for any number of devices and commands: no wake-up is  *)
(* lost, and every step of the two threads is one of the abstract queue,   *)
(* or none that the queue can see.                                         *)
(***************************************************************************)
EXTENDS CommandBridge, SequenceTheorems, TLAPS

(* Commands are numbered as they come.  The one on_message has at hand is  *)
(* the newest; it is in no list before it is appended, and in no other     *)
(* device's afterwards.                                                    *)
InLists(m, n) == m \in InPath(sets[n])

NewestInv ==
    /\ paho.pc # "idle" => paho.msg = received
    /\ \A n \in Names : \A m \in Msgs : InLists(m, n) => m <= received
    /\ paho.pc = "append" => /\ received \notin signalled
                             /\ \A n \in Names : ~InLists(received, n)
    /\ paho.pc = "notify" => /\ received \notin signalled
                             /\ \A n \in Names : InLists(received, n) => n = paho.dev

(* A list that on_message may yet append to while it is drained has been   *)
(* replaced by an empty one.                                               *)
DrainedInv == paho.pc = "append" /\ paho.list = "drained" => sets[paho.dev] = <<>>

(* A device whose list has a command that was signalled is known; and      *)
(* while the event is clear, the bridge has yet to look at that list.      *)
Signalled(n) == \E m \in signalled : InLists(m, n)

YetToLook(n) ==
    \/ bridge.pc \in {"scan", "swap", "iterate"} /\ n \in bridge.todo
    \/ bridge.pc = "swap" /\ n = bridge.name

WakeInv ==
    \A n \in Names : Signalled(n) => n \in devices /\ (wake \/ YetToLook(n))

(* A step of one thread leaves the other's records alone, but for the list *)
(* that on_message is to append to.                                        *)
BridgeType(b, D) ==
    \/ b \in [pc : {"register", "wait", "clear", "scan", "done"}, todo : SUBSET D]
    \/ b \in [pc : {"swap"}, todo : SUBSET D, name : D]
    \/ b \in [pc : {"iterate"}, todo : SUBSET D, name : D, left : Seq(Msgs)]

PahoType(p) ==
    \/ p = [pc |-> "idle"]
    \/ p \in [pc : {"notify"}, dev : Names, msg : Msgs]
    \/ p \in [pc : {"append"}, dev : Names, msg : Msgs, list : {"sets", "drained", "orphaned"}]

Holding ==
    paho.pc = "append" /\ paho.list = "drained" => bridge.pc = "iterate" /\ bridge.name = paho.dev

BridgeInv == TypeOK /\ NewestInv /\ DrainedInv /\ WakeInv

-----------------------------------------------------------------------------
LEMMA AppendPath ==
    ASSUME NEW S, NEW s \in Seq(S), NEW m \in S
    PROVE  /\ Append(s, m) \in Seq(S) /\ InPath(Append(s, m)) = InPath(s) \cup {m}
<1>1. Len(s) \in Nat
  BY LenProperties
<1>2. /\ Append(s, m) \in Seq(S) /\ Len(Append(s, m)) = Len(s) + 1
      /\ \A i \in 1 .. Len(s) : Append(s, m)[i] = s[i]
      /\ Append(s, m)[Len(s) + 1] = m
  BY AppendProperties
<1>3. /\ \A i \in 1 .. Len(s) : i \in 1 .. Len(Append(s, m))
      /\ \A i \in 1 .. Len(Append(s, m)) : i \in 1 .. Len(s) \/ i = Len(s) + 1
      /\ Len(s) + 1 \in 1 .. Len(Append(s, m))
  BY <1>1, <1>2
<1> QED
  BY <1>2, <1>3 DEF InPath

LEMMA EmptyPath == /\ InPath(<<>>) = {} /\ \A S : <<>> \in Seq(S)
  BY EmptySeq DEF InPath

LEMMA HeadAndTail ==
    ASSUME NEW S, NEW s \in Seq(S), s # <<>>, NEW t \in Seq(S)
    PROVE  /\ Head(s) \in S /\ Tail(s) \in Seq(S)
           /\ s \o t # <<>> /\ Head(s \o t) = Head(s) /\ Tail(s \o t) = Tail(s) \o t
<1>1. Len(s) \in Nat \ {0} /\ Len(t) \in Nat
  BY EmptySeq, LenProperties
<1>2. /\ Head(s) \in S /\ Tail(s) \in Seq(S) /\ Len(Tail(s)) = Len(s) - 1 /\ Head(s) = s[1]
      /\ \A i \in 1 .. Len(Tail(s)) : Tail(s)[i] = s[i + 1]
  BY HeadTailProperties
<1> DEFINE c == s \o t
           d == Tail(s) \o t
<1>3. /\ c \in Seq(S) /\ Len(c) = Len(s) + Len(t)
      /\ \A i \in 1 .. Len(s) + Len(t) : c[i] = IF i <= Len(s) THEN s[i] ELSE t[i - Len(s)]
  BY ConcatProperties
<1>4. /\ d \in Seq(S) /\ Len(d) = Len(Tail(s)) + Len(t)
      /\ \A i \in 1 .. Len(Tail(s)) + Len(t) :
            d[i] = IF i <= Len(Tail(s)) THEN Tail(s)[i] ELSE t[i - Len(Tail(s))]
  BY <1>2, ConcatProperties
<1> HIDE DEF c, d
<1>5. c # <<>>
  BY <1>1, <1>3, EmptySeq
<1>6. /\ Tail(c) \in Seq(S) /\ Len(Tail(c)) = Len(c) - 1 /\ Head(c) = c[1]
      /\ \A i \in 1 .. Len(Tail(c)) : Tail(c)[i] = c[i + 1]
  BY <1>3, <1>5, HeadTailProperties
<1>7. Head(c) = Head(s)
  BY <1>1, <1>2, <1>3, <1>6
<1>8. Tail(c) = d
  <2>1. Len(Tail(c)) = Len(d)
    BY <1>1, <1>2, <1>3, <1>4, <1>6
  <2>2. ASSUME NEW i \in 1 .. Len(Tail(c))
        PROVE  Tail(c)[i] = d[i]
    <3>1. i \in Nat /\ i >= 1 /\ i + 1 \in 1 .. Len(s) + Len(t) /\ i \in 1 .. Len(Tail(s)) + Len(t)
      BY <1>1, <1>2, <1>3, <1>6
    <3>2. CASE i <= Len(Tail(s))
      <4>1. i + 1 <= Len(s) /\ i \in 1 .. Len(Tail(s))
        BY <1>1, <1>2, <3>1, <3>2
      <4> QED
        BY <1>2, <1>3, <1>4, <1>6, <3>1, <3>2, <4>1
    <3>3. CASE ~(i <= Len(Tail(s)))
      <4>1. ~(i + 1 <= Len(s)) /\ (i + 1) - Len(s) = i - Len(Tail(s))
        BY <1>1, <1>2, <3>1, <3>3
      <4> QED
        BY <1>3, <1>4, <1>6, <3>1, <3>3, <4>1
    <3> QED
      BY <3>2, <3>3
  <2> QED
    BY <1>4, <1>6, <2>1, <2>2, SeqEqual
<1> QED
  BY <1>2, <1>5, <1>7, <1>8 DEF c, d

LEMMA AppendBehind ==
    ASSUME NEW S, NEW s \in Seq(S), NEW t \in Seq(S), NEW m \in S
    PROVE  s \o Append(t, m) = Append(s \o t, m)
<1>1. <<m>> \in Seq(S) /\ s \o t \in Seq(S)
  BY ConcatProperties
<1>2. Append(t, m) = t \o <<m>> /\ Append(s \o t, m) = (s \o t) \o <<m>>
  BY <1>1, AppendIsConcat
<1> QED
  BY <1>1, <1>2, ConcatAssociative

-----------------------------------------------------------------------------
LEMMA TypeParts ==
    TypeOK <=> /\ sets \in [Names -> Seq(Msgs)]
               /\ submitted \in [Names -> Seq(Msgs)]
               /\ devices \subseteq Names /\ trigger \subseteq devices
               /\ wake \in BOOLEAN /\ stop_event \in BOOLEAN
               /\ received \in 0 .. MaxMsgs /\ signalled \subseteq 1 .. received
               /\ PahoType(paho) /\ BridgeType(bridge, devices) /\ Holding
  BY DEF TypeOK, PahoType, BridgeType, Holding

(* The bridge changes which list on_message holds, and nothing else of it. *)
LEMMA RelistPaho ==
    ASSUME PahoType(paho), paho.pc = "append", NEW l \in {"drained", "orphaned"}
    PROVE  LET p == [paho EXCEPT !.list = l] IN
           /\ PahoType(p)
           /\ p.pc = "append" /\ p.dev = paho.dev /\ p.msg = paho.msg /\ p.list = l
<1>1. paho \in [pc : {"append"}, dev : Names, msg : Msgs, list : {"sets", "drained", "orphaned"}]
  BY DEF PahoType
<1>2. [paho EXCEPT !.list = l] \in [pc : {"append"}, dev : Names, msg : Msgs,
                                    list : {"sets", "drained", "orphaned"}]
  BY <1>1
<1> QED
  BY <1>1, <1>2 DEF PahoType

LEMMA NextType ==
    ASSUME MaxMsgs \in Nat, TypeOK, NewestInv, [Next]_vars
    PROVE  TypeOK'
<1> USE DEF Msgs
<1>0. /\ sets \in [Names -> Seq(Msgs)]
      /\ submitted \in [Names -> Seq(Msgs)]
      /\ devices \subseteq Names /\ trigger \subseteq devices
      /\ wake \in BOOLEAN /\ stop_event \in BOOLEAN
      /\ received \in 0 .. MaxMsgs /\ signalled \subseteq 1 .. received
      /\ PahoType(paho) /\ BridgeType(bridge, devices) /\ Holding
  BY TypeParts
<1>1. ASSUME NEW n \in Names, GetList(n)
      PROVE  TypeOK'
  <2>1. /\ received' = received + 1 /\ received' \in 0 .. MaxMsgs
        /\ received + 1 \in Msgs /\ signalled \subseteq 1 .. received'
    BY <1>0, <1>1 DEF GetList
  <2>2. PahoType(paho')
    BY <1>1, <2>1 DEF GetList, PahoType
  <2>3. Holding'
    BY <1>1 DEF GetList, Holding
  <2> QED
    BY <1>0, <1>1, <2>1, <2>2, <2>3, TypeParts DEF GetList, TypeOK, BridgeType, PahoType, Holding
<1>2. CASE AppendToList
  <2>1. paho \in [pc : {"append"}, dev : Names, msg : Msgs, list : {"sets", "drained", "orphaned"}]
    BY <1>0, <1>2 DEF AppendToList, PahoType
  <2>2. /\ paho' = [pc |-> "notify", dev |-> paho.dev, msg |-> paho.msg]
        /\ UNCHANGED <<trigger, wake, devices, stop_event, received, signalled, submitted>>
    BY <1>2 DEF AppendToList
  <2>3. PahoType(paho') /\ Holding'
    BY <2>1, <2>2 DEF PahoType, Holding
  <2>4. sets' \in [Names -> Seq(Msgs)] /\ BridgeType(bridge', devices)
    <3>1. CASE sets' = [sets EXCEPT ![paho.dev] = Append(@, paho.msg)] /\ UNCHANGED bridge
      <4>1. Append(sets[paho.dev], paho.msg) \in Seq(Msgs)
        BY <1>0, <2>1, AppendPath
      <4> QED
        BY <1>0, <3>1, <4>1
    <3>2. CASE /\ paho.list = "drained" /\ bridge' = [bridge EXCEPT !.left = Append(@, paho.msg)]
               /\ UNCHANGED sets
      <4>1. bridge \in [pc : {"iterate"}, todo : SUBSET devices, name : devices, left : Seq(Msgs)]
        BY <1>0, <2>1, <3>2 DEF Holding, BridgeType
      <4>2. Append(bridge.left, paho.msg) \in Seq(Msgs)
        BY <2>1, <4>1, AppendPath
      <4>3. bridge' \in [pc : {"iterate"}, todo : SUBSET devices, name : devices, left : Seq(Msgs)]
        BY <3>2, <4>1, <4>2
      <4> QED
        BY <1>0, <3>2, <4>3 DEF BridgeType
    <3>3. CASE UNCHANGED <<sets, bridge>>
      BY <1>0, <3>3
    <3> QED
      BY <1>2, <3>1, <3>2, <3>3 DEF AppendToList
  <2> QED
    BY <1>0, <2>2, <2>3, <2>4 DEF TypeOK, BridgeType, PahoType, Holding
<1>3. CASE SetTrigger
  <2>1. paho.msg \in 1 .. received
    BY <1>0, <1>3 DEF SetTrigger, PahoType, NewestInv
  <2>2. /\ paho' = [pc |-> "idle"] /\ wake' \in BOOLEAN /\ signalled' \subseteq 1 .. received
        /\ UNCHANGED <<sets, trigger, devices, stop_event, bridge, received, submitted>>
    BY <1>0, <1>3, <2>1 DEF SetTrigger
  <2> QED
    BY <1>0, <2>2 DEF TypeOK, BridgeType
<1>4. CASE RegisterTriggers
  <2>1. bridge \in [pc : {"register"}, todo : SUBSET devices]
    BY <1>0, <1>4 DEF RegisterTriggers, BridgeType
  <2>2. /\ bridge' \in [pc : {"wait", "done"}, todo : SUBSET devices]
        /\ trigger' \subseteq devices
    BY <1>0, <1>4, <2>1 DEF RegisterTriggers
  <2>3. Holding'
    BY <1>0, <1>4 DEF RegisterTriggers, Holding
  <2> QED
    BY <1>0, <1>4, <2>2, <2>3 DEF RegisterTriggers, TypeOK, PahoType, Holding
<1>5. CASE Woken \/ PollTimeout
  <2>1. bridge \in [pc : {"wait"}, todo : SUBSET devices]
    BY <1>0, <1>5 DEF Woken, PollTimeout, BridgeType
  <2>2. bridge' \in [pc : {"clear"}, todo : SUBSET devices]
    BY <1>5, <2>1 DEF Woken, PollTimeout
  <2>3. Holding'
    BY <1>0, <1>5 DEF Woken, PollTimeout, Holding
  <2> QED
    BY <1>0, <1>5, <2>2, <2>3 DEF Woken, PollTimeout, TypeOK, PahoType, Holding
<1>6. CASE ClearWake
  <2>1. Holding'
    BY <1>0, <1>6 DEF ClearWake, Holding
  <2> QED
    BY <1>0, <1>6, <2>1 DEF ClearWake, TypeOK, PahoType, Holding
<1>7. ASSUME NEW n \in Names, LookAt(n)
      PROVE  TypeOK'
  <2>1. bridge \in [pc : {"scan"}, todo : SUBSET devices] /\ n \in bridge.todo
    BY <1>0, <1>7 DEF LookAt, BridgeType
  <2>2. BridgeType(bridge', devices)
    BY <1>7, <2>1 DEF LookAt, BridgeType
  <2>3. Holding'
    BY <1>0, <1>7 DEF LookAt, Holding
  <2> QED
    BY <1>0, <1>7, <2>2, <2>3 DEF LookAt, TypeOK, BridgeType, PahoType, Holding
<1>8. CASE Swap
  <2>1. bridge \in [pc : {"swap"}, todo : SUBSET devices, name : devices]
    BY <1>0, <1>8 DEF Swap, BridgeType
  <2>2. bridge' \in [pc : {"iterate"}, todo : SUBSET devices, name : devices, left : Seq(Msgs)]
    BY <1>0, <1>8, <2>1 DEF Swap
  <2>3. sets' \in [Names -> Seq(Msgs)]
    BY <1>0, <1>8, EmptyPath DEF Swap
  <2>4. PahoType(paho')
    BY <1>0, <1>8, RelistPaho DEF Swap
  <2>5. Holding'
    <3>1. bridge'.pc = "iterate" /\ bridge'.name = bridge.name /\ bridge.pc = "swap"
      BY <1>8, <2>1 DEF Swap
    <3>2. CASE paho.pc = "append" /\ paho.dev = bridge.name
      <4>1. paho'.dev = paho.dev
        BY <1>0, <1>8, <3>2, RelistPaho DEF Swap
      <4> QED
        BY <3>1, <3>2, <4>1 DEF Holding
    <3>3. CASE ~(paho.pc = "append" /\ paho.dev = bridge.name)
      <4>1. paho' = paho
        BY <1>8, <3>3 DEF Swap
      <4> QED
        BY <1>0, <3>1, <4>1 DEF Holding
    <3> QED
      BY <3>2, <3>3
  <2> QED
    BY <1>0, <1>8, <2>2, <2>3, <2>4, <2>5 DEF Swap, TypeOK, BridgeType, PahoType, Holding
<1>9. CASE Submit
  <2>1. bridge \in [pc : {"iterate"}, todo : SUBSET devices, name : devices, left : Seq(Msgs)]
        /\ bridge.left # <<>>
    BY <1>0, <1>9 DEF Submit, BridgeType
  <2>2. Head(bridge.left) \in Msgs /\ Tail(bridge.left) \in Seq(Msgs)
    BY <2>1, HeadAndTail
  <2>3. bridge' \in [pc : {"iterate"}, todo : SUBSET devices, name : devices, left : Seq(Msgs)]
        /\ bridge'.name = bridge.name
    BY <1>9, <2>1, <2>2 DEF Submit
  <2>4. Append(submitted[bridge.name], Head(bridge.left)) \in Seq(Msgs)
    BY <1>0, <2>1, <2>2, AppendPath
  <2>5. submitted' \in [Names -> Seq(Msgs)]
    BY <1>0, <1>9, <2>4 DEF Submit
  <2>6. Holding'
    BY <1>0, <1>9, <2>1, <2>3 DEF Submit, Holding
  <2> QED
    BY <1>0, <1>9, <2>3, <2>5, <2>6 DEF Submit, TypeOK, PahoType, Holding
<1>10. CASE EndOfList
  <2>1. bridge \in [pc : {"iterate"}, todo : SUBSET devices, name : devices, left : Seq(Msgs)]
    BY <1>0, <1>10 DEF EndOfList, BridgeType
  <2>2. bridge' \in [pc : {"scan"}, todo : SUBSET devices]
    BY <1>10, <2>1 DEF EndOfList
  <2>3. PahoType(paho')
    BY <1>0, <1>10, RelistPaho DEF EndOfList
  <2>4. Holding'
    BY <1>0, <1>10, RelistPaho DEF EndOfList, Holding
  <2> QED
    BY <1>0, <1>10, <2>2, <2>3, <2>4 DEF EndOfList, TypeOK, PahoType, Holding
<1>11. CASE EndOfRound
  <2>1. bridge' \in [pc : {"register"}, todo : SUBSET devices]
    BY <1>0, <1>11 DEF EndOfRound, BridgeType
  <2>2. Holding'
    BY <1>0, <1>11 DEF EndOfRound, Holding
  <2> QED
    BY <1>0, <1>11, <2>1, <2>2 DEF EndOfRound, TypeOK, PahoType, Holding
<1>12. ASSUME NEW n \in Names, DeviceFound(n)
       PROVE  TypeOK'
  <2>1. BridgeType(bridge, devices')
    <3>1. devices \subseteq devices'
      BY <1>12 DEF DeviceFound
    <3> QED
      BY <1>0, <3>1 DEF BridgeType
  <2> QED
    BY <1>0, <1>12, <2>1 DEF DeviceFound, TypeOK, BridgeType, PahoType, Holding
<1>13. CASE RequestStop
  BY <1>0, <1>13 DEF RequestStop, TypeOK, BridgeType, PahoType, Holding
<1>14. CASE Finished \/ UNCHANGED vars
  BY <1>0, <1>14 DEF Finished, vars, TypeOK, BridgeType, PahoType, Holding
<1> QED
  BY <1>1, <1>2, <1>3, <1>4, <1>5, <1>6, <1>7, <1>8, <1>9, <1>10, <1>11, <1>12, <1>13, <1>14
  DEF Next, OnMessage, Bridge

-----------------------------------------------------------------------------
(* What a step can do to the lists: on_message's append puts the newest    *)
(* command into one, and nothing else adds to any.                         *)
LEMMA ListsGrow ==
    ASSUME MaxMsgs \in Nat, TypeOK, NewestInv, [Next]_vars
    PROVE  \A n \in Names : \A m \in Msgs :
              InLists(m, n)' => \/ InLists(m, n)
                                \/ paho.pc = "append" /\ AppendToList /\ n = paho.dev /\ m = received
<1>1. SUFFICES ASSUME NEW n \in Names, NEW m \in Msgs, InLists(m, n)'
               PROVE  \/ InLists(m, n)
                      \/ paho.pc = "append" /\ AppendToList /\ n = paho.dev /\ m = received
  OBVIOUS
<1>2. sets \in [Names -> Seq(Msgs)] /\ sets' \in [Names -> Seq(Msgs)]
  BY NextType DEF TypeOK
<1>3. m \in InPath(sets'[n])
  BY <1>1 DEF InLists, InPath
<1>4. CASE sets'[n] = sets[n]
  BY <1>3, <1>4 DEF InLists
<1>5. CASE AppendToList /\ sets' = [sets EXCEPT ![paho.dev] = Append(@, paho.msg)] /\ n = paho.dev
  <2>1. paho.pc = "append" /\ paho.msg = received /\ paho.msg \in Msgs
    BY <1>5, TypeParts DEF AppendToList, NewestInv, PahoType
  <2>2. sets'[n] = Append(sets[n], received)
    BY <1>2, <1>5, <2>1
  <2>3. InPath(sets'[n]) = InPath(sets[n]) \cup {received}
    BY <1>2, <2>1, <2>2, AppendPath
  <2> QED
    BY <1>3, <1>5, <2>1, <2>3 DEF InLists
<1>6. CASE sets'[n] = <<>>
  BY <1>3, <1>6, EmptyPath
<1>7. \/ sets' = sets
      \/ AppendToList /\ sets' = [sets EXCEPT ![paho.dev] = Append(@, paho.msg)]
      \/ sets' = [sets EXCEPT ![bridge.name] = <<>>]
  BY DEF Next, OnMessage, Bridge, GetList, AppendToList, SetTrigger, RegisterTriggers, Woken,
         PollTimeout, ClearWake, LookAt, Swap, Submit, EndOfList, EndOfRound, DeviceFound,
         RequestStop, Finished, vars
<1>8. \/ sets'[n] = sets[n] \/ sets'[n] = <<>>
      \/ AppendToList /\ sets' = [sets EXCEPT ![paho.dev] = Append(@, paho.msg)] /\ n = paho.dev
  BY <1>2, <1>7
<1> QED
  BY <1>4, <1>5, <1>6, <1>8

LEMMA NextNewest ==
    ASSUME MaxMsgs \in Nat, TypeOK, NewestInv, [Next]_vars
    PROVE  NewestInv'
<1> USE DEF Msgs
<1>1. /\ received \in 0 .. MaxMsgs /\ signalled \subseteq 1 .. received /\ PahoType(paho)
      /\ received' \in 0 .. MaxMsgs
  BY NextType, TypeParts DEF TypeOK
<1>2. ASSUME NEW n \in Names, GetList(n)
      PROVE  NewestInv'
  <2>1. /\ paho'.pc = "append" /\ paho'.msg = received' /\ received' = received + 1
        /\ sets' = sets /\ signalled' = signalled
    BY <1>2 DEF GetList
  <2> QED
    BY <1>1, <2>1 DEF NewestInv, InLists
<1>3. CASE AppendToList
  <2>1. /\ paho.pc = "append" /\ paho'.pc = "notify" /\ paho'.dev = paho.dev /\ paho'.msg = received
        /\ received' = received /\ signalled' = signalled
    BY <1>3 DEF AppendToList, NewestInv
  <2>2. \A n \in Names : \A m \in Msgs : InLists(m, n)' => m <= received'
    BY <1>1, <2>1, ListsGrow DEF NewestInv
  <2>3. received' \in Msgs
    BY <1>1, <2>1 DEF PahoType, NewestInv
  <2>4. \A n \in Names : InLists(received, n)' => n = paho.dev
    BY <2>1, <2>3, ListsGrow DEF NewestInv
  <2> QED
    BY <2>1, <2>2, <2>4 DEF NewestInv, InLists
<1>4. CASE SetTrigger
  <2>1. paho'.pc = "idle" /\ sets' = sets /\ received' = received
    BY <1>4 DEF SetTrigger
  <2> QED
    BY <2>1 DEF NewestInv, InLists
<1>5. CASE Swap \/ EndOfList
  <2>1. received' = received /\ signalled' = signalled /\ ~AppendToList
    <3>1. CASE AppendToList
      <4>1. paho.pc = "append" /\ paho'.pc = "notify"
        BY <3>1 DEF AppendToList
      <4>2. paho' # paho => paho'.pc = "append"
        BY <1>1, <1>5, RelistPaho DEF Swap, EndOfList
      <4> QED
        BY <4>1, <4>2
    <3> QED
      BY <1>5, <3>1 DEF Swap, EndOfList
  <2>2. \A n \in Names : \A m \in Msgs : InLists(m, n)' => InLists(m, n)
    BY <2>1, ListsGrow
  <2>3. paho'.pc = paho.pc /\ (paho.pc # "idle" => paho'.dev = paho.dev /\ paho'.msg = paho.msg)
    BY <1>1, <1>5, RelistPaho DEF Swap, EndOfList
  <2>4. paho'.pc # "idle" => paho'.msg = received'
    BY <2>1, <2>3 DEF NewestInv
  <2>5. \A n \in Names : \A m \in Msgs : InLists(m, n)' => m <= received'
    BY <2>1, <2>2 DEF NewestInv
  <2>6. PICK r : r = received
    OBVIOUS
  <2>7. paho.pc # "idle" => r \in Msgs
    BY <1>1, <2>6 DEF PahoType, NewestInv
  <2>8. \A n \in Names : r \in Msgs /\ InLists(r, n)' => InLists(r, n)
    BY <2>2
  <2>9. paho'.pc = "append" => r \notin signalled' /\ \A n \in Names : ~InLists(r, n)'
    BY <2>1, <2>3, <2>6, <2>7, <2>8 DEF NewestInv
  <2>10. paho'.pc = "notify" => /\ r \notin signalled'
                                /\ \A n \in Names : InLists(r, n)' => n = paho'.dev
    BY <2>1, <2>3, <2>6, <2>7, <2>8 DEF NewestInv
  <2>11. r = received'
    BY <2>1, <2>6
  <2> QED
    BY <2>4, <2>5, <2>9, <2>10, <2>11 DEF NewestInv, InLists
<1>6. CASE UNCHANGED <<paho, sets, received, signalled>>
  BY <1>6 DEF NewestInv, InLists
<1>7. \/ (\E n \in Names : GetList(n)) \/ AppendToList \/ SetTrigger \/ Swap \/ EndOfList
      \/ UNCHANGED <<paho, sets, received, signalled>>
  BY DEF Next, OnMessage, Bridge, RegisterTriggers, Woken, PollTimeout, ClearWake, LookAt,
         Submit, EndOfRound, DeviceFound, RequestStop, Finished, vars
<1> QED
  BY <1>2, <1>3, <1>4, <1>5, <1>6, <1>7

LEMMA NextDrained ==
    ASSUME TypeOK, DrainedInv, [Next]_vars
    PROVE  DrainedInv'
<1>1. sets \in [Names -> Seq(Msgs)] /\ PahoType(paho) /\ Holding /\ BridgeType(bridge, devices)
  BY TypeParts
<1>2. CASE paho'.pc # "append" \/ paho'.list # "drained"
  BY <1>2 DEF DrainedInv
<1>3. CASE Swap
  <2>1. bridge.pc = "swap" /\ sets' = [sets EXCEPT ![bridge.name] = <<>>]
    BY <1>3 DEF Swap
  <2>2. CASE paho.pc = "append" /\ paho.dev = bridge.name
    <3>1. paho'.dev = bridge.name /\ bridge.name \in Names
      BY <1>1, <1>3, <2>2, RelistPaho DEF Swap, PahoType
    <3> QED
      BY <1>1, <2>1, <3>1 DEF DrainedInv
  <2>3. CASE ~(paho.pc = "append" /\ paho.dev = bridge.name)
    <3>1. paho' = paho
      BY <1>3, <2>3 DEF Swap
    <3> QED
      BY <1>1, <2>1, <3>1 DEF DrainedInv, Holding
  <2> QED
    BY <2>2, <2>3
<1>4. CASE EndOfList
  <2>1. CASE paho.pc = "append" /\ paho.list = "drained"
    <3>1. paho'.list = "orphaned"
      BY <1>1, <1>4, <2>1, RelistPaho DEF EndOfList
    <3> QED
      BY <3>1 DEF DrainedInv
  <2>2. CASE ~(paho.pc = "append" /\ paho.list = "drained")
    <3>1. paho' = paho
      BY <1>4, <2>2 DEF EndOfList
    <3> QED
      BY <2>2, <3>1 DEF DrainedInv
  <2> QED
    BY <2>1, <2>2
<1>5. CASE UNCHANGED <<paho, sets>>
  BY <1>5 DEF DrainedInv
<1>6. \/ Swap \/ EndOfList \/ UNCHANGED <<paho, sets>>
      \/ paho'.pc # "append" \/ paho'.list # "drained"
  BY DEF Next, OnMessage, Bridge, GetList, AppendToList, SetTrigger, RegisterTriggers, Woken,
         PollTimeout, ClearWake, LookAt, Submit, EndOfRound, DeviceFound, RequestStop, Finished, vars
<1> QED
  BY <1>2, <1>3, <1>4, <1>5, <1>6

(* A command is signalled when it is in no list but that of its own        *)
(* device, which then has a trigger; after that the lists only shrink.     *)
LEMMA NextSignalled ==
    ASSUME MaxMsgs \in Nat, TypeOK, NewestInv, [Next]_vars, NEW n \in Names, Signalled(n)'
    PROVE  \/ Signalled(n)
           \/ n \in trigger /\ wake' = TRUE
<1>1. PICK m \in signalled' : InLists(m, n)'
  BY DEF Signalled, InLists
<1>2. /\ signalled \subseteq 1 .. received /\ received \in 0 .. MaxMsgs
      /\ signalled' \subseteq 1 .. received' /\ received' \in 0 .. MaxMsgs /\ PahoType(paho)
  BY NextType, TypeParts DEF TypeOK
<1>3. m \in Msgs
  BY <1>1, <1>2 DEF Msgs
<1>4. CASE signalled' = signalled
  <2>1. ~(paho.pc = "append" /\ m = received)
    BY <1>1, <1>4 DEF NewestInv
  <2>2. InLists(m, n)
    BY <1>1, <1>3, <2>1, ListsGrow
  <2> QED
    BY <1>1, <1>4, <2>2 DEF Signalled
<1>5. CASE SetTrigger /\ paho.dev \in trigger
  <2>1. /\ paho.pc = "notify" /\ paho.msg = received /\ wake' = TRUE /\ sets' = sets
        /\ signalled' = signalled \cup {received}
    BY <1>5 DEF SetTrigger, NewestInv
  <2>2. InLists(m, n)
    BY <1>1, <2>1 DEF InLists
  <2>3. CASE m \in signalled
    BY <2>2, <2>3 DEF Signalled
  <2>4. CASE m = received
    <3>1. n = paho.dev
      BY <2>1, <2>2, <2>4 DEF NewestInv
    <3> QED
      BY <1>5, <2>1, <3>1
  <2> QED
    BY <1>1, <2>1, <2>3, <2>4
<1>6. \/ signalled' = signalled
      \/ SetTrigger /\ paho.dev \in trigger
  BY DEF Next, OnMessage, Bridge, GetList, AppendToList, SetTrigger, RegisterTriggers, Woken, PollTimeout,
         ClearWake, LookAt, Swap, Submit, EndOfList, EndOfRound, DeviceFound, RequestStop, Finished, vars
<1> QED
  BY <1>4, <1>5, <1>6

LEMMA NextWake ==
    ASSUME MaxMsgs \in Nat, TypeOK, NewestInv, WakeInv, [Next]_vars
    PROVE  WakeInv'
<1>1. SUFFICES ASSUME NEW n \in Names, Signalled(n)'
               PROVE  n \in devices' /\ (wake' \/ YetToLook(n)')
  BY DEF WakeInv, Signalled, InLists, YetToLook
<1>2. /\ sets \in [Names -> Seq(Msgs)] /\ devices \subseteq Names /\ trigger \subseteq devices
      /\ wake \in BOOLEAN /\ BridgeType(bridge, devices) /\ PahoType(paho) /\ Holding
  BY TypeParts
<1>3. sets'[n] # <<>>
  <2>1. PICK m \in signalled' : InLists(m, n)'
    BY <1>1 DEF Signalled, InLists
  <2>2. m \in InPath(sets'[n])
    BY <2>1 DEF InLists, InPath
  <2> QED
    BY <2>2, EmptyPath
<1>4. devices \subseteq devices'
  BY DEF Next, OnMessage, Bridge, GetList, AppendToList, SetTrigger, RegisterTriggers, Woken, PollTimeout,
         ClearWake, LookAt, Swap, Submit, EndOfList, EndOfRound, DeviceFound, RequestStop, Finished, vars
<1>5. CASE n \in trigger /\ wake' = TRUE
  BY <1>2, <1>4, <1>5
<1>6. CASE Signalled(n)
  <2>1. n \in devices' /\ n \in devices /\ (wake \/ YetToLook(n))
    BY <1>4, <1>6 DEF WakeInv
  <2>2. CASE ClearWake
    <3>1. bridge' = [pc |-> "scan", todo |-> devices]
      BY <2>2 DEF ClearWake
    <3> QED
      BY <2>1, <3>1 DEF YetToLook
  <2>3. CASE wake /\ wake' = wake
    BY <2>1, <2>3
  <2>4. CASE SetTrigger
    <3>1. bridge' = bridge /\ (wake' = TRUE \/ wake' = wake)
      BY <2>4 DEF SetTrigger
    <3> QED
      BY <2>1, <3>1 DEF YetToLook
  <2>5. CASE ~wake /\ wake' = wake
    <3>1. YetToLook(n)
      BY <2>1, <2>5
    <3>2. CASE UNCHANGED bridge
      BY <2>1, <3>1, <3>2 DEF YetToLook
    <3>3. ASSUME NEW d \in Names, LookAt(d)
          PROVE  YetToLook(n)'
      <4>1. /\ bridge \in [pc : {"scan"}, todo : SUBSET devices]
            /\ bridge' = IF sets[d] = <<>>
                         THEN [bridge EXCEPT !.todo = @ \ {d}]
                         ELSE [pc |-> "swap", todo |-> bridge.todo \ {d}, name |-> d]
            /\ sets' = sets
        BY <1>2, <3>3 DEF LookAt, BridgeType
      <4>2. n \in bridge.todo
        BY <3>1, <4>1 DEF YetToLook
      <4>3. CASE sets[d] = <<>>
        <5>1. n # d /\ bridge' = [bridge EXCEPT !.todo = @ \ {d}]
          BY <1>3, <4>1, <4>3
        <5>2. bridge'.pc = "scan" /\ n \in bridge'.todo
          BY <4>1, <4>2, <5>1
        <5> QED
          BY <5>2 DEF YetToLook
      <4>4. CASE sets[d] # <<>>
        <5>1. bridge' = [pc |-> "swap", todo |-> bridge.todo \ {d}, name |-> d]
          BY <4>1, <4>4
        <5> QED
          BY <4>2, <5>1 DEF YetToLook
      <4> QED
        BY <4>3, <4>4
    <3>4. CASE Swap
      <4>1. /\ bridge \in [pc : {"swap"}, todo : SUBSET devices, name : devices]
            /\ bridge' = [pc |-> "iterate", todo |-> bridge.todo, name |-> bridge.name,
                          left |-> sets[bridge.name]]
            /\ sets' = [sets EXCEPT ![bridge.name] = <<>>]
        BY <1>2, <3>4 DEF Swap, BridgeType
      <4>2. n # bridge.name
        BY <1>2, <1>3, <4>1
      <4> QED
        BY <2>1, <3>1, <4>1, <4>2 DEF YetToLook
    <3>5. CASE bridge'.pc = bridge.pc /\ bridge'.todo = bridge.todo /\ bridge.pc = "iterate"
      BY <2>1, <3>1, <3>5 DEF YetToLook
    <3>6. CASE Submit
      <4>1. bridge \in [pc : {"iterate"}, todo : SUBSET devices, name : devices, left : Seq(Msgs)]
        BY <1>2, <3>6 DEF Submit, BridgeType
      <4>2. bridge' = [bridge EXCEPT !.left = Tail(@)]
        BY <3>6 DEF Submit
      <4>3. bridge'.pc = bridge.pc /\ bridge'.todo = bridge.todo /\ bridge.pc = "iterate"
        BY <4>1, <4>2
      <4> QED
        BY <3>5, <4>3
    <3>7. CASE AppendToList /\ bridge' # bridge
      <4>1. bridge \in [pc : {"iterate"}, todo : SUBSET devices, name : devices, left : Seq(Msgs)]
        BY <1>2, <3>7 DEF AppendToList, BridgeType, Holding
      <4>2. bridge' = [bridge EXCEPT !.left = Append(@, paho.msg)]
        BY <3>7 DEF AppendToList
      <4>3. bridge'.pc = bridge.pc /\ bridge'.todo = bridge.todo /\ bridge.pc = "iterate"
        BY <4>1, <4>2
      <4> QED
        BY <3>5, <4>3
    <3>8. CASE EndOfList
      <4>1. bridge.pc = "iterate" /\ bridge' = [pc |-> "scan", todo |-> bridge.todo]
        BY <3>8 DEF EndOfList
      <4> QED
        BY <2>1, <3>1, <4>1 DEF YetToLook
    <3>9. ~RegisterTriggers /\ ~Woken /\ ~PollTimeout /\ ~EndOfRound
      BY <3>1 DEF YetToLook, RegisterTriggers, Woken, PollTimeout, EndOfRound
    <3>10. \/ UNCHANGED bridge \/ ClearWake \/ (\E d \in Names : LookAt(d)) \/ Swap \/ Submit
           \/ AppendToList \/ EndOfList
      BY <3>9 DEF Next, OnMessage, Bridge, GetList, SetTrigger, DeviceFound, RequestStop, Finished, vars
    <3> QED
      BY <2>1, <2>2, <3>2, <3>3, <3>4, <3>6, <3>7, <3>8, <3>10
  <2>6. wake' = wake \/ ClearWake \/ SetTrigger
    BY DEF Next, OnMessage, Bridge, GetList, AppendToList, RegisterTriggers, Woken, PollTimeout, LookAt,
           Swap, Submit, EndOfList, EndOfRound, DeviceFound, RequestStop, Finished, vars
  <2> QED
    BY <2>2, <2>3, <2>4, <2>5, <2>6
<1> QED
  BY <1>1, <1>5, <1>6, NextSignalled

-----------------------------------------------------------------------------
LEMMA InitBridge == ASSUME MaxMsgs \in Nat, Init PROVE BridgeInv
<1>1. TypeOK
  <2>1. sets \in [Names -> Seq(Msgs)] /\ submitted \in [Names -> Seq(Msgs)]
    BY EmptyPath DEF Init
  <2>2. /\ devices \subseteq Names /\ trigger = {} /\ wake = FALSE /\ stop_event = FALSE
        /\ received = 0 /\ signalled = {} /\ 0 \in 0 .. MaxMsgs
        /\ paho = [pc |-> "idle"]
    BY DEF Init
  <2>3. bridge \in [pc : {"register", "wait", "clear", "scan", "done"}, todo : SUBSET devices]
    BY DEF Init
  <2> QED
    BY <2>1, <2>2, <2>3 DEF TypeOK
<1>2. \A n \in Names : \A m : ~InLists(m, n)
  BY EmptyPath DEF Init, InLists
<1> QED
  BY <1>1, <1>2 DEF Init, BridgeInv, NewestInv, DrainedInv, WakeInv, Signalled

LEMMA NextBridge == ASSUME MaxMsgs \in Nat, BridgeInv, [Next]_vars PROVE BridgeInv'
  BY NextType, NextNewest, NextDrained, NextWake DEF BridgeInv

LEMMA BridgeAlways == ASSUME MaxMsgs \in Nat PROVE Spec => []BridgeInv
  BY InitBridge, NextBridge, PTL DEF Spec

(* The records of the two threads and their lists keep their shape, and    *)
(* on_message holds a drained list only while the bridge iterates over it  *)
(* (the setdefault and append of DataLoggerMqtt.on_message, the swap in    *)
(* command_bridge).                                                        *)
THEOREM BridgeTypeCorrect == ASSUME MaxMsgs \in Nat PROVE Spec => []TypeOK
<1>1. BridgeInv => TypeOK
  BY DEF BridgeInv
<1> QED
  BY <1>1, BridgeAlways, PTL

LEMMA WakeUpsSeen == BridgeInv => NoLostWakeup
<1>1. SUFFICES ASSUME BridgeInv, bridge.pc = "wait", ~wake, NEW n \in Names, NEW m \in signalled,
                      m \in InPath(Remaining(n))
               PROVE  FALSE
  BY DEF NoLostWakeup
<1>2. sets \in [Names -> Seq(Msgs)]
  BY <1>1, TypeParts DEF BridgeInv
<1>3. Remaining(n) = sets[n]
  BY <1>1, <1>2, ConcatEmptySeq DEF Remaining
<1>4. Signalled(n)
  BY <1>1, <1>3 DEF Signalled, InLists
<1> QED
  BY <1>1, <1>4 DEF BridgeInv, WakeInv, YetToLook

(* command_bridge never goes to sleep with the event clear while a command *)
(* whose trigger was set is in a list, whatever the two threads interleave.*)
THEOREM NoWakeUpIsLost == ASSUME MaxMsgs \in Nat PROVE Spec => []NoLostWakeup
  BY WakeUpsSeen, BridgeAlways, PTL

-----------------------------------------------------------------------------
(* The lists and the iterator together are the queue.                      *)
Draining(n) == IF bridge.pc = "iterate" /\ bridge.name = n THEN bridge.left ELSE <<>>

LEMMA DrainingType ==
    ASSUME TypeOK, NEW n \in Names
    PROVE  Draining(n) \in Seq(Msgs) /\ sets[n] \in Seq(Msgs) /\ Remaining(n) = Draining(n) \o sets[n]
<1>1. sets \in [Names -> Seq(Msgs)] /\ BridgeType(bridge, devices)
  BY TypeParts
<1>2. bridge.pc = "iterate" => bridge.left \in Seq(Msgs)
  BY <1>1 DEF BridgeType
<1> QED
  BY <1>1, <1>2, EmptyPath DEF Draining, Remaining

(* A step that leaves every device's remaining commands alone is none of   *)
(* the queue's.                                                            *)
LEMMA SameRemaining ==
    ASSUME \A n \in Names : Remaining(n)' = Remaining(n),
           UNCHANGED <<submitted, devices, stop_event>>
    PROVE  UNCHANGED Queue!vars
<1>1. [n \in Names |-> Remaining(n)]' = [n \in Names |-> Remaining(n)]
  BY DEF Remaining
<1> QED
  BY <1>1 DEF Queue!vars

(* One device's commands change: the queue takes one in ...                *)
LEMMA OneAccepted ==
    ASSUME NEW d \in Names, NEW m \in Msgs, UNCHANGED <<submitted, devices, stop_event>>,
           Remaining(d)' = Append(Remaining(d), m),
           \A n \in Names : n # d => Remaining(n)' = Remaining(n)
    PROVE  Queue!Next
<1> DEFINE before == [n \in Names |-> Remaining(n)]
<1>1. before' = [before EXCEPT ![d] = Append(@, m)]
  <2>1. /\ before' = [n \in Names |-> Remaining(n)']
        /\ before = [n \in Names |-> Remaining(n)]
    OBVIOUS
  <2> HIDE DEF before
  <2> QED
    BY <2>1
<1>2. Queue!Accept(d, m)
  BY <1>1 DEF Queue!Accept
<1> QED
  BY <1>2 DEF Queue!Next

(* ... or hands its oldest one over.                                       *)
LEMMA OneDelivered ==
    ASSUME NEW d \in devices, devices \subseteq Names, Remaining(d) # <<>>,
           submitted' = [submitted EXCEPT ![d] = Append(@, Head(Remaining(d)))],
           UNCHANGED <<devices, stop_event>>,
           Remaining(d)' = Tail(Remaining(d)),
           \A n \in Names : n # d => Remaining(n)' = Remaining(n)
    PROVE  Queue!Next
<1> DEFINE before == [n \in Names |-> Remaining(n)]
<1>1. before' = [before EXCEPT ![d] = Tail(@)]
  <2>1. /\ before' = [n \in Names |-> Remaining(n)']
        /\ before = [n \in Names |-> Remaining(n)]
    OBVIOUS
  <2> HIDE DEF before
  <2> QED
    BY <2>1
<1>2. before[d] = Remaining(d)
  OBVIOUS
<1>3. Queue!Deliver(d)
  BY <1>1, <1>2 DEF Queue!Deliver
<1> QED
  BY <1>3 DEF Queue!Next

LEMMA NextImplements ==
    ASSUME MaxMsgs \in Nat, BridgeInv, BridgeInv', [Next]_vars
    PROVE  [Queue!Next]_Queue!vars
<1>1. /\ sets \in [Names -> Seq(Msgs)] /\ submitted \in [Names -> Seq(Msgs)] /\ devices \subseteq Names
      /\ BridgeType(bridge, devices) /\ PahoType(paho) /\ Holding /\ TypeOK /\ TypeOK'
  BY TypeParts DEF BridgeInv
<1>2. ASSUME UNCHANGED <<sets, submitted, devices, stop_event>>,
             \A n \in Names : Draining(n)' = Draining(n)
      PROVE  UNCHANGED Queue!vars
  <2>1. \A n \in Names : Remaining(n)' = Remaining(n)
    BY <1>2 DEF Remaining, Draining
  <2> QED
    BY <1>2, <2>1, SameRemaining
<1>3. ASSUME NEW n \in Names, GetList(n) \/ LookAt(n)
      PROVE  UNCHANGED Queue!vars
  <2>1. UNCHANGED <<sets, submitted, devices, stop_event>>
    BY <1>3 DEF GetList, LookAt
  <2>2. \A d \in Names : Draining(d)' = Draining(d)
    <3>1. CASE GetList(n)
      BY <3>1 DEF GetList, Draining
    <3>2. CASE LookAt(n)
      <4>1. bridge \in [pc : {"scan"}, todo : SUBSET devices]
        BY <1>1, <3>2 DEF LookAt, BridgeType
      <4>2. [bridge EXCEPT !.todo = @ \ {n}].pc = "scan"
        BY <4>1
      <4>3. bridge.pc # "iterate" /\ bridge'.pc # "iterate"
        BY <3>2, <4>1, <4>2 DEF LookAt
      <4> QED
        BY <4>3 DEF Draining
    <3> QED
      BY <1>3, <3>1, <3>2
  <2> QED
    BY <1>2, <2>1, <2>2
<1>4. CASE SetTrigger
  <2>1. UNCHANGED <<sets, submitted, devices, stop_event, bridge>>
    BY <1>4 DEF SetTrigger
  <2> QED
    BY <1>2, <2>1 DEF Draining
<1>5. CASE RegisterTriggers \/ Woken \/ PollTimeout \/ ClearWake \/ EndOfRound
  <2>1. /\ UNCHANGED <<sets, submitted, devices, stop_event>>
        /\ bridge \in [pc : {"register", "wait", "clear", "scan", "done"}, todo : SUBSET devices]
    BY <1>1, <1>5 DEF RegisterTriggers, Woken, PollTimeout, ClearWake, EndOfRound, BridgeType
  <2>2. bridge.pc # "iterate" /\ bridge'.pc # "iterate"
    BY <1>5, <2>1 DEF RegisterTriggers, Woken, PollTimeout, ClearWake, EndOfRound
  <2> QED
    BY <1>2, <2>1, <2>2 DEF Draining
<1>6. CASE Swap
  <2>1. /\ bridge.pc = "swap" /\ bridge.name \in Names
        /\ bridge'.pc = "iterate" /\ bridge'.name = bridge.name /\ bridge'.left = sets[bridge.name]
        /\ sets' = [sets EXCEPT ![bridge.name] = <<>>]
        /\ UNCHANGED <<submitted, devices, stop_event>>
    BY <1>1, <1>6 DEF Swap, BridgeType
  <2>2. \A n \in Names : Remaining(n)' = Remaining(n)
    <3>1. TAKE n \in Names
    <3>2. CASE n = bridge.name
      <4>1. sets'[n] = <<>>
        BY <1>1, <2>1, <3>2
      <4>2. Remaining(n)' = sets[n] \o <<>> /\ Remaining(n) = <<>> \o sets[n]
        BY <2>1, <3>2, <4>1 DEF Remaining
      <4>3. sets[n] \in Seq(Msgs)
        BY <1>1
      <4> QED
        BY <4>2, <4>3, ConcatEmptySeq
    <3>3. CASE n # bridge.name
      <4>1. sets'[n] = sets[n]
        BY <1>1, <2>1, <3>3
      <4> QED
        BY <2>1, <3>3, <4>1 DEF Remaining
    <3> QED
      BY <3>2, <3>3
  <2> QED
    BY <2>1, <2>2, SameRemaining
<1>7. CASE EndOfList
  <2>1. /\ bridge.pc = "iterate" /\ bridge.left = <<>> /\ bridge'.pc = "scan"
        /\ UNCHANGED <<sets, submitted, devices, stop_event>>
    BY <1>7 DEF EndOfList
  <2> QED
    BY <1>2, <2>1 DEF Draining
<1>8. CASE AppendToList
  <2>1. /\ paho.pc = "append" /\ paho.dev \in Names /\ paho.msg \in Msgs
        /\ paho.list \in {"sets", "drained", "orphaned"}
        /\ UNCHANGED <<submitted, devices, stop_event>>
    BY <1>1, <1>8 DEF AppendToList, PahoType
  <2>2. CASE UNCHANGED <<sets, bridge>>
    BY <1>2, <2>1, <2>2 DEF Draining
  <2>3. CASE sets' = [sets EXCEPT ![paho.dev] = Append(@, paho.msg)] /\ UNCHANGED bridge
    <3>1. PICK d \in Names, m \in Msgs : d = paho.dev /\ m = paho.msg
      BY <2>1
    <3>2. sets'[d] = Append(sets[d], m)
      BY <1>1, <2>3, <3>1
    <3>3. Remaining(d)' = Draining(d) \o Append(sets[d], m)
      BY <2>3, <3>2 DEF Remaining, Draining
    <3>4. Remaining(d)' = Append(Remaining(d), m)
      <4>1. /\ Draining(d) \in Seq(Msgs) /\ sets[d] \in Seq(Msgs)
            /\ Remaining(d) = Draining(d) \o sets[d]
        BY <1>1, DrainingType
      <4>2. Draining(d) \o Append(sets[d], m) = Append(Draining(d) \o sets[d], m)
        BY <4>1, AppendBehind
      <4> QED
        BY <3>3, <4>1, <4>2
    <3>5. \A n \in Names : n # d => sets'[n] = sets[n]
      BY <1>1, <2>3, <3>1
    <3>6. \A n \in Names : n # d => Remaining(n)' = Remaining(n)
      BY <2>3, <3>5 DEF Remaining
    <3> QED
      BY <2>1, <3>4, <3>6, OneAccepted
  <2>4. CASE /\ paho.list = "drained" /\ bridge' = [bridge EXCEPT !.left = Append(@, paho.msg)]
             /\ UNCHANGED sets
    <3>1. PICK d \in Names, m \in Msgs : d = paho.dev /\ m = paho.msg
      BY <2>1
    <3>2. /\ bridge \in [pc : {"iterate"}, todo : SUBSET devices, name : devices, left : Seq(Msgs)]
          /\ bridge.name = d /\ sets[d] = <<>>
      BY <1>1, <2>1, <2>4, <3>1 DEF BridgeInv, DrainedInv, Holding, BridgeType
    <3>3. bridge'.pc = "iterate" /\ bridge'.name = d /\ bridge'.left = Append(bridge.left, m)
      BY <2>4, <3>1, <3>2
    <3>4. Remaining(d) = bridge.left \o <<>> /\ Remaining(d)' = Append(bridge.left, m) \o <<>>
      BY <2>4, <3>2, <3>3 DEF Remaining
    <3>5. Append(bridge.left, m) \in Seq(Msgs)
      BY <3>2, AppendPath
    <3>6. Remaining(d)' = Append(Remaining(d), m)
      BY <3>2, <3>4, <3>5, ConcatEmptySeq
    <3>7. \A n \in Names : n # d => Remaining(n)' = Remaining(n)
      BY <2>4, <3>2, <3>3 DEF Remaining
    <3> QED
      BY <2>1, <3>6, <3>7, OneAccepted
  <2> QED
    BY <1>8, <2>2, <2>3, <2>4 DEF AppendToList
<1>9. CASE Submit
  <2>1. /\ bridge \in [pc : {"iterate"}, todo : SUBSET devices, name : devices, left : Seq(Msgs)]
        /\ bridge.left # <<>>
        /\ submitted' = [submitted EXCEPT ![bridge.name] = Append(@, Head(bridge.left))]
        /\ bridge' = [bridge EXCEPT !.left = Tail(@)]
        /\ UNCHANGED <<sets, devices, stop_event>>
    BY <1>1, <1>9 DEF Submit, BridgeType
  <2>2. PICK d \in devices : d = bridge.name
    BY <2>1
  <2>3. bridge'.pc = "iterate" /\ bridge'.name = d /\ bridge'.left = Tail(bridge.left)
    BY <2>1, <2>2
  <2>4. /\ Remaining(d) = bridge.left \o sets[d]
        /\ Remaining(d)' = Tail(bridge.left) \o sets[d]
    BY <2>1, <2>2, <2>3 DEF Remaining
  <2>5. sets[d] \in Seq(Msgs) /\ bridge.left \in Seq(Msgs)
    BY <1>1, <2>1, <2>2
  <2>6. /\ Remaining(d) # <<>> /\ Head(Remaining(d)) = Head(bridge.left)
        /\ Remaining(d)' = Tail(Remaining(d))
    <3>1. PICK s \in Seq(Msgs), t \in Seq(Msgs) : s = bridge.left /\ t = sets[d]
      BY <2>5
    <3>2. s \o t # <<>> /\ Head(s \o t) = Head(s) /\ Tail(s \o t) = Tail(s) \o t
      BY <2>1, <3>1, HeadAndTail
    <3> QED
      BY <2>4, <3>1, <3>2
  <2>7. \A n \in Names : n # d => Remaining(n)' = Remaining(n)
    BY <2>1, <2>2, <2>3 DEF Remaining
  <2>8. submitted' = [submitted EXCEPT ![d] = Append(@, Head(Remaining(d)))]
    BY <2>1, <2>2, <2>6
  <2> QED
    BY <1>1, <2>1, <2>6, <2>7, <2>8, OneDelivered
<1>10. CASE (\E n \in Names : DeviceFound(n)) \/ RequestStop
  <2>1. UNCHANGED <<sets, bridge, submitted>>
    BY <1>10 DEF DeviceFound, RequestStop
  <2>2. [n \in Names |-> Remaining(n)]' = [n \in Names |-> Remaining(n)]
    BY <2>1 DEF Remaining
  <2> QED
    BY <1>10, <2>1, <2>2 DEF DeviceFound, RequestStop, Queue!Next, Queue!Find, Queue!Stop
<1>11. CASE Finished \/ UNCHANGED vars
  <2>1. UNCHANGED <<sets, submitted, devices, stop_event, bridge>>
    BY <1>11 DEF Finished, vars
  <2> QED
    BY <1>2, <2>1 DEF Draining
<1> QED
  BY <1>3, <1>4, <1>5, <1>6, <1>7, <1>8, <1>9, <1>10, <1>11 DEF Next, OnMessage, Bridge

(* Every step of the two threads is one of the abstract queue, or none it  *)
(* can see: commands go in once, and come out in order and once, however   *)
(* append, swap and iteration interleave (on_message and command_bridge).  *)
(* Its liveness is left to the runs.                                       *)
THEOREM BridgeImplementsQueue ==
    ASSUME MaxMsgs \in Nat
    PROVE  Spec => Queue!Init /\ [][Queue!Next]_Queue!vars
<1>1. Init => Queue!Init
  <2>1. SUFFICES ASSUME Init PROVE Queue!Init
    OBVIOUS
  <2>2. \A n \in Names : Remaining(n) = <<>>
    BY <2>1, EmptyPath, ConcatEmptySeq DEF Init, Remaining
  <2> QED
    BY <2>1, <2>2 DEF Init, Queue!Init
<1>2. BridgeInv /\ BridgeInv' /\ [Next]_vars => [Queue!Next]_Queue!vars
  BY NextImplements
<1> QED
  BY <1>1, <1>2, BridgeAlways, PTL DEF Spec
=============================================================================

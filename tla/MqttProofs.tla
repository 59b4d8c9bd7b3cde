----------------------------- MODULE MqttProofs -----------------------------
(***************************************************************************)
(* The invariants of the three parts of MCMqtt, for any set of devices and *)
(* of entities, and any number of commands and faults: that the last word  *)
(* on a device is true (Availability), that what the two threads of the    *)
(* client share keeps its shape (MqttSubscriptions), and that the bridge   *)
(* never sleeps over a command (CommandBridge, from CommandBridgeProofs).  *)
(* Each is first proved of its part, and at the end of the composition.    *)
(***************************************************************************)
EXTENDS MCMqtt, SequenceTheorems, FiniteSetTheorems, TLAPS

(* What the client keeps for a device, or failing that what the broker     *)
(* retains, ends in the word w.                                            *)
Ends(kept, retained, w) ==
    \/ kept # <<>> /\ kept[Len(kept)] = w
    \/ kept = <<>> /\ retained \in {None, w}

PendingOK == pending \in [Devices -> Seq(Words)]
AvailableOK == available \in [Devices -> Words \cup {None}]
LinkedOK == linked \subseteq registered

(* Only a process that has marked its devices registers any.               *)
NoneBeforeUp == running # "up" => registered = {}

AvailInv == PendingOK /\ AvailableOK /\ LinkedOK /\ NoneBeforeUp /\ LastWordIsTrue

LEMMA EndsIsLastWord ==
    LastWordIsTrue <=> (running = "up" => \A d \in Devices : Ends(pending[d], available[d], Word(d)))
  BY DEF LastWordIsTrue, Ends

(* A word the client is given is the last.                                 *)
LEMMA AppendEnds ==
    ASSUME NEW kept \in Seq(Words), NEW retained, NEW w \in Words
    PROVE  Append(kept, w) \in Seq(Words) /\ Ends(Append(kept, w), retained, w)
  BY AppendProperties DEF Ends

(* The broker takes the oldest word, which is the last only if alone.      *)
LEMMA TakeEnds ==
    ASSUME NEW kept \in Seq(Words), NEW retained, NEW w \in Words,
           kept # <<>>, Ends(kept, retained, w)
    PROVE  /\ Tail(kept) \in Seq(Words) /\ Head(kept) \in Words
           /\ Ends(Tail(kept), Head(kept), w)
  <1>1. /\ Tail(kept) \in Seq(Words) /\ Head(kept) \in Words
        /\ Len(Tail(kept)) = Len(kept) - 1
        /\ \A i \in 1..Len(Tail(kept)) : Tail(kept)[i] = kept[i + 1]
    BY HeadTailProperties
  <1>2. Len(kept) \in Nat \ {0} /\ kept[Len(kept)] = w
    BY EmptySeq DEF Ends
  <1>3. CASE Tail(kept) = <<>>
    <2>1. ASSUME NEW t, t = <<>>, Len(t) = Len(kept) - 1 PROVE Len(kept) = 1
      BY <1>2, <2>1, EmptySeq
    <2>2. Len(kept) = 1
      BY <1>1, <1>3, <2>1
    <2>3. Head(kept) = w
      BY <1>2, <2>2
    <2> QED BY <1>1, <1>3, <2>3 DEF Ends
  <1>4. CASE Tail(kept) # <<>>
    <2>1. Len(Tail(kept)) \in Nat \ {0}
      BY <1>1, <1>4, EmptySeq
    <2>2. Tail(kept)[Len(Tail(kept))] = kept[Len(kept)]
      BY <1>1, <1>2, <2>1
    <2> QED BY <1>1, <1>2, <1>4, <2>2 DEF Ends
  <1> QED BY <1>3, <1>4

LEMMA InitAvailInv == Init => AvailInv
  <1> SUFFICES ASSUME Init PROVE AvailInv
    OBVIOUS
  <1>1. PendingOK
    BY EmptySeq DEF Init, PendingOK
  <1> QED
    BY <1>1 DEF Init, AvailInv, AvailableOK, LinkedOK, NoneBeforeUp, LastWordIsTrue

(* What one device is told leaves the others alone.                        *)
LEMMA PublishKeepsInv ==
    ASSUME AvailInv, NEW d \in Devices, running' = "up", running = "up",
           linked' \subseteq registered', available' = available,
           \A c \in Devices : c # d => (c \in linked <=> c \in linked'),
           Publish(d, Word(d)')
    PROVE  AvailInv'
  <1>1. pending' = [pending EXCEPT ![d] = Append(@, Word(d)')] /\ Word(d)' \in Words
    BY DEF Publish, Word, Words
  <1>2. /\ pending'[d] = Append(pending[d], Word(d)')
        /\ \A c \in Devices : c # d => pending'[c] = pending[c]
    BY <1>1 DEF AvailInv, PendingOK
  <1>3. pending'[d] \in Seq(Words) /\ Ends(pending'[d], available'[d], Word(d)')
    BY <1>1, <1>2, AppendEnds DEF AvailInv, PendingOK
  <1>4. PendingOK'
    BY <1>1, <1>2, <1>3 DEF AvailInv, PendingOK
  <1>5. \A c \in Devices : Ends(pending[c], available[c], Word(c))
    BY EndsIsLastWord DEF AvailInv
  <1>6. \A c \in Devices : c # d => Ends(pending'[c], available'[c], Word(c)')
    BY <1>2, <1>5 DEF Word
  <1>7. LastWordIsTrue'
    BY <1>3, <1>6 DEF LastWordIsTrue, Ends
  <1> QED
    BY <1>4, <1>7 DEF AvailInv, AvailableOK, LinkedOK, NoneBeforeUp

(* The devices are marked while none is registered, so all words are true. *)
LEMMA MarkKeepsInv == AvailInv /\ MarksConfigured => AvailInv'
  <1> SUFFICES ASSUME AvailInv, MarksConfigured PROVE AvailInv'
    OBVIOUS
  <1>1. /\ pending' = [d \in Devices |-> Append(pending[d], "offline")]
        /\ linked' = {} /\ registered' = {} /\ available' = available /\ running' = "up"
    BY DEF MarksConfigured, MarkOffline, AvailInv, NoneBeforeUp, LinkedOK
  <1>2. \A d \in Devices : /\ pending'[d] \in Seq(Words)
                           /\ Ends(pending'[d], available'[d], "offline")
    BY <1>1, AppendEnds DEF AvailInv, PendingOK, Words
  <1>3. \A d \in Devices : Word(d)' = "offline"
    BY <1>1 DEF Word
  <1>4. PendingOK'
    BY <1>1, <1>2 DEF PendingOK
  <1>5. LastWordIsTrue'
    BY <1>2, <1>3 DEF LastWordIsTrue, Ends
  <1> QED
    BY <1>1, <1>4, <1>5 DEF AvailInv, AvailableOK, LinkedOK, NoneBeforeUp

LEMMA TakesKeepsInv ==
    ASSUME AvailInv, NEW d \in Devices, BrokerTakes(d)
    PROVE  AvailInv'
  <1>1. /\ available' = [available EXCEPT ![d] = Head(pending[d])]
        /\ pending' = [pending EXCEPT ![d] = Tail(@)]
        /\ pending[d] # <<>> /\ pending[d] \in Seq(Words)
        /\ running' = running /\ registered' = registered /\ linked' = linked
    BY DEF BrokerTakes, process, AvailInv, PendingOK
  <1>2. /\ pending'[d] = Tail(pending[d]) /\ available'[d] = Head(pending[d])
        /\ \A c \in Devices : c # d => pending'[c] = pending[c] /\ available'[c] = available[c]
    BY <1>1 DEF AvailInv, PendingOK, AvailableOK
  <1>3. Tail(pending[d]) \in Seq(Words) /\ Head(pending[d]) \in Words
    BY <1>1, HeadTailProperties
  <1>4. PendingOK' /\ AvailableOK'
    BY <1>1, <1>2, <1>3 DEF AvailInv, PendingOK, AvailableOK
  <1>5. ASSUME running = "up", NEW c \in Devices
        PROVE  Ends(pending'[c], available'[c], Word(c)')
    <2>1. Ends(pending[c], available[c], Word(c)) /\ Word(c) \in Words /\ Word(c)' = Word(c)
      BY <1>1, <1>5, EndsIsLastWord DEF AvailInv, Word, Words
    <2> QED BY <1>1, <1>2, <2>1, TakeEnds
  <1>6. LastWordIsTrue'
    BY <1>1, <1>5 DEF LastWordIsTrue, Ends
  <1> QED BY <1>1, <1>4, <1>6 DEF AvailInv, LinkedOK, NoneBeforeUp

(* An acknowledgement lost: the word taken is still kept.                  *)
LEMMA AckLostKeepsInv ==
    ASSUME AvailInv, NEW d \in Devices, AckLost(d)
    PROVE  AvailInv'
  <1>1. /\ available' = [available EXCEPT ![d] = Head(pending[d])]
        /\ pending' = pending /\ pending[d] # <<>> /\ pending[d] \in Seq(Words)
        /\ running' = running /\ registered' = registered /\ linked' = linked
    BY DEF AckLost, process, AvailInv, PendingOK
  <1>2. Head(pending[d]) \in Words
    BY <1>1, HeadTailProperties
  <1>3. AvailableOK' /\ \A c \in Devices : pending[c] = <<>> => available'[c] = available[c]
    BY <1>1, <1>2 DEF AvailInv, AvailableOK
  <1>4. LastWordIsTrue'
    BY <1>1, <1>3 DEF AvailInv, LastWordIsTrue, Word
  <1> QED BY <1>1, <1>3, <1>4 DEF AvailInv, PendingOK, LinkedOK, NoneBeforeUp

LEMMA NextAvailInv == AvailInv /\ [Next]_vars => AvailInv'
  <1> SUFFICES ASSUME AvailInv, [Next]_vars PROVE AvailInv'
    OBVIOUS
  <1>1. CASE Start
    BY <1>1 DEF Start, AvailInv, PendingOK, AvailableOK, LinkedOK, NoneBeforeUp, LastWordIsTrue
  <1>2. CASE MarksConfigured
    BY <1>2, MarkKeepsInv
  <1>3. CASE Crash
    <2>1. PendingOK'
      BY <1>3, EmptySeq DEF Crash, PendingOK
    <2> QED
      BY <1>3, <2>1
      DEF Crash, AvailInv, AvailableOK, LinkedOK, NoneBeforeUp, LastWordIsTrue
  <1>4. CASE Connect \/ Drop
    BY <1>4 DEF Connect, Drop, process, AvailInv, PendingOK, AvailableOK, LinkedOK,
                NoneBeforeUp, LastWordIsTrue, Word
  <1>5. CASE BrokerForgets
    <2>1. AvailableOK' /\ \A d \in Devices : available'[d] = None
      BY <1>5 DEF BrokerForgets, AvailableOK
    <2> QED
      BY <1>5, <2>1 DEF BrokerForgets, process, AvailInv, PendingOK, LinkedOK, NoneBeforeUp,
                        LastWordIsTrue, Word
  <1>6. ASSUME NEW d \in Devices, Register(d) PROVE AvailInv'
    <2>1. d \notin linked' /\ Publish(d, "offline")
      BY <1>6 DEF Register, AvailInv, LinkedOK
    <2>2. Publish(d, Word(d)')
      BY <2>1 DEF Word
    <2> QED BY <1>6, <2>2, PublishKeepsInv DEF Register, AvailInv, LinkedOK
  <1>7. ASSUME NEW d \in Devices, OnConnected(d) PROVE AvailInv'
    <2>1. running = "up" /\ running' = "up"
      BY <1>7 DEF OnConnected, AvailInv, NoneBeforeUp
    <2>2. Publish(d, Word(d)')
      BY <1>7 DEF OnConnected, Word
    <2> QED BY <1>7, <2>1, <2>2, PublishKeepsInv DEF OnConnected, AvailInv, LinkedOK
  <1>8. ASSUME NEW d \in Devices, OnDisconnected(d) PROVE AvailInv'
    <2>1. running = "up" /\ running' = "up"
      BY <1>8 DEF OnDisconnected, AvailInv, NoneBeforeUp, LinkedOK
    <2>2. Publish(d, Word(d)')
      BY <1>8 DEF OnDisconnected, Word
    <2> QED BY <1>8, <2>1, <2>2, PublishKeepsInv DEF OnDisconnected, AvailInv, LinkedOK
  <1>9. CASE UNCHANGED vars
    BY <1>9 DEF vars, process, AvailInv, PendingOK, AvailableOK, LinkedOK, NoneBeforeUp,
                LastWordIsTrue, Word
  <1> QED
    BY <1>1, <1>2, <1>3, <1>4, <1>5, <1>6, <1>7, <1>8, <1>9, TakesKeepsInv, AckLostKeepsInv
    DEF Next

-----------------------------------------------------------------------------
(* MqttSubscriptions.  Every topic is a switch's, and only topics are      *)
(* under way, visited or subscribed to.                                    *)
TopicsInv ==
    /\ switches \subseteq Entities
    /\ visit \subseteq topics /\ topics \subseteq switches
    /\ wire \subseteq topics /\ subscribed \subseteq topics
    /\ waiting \subseteq Entities /\ config \subseteq Entities

(* A switch whose config was sent has a topic, and so has the one that the *)
(* worker is at, which is why a listener is renewed for a topic only.      *)
KnownInv ==
    /\ doing \in switches \cup {None}
    /\ wpc \in {"idle", "create", "renew", "check"}
    /\ (wpc = "idle") <=> (doing = None)
    /\ wpc # "idle" => doing \in topics
    /\ \A e \in switches : sensors[e] # None => e \in topics

TablesInv ==
    /\ created \in [Entities -> {None, "fresh", "due"}]
    /\ sensors \in [Entities -> {None, "fresh", "due"}]

ThreadInv ==
    /\ program \in BOOLEAN /\ up \in BOOLEAN
    /\ thread \in {"loop", "on_connect", "dead"}
    /\ size \in 0..Cardinality(switches)
    /\ mishaps \in 0..MaxFaults
    /\ ~program => ~up /\ wpc = "idle" /\ topics = {}

SubscriptionsInv == TopicsInv /\ KnownInv /\ TablesInv /\ ThreadInv

LEMMA SameCardinality == \A S : Subscriptions!Cardinality(S) = Cardinality(S)
  BY DEF Subscriptions!Cardinality, Cardinality

LEMMA SubscriptionsTypes == SubscriptionsInv => Subscriptions!TypeOK
  <1>1. TopicsInv => /\ switches \subseteq Entities
                     /\ visit \subseteq topics /\ topics \subseteq switches
                     /\ waiting \subseteq Entities /\ config \subseteq Entities
                     /\ wire \subseteq topics /\ subscribed \subseteq topics
    BY DEF TopicsInv
  <1>2. TablesInv => /\ created \in [Entities -> Subscriptions!Ages]
                     /\ sensors \in [Entities -> Subscriptions!Ages]
    BY DEF TablesInv, Subscriptions!Ages
  <1>3. KnownInv => /\ wpc \in {"idle", "create", "renew", "check"}
                    /\ doing \in switches \cup {None}
                    /\ (wpc = "idle") <=> (doing = None)
    BY DEF KnownInv
  <1> QED
    BY <1>1, <1>2, <1>3, SameCardinality DEF SubscriptionsInv, ThreadInv, Subscriptions!TypeOK

LEMMA SizesAreBounded ==
    ASSUME TopicsInv
    PROVE  /\ Cardinality(topics) \in 0..Cardinality(switches)
           /\ Cardinality(switches) \in Nat
  <1>1. IsFiniteSet(switches) /\ IsFiniteSet(topics)
    BY EntitiesAssumption, FS_Subset DEF TopicsInv
  <1>2. Cardinality(topics) <= Cardinality(switches)
    BY <1>1, FS_Subset DEF TopicsInv
  <1> QED BY <1>1, <1>2, FS_CardinalityType

LEMMA InitSubscriptions == Subscriptions!Init => SubscriptionsInv
  <1> SUFFICES ASSUME Subscriptions!Init PROVE SubscriptionsInv
    OBVIOUS
  <1>1. TopicsInv /\ KnownInv /\ TablesInv
    BY DEF Subscriptions!Init, TopicsInv, KnownInv, TablesInv
  <1>2. 0 \in 0..Cardinality(switches) /\ 0 \in 0..MaxFaults
    BY <1>1, SizesAreBounded, EntitiesAssumption
  <1>3. ThreadInv
    BY <1>2 DEF Subscriptions!Init, ThreadInv
  <1> QED BY <1>1, <1>3 DEF SubscriptionsInv

LEMMA NextTopics ==
    ASSUME SubscriptionsInv, [Subscriptions!Next]_subscriptions
    PROVE  TopicsInv'
  <1> USE DEF SubscriptionsInv, TopicsInv
  <1>1. CASE Subscriptions!Start \/ Subscriptions!Crash \/ Subscriptions!Connected
             \/ Subscriptions!Drop \/ Subscriptions!BrokerForgets
    BY <1>1 DEF Subscriptions!Start, Subscriptions!Crash, Subscriptions!Reset,
                Subscriptions!Connected, Subscriptions!Drop, Subscriptions!BrokerForgets,
                Subscriptions!client, Subscriptions!network, Subscriptions!broker
  <1>2. CASE Subscriptions!OnConnectEnds \/ Subscriptions!IterationRaises
    BY <1>2 DEF Subscriptions!OnConnectEnds, Subscriptions!IterationRaises,
                Subscriptions!client, Subscriptions!broker
  <1>3. ASSUME NEW e \in Entities, Subscriptions!Resubscribe(e) PROVE TopicsInv'
    BY <1>3 DEF Subscriptions!Resubscribe, Subscriptions!Subscribe,
                Subscriptions!client, Subscriptions!broker
  <1>4. CASE Subscriptions!ListenerSubscribes \/ Subscriptions!ListenerRaises
    <2>1. doing \in topics
      BY <1>4 DEF Subscriptions!ListenerSubscribes, Subscriptions!ListenerRaises, KnownInv
    <2> QED
      BY <1>4, <2>1
      DEF Subscriptions!ListenerSubscribes, Subscriptions!ListenerRaises,
          Subscriptions!Subscribe, Subscriptions!AfterListener, Subscriptions!broker
  <1>5. CASE Subscriptions!CheckListener
    BY <1>5 DEF Subscriptions!CheckListener, Subscriptions!client, Subscriptions!network,
                Subscriptions!broker
  <1>6. ASSUME NEW e \in Entities, NEW r \in BOOLEAN, Subscriptions!Publish(e, r)
        PROVE  TopicsInv'
    <2>1. /\ waiting' \subseteq waiting \cup {e}
          /\ topics' = topics \/ topics' = topics \cup ({e} \cap switches)
          /\ UNCHANGED <<switches, visit, wire, subscribed, config>>
      BY <1>6 DEF Subscriptions!Publish, Subscriptions!CreateSwitch, Subscriptions!CreateSensor,
                  Subscriptions!CommandTopics, Subscriptions!network, Subscriptions!broker
    <2> QED BY <2>1
  <1>7. ASSUME NEW e \in Entities,
               \/ Subscriptions!Takes(e) \/ Subscriptions!ListenerAges(e)
               \/ Subscriptions!ConfigAges(e)
        PROVE  TopicsInv'
    BY <1>7 DEF Subscriptions!Takes, Subscriptions!BrokerSubscribes,
                Subscriptions!BrokerTakesConfig, Subscriptions!ListenerAges,
                Subscriptions!ConfigAges, Subscriptions!client, Subscriptions!network,
                Subscriptions!broker
  <1>8. CASE UNCHANGED subscriptions
    BY <1>8 DEF subscriptions
  <1> QED
    BY <1>1, <1>2, <1>3, <1>4, <1>5, <1>6, <1>7, <1>8
    DEF Subscriptions!Next, Subscriptions!OnConnect, Subscriptions!Worker, Subscriptions!Reports

LEMMA NextTables ==
    ASSUME SubscriptionsInv, [Subscriptions!Next]_subscriptions
    PROVE  TablesInv'
  <1> USE DEF SubscriptionsInv, TablesInv
  <1>1. CASE Subscriptions!Crash
    BY <1>1 DEF Subscriptions!Crash, Subscriptions!Reset
  <1>2. CASE Subscriptions!ListenerSubscribes \/ Subscriptions!ListenerRaises
    BY <1>2 DEF Subscriptions!ListenerSubscribes, Subscriptions!ListenerRaises,
                Subscriptions!AfterListener
  <1>3. ASSUME NEW e \in Entities, NEW r \in BOOLEAN, Subscriptions!Publish(e, r)
        PROVE  TablesInv'
    BY <1>3 DEF Subscriptions!Publish, Subscriptions!CreateSwitch, Subscriptions!CreateSensor
  <1>4. ASSUME NEW e \in Entities, Subscriptions!ListenerAges(e) \/ Subscriptions!ConfigAges(e)
        PROVE  TablesInv'
    BY <1>4 DEF Subscriptions!ListenerAges, Subscriptions!ConfigAges
  <1>5. CASE \/ Subscriptions!Start \/ Subscriptions!Connected \/ Subscriptions!Drop
             \/ Subscriptions!BrokerForgets \/ Subscriptions!OnConnect
             \/ Subscriptions!CheckListener
    BY <1>5 DEF Subscriptions!Start, Subscriptions!Connected, Subscriptions!Drop,
                Subscriptions!BrokerForgets, Subscriptions!OnConnect,
                Subscriptions!OnConnectEnds, Subscriptions!IterationRaises,
                Subscriptions!Resubscribe, Subscriptions!CheckListener, Subscriptions!client
  <1>6. ASSUME NEW e \in Entities, Subscriptions!Takes(e) PROVE TablesInv'
    BY <1>6 DEF Subscriptions!Takes, Subscriptions!BrokerSubscribes,
                Subscriptions!BrokerTakesConfig, Subscriptions!client
  <1>7. CASE UNCHANGED subscriptions
    BY <1>7 DEF subscriptions
  <1> QED
    BY <1>1, <1>2, <1>3, <1>4, <1>5, <1>6, <1>7
    DEF Subscriptions!Next, Subscriptions!Worker, Subscriptions!Reports

LEMMA NextKnown ==
    ASSUME SubscriptionsInv, [Subscriptions!Next]_subscriptions
    PROVE  KnownInv'
  <1>0. None \notin switches
    BY EntitiesAssumption DEF SubscriptionsInv, TopicsInv
  <1> USE DEF KnownInv
  <1>1. KnownInv /\ TopicsInv /\ TablesInv
    BY DEF SubscriptionsInv
  <1>2. CASE Subscriptions!Crash
    BY <1>1, <1>2 DEF Subscriptions!Crash, Subscriptions!Reset, TopicsInv
  <1>3. CASE Subscriptions!ListenerSubscribes \/ Subscriptions!ListenerRaises
    <2>1. /\ doing \in topics /\ wpc \in {"create", "renew"}
          /\ UNCHANGED <<switches, topics>>
          /\ sensors' = IF wpc = "create" THEN [sensors EXCEPT ![doing] = "fresh"] ELSE sensors
          /\ wpc' = IF wpc = "create" THEN "check" ELSE "idle"
          /\ doing' = IF wpc = "create" THEN doing ELSE None
      BY <1>1, <1>3 DEF Subscriptions!ListenerSubscribes, Subscriptions!ListenerRaises,
                        Subscriptions!AfterListener
    <2>2. \A e \in Entities : e # doing => sensors'[e] = sensors[e]
      BY <1>1, <2>1 DEF TablesInv
    <2> QED BY <1>0, <1>1, <2>1, <2>2 DEF TopicsInv
  <1>4. CASE Subscriptions!CheckListener
    BY <1>0, <1>1, <1>4
    DEF Subscriptions!CheckListener, Subscriptions!client
  <1>5. ASSUME NEW e \in Entities, NEW r \in BOOLEAN, Subscriptions!Publish(e, r)
        PROVE  KnownInv'
    <2>1. CASE Subscriptions!CreateSwitch(e) /\ e \in switches
      BY <1>0, <1>1, <1>5, <2>1
      DEF Subscriptions!CreateSwitch, Subscriptions!CommandTopics, Subscriptions!Publish
    <2>2. CASE Subscriptions!CreateSensor(e) /\ e \notin switches
      BY <1>1, <1>5, <2>2
      DEF Subscriptions!CreateSensor, Subscriptions!CommandTopics, Subscriptions!Publish,
          Subscriptions!worker, TopicsInv, TablesInv
    <2>3. CASE /\ ~Subscriptions!NeedsConfig(e, r) /\ e \in switches
               /\ wpc' = "check" /\ doing' = e
               /\ UNCHANGED <<waiting, topics, sensors>>
      <3>1. e \in topics
        BY <1>1, <2>3 DEF Subscriptions!NeedsConfig
      <3> QED BY <1>0, <1>1, <1>5, <2>3, <3>1 DEF Subscriptions!Publish
    <2> QED BY <1>5, <2>1, <2>2, <2>3 DEF Subscriptions!Publish
  <1>6. ASSUME NEW e \in Entities, Subscriptions!ConfigAges(e) PROVE KnownInv'
    <2>1. /\ sensors' = [sensors EXCEPT ![e] = "due"] /\ sensors[e] = "fresh"
          /\ UNCHANGED <<switches, topics, wpc, doing>>
      BY <1>6 DEF Subscriptions!ConfigAges, Subscriptions!worker
    <2>2. sensors[e] # None
      BY <2>1, EntitiesAssumption
    <2> QED BY <1>1, <2>1, <2>2 DEF TopicsInv, TablesInv
  <1>7. CASE \/ Subscriptions!Start \/ Subscriptions!Connected \/ Subscriptions!Drop
             \/ Subscriptions!BrokerForgets \/ Subscriptions!OnConnect
    BY <1>1, <1>7
    DEF Subscriptions!Start, Subscriptions!Connected, Subscriptions!Drop,
        Subscriptions!BrokerForgets, Subscriptions!OnConnect, Subscriptions!OnConnectEnds,
        Subscriptions!IterationRaises, Subscriptions!Resubscribe, Subscriptions!client,
        Subscriptions!worker
  <1>8. ASSUME NEW e \in Entities, Subscriptions!Takes(e) \/ Subscriptions!ListenerAges(e)
        PROVE  KnownInv'
    BY <1>1, <1>8
    DEF Subscriptions!Takes, Subscriptions!BrokerSubscribes, Subscriptions!BrokerTakesConfig,
        Subscriptions!ListenerAges, Subscriptions!client, Subscriptions!worker
  <1>9. CASE UNCHANGED subscriptions
    BY <1>1, <1>9 DEF subscriptions
  <1> QED
    BY <1>2, <1>3, <1>4, <1>5, <1>6, <1>7, <1>8, <1>9
    DEF Subscriptions!Next, Subscriptions!Worker, Subscriptions!Reports

LEMMA SwitchesStay ==
    ASSUME [Subscriptions!Next]_subscriptions
    PROVE  switches' = switches /\ Cardinality(switches)' = Cardinality(switches)
  <1>1. CASE Subscriptions!Next
    BY <1>1
    DEF Subscriptions!Next, Subscriptions!Start, Subscriptions!Crash, Subscriptions!Connected,
        Subscriptions!OnConnect, Subscriptions!OnConnectEnds, Subscriptions!IterationRaises,
        Subscriptions!Resubscribe, Subscriptions!Worker, Subscriptions!ListenerSubscribes,
        Subscriptions!ListenerRaises, Subscriptions!AfterListener, Subscriptions!CheckListener,
        Subscriptions!Drop, Subscriptions!BrokerForgets, Subscriptions!Reports,
        Subscriptions!Publish, Subscriptions!Takes, Subscriptions!BrokerSubscribes,
        Subscriptions!BrokerTakesConfig, Subscriptions!ListenerAges, Subscriptions!ConfigAges
  <1>2. switches' = switches
    BY <1>1 DEF subscriptions
  <1> QED BY <1>2

LEMMA NextThread ==
    ASSUME SubscriptionsInv, [Subscriptions!Next]_subscriptions
    PROVE  ThreadInv'
  <1>1. /\ TopicsInv /\ KnownInv /\ ThreadInv /\ MaxFaults \in Nat
        /\ Cardinality(topics) \in 0..Cardinality(switches) /\ Cardinality(switches) \in Nat
        /\ Subscriptions!Fault => mishaps' \in 0..MaxFaults
    BY SizesAreBounded, EntitiesAssumption DEF SubscriptionsInv, Subscriptions!Fault, ThreadInv
  <1>0. switches' = switches /\ Cardinality(switches)' = Cardinality(switches)
    BY SwitchesStay
  <1> USE DEF ThreadInv
  <1>2. CASE Subscriptions!Crash
    <2>1. /\ program' = FALSE /\ up' = FALSE /\ thread' = "loop" /\ size' = 0
          /\ wpc' = "idle" /\ topics' = {} /\ switches' = switches
      BY <1>2 DEF Subscriptions!Crash, Subscriptions!Reset
    <2>2. mishaps' \in 0..MaxFaults
      BY <1>1, <1>2 DEF Subscriptions!Crash
    <2>3. size' \in 0..Cardinality(switches)'
      BY <1>1, <2>1, <1>0
    <2> QED BY <2>1, <2>2, <2>3
  <1>3. CASE Subscriptions!Start \/ Subscriptions!Connected
    BY <1>0, <1>1, SameCardinality, <1>3 DEF Subscriptions!Start, Subscriptions!Connected, Subscriptions!client,
                      Subscriptions!network, Subscriptions!worker
  <1>4. CASE Subscriptions!Drop \/ Subscriptions!BrokerForgets
    <2>1. /\ UNCHANGED <<program, thread, size, wpc, topics>>
          /\ up' = up \/ up' = FALSE
          /\ Subscriptions!Fault
      BY <1>4 DEF Subscriptions!Drop, Subscriptions!BrokerForgets, Subscriptions!client,
                  Subscriptions!network, Subscriptions!worker
    <2>2. mishaps' \in 0..MaxFaults
      BY <1>1, <2>1
    <2>3. size' \in 0..Cardinality(switches)'
      BY <1>0, <1>1, <2>1
    <2>4. up' \in BOOLEAN /\ (~program' => ~up')
      <3>1. CASE up' = up
        BY <1>1, <2>1, <3>1, Zenon
      <3> QED BY <2>1, <3>1
    <2> QED BY <1>1, <2>1, <2>2, <2>3, <2>4
  <1>5. CASE Subscriptions!OnConnect
    BY <1>0, <1>1, SameCardinality, <1>5
    DEF Subscriptions!OnConnect, Subscriptions!OnConnectEnds, Subscriptions!IterationRaises,
        Subscriptions!Resubscribe, Subscriptions!client, Subscriptions!worker
  <1>6. CASE Subscriptions!Worker
    BY <1>0, <1>1, SameCardinality, <1>6
    DEF Subscriptions!Worker, Subscriptions!ListenerSubscribes, Subscriptions!ListenerRaises,
        Subscriptions!AfterListener, Subscriptions!CheckListener, Subscriptions!client,
        Subscriptions!network, KnownInv
  <1>7. ASSUME NEW e \in Entities, NEW r \in BOOLEAN, Subscriptions!Publish(e, r)
        PROVE  ThreadInv'
    BY <1>0, <1>1, SameCardinality, <1>7 DEF Subscriptions!Publish, Subscriptions!network
  <1>8. ASSUME NEW e \in Entities,
               \/ Subscriptions!Takes(e) \/ Subscriptions!ListenerAges(e)
               \/ Subscriptions!ConfigAges(e)
        PROVE  ThreadInv'
    BY <1>0, <1>1, SameCardinality, <1>8
    DEF Subscriptions!Takes, Subscriptions!BrokerSubscribes, Subscriptions!BrokerTakesConfig,
        Subscriptions!ListenerAges, Subscriptions!ConfigAges, Subscriptions!client,
        Subscriptions!network, Subscriptions!worker
  <1>9. CASE UNCHANGED subscriptions
    BY <1>0, <1>1, SameCardinality, <1>9 DEF subscriptions
  <1> QED
    BY <1>2, <1>3, <1>4, <1>5, <1>6, <1>7, <1>8, <1>9
    DEF Subscriptions!Next, Subscriptions!Reports

LEMMA NextSubscriptions ==
    ASSUME SubscriptionsInv, [Subscriptions!Next]_subscriptions
    PROVE  SubscriptionsInv'
  BY NextTopics, NextTables, NextKnown, NextThread DEF SubscriptionsInv

-----------------------------------------------------------------------------
(* What is proved of the bridge, of the bridge of MCMqtt: the definitions  *)
(* of the two instances are the same.                                      *)
CB == INSTANCE CommandBridgeProofs WITH Names <- Devices

LEMMA SameBridgeInit == Commands!Init => CB!Init
  BY DEF Commands!Init, CB!Init

LEMMA SameOnMessage == Commands!OnMessage => CB!OnMessage
  BY DEF Commands!OnMessage, Commands!GetList, Commands!AppendToList, Commands!SetTrigger,
         CB!OnMessage, CB!GetList, CB!AppendToList, CB!SetTrigger

LEMMA SameBridge == Commands!Bridge => CB!Bridge
  <1>1. /\ Commands!RegisterTriggers => CB!RegisterTriggers
        /\ Commands!Woken => CB!Woken
        /\ Commands!PollTimeout => CB!PollTimeout
        /\ Commands!ClearWake => CB!ClearWake
    BY DEF Commands!RegisterTriggers, Commands!Woken, Commands!PollTimeout, Commands!ClearWake,
           CB!RegisterTriggers, CB!Woken, CB!PollTimeout, CB!ClearWake
  <1>2. /\ \A n \in Devices : Commands!LookAt(n) => CB!LookAt(n)
        /\ Commands!Swap => CB!Swap
        /\ Commands!Submit => CB!Submit
        /\ Commands!EndOfList => CB!EndOfList
        /\ Commands!EndOfRound => CB!EndOfRound
    BY DEF Commands!LookAt, Commands!Swap, Commands!Submit, Commands!EndOfList,
           Commands!EndOfRound, CB!LookAt, CB!Swap, CB!Submit, CB!EndOfList, CB!EndOfRound
  <1> QED BY <1>1, <1>2 DEF Commands!Bridge, CB!Bridge

LEMMA SameNext == [Commands!Next]_commands => [CB!Next]_CB!vars
  <1>1. UNCHANGED commands => UNCHANGED CB!vars
    BY DEF commands, CB!vars
  <1>2. /\ \A n \in Devices : Commands!DeviceFound(n) => CB!DeviceFound(n)
        /\ Commands!RequestStop => CB!RequestStop
    BY DEF Commands!DeviceFound, CB!DeviceFound, Commands!RequestStop, CB!RequestStop
  <1>3. Commands!Finished => UNCHANGED CB!vars
    BY DEF Commands!Finished, Commands!vars, CB!vars
  <1> QED
    BY <1>1, <1>2, <1>3, SameOnMessage, SameBridge DEF Commands!Next, CB!Next

LEMMA SameProperties ==
    /\ CB!TypeOK => Commands!TypeOK
    /\ CB!NoLostWakeup => Commands!NoLostWakeup
  <1>1. CB!TypeOK => Commands!TypeOK
    BY DEF CB!TypeOK, Commands!TypeOK, CB!Msgs, Commands!Msgs
  <1>2. CB!NoLostWakeup => Commands!NoLostWakeup
    BY DEF CB!NoLostWakeup, Commands!NoLostWakeup, CB!Remaining, Commands!Remaining,
           CB!InPath, Commands!InPath
  <1> QED BY <1>1, <1>2

LEMMA BridgeImplies ==
    /\ CB!BridgeInv => Commands!TypeOK
    /\ CB!BridgeInv => Commands!NoLostWakeup
  BY SameProperties, CB!WakeUpsSeen DEF CB!BridgeInv

-----------------------------------------------------------------------------
(* The three parts together: a step is of one of them.                     *)
LEMMA StepOfAPart ==
    [PartsNext]_partsVars =>
        /\ [Next]_vars
        /\ [Commands!Next]_commands
        /\ [Subscriptions!Next]_subscriptions
  BY DEF PartsNext, partsVars, Others

AvailabilityTypes ==
    /\ running \in {"down", "started", "up"}
    /\ registered \subseteq Devices
    /\ connected \in BOOLEAN
    /\ faults \in Nat

LEMMA NextAvailabilityTypes == AvailabilityTypes /\ [Next]_vars => AvailabilityTypes'
  <1> SUFFICES ASSUME AvailabilityTypes, [Next]_vars PROVE AvailabilityTypes'
    OBVIOUS
  <1> USE DEF AvailabilityTypes
  <1>1. Fault => faults' \in Nat
    BY DEF Fault
  <1>2. CASE Start \/ MarksConfigured \/ Crash \/ Connect \/ Drop \/ BrokerForgets
    BY <1>1, <1>2 DEF Start, MarksConfigured, Crash, Connect, Drop, BrokerForgets, process
  <1>3. ASSUME NEW d \in Devices,
               Register(d) \/ OnConnected(d) \/ OnDisconnected(d) \/ BrokerTakes(d) \/ AckLost(d)
        PROVE  AvailabilityTypes'
    BY <1>1, <1>3 DEF Register, OnConnected, OnDisconnected, BrokerTakes, AckLost, process
  <1>4. CASE UNCHANGED vars
    BY <1>4 DEF vars, process
  <1> QED BY <1>2, <1>3, <1>4 DEF Next

MqttInv == AvailInv /\ AvailabilityTypes /\ CB!BridgeInv /\ SubscriptionsInv

LEMMA InitMqtt == PartsInit => MqttInv
  <1> SUFFICES ASSUME PartsInit PROVE MqttInv
    OBVIOUS
  <1>1. Init /\ Commands!Init /\ Subscriptions!Init
    BY DEF PartsInit
  <1>2. AvailabilityTypes
    BY <1>1 DEF Init, AvailabilityTypes
  <1>3. CB!BridgeInv
    BY <1>1, SameBridgeInit, CB!InitBridge, BridgeAssumption
  <1> QED BY <1>1, <1>2, <1>3, InitAvailInv, InitSubscriptions DEF MqttInv

LEMMA NextMqtt == MqttInv /\ [PartsNext]_partsVars => MqttInv'
  <1> SUFFICES ASSUME MqttInv, [PartsNext]_partsVars PROVE MqttInv'
    OBVIOUS
  <1>1. [Next]_vars /\ [Commands!Next]_commands /\ [Subscriptions!Next]_subscriptions
    BY StepOfAPart
  <1>2. CB!BridgeInv'
    BY <1>1, SameNext, CB!NextBridge, BridgeAssumption DEF MqttInv
  <1> QED
    BY <1>1, <1>2, NextAvailInv, NextAvailabilityTypes, NextSubscriptions DEF MqttInv

LEMMA MqttAlways == PartsSpec => []MqttInv
  BY InitMqtt, NextMqtt, PTL DEF PartsSpec

(* Types of all three parts.  Of what two threads share without a lock:    *)
(* on_message holds a drained list only while the bridge iterates over it; *)
(* the topics on_connect is still to visit, those being subscribed to and  *)
(* those the broker has are _command_topics, which are switches; and a     *)
(* listener is created or renewed for one of them only (datalogger.py:     *)
(* 108-109, 249-260).                                                      *)
THEOREM PartsTypeCorrect == PartsSpec => []PartsTypeOK
  <1>1. MqttInv => TypeOK
    BY DEF MqttInv, AvailInv, PendingOK, AvailableOK, LinkedOK, AvailabilityTypes, TypeOK
  <1>2. MqttInv => PartsTypeOK
    BY <1>1, BridgeImplies, SubscriptionsTypes DEF MqttInv, PartsTypeOK
  <1> QED BY <1>2, MqttAlways, PTL

(* The bridge never sleeps with the event clear while a command whose      *)
(* trigger was set is in a list (ble.py:255-262).                          *)
THEOREM BridgeIsAwake == PartsSpec => []NoLostWakeup
  <1>1. MqttInv => NoLostWakeup
    BY BridgeImplies DEF MqttInv, NoLostWakeup
  <1> QED BY <1>1, MqttAlways, PTL

(* Whatever crashes, breaks or is sent twice, once main has marked the     *)
(* devices the last word on each is true (monitor_app.py:126-130,          *)
(* solardevice.py:107-123).                                                *)
THEOREM AvailabilitySaysTheTruth == PartsSpec => []LastWordIsTrue
  <1>1. MqttInv => LastWordIsTrue
    BY DEF MqttInv, AvailInv
  <1> QED BY <1>1, MqttAlways, PTL
=============================================================================

------------------------- MODULE MqttSubscriptions -------------------------
(***************************************************************************)
(* What the MQTT logger keeps at the broker besides readings and           *)
(* availability: retained discovery configs and the subscriptions to the   *)
(* command topics of switches.                                             *)
(*                                                                         *)
(* Two threads touch it without a lock.  The logger worker publishes       *)
(* entities (publish, create_switch, create_sensor, create_listener) and   *)
(* paho's network thread runs on_connect.  The iterator on_connect keeps   *)
(* over _command_topics raises when the set has grown under it; nothing    *)
(* catches that, and the network thread ends.  The process may crash and   *)
(* be started again; the broker keeps what is retained and forgets the     *)
(* subscriptions (clean session).                                          *)
(*                                                                         *)
(* An entity stands for one of a device: the only switch, or a sensor.     *)
(***************************************************************************)
EXTENDS Naturals, FiniteSets

CONSTANTS
    Entities,
    MaxFaults,     \* bound: crashes, lost connections, subscribe() raising,
                   \*   the broker losing its retained messages
    None

VARIABLES
    running,       \* the process is
    switches,      \* the entities with "power_switch" in their name
    up,            \* the MQTT connection is
    thread,        \* paho's network thread: "loop", "on_connect", "dead"
    visit, size,   \* the iterator of on_connect: the topics to come, and the
                   \*   size of the set when it was made
    topics,        \* _command_topics
    created,       \* _listener_created: None, "fresh", or "due" after 300 s
    sensors,       \* self.sensors: None, "fresh", or "due" after 3600 s
    wpc, doing,    \* the logger worker, and the entity it publishes
    waiting,       \* configs (QoS 1) the client has still to deliver
    wire,          \* SUBSCRIBE packets not yet at the broker
    subscribed,    \* the broker: subscriptions of this session,
    config,        \*   and entities with a retained config
    faults

client == <<topics, created, sensors, waiting>>
network == <<up, thread, visit, size, wire>>
broker == <<subscribed, config>>
worker == <<wpc, doing>>
vars == <<running, switches, client, network, broker, worker, faults>>

Ages == {None, "fresh", "due"}

Reset ==      \* what a process begins with
    /\ topics' = {}
    /\ created' = [e \in Entities |-> None]
    /\ sensors' = [e \in Entities |-> None]
    /\ waiting' = {}
    /\ wpc' = "idle" /\ doing' = None
    /\ up' = FALSE /\ thread' = "loop" /\ visit' = {} /\ size' = 0 /\ wire' = {}
    /\ subscribed' = {}

Init ==
    /\ running = FALSE
    /\ switches \in SUBSET Entities /\ topics = {} /\ waiting = {} /\ visit = {} /\ size = 0
    /\ created = [e \in Entities |-> None]
    /\ sensors = [e \in Entities |-> None]
    /\ wpc = "idle" /\ doing = None
    /\ up = FALSE /\ thread = "loop" /\ wire = {}
    /\ subscribed = {} /\ config = {}
    /\ faults = 0

Fault == faults < MaxFaults /\ faults' = faults + 1

-----------------------------------------------------------------------------
(* The process.                                                            *)
Start ==
    /\ ~running
    /\ running' = TRUE
    /\ UNCHANGED <<switches, client, network, broker, worker, faults>>

Crash ==
    /\ running /\ Fault
    /\ running' = FALSE
    /\ Reset
    /\ UNCHANGED <<config, switches>>

-----------------------------------------------------------------------------
(* The logger worker: publish.                                             *)
NeedsConfigOnce(e, refresh) == sensors[e] = None     \* never republished

NeedsConfig(e, refresh) == sensors[e] = None \/ (refresh /\ sensors[e] = "due")

(* The value was remembered as sent: log can only then call for a refresh. *)
MayRefresh(e) == sensors[e] # None /\ (e \in switches => created[e] # None)

CommandTopicsOfAll(e) == {e}      \* listens for sensors, too

CommandTopics(e) == {e} \cap switches

(* create_switch, and create_listener up to its subscribe; for a switch    *)
(* publish notes the time in self.sensors only after create_listener.      *)
CreateSwitch(e) ==
    /\ waiting' = waiting \cup {e}
    /\ topics' = topics \cup CommandTopics(e)
    /\ wpc' = "create" /\ doing' = e
    /\ UNCHANGED sensors

CreateSensor(e) ==
    /\ waiting' = waiting \cup {e}
    /\ topics' = topics \cup CommandTopics(e)      \* none
    /\ sensors' = [sensors EXCEPT ![e] = "fresh"]
    /\ UNCHANGED worker

(* publish, up to client.subscribe if it creates a switch, and up to the   *)
(* look at the age of the listener if it does not.                         *)
Publish(e, refresh) ==
    /\ running /\ wpc = "idle"
    /\ refresh => MayRefresh(e)
    /\ \/ NeedsConfig(e, refresh) /\ e \in switches /\ CreateSwitch(e)
       \/ NeedsConfig(e, refresh) /\ e \notin switches /\ CreateSensor(e)
       \/ /\ ~NeedsConfig(e, refresh) /\ e \in switches
          /\ wpc' = "check" /\ doing' = e
          /\ UNCHANGED <<waiting, topics, sensors>>
    /\ UNCHANGED <<running, switches, created, network, broker, faults>>

(* client.subscribe without a connection does nothing and does not raise.  *)
Subscribe(e) == wire' = IF up THEN wire \cup {e} ELSE wire

(* The end of create_listener: from "create", publish goes on to its check *)
(* of the listener's age; from "renew", it is done.                        *)
AfterListener ==
    /\ sensors' = IF wpc = "create" THEN [sensors EXCEPT ![doing] = "fresh"] ELSE sensors
    /\ wpc' = IF wpc = "create" THEN "check" ELSE "idle"
    /\ doing' = IF wpc = "create" THEN doing ELSE None
    /\ UNCHANGED <<running, switches, topics, waiting, up, thread, visit, size, broker>>

ListenerSubscribes ==
    /\ wpc \in {"create", "renew"}
    /\ Subscribe(doing)
    /\ created' = [created EXCEPT ![doing] = "fresh"]
    /\ AfterListener
    /\ UNCHANGED faults

ListenerRaises ==
    /\ wpc \in {"create", "renew"}
    /\ Fault
    /\ AfterListener
    /\ UNCHANGED <<created, wire>>

(* The state has been published: renew the listener after 300 s.  Without  *)
(* an entry in _listener_created this is a KeyError, and run_logger logs   *)
(* it.                                                                     *)
RenewsOnlyOnce(e) == FALSE        \* subscribed to when created, never renewed

Renews(e) == created[e] = "due"

CheckListener ==
    /\ wpc = "check"
    /\ wpc' = IF Renews(doing) THEN "renew" ELSE "idle"
    /\ doing' = IF Renews(doing) THEN doing ELSE None
    /\ UNCHANGED <<running, switches, client, network, broker, faults>>

ListenerAges(e) ==
    /\ created[e] = "fresh"
    /\ created' = [created EXCEPT ![e] = "due"]
    /\ UNCHANGED <<running, switches, topics, sensors, waiting, network, broker, worker, faults>>

ConfigAges(e) ==
    /\ sensors[e] = "fresh"
    /\ sensors' = [sensors EXCEPT ![e] = "due"]
    /\ UNCHANGED <<running, switches, topics, created, waiting, network, broker, worker, faults>>

-----------------------------------------------------------------------------
(* The network thread.                                                     *)
Connected ==
    /\ running /\ ~up /\ thread = "loop"
    /\ up' = TRUE
    /\ thread' = IF topics = {} THEN "loop" ELSE "on_connect"
    /\ visit' = topics /\ size' = Cardinality(topics)
    /\ UNCHANGED <<running, switches, client, wire, broker, worker, faults>>

(* next() of the iterator looks at the size of the set before it returns   *)
(* another topic, or ends; the first next() follows its making at once.    *)
SetChanged == Cardinality(visit) < size /\ Cardinality(topics) # size

Resubscribe(e) ==
    /\ thread = "on_connect" /\ e \in visit /\ ~SetChanged
    /\ visit' = visit \ {e}
    /\ \/ Subscribe(e) /\ UNCHANGED faults
       \/ Fault /\ UNCHANGED wire          \* subscribe raises: logged
    /\ UNCHANGED <<running, switches, client, up, thread, size, broker, worker>>

OnConnectEnds ==
    /\ thread = "on_connect" /\ visit = {} /\ ~SetChanged
    /\ thread' = "loop" /\ size' = 0
    /\ UNCHANGED <<running, switches, client, up, visit, wire, broker, worker, faults>>

IterationRaises ==
    /\ thread = "on_connect" /\ SetChanged
    /\ thread' = "dead" /\ visit' = {} /\ size' = 0
    /\ UNCHANGED <<running, switches, client, up, wire, broker, worker, faults>>

OnConnect == OnConnectEnds \/ IterationRaises \/ \E e \in Entities : Resubscribe(e)

-----------------------------------------------------------------------------
(* External: the connection and the broker.  Everything is sent by the     *)
(* network thread once it is back in its loop.                             *)
Delivers == up /\ thread = "loop"

Drop ==
    /\ up /\ Fault
    /\ up' = FALSE /\ wire' = {} /\ subscribed' = {}
    /\ UNCHANGED <<running, switches, client, thread, visit, size, config, worker>>

BrokerSubscribes(e) ==
    /\ Delivers /\ e \in wire
    /\ wire' = wire \ {e}
    /\ subscribed' = subscribed \cup {e}
    /\ UNCHANGED <<running, switches, client, up, thread, visit, size, config, worker, faults>>

BrokerTakesConfig(e) ==
    /\ Delivers /\ e \in waiting
    /\ waiting' = waiting \ {e}
    /\ config' = config \cup {e}
    /\ UNCHANGED <<running, switches, topics, created, sensors, network, subscribed,
                   worker, faults>>

BrokerForgets ==
    /\ Fault
    /\ config' = {}
    /\ UNCHANGED <<running, switches, client, network, subscribed, worker>>

-----------------------------------------------------------------------------
Worker == ListenerSubscribes \/ ListenerRaises \/ CheckListener
Reports(e) == Publish(e, TRUE) \/ Publish(e, FALSE)
Takes(e) == BrokerSubscribes(e) \/ BrokerTakesConfig(e)

Next ==
    \/ Start \/ Crash \/ Connected \/ OnConnect \/ Worker \/ Drop \/ BrokerForgets
    \/ \E e \in Entities :
        \/ Reports(e) \/ Takes(e)
        \/ ListenerAges(e) \/ ConfigAges(e)

(* systemd starts the process again, paho connects again, threads run, the *)
(* broker answers, time passes, and a connected device goes on reporting   *)
(* whenever the worker is free for it again and again.                     *)
Fairness ==
    /\ WF_vars(Start) /\ WF_vars(Connected) /\ WF_vars(OnConnect)
    /\ WF_vars(ListenerSubscribes) /\ WF_vars(CheckListener)
    /\ \A e \in Entities :
        /\ WF_vars(BrokerSubscribes(e)) /\ WF_vars(BrokerTakesConfig(e))
        /\ SF_vars(Reports(e))
        /\ WF_vars(ListenerAges(e)) /\ WF_vars(ConfigAges(e))

Spec == Init /\ [][Next]_vars /\ Fairness

-----------------------------------------------------------------------------
(* Types; an iterator's topics are in the set, and what on_connect or the  *)
(* worker has under way belongs to a running process.                      *)
TypeOK ==
    /\ running \in BOOLEAN /\ up \in BOOLEAN
    /\ switches \subseteq Entities
    /\ thread \in {"loop", "on_connect", "dead"}
    /\ visit \subseteq topics /\ topics \subseteq switches
    /\ size \in 0..Cardinality(switches)
    /\ created \in [Entities -> Ages]
    /\ sensors \in [Entities -> Ages]
    /\ wpc \in {"idle", "create", "renew", "check"}
    /\ doing \in switches \cup {None}
    /\ (wpc = "idle") <=> (doing = None)
    /\ waiting \subseteq Entities /\ config \subseteq Entities
    /\ wire \subseteq topics /\ subscribed \subseteq topics
    /\ faults \in 0..MaxFaults
    /\ ~running => ~up /\ wpc = "idle" /\ topics = {}

(* A switch whose device stays and goes on reporting ends up subscribed to *)
(* and stays so: by on_connect if the connection broke, by the renewal     *)
(* after 300 s if subscribe raised in on_connect (datalogger.py:108-109,   *)
(* 249-260).  Excepted are a network thread that has died, and a switch    *)
(* whose very first subscribe raised: it has no entry in _listener_created *)
(* and its renewal is a KeyError each time.                                *)
SwitchesStaySubscribed ==
    \A e \in Entities :
        <>[](up /\ thread # "dead" /\ e \in topics /\ created[e] # None)
            => <>[](e \in subscribed)

(* A broker that lost its retained messages gets the config of an entity   *)
(* again (datalogger.py:13-17), if the entity is published as a refresh    *)
(* ever again: one whose value is never twice the same is not.             *)
ConfigComesBack ==
    \A e \in Entities :
        (<>[](up /\ thread # "dead") /\ []<><<Publish(e, TRUE)>>_vars) => <>[](e \in config)

(* What datalogger.py:250-252 says of on_connect: it re-subscribes to      *)
(* every command topic, so that no switch goes dead when the connection    *)
(* breaks.  As above, but without the exception for a network thread that  *)
(* has died: nobody would hear a command.                                  *)
SwitchesNeverGoDead ==
    \A e \in Entities :
        <>[](up /\ e \in topics /\ created[e] # None)
            => <>[](e \in subscribed /\ thread = "loop")
=============================================================================

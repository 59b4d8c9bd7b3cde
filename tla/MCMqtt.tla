------------------------------- MODULE MCMqtt -------------------------------
(***************************************************************************)
(* The MQTT client and what Home Assistant gets from it, in parts: the     *)
(* availability of devices, the configs and the subscriptions that bring   *)
(* commands, and the bridge that takes commands to the event loop.  The    *)
(* parts share no state, so a behaviour is of one of them, the part of its *)
(* initial state, with the instances of the others at rest.                *)
(*                                                                         *)
(* Availability is extended, so that its property keeps its name.          *)
(***************************************************************************)
EXTENDS Availability, FiniteSets

CONSTANTS
    MaxMsgs,       \* bound: commands that arrive, see CommandBridge
    Entities       \* see MqttSubscriptions

ASSUME BridgeAssumption == MaxMsgs \in Nat

(* An ini file and the entities of its devices are finite, and None is the *)
(* name of none.                                                           *)
ASSUME EntitiesAssumption ==
    /\ IsFiniteSet(Entities) /\ MaxFaults \in Nat
    /\ None \notin Entities \cup {"fresh", "due"}

VARIABLES
    part,
    sets, trigger, wake, devices, stop_event, paho, bridge, received, signalled, submitted,
    program, switches, up, thread, visit, size, topics, created, sensors, wpc, doing,
    waiting, wire, subscribed, config, mishaps

commands == <<sets, trigger, wake, devices, stop_event, paho, bridge,
              received, signalled, submitted>>
subscriptions == <<program, switches, up, thread, visit, size, topics, created, sensors, wpc,
                   doing, waiting, wire, subscribed, config, mishaps>>

Commands == INSTANCE CommandBridge WITH Names <- Devices

Subscriptions == INSTANCE MqttSubscriptions WITH running <- program, faults <- mishaps

-----------------------------------------------------------------------------
PartsInit ==
    /\ part \in {"availability", "commands", "subscriptions"}
    /\ Init /\ (part # "availability" => available = [d \in Devices |-> None])
    /\ Commands!Init /\ (part # "commands" => devices = {})
    /\ Subscriptions!Init /\ (part # "subscriptions" => switches = {})

Others(p) ==
    /\ UNCHANGED part
    /\ p # "availability" => UNCHANGED vars
    /\ p # "commands" => UNCHANGED commands
    /\ p # "subscriptions" => UNCHANGED subscriptions

PartsNext ==
    \/ part = "availability" /\ Next /\ Others("availability")
    \/ part = "commands" /\ Commands!Next /\ Others("commands")
    \/ part = "subscriptions" /\ Subscriptions!Next /\ Others("subscriptions")

partsVars == <<part, vars, commands, subscriptions>>

(* The fairness of each part, with its actions those of its behaviours.    *)
PartsFairness ==
    /\ WF_vars(part = "availability" /\ Start)
    /\ WF_vars(part = "availability" /\ MarksConfigured)
    /\ WF_vars(part = "availability" /\ Connect)
    /\ \A d \in Devices : WF_vars(part = "availability" /\ BrokerTakes(d))
    /\ WF_commands(part = "commands" /\ Commands!OnMessage)
    /\ WF_commands(part = "commands" /\ Commands!Bridge)
    /\ WF_subscriptions(part = "subscriptions" /\ Subscriptions!Start)
    /\ WF_subscriptions(part = "subscriptions" /\ Subscriptions!Connected)
    /\ WF_subscriptions(part = "subscriptions" /\ Subscriptions!OnConnect)
    /\ WF_subscriptions(part = "subscriptions" /\ Subscriptions!ListenerSubscribes)
    /\ WF_subscriptions(part = "subscriptions" /\ Subscriptions!CheckListener)
    /\ \A e \in Entities :
        /\ WF_subscriptions(part = "subscriptions" /\ Subscriptions!BrokerSubscribes(e))
        /\ WF_subscriptions(part = "subscriptions" /\ Subscriptions!BrokerTakesConfig(e))
        /\ SF_subscriptions(part = "subscriptions" /\ Subscriptions!Reports(e))
        /\ WF_subscriptions(part = "subscriptions" /\ Subscriptions!ListenerAges(e))
        /\ WF_subscriptions(part = "subscriptions" /\ Subscriptions!ConfigAges(e))

PartsSpec == PartsInit /\ [][PartsNext]_partsVars /\ PartsFairness

-----------------------------------------------------------------------------
(* Types of all parts.                                                     *)
PartsTypeOK == TypeOK /\ Commands!TypeOK /\ Subscriptions!TypeOK

(* CommandBridge: the bridge never sleeps over a command it was woken for  *)
(* (ble.py:255-262).                                                       *)
NoLostWakeup == Commands!NoLostWakeup

(* CommandBridge: the two threads implement a queue per device             *)
(* (datalogger.py:262-303, ble.py:236-272).                                *)
ImplementsQueue == Commands!ImplementsQueue

(* MqttSubscriptions: a switch that goes on reporting stays subscribed     *)
(* (datalogger.py:108-109, 249-260).                                       *)
SwitchesStaySubscribed == Subscriptions!SwitchesStaySubscribed

(* MqttSubscriptions: a lost config comes back (datalogger.py:13-17).      *)
ConfigComesBack == Subscriptions!ConfigComesBack
=============================================================================

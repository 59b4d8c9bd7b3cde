---------------------------- MODULE Availability ----------------------------
(***************************************************************************)
(* The retained availability of a device at the MQTT broker: set to        *)
(* "offline" for every configured device when the program starts, again    *)
(* when a device is registered, and to what on_connected and               *)
(* on_disconnected say from then on.  All of these are QoS 1 messages that *)
(* the client keeps until the broker has acknowledged them, and sends      *)
(* again, in order, on a new connection.  There is no last will: what the  *)
(* broker shows after a crash is what it showed before.                    *)
(***************************************************************************)
EXTENDS Naturals, Sequences

CONSTANTS
    Devices,
    MaxPending,    \* bound: availability messages the client keeps per device
    MaxFaults,     \* bound: crashes, lost connections, lost acknowledgements,
                   \*   the broker losing its retained messages
    None

VARIABLES
    running,       \* the process: "down", "started" (its client is set up), "up"
    registered,    \* the devices of this process, those of them
    linked,        \*   that are connected by Bluetooth
    connected,     \* the MQTT connection is up
    pending,       \* per device what the client keeps, oldest first
    available,     \* the broker's retained word
    faults

process == <<running, registered, linked>>
vars == <<process, connected, pending, available, faults>>

Words == {"online", "offline"}
Word(d) == IF d \in linked THEN "online" ELSE "offline"

Init ==
    /\ running = "down" /\ registered = {} /\ linked = {}
    /\ connected = FALSE
    /\ pending = [d \in Devices |-> <<>>]
    /\ available \in [Devices -> Words \cup {None}]      \* of an earlier run
    /\ faults = 0

Fault == faults < MaxFaults /\ faults' = faults + 1

Publish(d, word) ==
    /\ Len(pending[d]) < MaxPending
    /\ pending' = [pending EXCEPT ![d] = Append(@, word)]

-----------------------------------------------------------------------------
(* DataLoggerMqtt's client is set up, in a program that begins.            *)
Start ==
    /\ running = "down"
    /\ running' = "started"
    /\ UNCHANGED <<registered, linked, connected, pending, available, faults>>

(* main: set_available(section, False) for every configured device.        *)
MarkOfflineLater == UNCHANGED pending      \* only when a device is registered

MarkOffline == pending' = [d \in Devices |-> Append(pending[d], "offline")]

MarksConfigured ==
    /\ running = "started"
    /\ running' = "up"
    /\ MarkOffline
    /\ UNCHANGED <<registered, linked, connected, available, faults>>

Register(d) ==
    /\ running = "up" /\ d \notin registered
    /\ registered' = registered \cup {d}
    /\ Publish(d, "offline")
    /\ UNCHANGED <<running, linked, connected, available, faults>>

OnConnected(d) ==
    /\ d \in registered \ linked
    /\ linked' = linked \cup {d}
    /\ Publish(d, "online")
    /\ UNCHANGED <<running, registered, connected, available, faults>>

OnDisconnected(d) ==
    /\ d \in linked
    /\ linked' = linked \ {d}
    /\ Publish(d, "offline")
    /\ UNCHANGED <<running, registered, connected, available, faults>>

(* A crash, or an exit before the client has sent what it keeps.           *)
Crash ==
    /\ running # "down" /\ Fault
    /\ running' = "down" /\ registered' = {} /\ linked' = {}
    /\ connected' = FALSE
    /\ pending' = [d \in Devices |-> <<>>]
    /\ UNCHANGED available

-----------------------------------------------------------------------------
(* External: paho and the broker.                                          *)
Connect ==
    /\ running # "down" /\ ~connected
    /\ connected' = TRUE
    /\ UNCHANGED <<process, pending, available, faults>>

Drop ==
    /\ connected /\ Fault
    /\ connected' = FALSE
    /\ UNCHANGED <<process, pending, available>>

BrokerTakes(d) ==
    /\ connected /\ pending[d] # <<>>
    /\ available' = [available EXCEPT ![d] = Head(pending[d])]
    /\ pending' = [pending EXCEPT ![d] = Tail(@)]
    /\ UNCHANGED <<process, connected, faults>>

(* The acknowledgement is lost with the connection: sent again later.      *)
AckLost(d) ==
    /\ connected /\ pending[d] # <<>> /\ Fault
    /\ available' = [available EXCEPT ![d] = Head(pending[d])]
    /\ connected' = FALSE
    /\ UNCHANGED <<process, pending>>

BrokerForgets ==
    /\ Fault
    /\ available' = [d \in Devices |-> None]
    /\ UNCHANGED <<process, connected, pending>>

Next ==
    \/ Start \/ MarksConfigured \/ Crash \/ Connect \/ Drop \/ BrokerForgets
    \/ \E d \in Devices : \/ Register(d) \/ OnConnected(d) \/ OnDisconnected(d)
                          \/ BrokerTakes(d) \/ AckLost(d)

(* systemd starts the program again, main runs on, paho connects again and *)
(* the broker takes what it is sent.  Nothing is assumed of devices.       *)
Fairness ==
    /\ WF_vars(Start) /\ WF_vars(MarksConfigured) /\ WF_vars(Connect)
    /\ \A d \in Devices : WF_vars(BrokerTakes(d))

Spec == Init /\ [][Next]_vars /\ Fairness

-----------------------------------------------------------------------------
TypeOK ==
    /\ running \in {"down", "started", "up"}
    /\ registered \subseteq Devices /\ linked \subseteq registered
    /\ connected \in BOOLEAN
    /\ pending \in [Devices -> Seq(Words)]
    /\ available \in [Devices -> Words \cup {None}]
    /\ faults \in Nat

(* Once main has marked the devices, the last word on each (what the       *)
(* client keeps, else what the broker retains) is true, over crashes,      *)
(* restarts, lost connections and resent messages (monitor_app.py:126-130, *)
(* 149; solardevice.py:107-123).  Without a last will, nothing holds       *)
(* between a crash and that moment; a broker that lost its retained        *)
(* messages has no word on a device until its next change.                 *)
LastWordIsTrue ==
    running = "up" =>
        \A d \in Devices :
            \/ pending[d] # <<>> /\ pending[d][Len(pending[d])] = Word(d)
            \/ pending[d] = <<>> /\ available[d] \in {None, Word(d)}

(* Once its link rests, the broker's word on a device becomes true and     *)
(* stays so, whatever crashed or broke before: also for a device that is   *)
(* never found again after a crash in which it was online.                 *)
AvailabilityConverges ==
    \A d \in Devices :
        /\ <>[](d \in linked) => <>[](available[d] \in {None, "online"})
        /\ <>[](d \notin linked) => <>[](available[d] \in {None, "offline"})
=============================================================================

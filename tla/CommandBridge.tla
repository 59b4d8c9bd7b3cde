--------------------------- MODULE CommandBridge ---------------------------
(***************************************************************************)
(* The path of an MQTT command from the broker to a device's coroutine:    *)
(*                                                                         *)
(*   paho's network thread     DataLoggerMqtt.on_message appends the       *)
(*                             command to sets[device] and sets the        *)
(*                             device's trigger;                           *)
(*   the mqtt-cmd-bridge       ble.command_bridge waits for the trigger or *)
(*   thread                    half a second, then takes the lists away    *)
(*                             one by one and submits what is in them.     *)
(*                                                                         *)
(* The threads share plain dicts and lists and no lock.  One action here   *)
(* is what one thread does between two points where the interpreter may    *)
(* switch to the other.                                                    *)
(*                                                                         *)
(* Lists are objects with an identity.  At any time there are at most      *)
(* three that matter to a device's commands: the one sets[device] refers   *)
(* to, the one the bridge is iterating over, and the one on_message got    *)
(* from setdefault and has yet to append to.  So the first two are         *)
(* sequences and the third is a reference to one of them, or to a list     *)
(* nobody will read.  (A missing key and an empty list are the same thing  *)
(* to both threads, which makes create_listener's setdefault a no-op.)     *)
(***************************************************************************)
EXTENDS Naturals, Sequences

CONSTANTS Names,        \* the sections of the ini file that name a device
          MaxMsgs       \* bound: how many commands arrive

Msgs == 1 .. MaxMsgs    \* a command is its number in the order of arrival

VARIABLES
    sets,        \* mqtt.sets: the commands in each device's list
    trigger,     \* the names for which mqtt.trigger holds the wake event
    wake,        \* the shared wake event
    devices,     \* devices_by_name, filled by main and by late discovery
    stop_event,
    paho,        \* on_message: pc, the device and command at hand, and which
                 \*   list it got: the one in "sets", the one being "drained",
                 \*   or one "orphaned"
    bridge,      \* command_bridge: pc, the names of this round still to be
                 \*   looked at, the name at hand and what is left of its list
    received,    \* history: how many commands paho has delivered to on_message
    signalled,   \* history: the commands for which a trigger was found and set
    submitted    \* what submit_command has put on the event loop, per device

vars == <<sets, trigger, wake, devices, stop_event, paho, bridge,
          received, signalled, submitted>>

-----------------------------------------------------------------------------
Init == /\ sets = [n \in Names |-> <<>>]
        /\ trigger = {}
        /\ wake = FALSE
        /\ devices \in SUBSET Names
        /\ stop_event = FALSE
        /\ paho = [pc |-> "idle"]
        /\ bridge = [pc |-> "register", todo |-> {}]
        /\ received = 0
        /\ signalled = {}
        /\ submitted = [n \in Names |-> <<>>]

-----------------------------------------------------------------------------
(* on_message.  self.sets.setdefault(device, []) ...                       *)
GetList(n) ==
    /\ paho.pc = "idle"
    /\ received < MaxMsgs
    /\ received' = received + 1
    /\ paho' = [pc |-> "append", dev |-> n, msg |-> received + 1, list |-> "sets"]
    /\ UNCHANGED <<sets, trigger, wake, devices, stop_event, bridge, signalled, submitted>>

(* ... .append((var, payload))                                             *)
AppendToList ==
    /\ paho.pc = "append"
    /\ \/ /\ paho.list = "sets"
          /\ sets' = [sets EXCEPT ![paho.dev] = Append(@, paho.msg)]
          /\ UNCHANGED bridge
       \/ /\ paho.list = "drained"
          /\ bridge' = [bridge EXCEPT !.left = Append(@, paho.msg)]
          /\ UNCHANGED sets
       \/ /\ paho.list = "orphaned"
          /\ UNCHANGED <<sets, bridge>>
    /\ paho' = [pc |-> "notify", dev |-> paho.dev, msg |-> paho.msg]
    /\ UNCHANGED <<trigger, wake, devices, stop_event, received, signalled, submitted>>

(* trigger = self.trigger.get(device); if trigger: trigger.set()           *)
SetTrigger ==
    /\ paho.pc = "notify"
    /\ IF paho.dev \in trigger
       THEN wake' = TRUE /\ signalled' = signalled \cup {paho.msg}
       ELSE UNCHANGED <<wake, signalled>>
    /\ paho' = [pc |-> "idle"]
    /\ UNCHANGED <<sets, trigger, devices, stop_event, bridge, received, submitted>>

OnMessage == (\E n \in Names : GetList(n)) \/ AppendToList \/ SetTrigger

-----------------------------------------------------------------------------
(* The top of command_bridge's loop: leave on stop_event, else register    *)
(* the wake event for the devices found since the last round.              *)
RegisterTriggers ==
    /\ bridge.pc = "register"
    /\ IF stop_event
       THEN /\ bridge' = [bridge EXCEPT !.pc = "done"]
            /\ UNCHANGED trigger
       ELSE /\ bridge' = [bridge EXCEPT !.pc = "wait"]
            /\ trigger' = trigger \cup devices
    /\ UNCHANGED <<sets, wake, devices, stop_event, paho, received, signalled, submitted>>

(* wake.wait(0.5) returns at once when the event is set ...                *)
Woken == /\ bridge.pc = "wait"
         /\ wake
         /\ bridge' = [bridge EXCEPT !.pc = "clear"]
         /\ UNCHANGED <<sets, trigger, wake, devices, stop_event, paho,
                        received, signalled, submitted>>

(* ... and when the half second is over.                                   *)
PollTimeoutSkips ==     \* if not wake.wait(0.5): continue
    /\ bridge.pc = "wait"
    /\ ~wake
    /\ bridge' = [bridge EXCEPT !.pc = "register"]
    /\ UNCHANGED <<sets, trigger, wake, devices, stop_event, paho,
                   received, signalled, submitted>>

PollTimeout == /\ bridge.pc = "wait"
               /\ ~wake
               /\ bridge' = [bridge EXCEPT !.pc = "clear"]
               /\ UNCHANGED <<sets, trigger, wake, devices, stop_event, paho,
                              received, signalled, submitted>>

(* wake.clear(), then the snapshot of the names.                           *)
ClearWake == /\ bridge.pc = "clear"
             /\ wake' = FALSE
             /\ bridge' = [pc |-> "scan", todo |-> devices]
             /\ UNCHANGED <<sets, trigger, devices, stop_event, paho,
                            received, signalled, submitted>>

(* sets = mqtt.sets.get(name); if not sets: continue                       *)
LookAt(n) == /\ bridge.pc = "scan"
             /\ n \in bridge.todo
             /\ bridge' = IF sets[n] = <<>>
                          THEN [bridge EXCEPT !.todo = @ \ {n}]
                          ELSE [pc |-> "swap", todo |-> bridge.todo \ {n}, name |-> n]
             /\ UNCHANGED <<sets, trigger, wake, devices, stop_event, paho,
                            received, signalled, submitted>>

(* mqtt.sets[name] = []: from here on the list that was there belongs to   *)
(* the bridge and to an on_message that got hold of it before.             *)
Swap == /\ bridge.pc = "swap"
        /\ bridge' = [pc |-> "iterate", todo |-> bridge.todo, name |-> bridge.name,
                      left |-> sets[bridge.name]]
        /\ sets' = [sets EXCEPT ![bridge.name] = <<>>]
        /\ paho' = IF paho.pc = "append" /\ paho.dev = bridge.name
                   THEN [paho EXCEPT !.list = "drained"] ELSE paho
        /\ UNCHANGED <<trigger, wake, devices, stop_event, received, signalled, submitted>>

(* One turn of "for var, message in sets: manager.submit_command(...)".    *)
Submit == /\ bridge.pc = "iterate"
          /\ bridge.left # <<>>
          /\ submitted' = [submitted EXCEPT ![bridge.name] = Append(@, Head(bridge.left))]
          /\ bridge' = [bridge EXCEPT !.left = Tail(@)]
          /\ UNCHANGED <<sets, trigger, wake, devices, stop_event, paho,
                         received, signalled>>

(* The iterator is exhausted; the list loses its last reader.              *)
EndOfList == /\ bridge.pc = "iterate"
             /\ bridge.left = <<>>
             /\ bridge' = [pc |-> "scan", todo |-> bridge.todo]
             /\ paho' = IF paho.pc = "append" /\ paho.list = "drained"
                        THEN [paho EXCEPT !.list = "orphaned"] ELSE paho
             /\ UNCHANGED <<sets, trigger, wake, devices, stop_event,
                            received, signalled, submitted>>

EndOfRoundClearing ==   \* wake.clear() after the lists instead of before
    /\ bridge.pc = "scan"
    /\ bridge.todo = {}
    /\ bridge' = [bridge EXCEPT !.pc = "register"]
    /\ wake' = FALSE
    /\ UNCHANGED <<sets, trigger, devices, stop_event, paho,
                   received, signalled, submitted>>

EndOfRound == /\ bridge.pc = "scan"
              /\ bridge.todo = {}
              /\ bridge' = [bridge EXCEPT !.pc = "register"]
              /\ UNCHANGED <<sets, trigger, wake, devices, stop_event, paho,
                             received, signalled, submitted>>

Bridge == \/ RegisterTriggers \/ Woken \/ PollTimeout \/ ClearWake
          \/ (\E n \in Names : LookAt(n))
          \/ Swap \/ Submit \/ EndOfList \/ EndOfRound

-----------------------------------------------------------------------------
(* main and the late-discovery thread: devices[section] = dev.             *)
DeviceFound(n) == /\ n \notin devices
                  /\ devices' = devices \cup {n}
                  /\ UNCHANGED <<sets, trigger, wake, stop_event, paho, bridge,
                                 received, signalled, submitted>>

(* A signal, or main on its way out.                                       *)
RequestStop == /\ ~stop_event
               /\ stop_event' = TRUE
               /\ UNCHANGED <<sets, trigger, wake, devices, paho, bridge,
                              received, signalled, submitted>>

(* Nothing is left to happen once the bridge has gone and the bound on the *)
(* commands is used up.                                                    *)
Finished == /\ bridge.pc = "done"
            /\ paho.pc = "idle"
            /\ UNCHANGED vars

Next == \/ OnMessage
        \/ Bridge
        \/ (\E n \in Names : DeviceFound(n))
        \/ RequestStop
        \/ Finished

(* Both threads are runnable whenever they are not in a wait, and the only *)
(* wait, wake.wait(0.5), ends by itself: each gets to run.                 *)
Spec == Init /\ [][Next]_vars /\ WF_vars(OnMessage) /\ WF_vars(Bridge)

-----------------------------------------------------------------------------
(* The commands the bridge still has to submit, oldest first.              *)
Remaining(n) ==
    (IF bridge.pc = "iterate" /\ bridge.name = n THEN bridge.left ELSE <<>>) \o sets[n]

InPath(s) == {s[i] : i \in 1 .. Len(s)}

(* Types, and which list on_message may be holding in which state of the   *)
(* bridge.                                                                 *)
TypeOK ==
    /\ sets \in [Names -> Seq(Msgs)]
    /\ submitted \in [Names -> Seq(Msgs)]
    /\ devices \subseteq Names /\ trigger \subseteq devices
    /\ wake \in BOOLEAN /\ stop_event \in BOOLEAN
    /\ received \in 0 .. MaxMsgs /\ signalled \subseteq 1 .. received
    /\ \/ paho = [pc |-> "idle"]
       \/ paho \in [pc : {"notify"}, dev : Names, msg : Msgs]
       \/ paho \in [pc : {"append"}, dev : Names, msg : Msgs,
                    list : {"sets", "drained", "orphaned"}]
    /\ \/ bridge \in [pc : {"register", "wait", "clear", "scan", "done"}, todo : SUBSET devices]
       \/ bridge \in [pc : {"swap"}, todo : SUBSET devices, name : devices]
       \/ bridge \in [pc : {"iterate"}, todo : SUBSET devices, name : devices, left : Seq(Msgs)]
    /\ paho.pc = "append" /\ paho.list = "drained"
           => bridge.pc = "iterate" /\ bridge.name = paho.dev

(* A wake-up is never lost: the bridge never goes to sleep with the event  *)
(* clear while a command whose trigger was set is still in a list, so a    *)
(* command to a known device does not have to wait out the half second     *)
(* (the reason why ble.py clears the event before it drains the lists).    *)
NoLostWakeup ==
    bridge.pc = "wait" /\ ~wake =>
        \A n \in Names : InPath(Remaining(n)) \cap signalled = {}

(* What the path promises, with "taken in" meaning: appended to a list the *)
(* bridge will read.                                                       *)
Queue == INSTANCE CommandQueue
         WITH pending <- [n \in Names |-> Remaining(n)],
              delivered <- submitted,
              known <- devices,
              stopped <- stop_event

(* The two threads implement the abstract queue: first in first out,       *)
(* exactly once, and every command taken in for a found device is          *)
(* submitted unless the program stops.                                     *)
ImplementsQueue == Queue!Spec

(* command_bridge's docstring (ble.py:244-248) says a command "is still    *)
(* delivered" whatever the order of events: once on_message has returned   *)
(* from append, the command is submitted or the bridge can still see it.   *)
NoCommandLost ==
    \A m \in 1 .. received :
        \/ paho.pc = "append" /\ paho.msg = m
        \/ \E n \in Names : m \in InPath(submitted[n]) \cup InPath(Remaining(n))
=============================================================================

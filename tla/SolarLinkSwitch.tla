-------------------------- MODULE SolarLinkSwitch --------------------------
(***************************************************************************)
(* plugins/SolarLink: a solar regulator, polled over Modbus for three      *)
(* groups of registers in turn, whose load can be switched.  The state of  *)
(* the switch is one of the registers of SolarPanelInfo.  A command writes *)
(* the switch and reads two groups at once; its requests and those of the  *)
(* polls go to the regulator in the order they were made, and every        *)
(* request and every reply may be lost or damaged.  Nothing tells which    *)
(* request a reply answers: it is known by its length only.                *)
(***************************************************************************)
EXTENDS Naturals, Sequences

CONSTANTS
    MaxPending,    \* bound: requests and replies on their way, together
    MaxChanges,    \* bound: commands, and changes by hand
    MaxLosses      \* bound: requests and replies lost or damaged

VARIABLES
    poll_loop_count,
    requests,      \* written and not yet at the regulator
    replies,       \* sent and not yet received
    switch,        \* the regulator's load switch
    power_switch,  \* the entity
    changes, losses

vars == <<poll_loop_count, requests, replies, switch, power_switch, changes, losses>>

(* Register groups, by the length of what they are answered with.          *)
BatteryParamInfo == 14
SolarPanelAndBatteryState == 6
SolarPanelInfo == 8

READ == 3          \* function_READ, function_WRITE
WRITE == 6

Init == /\ poll_loop_count = 0
        /\ requests = <<>> /\ replies = <<>>
        /\ switch \in {0, 1} /\ power_switch = 0
        /\ changes = 0 /\ losses = 0

-----------------------------------------------------------------------------
ReadOf(group) == [function |-> READ, group |-> group]
WriteOf(value) == [function |-> WRITE, value |-> value]

(* What the regulator answers, with its switch as it is then.              *)
AnswerTo(r, now) ==
    IF r.function = WRITE THEN r ELSE [function |-> READ, group |-> r.group, switch |-> now]

InFlight == Len(requests) + Len(replies)

(* pollRequest: requests at three of every ten calls.                      *)
PollTable ==
    [n \in {1, 3, 5} |-> CASE n = 1 -> BatteryParamInfo
                          [] n = 3 -> SolarPanelInfo
                          [] n = 5 -> SolarPanelAndBatteryState]

RoundEnds(n) == IF n = 10 THEN 0 ELSE n

PollRequest ==
    LET n == poll_loop_count + 1
    IN /\ InFlight < MaxPending
       /\ poll_loop_count' = RoundEnds(n)
       /\ requests' = IF n \in DOMAIN PollTable THEN Append(requests, ReadOf(PollTable[n])) ELSE requests
       /\ UNCHANGED <<replies, switch, power_switch, changes, losses>>

(* cmdRequest: commands other than 0 and 1 write nothing.                  *)
CmdRequest(value) ==
    /\ changes < MaxChanges /\ InFlight + 3 <= MaxPending
    /\ requests' = requests \o <<WriteOf(value), ReadOf(SolarPanelInfo), ReadOf(BatteryParamInfo)>>
    /\ changes' = changes + 1
    /\ UNCHANGED <<poll_loop_count, replies, switch, power_switch, losses>>

-----------------------------------------------------------------------------
(* External: the regulator answers in order.                               *)
Answer ==
    /\ requests # <<>>
    /\ requests' = Tail(requests)
    /\ LET r == Head(requests)
           now == IF r.function = WRITE THEN r.value ELSE switch
       IN /\ switch' = now
          /\ replies' = Append(replies, AnswerTo(r, now))
    /\ UNCHANGED <<poll_loop_count, power_switch, changes, losses>>

SwitchedByHand ==
    /\ changes < MaxChanges
    /\ switch' = 1 - switch /\ changes' = changes + 1
    /\ UNCHANGED <<poll_loop_count, requests, replies, power_switch, losses>>

Lose ==
    /\ losses < MaxLosses /\ losses' = losses + 1
    /\ \/ requests # <<>> /\ requests' = Tail(requests) /\ UNCHANGED replies
       \/ replies # <<>> /\ replies' = Tail(replies) /\ UNCHANGED requests
    /\ UNCHANGED <<poll_loop_count, switch, power_switch, changes>>

-----------------------------------------------------------------------------
(* notificationUpdate: replies to writes are ignored, others go by length. *)
UpdateSolarPanelInfo(reply) == power_switch' = reply.switch

Notify ==
    /\ replies # <<>>
    /\ replies' = Tail(replies)
    /\ LET r == Head(replies)
       IN IF r.function = READ /\ r.group = SolarPanelInfo
          THEN UpdateSolarPanelInfo(r)
          ELSE UNCHANGED power_switch
    /\ UNCHANGED <<poll_loop_count, requests, switch, changes, losses>>

Next == PollRequest \/ (\E v \in {0, 1} : CmdRequest(v)) \/ Answer \/ SwitchedByHand \/ Lose \/ Notify

(* _hold polls for ever, the regulator and the radio work.                 *)
Fairness == WF_vars(PollRequest) /\ WF_vars(Answer) /\ WF_vars(Notify)

Spec == Init /\ [][Next]_vars /\ Fairness

-----------------------------------------------------------------------------
TypeOK ==
    /\ poll_loop_count \in Nat
    /\ InFlight <= MaxPending
    /\ {switch, power_switch} \subseteq {0, 1}
    /\ changes \in 0..MaxChanges /\ losses \in 0..MaxLosses

(* Once nobody switches any more, the entity comes to show the switch as   *)
(* it is and keeps showing it, whatever requests and replies were lost,    *)
(* and although a reply sent before a command may arrive after it.         *)
SwitchIsShown == <>[](power_switch = switch)
=============================================================================

--------------------------- MODULE VEDirectSwitch ---------------------------
(***************************************************************************)
(* plugins/VEDirect: a Victron inverter, whose on/off state the entity     *)
(* power_switch shows.  Three kinds of packets bear on it, which come on   *)
(* three characteristics: the state itself, in answer to a command and to  *)
(* "poll for data"; and the output voltage, which comes in a bulk message, *)
(* cut in parts and kept in _char_buffer until there is more than one, so  *)
(* that it may be read long after it was measured.  The inverter says      *)
(* nothing unless asked, and is asked by the handshake and the keep-alive. *)
(*                                                                         *)
(* Of the handshake and the keep-alive only the polls for data are kept;   *)
(* eco counts as on.                                                       *)
(***************************************************************************)
EXTENDS Naturals, Sequences, FiniteSets

CONSTANTS
    MaxPending,    \* bound: writes on their way
    MaxAir,        \* bound: notifications on their way
    MaxChanges,    \* bound: commands, and switching by hand
    MaxLosses      \* bound: losses of the connection

VARIABLES
    poll_loop_count,
    _is_initialized,
    _char_buffer,   \* of each part kept, whether its voltage says "on"
    power_switch,   \* the entity
    writes,         \* written and not yet at the inverter
    air,            \* notifications sent and not yet handled
    on,             \* external: the inverter
    owed,           \* external: what it has still to send in answer to a poll
    changes, losses

plugin == <<poll_loop_count, _is_initialized>>
inverter == <<on, owed>>
vars == <<plugin, _char_buffer, power_switch, writes, air, inverter, changes, losses>>

Init == /\ poll_loop_count = 0 /\ _is_initialized = FALSE
        /\ _char_buffer = <<>> /\ power_switch = FALSE
        /\ writes = <<>> /\ air = <<>>
        /\ on \in BOOLEAN /\ owed = {}
        /\ changes = 0 /\ losses = 0

-----------------------------------------------------------------------------
(* create_poll_request, keep_alive, send_magic_packets: what each writes.  *)
PowerTo(v) == [cmd |-> "power", on |-> v]
PollForData == [cmd |-> "f941"]

keep_alive == <<PollForData>>
send_magic_packets == <<PollForData, PollForData>>

(* pollRequest.  The handshake is for the life of the process: a new       *)
(* connection does not bring it back.                                      *)
Shakes == ~_is_initialized /\ poll_loop_count = 2

CountOnce(n) == IF n > 5 THEN n ELSE n + 1  \* the reset forgotten

NextCount(n) == IF n = 5 /\ ~Shakes THEN 1 ELSE n + 1

PollRequest ==
    /\ Len(writes) + 2 <= MaxPending
    /\ _is_initialized' = (_is_initialized \/ Shakes)
    /\ poll_loop_count' = NextCount(poll_loop_count)
    /\ writes' = writes \o (CASE Shakes -> send_magic_packets
                              [] ~Shakes /\ poll_loop_count = 5 -> keep_alive
                              [] OTHER -> <<>>)
    /\ UNCHANGED <<_char_buffer, power_switch, air, inverter, changes, losses>>

CmdRequest(v) ==
    /\ changes < MaxChanges /\ Len(writes) < MaxPending
    /\ writes' = Append(writes, PowerTo(v))
    /\ changes' = changes + 1
    /\ UNCHANGED <<plugin, _char_buffer, power_switch, air, inverter, losses>>

-----------------------------------------------------------------------------
(* External: the inverter takes the writes in order, answers a command by  *)
(* its new state, and a poll by its state and a bulk message of two parts, *)
(* each saying what is so when it is sent.                                 *)
Sent(kind, v) == [kind |-> kind, on |-> v]

Take ==
    /\ writes # <<>> /\ Len(air) < MaxAir
    /\ writes' = Tail(writes)
    /\ LET w == Head(writes)
       IN IF w = PollForData
          THEN /\ owed = {}
               /\ owed' = {"state", "head"}
               /\ UNCHANGED <<on, air>>
          ELSE /\ on' = w.on
               /\ air' = Append(air, Sent("state", w.on))
               /\ UNCHANGED owed
    /\ UNCHANGED <<plugin, _char_buffer, power_switch, changes, losses>>

Send ==
    /\ Len(air) < MaxAir
    /\ \E kind \in owed :
          /\ air' = Append(air, Sent(kind, on))
          /\ owed' = (owed \ {kind}) \cup (IF kind = "head" THEN {"tail"} ELSE {})
    /\ UNCHANGED <<plugin, _char_buffer, power_switch, writes, on, changes, losses>>

SwitchedByHand ==
    /\ changes < MaxChanges
    /\ on' = ~on /\ changes' = changes + 1
    /\ UNCHANGED <<plugin, _char_buffer, power_switch, writes, air, owed, losses>>

(* The connection is lost and made again.                                  *)
Reconnect ==
    /\ losses < MaxLosses
    /\ losses' = losses + 1
    /\ writes' = <<>> /\ air' = <<>> /\ owed' = {}
    /\ UNCHANGED <<plugin, _char_buffer, power_switch, on, changes>>

-----------------------------------------------------------------------------
(* set_bulk_values and, of each packet, set_values: a part that is a head  *)
(* starts the buffer anew, any other is added; two parts are more than 20  *)
(* bytes, and are read.  A voltage says "on" or nothing.                   *)
BulkValues(part) == IF part.kind = "head" THEN <<part.on>> ELSE Append(_char_buffer, part.on)

SetBulkValues(part) ==
    IF Len(BulkValues(part)) > 1
    THEN /\ power_switch' = (power_switch \/ \E i \in 1..Len(BulkValues(part)) : BulkValues(part)[i])
         /\ _char_buffer' = <<>>
    ELSE /\ _char_buffer' = BulkValues(part)
         /\ UNCHANGED power_switch

Notify ==
    /\ air # <<>>
    /\ air' = Tail(air)
    /\ IF Head(air).kind = "state"
       THEN power_switch' = Head(air).on /\ UNCHANGED _char_buffer
       ELSE SetBulkValues(Head(air))
    /\ UNCHANGED <<plugin, writes, inverter, changes, losses>>

Next ==
    \/ PollRequest
    \/ \E v \in BOOLEAN : CmdRequest(v)
    \/ Take \/ Send \/ SwitchedByHand \/ Reconnect
    \/ Notify

(* _hold polls for ever, the inverter answers and the radio works.         *)
Fairness == WF_vars(PollRequest) /\ WF_vars(Take) /\ WF_vars(Send) /\ WF_vars(Notify)

Spec == Init /\ [][Next]_vars /\ Fairness

-----------------------------------------------------------------------------
TypeOK ==
    /\ poll_loop_count \in 0..5
    /\ {_is_initialized, power_switch, on} \subseteq BOOLEAN
    /\ Len(_char_buffer) <= 1
    /\ Len(writes) <= MaxPending /\ Len(air) <= MaxAir
    /\ owed \subseteq {"state", "head", "tail"}

(* Once nobody switches any more and the connection holds, the entity      *)
(* comes to show whether the inverter is on and keeps showing it, although *)
(* a voltage measured before it went off may be read after it said so, and *)
(* a part kept from before a loss be read after it.                        *)
SwitchIsShown == <>[](power_switch = on)
=============================================================================

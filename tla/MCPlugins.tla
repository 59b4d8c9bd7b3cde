----------------------------- MODULE MCPlugins -----------------------------
(***************************************************************************)
(* What lies between a device and the stored values, for one device and    *)
(* one of its parts at a time: what the plugins make of notifications, and *)
(* what they ask the device for; the entities; the filter; the watch over  *)
(* the link.  The parts share no state, so a behaviour is of one of them,  *)
(* the part of its initial state, with the instances of the others at      *)
(* rest.                                                                   *)
(*                                                                         *)
(* The filter itself is extended, so that its properties keep their names. *)
(***************************************************************************)
EXTENDS ValueFilter

CONSTANTS
    BufMax, Kept, MinEnd, EndCap, PacketMax, FullMax, MaxChunk, MaxBytes,  \* MeritsunFraming
    Scalars, Slots, MinVoltage, MinCell,                                   \* MeritsunFrame
    Stored, StoredEndCap, MaxPiece,                                        \* TopbandFraming
    Parts, MaxReplies, Shapes,                                             \* HacienReplies
    Currents, MaxCurrent, CurrentDiff, Standby, Dropout,                   \* BatteryEntity
    Cycles, MaxCycles, CyclesDiff, GoodAbove,
    Cells, CellMin, CellMax, CellDiff, Deadband,
    Capacity, EstimateMax, EstimateDiff, ResyncAfter, Voltages,            \* RenogyBatt
    MaxRequests, MaxWrites, MaxAir, MaxChanges, MaxLosses,                 \* the switches
    VerifySeconds, MinFrames, Burst, Noise, MaxCount                       \* LinkInterval

(* A notification holds at most 512 bytes, by the standard.                *)
ASSUME FramingAssumption ==
    /\ BufMax \in Nat /\ Kept \in 0..BufMax
    /\ MaxChunk \in 0..BufMax /\ {MinEnd, EndCap, PacketMax, MaxBytes} \subseteq Nat

ASSUME FrameAssumption == Slots \in Nat /\ MinCell \in Int

(* The zeros of a Topband frame, which begin with its fourth byte, begin   *)
(* where `end` stays with the first of them.                               *)
ASSUME TopbandAssumption ==
    Stored \in Nat /\ Stored > 3 /\ StoredEndCap \in 1..4 /\ MaxPiece \in 0..Stored + 1

ASSUME HacienAssumption == Parts \in Nat \ {0} /\ MaxReplies \in Nat

(* The limits of a cell are positive numbers, readings are numbers.        *)
ASSUME CellAssumption ==
    /\ CellMin \in Nat \ {0} /\ CellMax \in Nat /\ CellDiff \in Nat /\ Deadband \in Nat
    /\ Cells \subseteq Int

ASSUME CurrentAssumption ==
    Currents \subseteq Int /\ MaxCurrent \in Int /\ CurrentDiff \in Nat /\ Dropout \in Nat

ASSUME CyclesAssumption == Cycles \subseteq Int /\ MaxCycles \in Int /\ CyclesDiff \in Nat

ASSUME RenogyAssumption ==
    /\ Capacity \in Nat /\ EstimateMax \in Nat /\ EstimateDiff \in Nat
    /\ ResyncAfter \in Nat \ {0} /\ Voltages \subseteq Nat

ASSUME SwitchesAssumption ==
    {MaxRequests, MaxWrites, MaxAir, MaxChanges, MaxLosses} \subseteq Nat

(* A link is found slow when it damages 70 % of its frames: what a good    *)
(* one damages is less than that of the fewest it is judged by.            *)
ASSUME LinkAssumption ==
    /\ VerifySeconds \in Nat \ {0} /\ {MinFrames, Burst, Noise, MaxCount} \subseteq Nat
    /\ 10 * Noise <= 7 * MinFrames /\ MinFrames <= MaxCount

MCReadings == -1 .. 10
MCCurrents == {-6, -5, -1, 0, 3, 5}
MCCells == {0} \cup 7..16

VARIABLES
    part,
    stream, handled, framesOk, framesBad, received, dropped,
    sent, got, entities, updated,
    util, place, digit, intact, missed,
    pollnum, wire, buffer, shown, replied, unasked, whole,
    mcurrent, state, charge_cycles, health, cell, truth,
    lastC, streakC, steadyC, lastH, streakH, steadyH,
    loopR, quiet, exp_capacity, voltage, max_capacity, volt_change_count, rest,
    loopS, requests, replies, switch, switchS, changesS, lossesS,
    loopV, _is_initialized, _char_buffer, switchV, writes, air, on, owed, changesV, lossesV,
    up, slow, since, ok, bad, asked, slowSeen

framing == <<stream, handled, framesOk, framesBad, received, dropped>>
frame == <<sent, got, entities, updated>>
topband == <<util, place, digit, intact, missed>>
hacien == <<pollnum, wire, buffer, shown, replied, unasked, whole>>
battery == <<mcurrent, state, charge_cycles, health, cell, truth,
             lastC, streakC, steadyC, lastH, streakH, steadyH>>
renogy == <<loopR, quiet, exp_capacity, voltage, max_capacity, volt_change_count, rest>>
solarlink == <<loopS, requests, replies, switch, switchS, changesS, lossesS>>
vedirect == <<loopV, _is_initialized, _char_buffer, switchV, writes, air, on, owed, changesV, lossesV>>
link == <<up, slow, since, ok, bad, asked, slowSeen>>

Framing == INSTANCE MeritsunFraming WITH ok <- framesOk, bad <- framesBad

Frame == INSTANCE MeritsunFrame WITH shown <- entities

Topband == INSTANCE TopbandFraming WITH EndCap <- StoredEndCap, MaxChunk <- MaxPiece

Hacien == INSTANCE HacienReplies WITH replies <- replied, quiet <- unasked

Battery == INSTANCE BatteryEntity

Renogy == INSTANCE RenogyBatt WITH poll_loop_count <- loopR

SolarLink ==
    INSTANCE SolarLinkSwitch
    WITH MaxPending <- MaxRequests, poll_loop_count <- loopS, power_switch <- switchS,
         changes <- changesS, losses <- lossesS

VEDirect ==
    INSTANCE VEDirectSwitch
    WITH MaxPending <- MaxWrites, poll_loop_count <- loopV, power_switch <- switchV,
         changes <- changesV, losses <- lossesV

Link == INSTANCE LinkInterval

-----------------------------------------------------------------------------
PartsInit ==
    /\ part \in {"filter", "framing", "frame", "topband", "hacien", "battery", "renogy",
                 "solarlink", "vedirect", "link"}
    /\ Init /\ Framing!Init /\ Hacien!Init /\ Renogy!Init /\ Link!Init
    /\ SolarLink!Init /\ (part # "solarlink" => switch = 0)
    /\ VEDirect!Init /\ (part # "vedirect" => ~on)
    /\ Topband!Init /\ (part # "topband" => place = 0 /\ digit = 48)
    /\ Battery!Init /\ (part # "battery" => truth = CellMin + 1)
    /\ IF part = "frame" THEN Frame!Init
       ELSE /\ sent = Frame!Nothing /\ got = None /\ entities = Frame!Nothing
            /\ updated = FALSE

Others(p) ==
    /\ UNCHANGED part
    /\ p # "filter" => UNCHANGED vars
    /\ p # "framing" => UNCHANGED framing
    /\ p # "frame" => UNCHANGED frame
    /\ p # "topband" => UNCHANGED topband
    /\ p # "hacien" => UNCHANGED hacien
    /\ p # "battery" => UNCHANGED battery
    /\ p # "renogy" => UNCHANGED renogy
    /\ p # "solarlink" => UNCHANGED solarlink
    /\ p # "vedirect" => UNCHANGED vedirect
    /\ p # "link" => UNCHANGED link

PartsNext ==
    \/ part = "filter" /\ Next /\ Others("filter")
    \/ part = "framing" /\ Framing!Next /\ Others("framing")
    \/ part = "frame" /\ Frame!Next /\ Others("frame")
    \/ part = "topband" /\ Topband!Next /\ Others("topband")
    \/ part = "hacien" /\ Hacien!Next /\ Others("hacien")
    \/ part = "battery" /\ Battery!Next /\ Others("battery")
    \/ part = "renogy" /\ Renogy!Next /\ Others("renogy")
    \/ part = "solarlink" /\ SolarLink!Next /\ Others("solarlink")
    \/ part = "vedirect" /\ VEDirect!Next /\ Others("vedirect")
    \/ part = "link" /\ Link!Next /\ Others("link")

partsVars ==
    <<part, vars, framing, frame, topband, hacien, battery, renogy,
      solarlink, vedirect, link>>

(* The fairness of each part, with its actions those of its behaviours.    *)
PartsFairness ==
    /\ WF_solarlink(part = "solarlink" /\ SolarLink!PollRequest)
    /\ WF_solarlink(part = "solarlink" /\ SolarLink!Answer)
    /\ WF_solarlink(part = "solarlink" /\ SolarLink!Notify)
    /\ WF_vedirect(part = "vedirect" /\ VEDirect!PollRequest)
    /\ WF_vedirect(part = "vedirect" /\ VEDirect!Take)
    /\ WF_vedirect(part = "vedirect" /\ VEDirect!Send)
    /\ WF_vedirect(part = "vedirect" /\ VEDirect!Notify)
    /\ WF_link(part = "link" /\ Link!Hold)
    /\ SF_link(part = "link" /\ Link!SetBySlowness)

PartsSpec == PartsInit /\ [][PartsNext]_partsVars /\ PartsFairness

-----------------------------------------------------------------------------
(* Types and bounds of all parts.                                          *)
PartsTypeOK ==
    /\ TypeOK
    /\ Framing!TypeOK /\ Topband!TypeOK /\ Hacien!TypeOK /\ Battery!TypeOK
    /\ Renogy!TypeOK /\ SolarLink!TypeOK /\ VEDirect!TypeOK /\ Link!TypeOK
    /\ part = "frame" => Frame!TypeOK

(* MeritsunFraming: how the stream is cut does not matter, and cutting it  *)
(* costs no frame of normal length (Meritsun:76-115).                      *)
StreamIsRead == Framing!CuttingIsIrrelevant /\ Framing!OnlyOverlongDropped

(* MeritsunFrame: no value is shown that was not sent, and damage costs no *)
(* more than what it hit (Meritsun:117-228).                               *)
FrameIsRead == part = "frame" => Frame!NothingInvented /\ Frame!DamageIsContained

(* TopbandFraming: of three whole frames in a row one is handled.          *)
NeverStarves == Topband!NeverStarves

(* HacienReplies: a reply that arrives whole is shown (Hacien:60-73).      *)
WholeReplyShown == Hacien!WholeReplyShown

(* BatteryEntity: refused readings do not leave the state at odds with the *)
(* current for good, nor the health with the cycles (solardevice.py:       *)
(* 830-874).                                                               *)
BatterySettles == Battery!StateSettles /\ Battery!HealthSettles

(* BatteryEntity: a cell that was once right stays right                   *)
(* (solardevice.py:879-901).                                               *)
CellTracks == Battery!CellTracks

(* SolarLinkSwitch, VEDirectSwitch: the entity comes to show the switch of *)
(* the device as it is.                                                    *)
SwitchesAreShown == SolarLink!SwitchIsShown /\ VEDirect!SwitchIsShown

(* LinkInterval: a link that has gone slow is set again, and none is       *)
(* without a reason (ble.py:38-56).                                        *)
SlowLinkIsSet == Link!SlowLinkIsSet /\ Link!AskedForAReason
=============================================================================

--------------------------- MODULE BatteryEntity ---------------------------
(***************************************************************************)
(* BatteryDevice (solardevice.py): the setters of a battery that do more   *)
(* than filter.  mcurrent and charge_cycles pass their reading to validate *)
(* and then derive the state and the health of the battery from the        *)
(* reading, not from what validate made of it.  A cell has a filter of its *)
(* own: it takes a first value for granted, refuses readings far from the  *)
(* stored one for ever, and does not follow small changes.                 *)
(*                                                                         *)
(* The cell's readings are those of a device whose voltage moves in small  *)
(* steps, and damaged ones that are far from it.                           *)
(***************************************************************************)
EXTENDS Integers

CONSTANTS
    Currents, MaxCurrent, CurrentDiff,   \* readings; 500000, and 400000
    Standby,                             \* 20: a smaller current is none
    Dropout,                             \* 500: a 0 is not believed beyond
    Cycles, MaxCycles, CyclesDiff,       \* readings; 10000, and 1
    GoodAbove,                           \* 2000
    MaxConsecutiveRejects,               \* 2, see ValueFilter
    Cells,
    CellMin, CellMax, CellDiff,          \* 2000, 4000, 500
    Deadband,                            \* 10
    None

VARIABLES
    mcurrent, state,
    charge_cycles, health,
    cell,                                \* the stored value, 0 before the first
    truth,                               \* history: the cell's voltage as last sent
    lastC, streakC, steadyC,             \* the history of ValueFilter for each
    lastH, streakH, steadyH

current == <<mcurrent, state, lastC, streakC, steadyC>>
cycles == <<charge_cycles, health, lastH, streakH, steadyH>>
cells == <<cell, truth>>
vars == <<current, cycles, cells>>

CurrentFilter ==
    INSTANCE ValueFilter
    WITH Readings <- Currents, InitVal <- 0, Min <- -MaxCurrent, Max <- MaxCurrent,
         MaxDiff <- CurrentDiff, filter <- mcurrent, last <- lastC, streak <- streakC,
         steady <- steadyC

CyclesFilter ==
    INSTANCE ValueFilter
    WITH Readings <- Cycles, InitVal <- 0, Min <- 1, Max <- MaxCycles,
         MaxDiff <- CyclesDiff, filter <- charge_cycles, last <- lastH, streak <- streakH,
         steady <- steadyH

Abs(n) == IF n < 0 THEN -n ELSE n

Init == /\ CurrentFilter!Init /\ CyclesFilter!Init
        /\ state = None /\ health = None
        /\ cell = 0 /\ truth \in CellMin + 1..CellMax - 1

-----------------------------------------------------------------------------
StateOf(v) == IF v > Standby THEN "charging"
              ELSE IF v < -Standby THEN "discharging" ELSE "standby"

StateOnlyChanges(v, stored) ==             \* no else branch
    IF Abs(v) <= Standby THEN state ELSE StateOf(v)

(* The 0 is compared with what the filter has left in place.               *)
StateAfter(v, stored) == IF v = 0 /\ Abs(stored) > Dropout THEN state ELSE StateOf(v)

(* The setters mcurrent and current, which hands on to it.                 *)
SetCurrent(v) ==
    /\ CurrentFilter!Read(v)
    /\ state' = StateAfter(v, mcurrent'.val)
    /\ UNCHANGED <<cycles, cells>>

HealthOf(v) == IF v > GoodAbove THEN "good" ELSE "perfect"

HealthAfter(v) == IF v > 0 THEN HealthOf(v) ELSE health

(* The setter charge_cycles.                                               *)
SetCycles(v) ==
    /\ CyclesFilter!Read(v)
    /\ health' = HealthAfter(v)
    /\ UNCHANGED <<current, cells>>

-----------------------------------------------------------------------------
(* The setter cell_mvoltage: what is stored after the reading v.           *)
CellAfterInBounds(stored, v) ==           \* maxdiff not checked
    IF CellMin < v /\ v < CellMax /\ Abs(v - stored) > Deadband THEN v ELSE stored

CellAfter(stored, v) ==
    IF stored = 0
    THEN IF CellMin < v /\ v < CellMax THEN v ELSE stored
    ELSE IF CellMin <= v /\ v <= CellMax /\ Abs(v - stored) <= CellDiff /\ Abs(v - stored) > Deadband
         THEN v ELSE stored

SetCell(v) == cell' = CellAfter(cell, v)

(* The cell's voltage, at most CellDiff less the deadband from the last.   *)
CellReading ==
    /\ truth' \in {v \in CellMin..CellMax : Abs(v - truth) <= CellDiff - Deadband}
    /\ SetCell(truth')
    /\ UNCHANGED <<current, cycles>>

(* A damaged reading, once there is a value.                               *)
CellNoise ==
    /\ cell # 0
    /\ \E v \in Cells : Abs(v - truth) > CellDiff + Deadband /\ SetCell(v)
    /\ UNCHANGED <<truth, current, cycles>>

Next == \/ \E v \in Currents : SetCurrent(v)
        \/ \E v \in Cycles : SetCycles(v)
        \/ CellReading \/ CellNoise

Spec == Init /\ [][Next]_vars

-----------------------------------------------------------------------------
TypeOK ==
    /\ CurrentFilter!TypeOK /\ CyclesFilter!TypeOK
    /\ state \in {None, "charging", "discharging", "standby"}
    /\ health \in {None, "good", "perfect"}
    /\ cell \in {0} \cup CellMin..CellMax
    /\ truth \in CellMin..CellMax

(* Readings that are refused may leave state and health at odds with the   *)
(* stored values, but not for good: once MaxConsecutiveRejects + 1         *)
(* readings in a row are in range and consistent, they agree again.        *)
StateSettles == streakC > MaxConsecutiveRejects => state = StateOf(mcurrent.val)

HealthSettles == streakH > MaxConsecutiveRejects => health = HealthOf(charge_cycles.val)

(* A cell that was once right stays right to within the deadband, however  *)
(* many damaged readings come in between and however far the voltage moves *)
(* in steps its filter allows (there is no escape for one that was wrong). *)
CellTracks == cell # 0 => Abs(cell - truth) <= Deadband
=============================================================================

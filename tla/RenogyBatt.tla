----------------------------- MODULE RenogyBatt -----------------------------
(***************************************************************************)
(* plugins/RenogyBatt: a battery polled over Modbus, whose own account of  *)
(* its remaining capacity is so coarse that the plugin keeps an estimate,  *)
(* exp_capacity.  Every VoltageCurrentSOC reply adds the charge since the  *)
(* last one; now and then, when the battery rests, the estimate is set to  *)
(* what the voltage says.  Either way the new value goes through validate, *)
(* with maxdiff 5.                                                         *)
(*                                                                         *)
(* Capacities are in steps of which one is the most that a reply adds.     *)
(* That adding never makes exactly 0 of a float that was not 0 is taken    *)
(* for granted: 0 stands for "no estimate yet".                            *)
(***************************************************************************)
EXTENDS Integers, FiniteSets

CONSTANTS
    Capacity,              \* what the battery says it holds
    EstimateMax,           \* 400
    EstimateDiff,          \* 5: maxdiff of exp_capacity
    ResyncAfter,           \* 300 replies at rest
    MaxConsecutiveRejects, \* 2, see ValueFilter
    Voltages,              \* of those that VoltagePercent knows
    None

VARIABLES
    poll_loop_count,
    quiet,                 \* history: polls since each register was asked for
    exp_capacity,          \* the filter of the entity, as in ValueFilter
    voltage,               \* the entity, 0 before the first reading
    max_capacity,          \* Util.max_capacity
    volt_change_count,
    rest                   \* history: the battery rests from now on

polls == <<poll_loop_count, quiet>>
capacity == <<exp_capacity, voltage, max_capacity, volt_change_count>>
vars == <<polls, capacity, rest>>

Filter ==
    INSTANCE ValueFilter
    WITH Readings <- 0..EstimateMax, InitVal <- 0, Min <- 0, Max <- EstimateMax,
         MaxDiff <- EstimateDiff, filter <- exp_capacity, last <- 0, streak <- 0, steady <- 0

Abs(n) == IF n < 0 THEN -n ELSE n

-----------------------------------------------------------------------------
(* pollRequest.  The request at 1, TotalCapacity, has no register and is   *)
(* never made.                                                             *)
AskedAt ==
    [VoltageCurrentSOC |-> {3, 6, 9, 11, 13, 15}, CellVoltage |-> {5}, Temperature |-> {7}]

Registers == DOMAIN AskedAt
Round == 14

RoundEnds(n) == IF n = 16 THEN 2 ELSE n

PollRequest ==
    LET n == poll_loop_count + 1
    IN /\ poll_loop_count' = RoundEnds(n)
       /\ quiet' = [r \in Registers |-> IF n \in AskedAt[r] THEN 0
                                        ELSE IF quiet[r] > Round THEN quiet[r] ELSE quiet[r] + 1]
       /\ UNCHANGED <<capacity, rest>>

-----------------------------------------------------------------------------
(* voltageToCapacity: the capacity a voltage, in tenths of a volt, stands  *)
(* for, in percent.  At 13.2 V it depends on the capacity so far, which is *)
(* compared, as a fraction, with percents.                                 *)
PercentAt(v) ==
    CASE v = 134 -> 99
      [] v = 133 -> 90
      [] v = 132 -> 65
      [] v = 131 -> 40
      [] v = 130 -> 30
      [] v = 129 -> 20
      [] v \in 120..128 -> v - 111
      [] v \in 118..119 -> (v - 100) \div 2 - 1
      [] v \in 100..117 -> (v - 100) \div 2
      [] OTHER -> 100

Percent(v, prev) ==
    IF v # 132 \/ prev = 0 THEN PercentAt(v)
    ELSE IF prev > 80 * Capacity THEN 80
    ELSE IF prev < 50 * Capacity THEN 50
    ELSE PercentAt(v)

OutOfSync(prev, new) == 10 * Abs(prev - new) > Capacity

(* ... and when it sets the estimate, here the filter e, to it.            *)
Resync(e, calm) ==
    LET due == e.val = 0 \/ (calm /\ volt_change_count + 1 >= ResyncAfter)
        new == (Capacity * Percent(voltage', e.val)) \div 100
    IN /\ volt_change_count' =
            IF e.val = 0 THEN volt_change_count
            ELSE IF ~calm THEN IF volt_change_count > 0 THEN volt_change_count - 1 ELSE 0
            ELSE IF due THEN 0 ELSE volt_change_count + 1
       /\ exp_capacity' = IF due /\ OutOfSync(e.val, new) THEN Filter!Validate(e, new) ELSE e

(* updateVoltageCurrentSOC.  The charge is reckoned with the voltage of    *)
(* the reply before; a capacity of 0 raises before anything but            *)
(* max_capacity is set.                                                    *)
UpdateVoltageCurrentSOC(m, charge, calm, v) ==
    /\ max_capacity' = m
    /\ IF m = 0 THEN UNCHANGED <<exp_capacity, voltage, volt_change_count>>
       ELSE LET added == IF voltage = 0 THEN 0 ELSE charge
                e == Filter!Validate(exp_capacity, exp_capacity.val + added)
            IN voltage' = v /\ Resync(e, calm)
    /\ UNCHANGED <<polls, rest>>

(* A reply: in use the battery is charged or drained and its voltage       *)
(* moves; at rest neither.                                                 *)
ReplyInUse ==
    /\ ~rest
    /\ \E m \in {0, Capacity}, charge \in {-1, 0, 1}, calm \in BOOLEAN, v \in Voltages :
          /\ calm => charge = 0
          /\ exp_capacity.val + charge # 0 \/ charge = 0
          /\ UpdateVoltageCurrentSOC(m, charge, calm, v)

ReplyAtRest == rest /\ UpdateVoltageCurrentSOC(Capacity, 0, TRUE, voltage)

ComesToRest == ~rest /\ voltage # 0 /\ rest' = TRUE /\ UNCHANGED <<polls, capacity>>

Init == /\ poll_loop_count = 0 /\ quiet = [r \in Registers |-> 0]
        /\ exp_capacity = Filter!Settled(0) /\ voltage = 0 /\ max_capacity = 0
        /\ volt_change_count = 0 /\ rest = FALSE

Next == PollRequest \/ ReplyInUse \/ ReplyAtRest \/ ComesToRest

(* The battery goes on answering.                                          *)
Spec == Init /\ [][Next]_vars /\ WF_vars(ReplyInUse \/ ReplyAtRest)

-----------------------------------------------------------------------------
(* Types; and each register is asked for once in fourteen polls, for ever. *)
TypeOK ==
    /\ poll_loop_count \in 0..15
    /\ quiet \in [Registers -> 0..Round]
    /\ exp_capacity.val \in 0..EstimateMax
    /\ exp_capacity.rejected \in 0..MaxConsecutiveRejects
    /\ voltage \in Voltages \cup {0}
    /\ max_capacity \in {0, Capacity}
    /\ volt_change_count \in 0..ResyncAfter - 1
    /\ rest \in BOOLEAN

(* "Hard-set the remaining capacity based on voltage to resync readings"   *)
(* (RenogyBatt:126): when the battery rests long enough, the estimate      *)
(* agrees with the voltage to within a tenth of the capacity.              *)
InSync ==
    LET e == exp_capacity.val
    IN e \in {n \in 0..EstimateMax : ~OutOfSync(n, (Capacity * Percent(voltage, n)) \div 100)}

EstimateResyncs == rest ~> InSync
=============================================================================

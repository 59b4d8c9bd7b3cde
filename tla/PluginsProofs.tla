---------------------------- MODULE PluginsProofs ----------------------------
(***************************************************************************)
(* The invariants of the parts of MCPlugins, for any limits and sizes that *)
(* satisfy its assumptions.  Each part is an interval of this module: its  *)
(* inductive invariant, that the invariant holds at first, and that every  *)
(* step of the part keeps it.  The theorems, of the composition, are at    *)
(* the end.                                                                *)
(***************************************************************************)
EXTENDS MCPlugins, ValueFilterProofs, SequenceTheorems, FiniteSetTheorems,
        WellFoundedInduction

(* A function on an initial segment is a sequence.                         *)
LEMMA FunctionIsSeq ==
    ASSUME NEW S, NEW n \in Nat, NEW f \in [1..n -> S]
    PROVE  f \in Seq(S) /\ Len(f) = n
  <1>1. f \in UNION {[1..k -> S] : k \in Nat}
    OBVIOUS
  <1>2. f \in Seq(S)
    BY <1>1, SeqDef
  <1> QED BY <1>2, LenProperties

(* Every set of naturals has a least one; so a set that holds 0 and with   *)
(* every number the next holds them all.                                   *)
LEMMA LeastNatural ==
    ASSUME NEW S, S \subseteq Nat, S # {}
    PROVE  \E x \in S : \A y \in S : x <= y
  <1>1. PICK x \in S : \A y \in S : ~ (<<y, x>> \in OpToRel(<, Nat))
    BY NatLessThanWellFounded, WFMin
  <1>2. ASSUME NEW y \in S, y < x PROVE <<y, x>> \in OpToRel(<, Nat)
    BY <1>2 DEF OpToRel
  <1>3. \A y \in S : ~(y < x)
    BY <1>1, <1>2, Zenon
  <1>4. x \in Nat /\ \A y \in S : y \in Nat
    OBVIOUS
  <1>5. \A y \in S : x <= y
    BY <1>3, <1>4
  <1> QED BY <1>5

LEMMA AllNaturals ==
    ASSUME NEW S, 0 \in S, \A k \in Nat : k \in S => k + 1 \in S
    PROVE  Nat \subseteq S
  <1> SUFFICES ASSUME Nat \ S # {} PROVE FALSE
    OBVIOUS
  <1>1. PICK x \in Nat \ S : \A y \in Nat \ S : x <= y
    BY LeastNatural
  <1>2. x # 0 /\ x - 1 \in Nat /\ x - 1 + 1 = x
    BY <1>1
  <1>3. x - 1 \in S
    BY <1>1, <1>2
  <1> QED BY <1>1, <1>2, <1>3

(* ... and a set of numbers up to some number has a greatest one.          *)
LEMMA GreatestNumber ==
    ASSUME NEW n \in Nat, NEW S, S \subseteq 0..n, S # {}
    PROVE  \E x \in S : \A y \in S : x >= y
  <1>1. PICK d \in {n - x : x \in S} : \A e \in {n - x : x \in S} : d <= e
    <2>1. {n - x : x \in S} \subseteq Nat /\ {n - x : x \in S} # {}
      <3>1. \A x \in S : x \in Nat /\ n - x \in Nat
        OBVIOUS
      <3>2. PICK x : x \in S
        OBVIOUS
      <3>3. n - x \in {n - y : y \in S}
        BY <3>2
      <3> QED BY <3>1, <3>3
    <2> QED BY <2>1, LeastNatural
  <1>2. PICK x \in S : d = n - x
    OBVIOUS
  <1>3. \A y \in S : n - x <= n - y
    BY <1>1, <1>2
  <1> QED BY <1>3

-----------------------------------------------------------------------------
(* The voltage stays within the limits, or it would not be tracked.        *)
CellInv == /\ truth \in CellMin..CellMax
           /\ cell \in {0} \cup CellMin..CellMax
           /\ Battery!CellTracks

LEMMA Distances ==
    ASSUME NEW a \in Int, NEW b \in Int, NEW c \in Int
    PROVE  /\ Battery!Abs(a - b) \in Nat /\ Battery!Abs(a - b) = Battery!Abs(b - a)
           /\ Battery!Abs(a - a) = 0
           /\ Battery!Abs(a - c) <= Battery!Abs(a - b) + Battery!Abs(b - c)
  BY DEF Battery!Abs

(* The setter, for a reading no further from the stored value than         *)
(* CellDiff, ends within the deadband of it, if it stores any.             *)
LEMMA NearIsFollowed ==
    ASSUME NEW v \in CellMin..CellMax, NEW c \in {0} \cup CellMin..CellMax,
           c # 0 => Battery!Abs(v - c) <= CellDiff
    PROVE  /\ Battery!CellAfter(c, v) \in {0} \cup CellMin..CellMax
           /\ Battery!CellAfter(c, v) # 0 => Battery!Abs(Battery!CellAfter(c, v) - v) <= Deadband
  <1>1. v \in Int /\ c \in Int /\ Deadband \in Nat
    BY CellAssumption
  <1>2. /\ Battery!Abs(v - v) = 0 /\ Battery!Abs(v - c) = Battery!Abs(c - v)
        /\ Battery!Abs(v - c) \in Nat
    BY <1>1, Distances
  <1>3. CASE c = 0
    BY <1>1, <1>2, <1>3 DEF Battery!CellAfter
  <1>4. CASE c # 0
    <2>1. Battery!CellAfter(c, v) = IF Battery!Abs(v - c) > Deadband THEN v ELSE c
      BY <1>4 DEF Battery!CellAfter
    <2> QED BY <1>1, <1>2, <2>1
  <1> QED BY <1>3, <1>4

(* The setter, for a reading further away, keeps what is stored.           *)
LEMMA FarIsRefused ==
    ASSUME NEW v, NEW c, c # 0, ~(Battery!Abs(v - c) <= CellDiff)
    PROVE  Battery!CellAfter(c, v) = c
  BY DEF Battery!CellAfter

(* The voltage moves: its reading is within CellDiff of what is stored.    *)
LEMMA ReadingIsTracked ==
    ASSUME CellInv, Battery!CellReading
    PROVE  CellInv'
  <1>1. /\ truth' \in CellMin..CellMax /\ truth' \in Int
        /\ Battery!Abs(truth' - truth) <= CellDiff - Deadband
        /\ cell' = Battery!CellAfter(cell, truth')
    BY CellAssumption DEF Battery!CellReading, Battery!SetCell
  <1>2. /\ truth \in Int /\ cell \in Int /\ cell \in {0} \cup CellMin..CellMax
        /\ cell # 0 => Battery!Abs(cell - truth) <= Deadband
    BY CellAssumption DEF CellInv, Battery!CellTracks
  <1>3. cell # 0 => Battery!Abs(truth' - cell) <= CellDiff
    <2>1. Battery!Abs(truth' - cell) <= Battery!Abs(truth' - truth) + Battery!Abs(truth - cell)
      BY <1>1, <1>2, Distances
    <2>2. /\ Battery!Abs(truth - cell) = Battery!Abs(cell - truth)
          /\ Battery!Abs(truth - cell) \in Nat
          /\ Battery!Abs(truth' - truth) \in Nat /\ Battery!Abs(truth' - cell) \in Nat
      BY <1>1, <1>2, Distances
    <2> QED BY CellAssumption, <1>1, <1>2, <2>1, <2>2
  <1>4. /\ cell' \in {0} \cup CellMin..CellMax
        /\ cell' # 0 => Battery!Abs(cell' - truth') <= Deadband
    BY <1>1, <1>2, <1>3, NearIsFollowed
  <1> QED BY <1>1, <1>4 DEF CellInv, Battery!CellTracks

(* A damaged reading is further from it than that, and refused.            *)
LEMMA NoiseIsRefused ==
    ASSUME CellInv, Battery!CellNoise
    PROVE  CellInv'
  <1>1. PICK v \in Cells : /\ Battery!Abs(v - truth) > CellDiff + Deadband
                           /\ cell' = Battery!CellAfter(cell, v)
    BY DEF Battery!CellNoise, Battery!SetCell
  <1>2. /\ v \in Int /\ truth \in Int /\ cell \in Int /\ cell # 0
        /\ Battery!Abs(cell - truth) <= Deadband
    BY CellAssumption DEF Battery!CellNoise, CellInv, Battery!CellTracks
  <1>3. /\ Battery!Abs(v - truth) <= Battery!Abs(v - cell) + Battery!Abs(cell - truth)
        /\ Battery!Abs(v - cell) \in Nat /\ Battery!Abs(cell - truth) \in Nat
        /\ Battery!Abs(v - truth) \in Nat
    BY <1>2, Distances
  <1>4. ~(Battery!Abs(v - cell) <= CellDiff)
    BY CellAssumption, <1>1, <1>2, <1>3
  <1>5. cell' = cell /\ truth' = truth
    BY <1>1, <1>2, <1>4, FarIsRefused DEF Battery!CellNoise
  <1> QED BY <1>5 DEF CellInv, Battery!CellTracks

LEMMA InitCell == Battery!Init => CellInv
  BY CellAssumption DEF Battery!Init, CellInv, Battery!CellTracks

LEMMA NextCell == CellInv /\ [Battery!Next]_battery => CellInv'
  <1> SUFFICES ASSUME CellInv, [Battery!Next]_battery PROVE CellInv'
    OBVIOUS
  <1>1. CASE Battery!CellReading \/ Battery!CellNoise
    BY <1>1, ReadingIsTracked, NoiseIsRefused
  <1>2. ASSUME NEW v, Battery!SetCurrent(v) \/ Battery!SetCycles(v) PROVE CellInv'
    BY <1>2 DEF Battery!SetCurrent, Battery!SetCycles, Battery!cells, CellInv,
                Battery!CellTracks
  <1>3. CASE UNCHANGED battery
    BY <1>3 DEF battery, CellInv, Battery!CellTracks
  <1> QED BY <1>1, <1>2, <1>3 DEF Battery!Next

-----------------------------------------------------------------------------
(* What is proved of the filter, of the filter of the current.             *)
CF ==
    INSTANCE ValueFilterProofs
    WITH Readings <- Currents, InitVal <- 0, Min <- -MaxCurrent, Max <- MaxCurrent,
         MaxDiff <- CurrentDiff, filter <- mcurrent, last <- lastC, streak <- streakC,
         steady <- steadyC

StateInv == CF!FilterInv /\ Battery!StateSettles

LEMMA CurrentIsFiltered == CF!FilterAssumption
  BY CurrentAssumption, FilterAssumption DEF CF!FilterAssumption

(* The setter's filter and the one the proofs are about are the same.      *)
LEMMA SameFilter ==
    ASSUME NEW v, Battery!CurrentFilter!Read(v)
    PROVE  CF!Read(v)
  BY DEF Battery!CurrentFilter!Read, Battery!CurrentFilter!Validate,
         Battery!CurrentFilter!Observe,
         Battery!CurrentFilter!InBounds, Battery!CurrentFilter!Far,
         Battery!CurrentFilter!Near, Battery!CurrentFilter!Abs,
         Battery!CurrentFilter!Unset, Battery!CurrentFilter!Rejections,
         Battery!CurrentFilter!Refused,
         Battery!CurrentFilter!Settled, Battery!CurrentFilter!Longer,
         CF!Read, CF!Validate, CF!Observe, CF!InBounds, CF!Far, CF!Near, CF!Abs,
         CF!Unset, CF!Rejections, CF!Refused, CF!Settled, CF!Longer

(* A current that the filter believes is the one the state was derived of. *)
LEMMA BelievedCurrentSettles ==
    ASSUME CF!FilterInv, NEW v \in Currents, Battery!SetCurrent(v)
    PROVE  CF!FilterInv' /\ Battery!StateSettles'
  <1>1. CF!FilterAssumption /\ CF!Read(v)
    BY CurrentIsFiltered, SameFilter DEF Battery!SetCurrent
  <1>2. CF!FilterInv'
    BY <1>1, CF!NextFilterInv DEF CF!Next
  <1>3. CF!TypeOK /\ CF!Observe(v)
    BY <1>1 DEF CF!FilterInv, CF!Read
  <1>4. ASSUME streakC' > MaxConsecutiveRejects PROVE mcurrent'.val = v
    <2>1. lastC' = v /\ streakC' > 0
      BY CurrentAssumption, FilterAssumption, <1>1, <1>3, <1>4, CF!ObserveType
    <2> QED BY CurrentAssumption, FilterAssumption, <1>2, <1>4, <2>1
            DEF CF!FilterInv, CF!Counted, CF!TypeOK
  <1>5. ASSUME mcurrent'.val = v PROVE state' = Battery!StateOf(mcurrent'.val)
    BY CurrentAssumption, FilterAssumption, <1>5
    DEF Battery!SetCurrent, Battery!StateAfter, Battery!Abs
  <1> QED BY <1>2, <1>4, <1>5 DEF Battery!StateSettles

LEMMA InitState == Battery!Init => StateInv
  <1> SUFFICES ASSUME Battery!Init PROVE StateInv
    OBVIOUS
  <1>1. CF!Init
    BY DEF Battery!Init, Battery!CurrentFilter!Init, CF!Init,
           Battery!CurrentFilter!Settled, CF!Settled
  <1>2. streakC = 0 /\ state = None
    BY <1>1 DEF CF!Init, Battery!Init
  <1> QED BY <1>1, <1>2, CF!InitFilterInv, CurrentIsFiltered, FilterAssumption
          DEF StateInv, Battery!StateSettles

LEMMA NextState == StateInv /\ [Battery!Next]_battery => StateInv'
  <1> SUFFICES ASSUME StateInv, [Battery!Next]_battery PROVE StateInv'
    OBVIOUS
  <1>1. ASSUME NEW v \in Currents, Battery!SetCurrent(v) PROVE StateInv'
    BY <1>1, BelievedCurrentSettles DEF StateInv
  <1>2. CASE UNCHANGED Battery!current
    <2>1. UNCHANGED CF!vars
      BY <1>2 DEF Battery!current, CF!vars
    <2>2. CF!FilterInv'
      BY <2>1, CF!NextFilterInv, CurrentIsFiltered DEF StateInv
    <2> QED BY <1>2, <2>2
            DEF Battery!current, StateInv, Battery!StateSettles, Battery!StateOf
  <1>3. \/ \E v \in Currents : Battery!SetCurrent(v)
        \/ UNCHANGED Battery!current
    BY DEF Battery!Next, Battery!SetCycles, Battery!CellReading, Battery!CellNoise,
           Battery!current, battery
  <1> QED BY <1>1, <1>2, <1>3

-----------------------------------------------------------------------------
(* Likewise of the filter of the charge cycles, which refuses what health  *)
(* is not derived of: readings that are not positive.                      *)
HF ==
    INSTANCE ValueFilterProofs
    WITH Readings <- Cycles, InitVal <- 0, Min <- 1, Max <- MaxCycles,
         MaxDiff <- CyclesDiff, filter <- charge_cycles, last <- lastH, streak <- streakH,
         steady <- steadyH

HealthInv == HF!FilterInv /\ Battery!HealthSettles

LEMMA CyclesAreFiltered == HF!FilterAssumption
  BY CyclesAssumption, FilterAssumption DEF HF!FilterAssumption

LEMMA SameCyclesFilter ==
    ASSUME NEW v, Battery!CyclesFilter!Read(v)
    PROVE  HF!Read(v)
  BY DEF Battery!CyclesFilter!Read, Battery!CyclesFilter!Validate,
         Battery!CyclesFilter!Observe,
         Battery!CyclesFilter!InBounds, Battery!CyclesFilter!Far,
         Battery!CyclesFilter!Near, Battery!CyclesFilter!Abs,
         Battery!CyclesFilter!Unset, Battery!CyclesFilter!Rejections,
         Battery!CyclesFilter!Refused,
         Battery!CyclesFilter!Settled, Battery!CyclesFilter!Longer,
         HF!Read, HF!Validate, HF!Observe, HF!InBounds, HF!Far, HF!Near, HF!Abs,
         HF!Unset, HF!Rejections, HF!Refused, HF!Settled, HF!Longer

LEMMA BelievedCyclesSettle ==
    ASSUME HF!FilterInv, NEW v \in Cycles, Battery!SetCycles(v)
    PROVE  HF!FilterInv' /\ Battery!HealthSettles'
  <1>1. HF!FilterAssumption /\ HF!Read(v)
    BY CyclesAreFiltered, SameCyclesFilter DEF Battery!SetCycles
  <1>2. HF!FilterInv'
    BY <1>1, HF!NextFilterInv DEF HF!Next
  <1>3. HF!TypeOK /\ HF!Observe(v)
    BY <1>1 DEF HF!FilterInv, HF!Read
  <1>4. ASSUME streakH' > MaxConsecutiveRejects PROVE charge_cycles'.val = v /\ v > 0
    <2>1. lastH' = v /\ streakH' > 0 /\ HF!InBounds(v)
      BY CyclesAssumption, FilterAssumption, <1>1, <1>3, <1>4, HF!ObserveType
    <2>2. v > 0
      BY CyclesAssumption, FilterAssumption, <2>1 DEF HF!InBounds
    <2> QED BY CyclesAssumption, FilterAssumption, <1>2, <1>4, <2>1, <2>2
            DEF HF!FilterInv, HF!Counted, HF!TypeOK
  <1>5. ASSUME charge_cycles'.val = v, v > 0 PROVE health' = Battery!HealthOf(charge_cycles'.val)
    BY <1>5 DEF Battery!SetCycles, Battery!HealthAfter
  <1> QED BY <1>2, <1>4, <1>5 DEF Battery!HealthSettles

LEMMA InitHealth == Battery!Init => HealthInv
  <1> SUFFICES ASSUME Battery!Init PROVE HealthInv
    OBVIOUS
  <1>1. HF!Init
    BY DEF Battery!Init, Battery!CyclesFilter!Init, HF!Init,
           Battery!CyclesFilter!Settled, HF!Settled
  <1>2. streakH = 0 /\ health = None
    BY <1>1 DEF HF!Init, Battery!Init
  <1> QED BY <1>1, <1>2, HF!InitFilterInv, CyclesAreFiltered, FilterAssumption
          DEF HealthInv, Battery!HealthSettles

LEMMA NextHealth == HealthInv /\ [Battery!Next]_battery => HealthInv'
  <1> SUFFICES ASSUME HealthInv, [Battery!Next]_battery PROVE HealthInv'
    OBVIOUS
  <1>1. ASSUME NEW v \in Cycles, Battery!SetCycles(v) PROVE HealthInv'
    BY <1>1, BelievedCyclesSettle DEF HealthInv
  <1>2. CASE UNCHANGED Battery!cycles
    <2>1. UNCHANGED HF!vars
      BY <1>2 DEF Battery!cycles, HF!vars
    <2>2. HF!FilterInv'
      BY <2>1, HF!NextFilterInv, CyclesAreFiltered DEF HealthInv
    <2> QED BY <1>2, <2>2
            DEF Battery!cycles, HealthInv, Battery!HealthSettles, Battery!HealthOf
  <1>3. \/ \E v \in Cycles : Battery!SetCycles(v)
        \/ UNCHANGED Battery!cycles
    BY DEF Battery!Next, Battery!SetCurrent, Battery!CellReading, Battery!CellNoise,
           Battery!cycles, battery
  <1> QED BY <1>1, <1>2, <1>3

-----------------------------------------------------------------------------
(* The types of the whole battery: those of the two filters are of the     *)
(* filters' invariants.                                                    *)
BatteryInv ==
    /\ CellInv /\ StateInv /\ HealthInv
    /\ state \in {None, "charging", "discharging", "standby"}
    /\ health \in {None, "good", "perfect"}

LEMMA InitBattery == Battery!Init => BatteryInv
  BY InitCell, InitState, InitHealth DEF BatteryInv, Battery!Init

LEMMA NextBattery == BatteryInv /\ [Battery!Next]_battery => BatteryInv'
  <1> SUFFICES ASSUME BatteryInv, [Battery!Next]_battery PROVE BatteryInv'
    OBVIOUS
  <1>1. CellInv' /\ StateInv' /\ HealthInv'
    BY NextCell, NextState, NextHealth DEF BatteryInv
  <1>2. ASSUME NEW v, Battery!SetCurrent(v)
        PROVE  state' \in {state, "charging", "discharging", "standby"} /\ health' = health
    BY <1>2 DEF Battery!SetCurrent, Battery!StateAfter, Battery!StateOf, Battery!cycles
  <1>3. ASSUME NEW v, Battery!SetCycles(v)
        PROVE  health' \in {health, "good", "perfect"} /\ state' = state
    BY <1>3 DEF Battery!SetCycles, Battery!HealthAfter, Battery!HealthOf, Battery!current
  <1>4. ASSUME Battery!CellReading \/ Battery!CellNoise \/ UNCHANGED battery
        PROVE  state' = state /\ health' = health
    BY <1>4 DEF Battery!CellReading, Battery!CellNoise, Battery!current, Battery!cycles,
                battery
  <1>5. \/ state' = state /\ health' = health
        \/ state' \in {state, "charging", "discharging", "standby"} /\ health' = health
        \/ health' \in {health, "good", "perfect"} /\ state' = state
    BY <1>2, <1>3, <1>4 DEF Battery!Next
  <1> QED BY <1>1, <1>5 DEF BatteryInv

LEMMA BatteryImplies ==
    BatteryInv => Battery!TypeOK /\ CellTracks /\ BatterySettles
  <1> SUFFICES ASSUME BatteryInv PROVE Battery!TypeOK /\ CellTracks /\ BatterySettles
    OBVIOUS
  <1>1. CF!TypeOK /\ HF!TypeOK
    BY DEF BatteryInv, StateInv, HealthInv, CF!FilterInv, HF!FilterInv
  <1>2. Battery!CurrentFilter!TypeOK
    BY <1>1 DEF CF!TypeOK, Battery!CurrentFilter!TypeOK
  <1>3. Battery!CyclesFilter!TypeOK
    BY <1>1 DEF HF!TypeOK, Battery!CyclesFilter!TypeOK
  <1> QED BY <1>2, <1>3 DEF BatteryInv, CellInv, StateInv, HealthInv, Battery!TypeOK,
          CellTracks, BatterySettles

-----------------------------------------------------------------------------
(* Unless some link was slow since the counts were last read, they hold    *)
(* no more damaged frames than a good link damages.                        *)
LinkInv ==
    /\ Link!TypeOK
    /\ slow => slowSeen
    /\ ~slowSeen => bad <= Noise

(* So few damaged frames do not make a link slow, whatever came with them. *)
LEMMA NoiseIsNotSlow ==
    ASSUME NEW a \in Nat, NEW r \in Nat, r <= Noise
    PROVE  ~Link!GoneSlow(a, r)
  BY LinkAssumption DEF Link!GoneSlow

LEMMA CountsAreCapped ==
    ASSUME NEW n \in Nat
    PROVE  Link!Capped(n) \in 0..MaxCount /\ Link!Capped(n) <= n
  BY LinkAssumption DEF Link!Capped

LEMMA InitLink == Link!Init => LinkInv
  <1> SUFFICES ASSUME Link!Init PROVE LinkInv
    OBVIOUS
  <1>1. /\ {up, slow, asked, slowSeen} \subseteq BOOLEAN /\ ~slow
        /\ since = 0 /\ ok = 0 /\ bad = 0
    BY DEF Link!Init
  <1> QED BY <1>1, LinkAssumption DEF LinkInv, Link!TypeOK

(* What a round of _hold adds to the counts, and what it makes of them.    *)
LEMMA RoundCounts ==
    ASSUME LinkInv, NEW a \in 0..Burst, NEW r \in 0..Burst, NEW set \in BOOLEAN,
           Link!Round(a, r, set)
    PROVE  /\ Link!Capped(ok + a) \in 0..MaxCount
           /\ Link!Capped(bad + r) \in 0..MaxCount
           /\ ~slowSeen => Link!Capped(bad + r) <= Noise
  <1>1. /\ ok \in Nat /\ bad \in Nat /\ a \in Nat /\ r \in Nat /\ Noise \in Nat
        /\ MaxCount \in Nat
    BY LinkAssumption DEF LinkInv, Link!TypeOK
  <1>2. ~slowSeen => bad + r <= Noise
    BY <1>1 DEF LinkInv, Link!Round
  <1>3. Link!Capped(bad + r) \in 0..MaxCount /\ Link!Capped(bad + r) <= bad + r
    BY <1>1, CountsAreCapped
  <1> QED BY <1>1, <1>2, <1>3, CountsAreCapped

(* A link is asked for its interval only when one was slow.                *)
LEMMA AskedForSlowness ==
    ASSUME LinkInv, Link!Next
    PROVE  asked' => slowSeen
  <1>1. ASSUME NEW a \in 0..Burst, NEW r \in 0..Burst, NEW set \in BOOLEAN,
               Link!Round(a, r, set), asked', ~slowSeen
        PROVE  FALSE
    <2>1. Link!GoneSlow(Link!Capped(ok + a), Link!Capped(bad + r))
      BY <1>1 DEF Link!Round, Link!VerifyLink
    <2> QED BY <1>1, <2>1, RoundCounts, NoiseIsNotSlow
  <1> QED BY <1>1 DEF Link!Next, Link!Hold, Link!Connect, Link!Lose, Link!Renegotiate

LEMMA RoundKeepsLink ==
    ASSUME LinkInv, NEW a \in 0..Burst, NEW r \in 0..Burst, NEW set \in BOOLEAN,
           Link!Round(a, r, set)
    PROVE  LinkInv'
  <1>1. CASE since + 1 >= VerifySeconds
    <2>1. /\ since' = 0 /\ ok' = 0 /\ bad' = 0 /\ slowSeen' = slow' /\ up' = up
          /\ asked' \in BOOLEAN /\ slow' \in BOOLEAN
      BY <1>1 DEF Link!Round, Link!VerifyLink, Link!CountsRead, Link!GoneSlow
    <2> QED BY <2>1, LinkAssumption DEF LinkInv, Link!TypeOK
  <1>2. CASE ~(since + 1 >= VerifySeconds)
    <2>1. /\ since' = since + 1
          /\ ok' = Link!Capped(ok + a) /\ bad' = Link!Capped(bad + r)
      BY <1>2 DEF Link!Round
    <2>2. asked' = FALSE /\ slow' = slow /\ slowSeen' = slowSeen /\ up' = up
      BY <1>2 DEF Link!Round
    <2>3. since' \in 0..VerifySeconds - 1
      BY <1>2, <2>1, LinkAssumption DEF LinkInv, Link!TypeOK
    <2>4. ok' \in 0..MaxCount /\ bad' \in 0..MaxCount /\ (~slowSeen => bad' <= Noise)
      BY <2>1, RoundCounts
    <2> QED BY <2>2, <2>3, <2>4 DEF LinkInv, Link!TypeOK
  <1> QED BY <1>1, <1>2

LEMMA NextLink == LinkInv /\ [Link!Next]_link => LinkInv'
  <1> SUFFICES ASSUME LinkInv, [Link!Next]_link PROVE LinkInv'
    OBVIOUS
  <1>1. CASE Link!Hold
    BY <1>1, RoundKeepsLink DEF Link!Hold
  <1>2. ASSUME NEW set \in BOOLEAN, Link!Connect(set) PROVE LinkInv'
    <2>1. /\ since' = 0 /\ ok' = ok /\ bad' = bad
          /\ up' \in BOOLEAN /\ slow' \in BOOLEAN /\ asked' \in BOOLEAN
          /\ slowSeen' = (slowSeen \/ slow')
      BY <1>2 DEF Link!Connect
    <2> QED BY <2>1, LinkAssumption DEF LinkInv, Link!TypeOK
  <1>3. CASE Link!Lose \/ Link!Renegotiate
    <2>1. {up, slow, asked, slowSeen} \subseteq BOOLEAN
      BY DEF LinkInv, Link!TypeOK
    <2>2. /\ {up', slow', asked', slowSeen'} \subseteq BOOLEAN
          /\ slow' => slowSeen'
          /\ ~slowSeen' => ~slowSeen
      <3>1. CASE Link!Lose
        <4>1. up' = FALSE /\ slow' = FALSE /\ asked' = FALSE /\ slowSeen' = slowSeen
          BY <3>1 DEF Link!Lose
        <4> QED BY <2>1, <4>1, Zenon
      <3>2. CASE Link!Renegotiate
        <4>1. up' = up /\ slow' = TRUE /\ asked' = FALSE /\ slowSeen' = TRUE
          BY <3>2 DEF Link!Renegotiate
        <4> QED BY <2>1, <4>1, Zenon
      <3> QED BY <1>3, <3>1, <3>2
    <2>3. since' = since /\ ok' = ok /\ bad' = bad
      BY <1>3 DEF Link!Lose, Link!Renegotiate
    <2> QED BY <2>2, <2>3 DEF LinkInv, Link!TypeOK
  <1>4. CASE UNCHANGED link
    <2>1. /\ up' = up /\ slow' = slow /\ asked' = asked /\ slowSeen' = slowSeen
          /\ since' = since /\ ok' = ok /\ bad' = bad
      BY <1>4, Zenon DEF link
    <2> QED BY <2>1 DEF LinkInv, Link!TypeOK
  <1> QED BY <1>1, <1>2, <1>3, <1>4 DEF Link!Next

-----------------------------------------------------------------------------
(* What was sent is made of bytes; what was received, once it was, was     *)
(* made of that.                                                           *)
FrameInv ==
    /\ Frame!TypeOK /\ Frame!NothingInvented /\ Frame!DamageIsContained

LEMMA FieldRange ==
    ASSUME NEW f \in [1..2 -> {0, 1, Frame!Junk}]
    PROVE  Frame!FieldValue(f) \in 0..3
  <1>1. Len(f) = 2
    BY FunctionIsSeq
  <1>2. f[1] \in {0, 1, 9} /\ f[2] \in {0, 1, 9} /\ DOMAIN f = 1..2
    BY DEF Frame!Junk
  <1>3. Frame!Readable(f) => f[1] \in {0, 1} /\ f[2] \in {0, 1}
    BY <1>2 DEF Frame!Readable, Frame!Junk
  <1> QED BY <1>1, <1>3 DEF Frame!FieldValue

(* Damage the checksum does not see makes digits unreadable, and no other  *)
(* digits of them.                                                         *)
LEMMA ReadableIsSent ==
    ASSUME NEW n \in Nat, NEW f \in [1..n -> {0, 1}], NEW g \in Frame!Damaged(f),
           Frame!Readable(g)
    PROVE  g = f
  BY DEF Frame!Damaged, Frame!Readable, Frame!Junk

LEMMA DamagedType ==
    ASSUME NEW n \in Nat, NEW f \in [1..n -> {0, 1}], NEW g \in Frame!Damaged(f)
    PROVE  g \in [1..n -> {0, 1, Frame!Junk}]
  BY DEF Frame!Damaged

LEMMA UnreadableIsZero ==
    ASSUME NEW f, ~Frame!Readable(f)
    PROVE  Frame!FieldValue(f) = 0 /\ Frame!ReadField(f) = None
  BY DEF Frame!FieldValue, Frame!ReadField

LEMMA InitFrame == Frame!Init => FrameInv
  <1> SUFFICES ASSUME Frame!Init PROVE FrameInv
    OBVIOUS
  <1>1. sent \in Frame!Frames({0, 1}) /\ entities = Frame!Nothing /\ updated = FALSE
    BY DEF Frame!Init
  <1>2. /\ entities.mvoltage = None /\ entities.afestatus = None
        /\ \A s \in Scalars : entities.scalars[s] = None
        /\ \A i \in 1..Slots : entities.cells[i] = None
    BY <1>1 DEF Frame!Nothing
  <1> QED BY <1>1, <1>2
          DEF FrameInv, Frame!TypeOK, Frame!NothingInvented, Frame!DamageIsContained

(* What a frame that is received tells of the one that was sent, for each  *)
(* way it may arrive.                                                      *)
Faithful(f, full) ==
    /\ f.mvoltage \in [1..2 -> {0, 1, Frame!Junk}]
    /\ Frame!Readable(f.mvoltage) => f.mvoltage = sent.mvoltage
    /\ Frame!IsReading(f) =>
          \A s \in Scalars :
              /\ f.scalars[s] \in [1..2 -> {0, 1, Frame!Junk}]
              /\ Frame!Readable(f.scalars[s]) => f.scalars[s] = sent.scalars[s]
    /\ full /\ Frame!IsReading(f) =>
          /\ Frame!FieldValue(f.afestatus) = Frame!FieldValue(sent.afestatus)
          /\ \A i \in 1..Slots :
                /\ f.cells[i] \in [1..2 -> {0, 1, Frame!Junk}]
                /\ Frame!Readable(f.cells[i]) => f.cells[i] = sent.cells[i]

(* A full frame with some of its fields unreadable.                        *)
LEMMA FullIsFaithful ==
    ASSUME sent \in Frame!Frames({0, 1}),
           NEW v \in Frame!Damaged(sent.mvoltage), NEW a \in Frame!Damaged(sent.afestatus),
           NEW ss, \A s \in Scalars : ss[s] \in Frame!Damaged(sent.scalars[s]),
           NEW cs, \A i \in 1..Slots : cs[i] \in Frame!Damaged(sent.cells[i])
    PROVE  Faithful([mvoltage |-> v, scalars |-> ss, afestatus |-> a, cells |-> cs], TRUE)
  <1>1. /\ sent.mvoltage \in [1..2 -> {0, 1}] /\ sent.afestatus \in [1..1 -> {0, 1}]
        /\ \A s \in Scalars : sent.scalars[s] \in [1..2 -> {0, 1}]
        /\ \A i \in 1..Slots : sent.cells[i] \in [1..2 -> {0, 1}]
    BY DEF Frame!Frames, Frame!Fields
  <1>2. Frame!FieldValue(a) = Frame!FieldValue(sent.afestatus)
    <2>1. CASE Frame!Readable(a)
      <3>1. 1 \in Nat
        OBVIOUS
      <3>2. a = sent.afestatus
        BY <1>1, <2>1, <3>1, ReadableIsSent
      <3> QED BY <3>2
    <2>2. CASE ~Frame!Readable(a)
      <3>1. a \in [1..1 -> {0, 1, 9}] /\ a[1] = 9 /\ sent.afestatus[1] = 0
        BY <1>1, <2>2 DEF Frame!Damaged, Frame!Readable, Frame!Junk
      <3>2. Len(sent.afestatus) = 1
        BY <1>1
      <3> QED BY <1>1, <2>2, <3>1, <3>2 DEF Frame!FieldValue
    <2> QED BY <2>1, <2>2
  <1>3. /\ v \in [1..2 -> {0, 1, Frame!Junk}]
        /\ Frame!Readable(v) => v = sent.mvoltage
    BY <1>1, ReadableIsSent, DamagedType
  <1>4. \A s \in Scalars : /\ ss[s] \in [1..2 -> {0, 1, Frame!Junk}]
                           /\ Frame!Readable(ss[s]) => ss[s] = sent.scalars[s]
    BY <1>1, ReadableIsSent, DamagedType
  <1>5. \A i \in 1..Slots : /\ cs[i] \in [1..2 -> {0, 1, Frame!Junk}]
                            /\ Frame!Readable(cs[i]) => cs[i] = sent.cells[i]
    BY <1>1, ReadableIsSent, DamagedType
  <1> QED BY <1>2, <1>3, <1>4, <1>5 DEF Faithful

(* One swollen by duplicated fragments.                                    *)
LEMMA BloatedIsFaithful ==
    ASSUME sent \in Frame!Frames({0, 1}), NEW cs
    PROVE  Faithful([sent EXCEPT !.afestatus = <<1>>, !.cells = cs], FALSE)
  BY DEF Faithful, Frame!Frames, Frame!Fields, Frame!Junk

(* One that is blank but for its voltage, which is not taken.              *)
LEMMA BlankIsFaithful ==
    ASSUME sent \in Frame!Frames({0, 1})
    PROVE  Faithful(Frame!Blank, TRUE)
  <1>1. /\ Frame!Blank.mvoltage = sent.mvoltage
        /\ \A s \in Scalars : Frame!Blank.scalars[s] = <<0, 0>>
    BY DEF Frame!Blank
  <1>2. Frame!ReadField(<<0, 0>>) = 0
    BY DEF Frame!ReadField, Frame!Readable, Frame!FieldValue, Frame!Junk
  <1>3. ~Frame!IsReading(Frame!Blank)
    BY <1>1, <1>2 DEF Frame!IsReading, Frame!VoltageOnly
  <1> QED BY <1>1, <1>3 DEF Faithful, Frame!Frames, Frame!Fields, Frame!Junk

(* From there on it does not matter how it came.                           *)
LEMMA FaithfulIsRead ==
    ASSUME FrameInv, NEW f, NEW full \in BOOLEAN, Faithful(f, full), Frame!Arrives(f, full)
    PROVE  FrameInv'
  <1>1. /\ got' = [frame |-> f, full |-> full] /\ sent' = sent
        /\ got'.frame = f /\ got'.full = full
    BY DEF Frame!Arrives
  <1>2. /\ updated' = Frame!IsReading(f) /\ updated' \in BOOLEAN
    BY <1>1 DEF Frame!Arrives, Frame!HandleMessage, Frame!IsReading
  <1>3. sent \in Frame!Frames({0, 1})
    BY DEF FrameInv, Frame!TypeOK
  <1>4. CASE ~Frame!IsReading(f)
    <2>1. entities' = Frame!Nothing /\ updated' = FALSE
      BY <1>2, <1>4 DEF Frame!Arrives, Frame!HandleMessage
    <2>2. /\ entities'.mvoltage = None /\ entities'.afestatus = None
          /\ \A s \in Scalars : entities'.scalars[s] = None
          /\ \A i \in 1..Slots : entities'.cells[i] = None
      BY <2>1 DEF Frame!Nothing
    <2> QED BY <1>1, <1>3, <2>1, <2>2
            DEF FrameInv, Frame!TypeOK, Frame!NothingInvented, Frame!DamageIsContained
  <1>5. CASE Frame!IsReading(f)
    <2> DEFINE used == Frame!CellsUsed([frame |-> f, full |-> full])
    <2>1. /\ entities'.mvoltage = Frame!FieldValue(f.mvoltage)
          /\ \A s \in Scalars : entities'.scalars[s] = Frame!ReadField(f.scalars[s])
          /\ entities'.afestatus = IF full THEN Frame!FieldValue(f.afestatus) ELSE None
          /\ \A i \in 1..Slots :
                entities'.cells[i] = IF full /\ i \in used THEN Frame!FieldValue(f.cells[i])
                                     ELSE None
      BY <1>5 DEF Frame!Arrives, Frame!HandleMessage, Frame!CellsOf
    <2>2. used = {i \in 1..Slots : /\ \A j \in 1..i : Frame!FieldValue(f.cells[j]) # 0
                                   /\ Frame!FieldValue(f.cells[i]) >= MinCell}
      BY DEF Frame!CellsUsed
    <2> HIDE DEF used
    <2>3. f.mvoltage = sent.mvoltage /\ Frame!FieldValue(f.mvoltage) \in 0..3
      BY <1>5, FieldRange, UnreadableIsZero DEF Faithful, Frame!IsReading, Frame!HasVoltage
    <2>4. ASSUME NEW s \in Scalars
          PROVE  /\ entities'.scalars[s] \in 0..3 \cup {None}
                 /\ entities'.scalars[s] \in {None, Frame!FieldValue(sent.scalars[s])}
                 /\ Frame!Readable(f.scalars[s])
                       => entities'.scalars[s] = Frame!FieldValue(sent.scalars[s])
      BY <1>5, <2>1, FieldRange DEF Faithful, Frame!ReadField
    <2>5. entities'.afestatus \in {None, Frame!FieldValue(sent.afestatus)}
      BY <1>5, <2>1 DEF Faithful
    <2>6. ASSUME NEW i \in 1..Slots
          PROVE  /\ entities'.cells[i] \in MinCell..3 \cup {None}
                 /\ entities'.cells[i] \in {None, Frame!FieldValue(sent.cells[i])}
      <3>1. CASE full /\ i \in used
        <4>1. Frame!FieldValue(f.cells[i]) # 0 /\ Frame!FieldValue(f.cells[i]) >= MinCell
          BY <2>2, <3>1, FrameAssumption
        <4>2. /\ Frame!FieldValue(f.cells[i]) \in 0..3
              /\ f.cells[i] = sent.cells[i]
          BY <1>5, <3>1, <4>1, FieldRange, UnreadableIsZero DEF Faithful
        <4> QED BY <2>1, <3>1, <4>1, <4>2, FrameAssumption
      <3>2. CASE ~(full /\ i \in used)
        BY <2>1, <3>2
      <3> QED BY <3>1, <3>2
    <2>7. ASSUME full, NEW i \in 1..Slots, Frame!FieldValue(sent.cells[i]) >= MinCell,
                 \A j \in 1..i : /\ Frame!Readable(f.cells[j])
                                 /\ Frame!FieldValue(sent.cells[j]) # 0
          PROVE  entities'.cells[i] = Frame!FieldValue(sent.cells[i])
      <3>1. \A j \in 1..i : f.cells[j] = sent.cells[j]
        BY <1>5, <2>7, FrameAssumption DEF Faithful
      <3>2. i \in 1..i
        BY FrameAssumption
      <3>3. i \in used /\ f.cells[i] = sent.cells[i]
        BY <2>2, <2>7, <3>1, <3>2
      <3> QED BY <2>1, <2>7, <3>3
    <2>8. Frame!TypeOK'
      BY <1>1, <1>2, <1>3, <2>1, <2>3, <2>4, <2>6 DEF Frame!TypeOK
    <2>9. Frame!NothingInvented'
      BY <1>1, <2>1, <2>3, <2>4, <2>5, <2>6 DEF Frame!NothingInvented
    <2>10. Frame!DamageIsContained'
      BY <1>1, <2>4, <2>7 DEF Frame!DamageIsContained
    <2> QED BY <2>8, <2>9, <2>10 DEF FrameInv
  <1> QED BY <1>4, <1>5

LEMMA NextFrame == FrameInv /\ [Frame!Next]_frame => FrameInv'
  <1> SUFFICES ASSUME FrameInv, [Frame!Next]_frame PROVE FrameInv'
    OBVIOUS
  <1>0. sent \in Frame!Frames({0, 1})
    BY DEF FrameInv, Frame!TypeOK
  <1>1. CASE Frame!HandleFull
    <2>1. PICK v \in Frame!Damaged(sent.mvoltage), a \in Frame!Damaged(sent.afestatus) :
            \E ss \in [Scalars -> [1..2 -> {0, 1, Frame!Junk}]] :
              \E cs \in [1..Slots -> [1..2 -> {0, 1, Frame!Junk}]] :
                /\ \A s \in Scalars : ss[s] \in Frame!Damaged(sent.scalars[s])
                /\ \A i \in 1..Slots : cs[i] \in Frame!Damaged(sent.cells[i])
                /\ Frame!Arrives([mvoltage |-> v, scalars |-> ss, afestatus |-> a,
                                  cells |-> cs], TRUE)
      BY <1>1 DEF Frame!HandleFull
    <2> QED BY <1>0, <2>1, FullIsFaithful, FaithfulIsRead
  <1>2. CASE Frame!HandleBloated
    BY <1>0, <1>2, BloatedIsFaithful, FaithfulIsRead DEF Frame!HandleBloated
  <1>3. CASE Frame!HandleBlank
    BY <1>0, <1>3, BlankIsFaithful, FaithfulIsRead DEF Frame!HandleBlank
  <1>4. CASE UNCHANGED frame
    BY <1>4 DEF frame, FrameInv, Frame!TypeOK, Frame!NothingInvented,
                Frame!DamageIsContained
  <1> QED BY <1>1, <1>2, <1>3, <1>4 DEF Frame!Next

-----------------------------------------------------------------------------
(* The replies of a battery on the wire, and in the buffer.                *)
WireParts == [reply : 1..MaxReplies, part : 1..Parts, kind : Hacien!Kinds]

Received ==
    [reply : 1..MaxReplies, part : 1..Parts, kind : Hacien!Kinds, shape : Shapes \cup {"plain"}]

HacienTypes ==
    /\ pollnum \in 0..10
    /\ replied \in 0..MaxReplies
    /\ shown \in [Hacien!Kinds -> 0..MaxReplies]
    /\ wire \in Seq(WireParts) /\ buffer \in Seq(Received)

(* All of a reply follows its first part, and the next reply follows it.   *)
InOrder(w) ==
    \A j \in 1..Len(w) :
        /\ w[j].part < Parts =>
              /\ j < Len(w)
              /\ w[j + 1] = [reply |-> w[j].reply, part |-> w[j].part + 1, kind |-> w[j].kind]
        /\ w[j].part = Parts /\ j < Len(w) => w[j + 1].part = 1

(* In the midst of a reply that lacks no part so far, the buffer is what   *)
(* was received of it and nothing else.                                    *)
BufferIs(w, b) ==
    w # <<>> /\ Head(w).part # 1 =>
        /\ Len(b) = Head(w).part - 1
        /\ \A i \in 1..Len(b) :
              b[i].part = i /\ b[i].reply = Head(w).reply /\ b[i].kind = Head(w).kind

(* Polls since a register was asked for, by the place in the cycle.        *)
SinceAsked(k) ==
    /\ unasked[k] \in Nat
    /\ IF pollnum > Hacien!PollAt[k] THEN unasked[k] < pollnum - Hacien!PollAt[k]
       ELSE unasked[k] < 10 - Hacien!PollAt[k] + pollnum

HacienInv ==
    /\ HacienTypes /\ InOrder(wire)
    /\ whole => BufferIs(wire, buffer)
    /\ \A k \in Hacien!Kinds : SinceAsked(k)
    /\ unasked \in [Hacien!Kinds -> Nat]

LEMMA InitHacien == Hacien!Init => HacienInv
  <1> SUFFICES ASSUME Hacien!Init PROVE HacienInv
    OBVIOUS
  <1>1. /\ pollnum = 0 /\ wire = <<>> /\ buffer = <<>> /\ replied = 0
        /\ shown = [k \in Hacien!Kinds |-> 0] /\ unasked = [k \in Hacien!Kinds |-> 0]
    BY DEF Hacien!Init
  <1>2. \A k \in Hacien!Kinds : Hacien!PollAt[k] \in {1, 3}
    BY DEF Hacien!Kinds, Hacien!PollAt
  <1>3. HacienTypes
    BY <1>1, HacienAssumption DEF HacienTypes
  <1> QED BY <1>1, <1>2, <1>3 DEF HacienInv, InOrder, BufferIs, SinceAsked

LEMMA ReplyParts ==
    ASSUME NEW k \in Hacien!Kinds, replied \in 0..MaxReplies, replied < MaxReplies
    PROVE  /\ Hacien!Reply(k) \in Seq(WireParts) /\ Len(Hacien!Reply(k)) = Parts
           /\ \A i \in 1..Parts :
                Hacien!Reply(k)[i] = [reply |-> replied + 1, part |-> i, kind |-> k]
  <1>1. \A i \in 1..Parts : [reply |-> replied + 1, part |-> i, kind |-> k] \in WireParts
    BY HacienAssumption DEF WireParts
  <1>2. Hacien!Reply(k) \in [1..Parts -> WireParts]
    BY <1>1 DEF Hacien!Reply
  <1> QED BY <1>2, FunctionIsSeq, HacienAssumption DEF Hacien!Reply

(* A reply sent after others.                                              *)
LEMMA ReplyIsSent ==
    ASSUME HacienInv, NEW k \in Hacien!Kinds, replied < MaxReplies,
           wire' = wire \o Hacien!Reply(k)
    PROVE  /\ wire' \in Seq(WireParts) /\ InOrder(wire')
           /\ whole => BufferIs(wire', buffer)
           /\ Len(wire') > Len(wire)
  <1> DEFINE r == Hacien!Reply(k)
  <1>1. /\ wire \in Seq(WireParts) /\ InOrder(wire)
        /\ Parts \in Nat /\ Parts > 0 /\ replied \in 0..MaxReplies
    BY HacienAssumption DEF HacienInv, HacienTypes
  <1>2. /\ r \in Seq(WireParts) /\ Len(r) = Parts
        /\ \A i \in 1..Parts : r[i] = [reply |-> replied + 1, part |-> i, kind |-> k]
    BY <1>1, ReplyParts
  <1>3. /\ wire' = wire \o r
    OBVIOUS
  <1> HIDE DEF r
  <1>4. /\ wire' \in Seq(WireParts) /\ Len(wire') = Len(wire) + Parts
        /\ \A j \in 1..Len(wire) + Parts :
              wire'[j] = IF j <= Len(wire) THEN wire[j] ELSE r[j - Len(wire)]
    <2>1. /\ wire \o r \in Seq(WireParts) /\ Len(wire \o r) = Len(wire) + Len(r)
          /\ \A j \in 1..Len(wire) + Len(r) :
                (wire \o r)[j] = IF j <= Len(wire) THEN wire[j] ELSE r[j - Len(wire)]
      BY <1>1, <1>2, ConcatProperties, Zenon
    <2> QED BY <1>2, <1>3, <2>1, Zenon
  <1>5. Len(wire) \in Nat
    BY <1>1, LenProperties
  <1>6. InOrder(wire')
    <2> SUFFICES ASSUME NEW j \in 1..Len(wire')
                 PROVE  /\ wire'[j].part < Parts =>
                              /\ j < Len(wire')
                              /\ wire'[j + 1] = [reply |-> wire'[j].reply,
                                                 part |-> wire'[j].part + 1,
                                                 kind |-> wire'[j].kind]
                        /\ wire'[j].part = Parts /\ j < Len(wire') => wire'[j + 1].part = 1
      BY DEF InOrder
    <2>1. CASE j < Len(wire)
      BY <1>1, <1>4, <1>5, <2>1 DEF InOrder
    <2>2. CASE j = Len(wire)
      <3>1. wire'[j] = wire[j] /\ wire[j] \in WireParts /\ ~(wire[j].part < Parts)
        <4>1. wire'[j] = wire[j] /\ j \in 1..Len(wire)
          BY <1>4, <1>5, <2>2
        <4>2. wire[j] \in WireParts
          BY <1>1, <4>1, ElementOfSeq
        <4>3. wire[j].part < Parts => j < Len(wire)
          BY <1>1, <4>1 DEF InOrder
        <4> QED BY <1>5, <2>2, <4>1, <4>2, <4>3
      <3>2. wire'[j + 1] = r[1] /\ r[1].part = 1
        <4>1. /\ j + 1 \in 1..Len(wire) + Parts /\ ~(j + 1 <= Len(wire))
              /\ j + 1 - Len(wire) = 1
          BY <1>1, <1>5, <2>2
        <4>2. wire'[j + 1] = r[1]
          BY <1>4, <4>1
        <4>3. 1 \in 1..Parts
          BY <1>1
        <4> QED BY <1>2, <4>2, <4>3
      <3> QED BY <3>1, <3>2
    <2>3. CASE j > Len(wire)
      <3>1. PICK i \in 1..Parts : j = Len(wire) + i
        BY <1>1, <1>4, <1>5, <2>3
      <3>2. wire'[j] = r[i]
        BY <1>1, <1>4, <1>5, <3>1
      <3>3. i < Parts => wire'[j + 1] = r[i + 1] /\ i + 1 \in 1..Parts
        BY <1>1, <1>4, <1>5, <3>1
      <3> QED BY <1>1, <1>2, <1>4, <1>5, <3>1, <3>2, <3>3
    <2> QED BY <1>4, <1>5, <2>1, <2>2, <2>3
  <1>7. whole => BufferIs(wire', buffer)
    <2>1. CASE wire = <<>>
      <3>1. wire' # <<>> /\ Head(wire') = r[1] /\ r[1].part = 1
        BY <1>1, <1>2, <1>4, <2>1
      <3> QED BY <3>1 DEF BufferIs
    <2>2. CASE wire # <<>>
      <3>1. /\ Len(wire) > 0 /\ Head(wire') = wire'[1] /\ Head(wire) = wire[1]
            /\ wire'[1] = wire[1]
        BY <1>1, <1>4, <1>5, <2>2, EmptySeq
      <3> QED BY <2>2, <3>1 DEF BufferIs, HacienInv
    <2> QED BY <2>1, <2>2
  <1> QED BY <1>1, <1>4, <1>5, <1>6, <1>7

LEMMA PollKeepsAsking ==
    ASSUME HacienInv, Hacien!PollRequest
    PROVE  /\ pollnum' \in 0..10 /\ unasked' \in [Hacien!Kinds -> Nat]
           /\ \A k \in Hacien!Kinds : SinceAsked(k)'
  <1>1. /\ pollnum \in 0..10 /\ unasked \in [Hacien!Kinds -> Nat]
        /\ \A k \in Hacien!Kinds : SinceAsked(k) /\ Hacien!PollAt[k] \in {1, 3}
    BY DEF HacienInv, HacienTypes, Hacien!Kinds, Hacien!PollAt
  <1>2. pollnum' = (IF pollnum = 10 THEN 0 ELSE pollnum) + 1
    BY DEF Hacien!PollRequest, Hacien!NextPoll, Hacien!Cycle
  <1>3. unasked' = [k \in Hacien!Kinds |-> IF pollnum = Hacien!PollAt[k] THEN 0
                                  ELSE IF unasked[k] > 10 THEN unasked[k] ELSE unasked[k] + 1]
    BY DEF Hacien!PollRequest, Hacien!Asked, Hacien!Cycle
  <1>4. unasked' \in [Hacien!Kinds -> Nat]
    BY <1>1, <1>3
  <1>5. ASSUME NEW k \in Hacien!Kinds PROVE SinceAsked(k)'
    <2>1. unasked'[k] = IF pollnum = Hacien!PollAt[k] THEN 0
                        ELSE IF unasked[k] > 10 THEN unasked[k] ELSE unasked[k] + 1
      BY <1>3
    <2> QED BY <1>1, <1>2, <1>4, <2>1 DEF SinceAsked
  <1> QED BY <1>1, <1>2, <1>4, <1>5

(* The head of the wire goes, received or not.                             *)
LEMMA HeadGoes ==
    ASSUME HacienInv, wire # <<>>, wire' = Tail(wire)
    PROVE  /\ wire' \in Seq(WireParts) /\ InOrder(wire')
           /\ Head(wire) \in WireParts
           /\ Head(wire).part = Parts => wire' = <<>> \/ Head(wire').part = 1
           /\ Head(wire).part < Parts =>
                /\ wire' # <<>>
                /\ Head(wire') = [reply |-> Head(wire).reply, part |-> Head(wire).part + 1,
                                  kind |-> Head(wire).kind]
  <1>1. wire \in Seq(WireParts) /\ InOrder(wire) /\ wire' = Tail(wire)
    BY DEF HacienInv, HacienTypes
  <1>2. /\ wire' \in Seq(WireParts) /\ Len(wire') = Len(wire) - 1
        /\ \A i \in 1..Len(wire') : wire'[i] = wire[i + 1]
        /\ Head(wire) \in WireParts /\ Head(wire) = wire[1]
    BY <1>1, HeadTailProperties
  <1>3. Len(wire) \in Nat /\ Len(wire) > 0 /\ Len(wire') \in Nat
    BY <1>1, <1>2, LenProperties, EmptySeq
  <1>4. InOrder(wire')
    BY <1>1, <1>2, <1>3 DEF InOrder
  <1>5. wire' # <<>> <=> Len(wire) > 1
    BY <1>2, <1>3, EmptySeq, SMTT(30)
  <1>6. wire' # <<>> => Head(wire') = wire[2]
    BY <1>2, <1>3, <1>5
  <1>7. /\ wire[1].part < Parts =>
              /\ 1 < Len(wire)
              /\ wire[1 + 1] = [reply |-> wire[1].reply, part |-> wire[1].part + 1,
                               kind |-> wire[1].kind]
        /\ wire[1].part = Parts /\ 1 < Len(wire) => wire[1 + 1].part = 1
    BY <1>1, <1>3 DEF InOrder
  <1> QED BY <1>2, <1>4, <1>5, <1>6, <1>7

(* What a notification adds to the buffer when its reply is whole so far.  *)
LEMMA WholeIsBuffered ==
    ASSUME HacienInv, wire # <<>>, NEW shape \in Shapes \cup {"plain"}, shape # "single",
           shape # "like_new", Head(wire).part = 1 \/ whole
    PROVE  LET b == Hacien!Buffered(Hacien!Notification(Head(wire), shape))
           IN /\ Len(b) = Head(wire).part
              /\ \A i \in 1..Len(b) : /\ b[i].part = i /\ b[i].reply = Head(wire).reply
                                      /\ b[i].kind = Head(wire).kind
  <1> DEFINE h == Head(wire)
             n == Hacien!Notification(h, shape)
  <1>1. h \in WireParts /\ wire \in Seq(WireParts) /\ buffer \in Seq(Received)
    BY HeadTailProperties DEF HacienInv, HacienTypes
  <1>2. /\ n \in Received /\ n.part = h.part /\ n.reply = h.reply /\ n.kind = h.kind
        /\ n.shape = shape
    BY <1>1 DEF Hacien!Notification, WireParts, Received
  <1>3. whole => BufferIs(wire, buffer)
    BY DEF HacienInv
  <1>4. /\ h = Head(wire) /\ (h.part = 1 \/ whole)
        /\ n = Hacien!Notification(Head(wire), shape)
    OBVIOUS
  <1> HIDE DEF h, n
  <1>5. CASE h.part = 1
    <2>1. Hacien!Buffered(n) = <<n>>
      BY <1>2, <1>5 DEF Hacien!Buffered, Hacien!IsNew
    <2>2. Len(<<n>>) = 1 /\ <<n>>[1] = n
      OBVIOUS
    <2> DEFINE b == <<n>>
    <2>3. /\ Len(b) = h.part
          /\ \A i \in 1..h.part : b[i].part = i /\ b[i].reply = h.reply /\ b[i].kind = h.kind
      BY <1>2, <1>5, <2>2
    <2> HIDE DEF b
    <2>4. Hacien!Buffered(Hacien!Notification(Head(wire), shape)) = b
      BY <1>4, <2>1 DEF b
    <2> QED BY <1>4, <2>3, <2>4
  <1>6. CASE h.part # 1
    <2>1. Hacien!Buffered(n) = Append(buffer, n)
      BY <1>2, <1>6 DEF Hacien!Buffered, Hacien!IsNew
    <2>2. /\ Len(buffer) = h.part - 1
          /\ \A i \in 1..Len(buffer) :
                buffer[i].part = i /\ buffer[i].reply = h.reply /\ buffer[i].kind = h.kind
      BY <1>3, <1>4, <1>6 DEF BufferIs
    <2>3. /\ Len(Append(buffer, n)) = Len(buffer) + 1
          /\ \A i \in 1..Len(buffer) : Append(buffer, n)[i] = buffer[i]
          /\ Append(buffer, n)[Len(buffer) + 1] = n
      BY <1>1, <1>2, AppendProperties
    <2>4. h.part \in Nat /\ Len(buffer) + 1 = h.part
      BY <1>1, <2>2 DEF WireParts
    <2> DEFINE b == Append(buffer, n)
    <2>5. Len(b) = h.part /\ Len(buffer) \in Nat
      BY <1>1, <2>3, <2>4, LenProperties
    <2>6. ASSUME NEW i \in 1..h.part
          PROVE  b[i].part = i /\ b[i].reply = h.reply /\ b[i].kind = h.kind
      <3>1. CASE i \in 1..Len(buffer)
        BY <2>2, <2>3, <3>1
      <3>2. CASE i = Len(buffer) + 1
        BY <1>2, <2>3, <2>4, <3>2
      <3> QED BY <2>4, <2>5, <3>1, <3>2
    <2> HIDE DEF b
    <2>7. Hacien!Buffered(Hacien!Notification(Head(wire), shape)) = b
      BY <1>4, <2>1 DEF b
    <2> QED BY <1>4, <2>5, <2>6, <2>7
  <1> QED BY <1>5, <1>6

(* The last part of a whole reply makes its message valid.                 *)
LEMMA LastPartShows ==
    ASSUME HacienInv, Hacien!Notify, whole', Head(wire).part = Parts
    PROVE  shown'[Head(wire).kind] = Head(wire).reply
  <1>1. PICK shape \in Shapes \cup {"plain"} :
            /\ Hacien!NotificationUpdate(Hacien!Notification(Head(wire), shape))
            /\ shape \in {"plain", "zeros"}
            /\ Head(wire).part = 1 \/ whole
    BY DEF Hacien!Notify
  <1> DEFINE b == Hacien!Buffered(Hacien!Notification(Head(wire), shape))
  <1>2. wire # <<>> /\ wire \in Seq(WireParts) /\ Head(wire) \in WireParts
    BY HeadTailProperties DEF Hacien!Notify, HacienInv, HacienTypes
  <1>3. /\ Len(b) = Parts
        /\ \A i \in 1..Parts : /\ b[i].part = i /\ b[i].reply = Head(wire).reply
                               /\ b[i].kind = Head(wire).kind
    BY <1>1, <1>2, WholeIsBuffered
  <1>4. Hacien!Notification(Head(wire), shape).shape = shape
    BY DEF Hacien!Notification
  <1>5. IF Hacien!Valid(b) THEN Hacien!HandleMessage(b) ELSE UNCHANGED shown
    BY <1>1, <1>4 DEF Hacien!NotificationUpdate
  <1> HIDE DEF b
  <1>6. Parts \in Nat /\ 1 \in 1..Parts
    BY HacienAssumption
  <1>7. Hacien!Valid(b)
    BY <1>3, <1>6 DEF Hacien!Valid, Hacien!IsReply
  <1>8. shown' = [shown EXCEPT ![Head(wire).kind] = Head(wire).reply]
    BY <1>3, <1>5, <1>6, <1>7 DEF Hacien!HandleMessage
  <1> QED BY <1>2, <1>8 DEF HacienInv, HacienTypes, WireParts

LEMMA NotifyKeepsHacien ==
    ASSUME HacienInv, Hacien!Notify
    PROVE  HacienInv'
  <1>1. PICK shape \in Shapes \cup {"plain"} :
            /\ Hacien!NotificationUpdate(Hacien!Notification(Head(wire), shape))
            /\ whole' = ((Head(wire).part = 1 \/ whole) /\ shape \in {"plain", "zeros"})
    BY DEF Hacien!Notify
  <1> DEFINE n == Hacien!Notification(Head(wire), shape)
             b == Hacien!Buffered(n)
  <1>2. /\ wire # <<>> /\ wire' = Tail(wire) /\ pollnum' = pollnum /\ replied' = replied
        /\ unasked' = unasked
    BY DEF Hacien!Notify
  <1>3. /\ wire' \in Seq(WireParts) /\ InOrder(wire') /\ Head(wire) \in WireParts
        /\ Head(wire).part = Parts => wire' = <<>> \/ Head(wire').part = 1
        /\ Head(wire).part < Parts =>
             /\ wire' # <<>>
             /\ Head(wire') = [reply |-> Head(wire).reply, part |-> Head(wire).part + 1,
                               kind |-> Head(wire).kind]
    BY <1>2, HeadGoes
  <1>4. n \in Received /\ n.shape = shape
    BY <1>3 DEF Hacien!Notification, WireParts, Received
  <1>5. HacienTypes
    BY DEF HacienInv
  <1>6. b \in Seq(Received) /\ b # <<>>
    <2>1. <<n>> \in Seq(Received) /\ <<n>> # <<>>
      BY <1>4
    <2>2. Append(buffer, n) \in Seq(Received) /\ Append(buffer, n) # <<>>
      BY <1>4, <1>5, AppendProperties DEF HacienTypes
    <2> QED BY <2>1, <2>2 DEF Hacien!Buffered
  <1>7. IF shape = "single" THEN UNCHANGED <<buffer, shown>>
        ELSE /\ buffer' = b
             /\ IF Hacien!Valid(b) THEN Hacien!HandleMessage(b) ELSE UNCHANGED shown
    BY <1>1, <1>4 DEF Hacien!NotificationUpdate
  <1>8. buffer' \in Seq(Received) /\ shown' \in [Hacien!Kinds -> 0..MaxReplies]
    <2>1. b[1] \in Received
      BY <1>6, EmptySeq, ElementOfSeq
    <2> HIDE DEF b
    <2>2. b[1].kind \in Hacien!Kinds /\ b[1].reply \in 0..MaxReplies
      BY <2>1, HacienAssumption DEF Received
    <2>3. shown' = shown \/ shown' = [shown EXCEPT ![b[1].kind] = b[1].reply]
      BY <1>7 DEF Hacien!HandleMessage
    <2>4. shown' \in [Hacien!Kinds -> 0..MaxReplies]
      BY <1>5, <2>2, <2>3 DEF HacienTypes
    <2> QED BY <1>5, <1>6, <1>7, <2>4 DEF HacienTypes
  <1>9. HacienTypes'
    BY <1>2, <1>3, <1>5, <1>8 DEF HacienTypes
  <1>10. ASSUME whole' PROVE BufferIs(wire', buffer')
    <2>1. shape \in {"plain", "zeros"} /\ (Head(wire).part = 1 \/ whole)
      BY <1>1, <1>10
    <2>2. /\ Len(b) = Head(wire).part
          /\ \A i \in 1..Len(b) : /\ b[i].part = i /\ b[i].reply = Head(wire).reply
                                  /\ b[i].kind = Head(wire).kind
      BY <1>2, <2>1, WholeIsBuffered
    <2>3. buffer' = b
      BY <1>7, <2>1
    <2> HIDE DEF b
    <2>4. Head(wire).part \in 1..Parts /\ Parts \in Nat
      BY <1>3, HacienAssumption DEF WireParts
    <2> QED BY <1>3, <2>2, <2>3, <2>4 DEF BufferIs
  <1>11. \A k \in Hacien!Kinds : SinceAsked(k)'
    BY <1>2 DEF HacienInv, SinceAsked
  <1>12. unasked' \in [Hacien!Kinds -> Nat]
    BY <1>2 DEF HacienInv
  <1> QED BY <1>3, <1>9, <1>10, <1>11, <1>12 DEF HacienInv

LEMMA NextHacien == HacienInv /\ [Hacien!Next]_hacien => HacienInv'
  <1> SUFFICES ASSUME HacienInv, [Hacien!Next]_hacien PROVE HacienInv'
    OBVIOUS
  <1>1. CASE Hacien!PollRequest
    <2>1. /\ pollnum' \in 0..10 /\ unasked' \in [Hacien!Kinds -> Nat]
          /\ \A k \in Hacien!Kinds : SinceAsked(k)'
      BY <1>1, PollKeepsAsking
    <2>2. buffer' = buffer /\ shown' = shown /\ whole' = whole
      BY <1>1 DEF Hacien!PollRequest
    <2>3. \/ wire' = wire /\ replied' = replied
          \/ /\ replied < MaxReplies /\ replied' = replied + 1
             /\ \E k \in Hacien!Kinds : wire' = wire \o Hacien!Reply(k)
      BY <1>1 DEF Hacien!PollRequest
    <2>4. replied' \in 0..MaxReplies
      BY <2>3, HacienAssumption DEF HacienInv, HacienTypes
    <2>5. wire' \in Seq(WireParts) /\ InOrder(wire') /\ (whole => BufferIs(wire', buffer))
      BY <2>3, ReplyIsSent DEF HacienInv, HacienTypes
    <2> QED BY <2>1, <2>2, <2>4, <2>5 DEF HacienInv, HacienTypes
  <1>2. CASE Hacien!Notify
    BY <1>2, NotifyKeepsHacien
  <1>3. CASE Hacien!Lose
    <2>1. /\ wire # <<>> /\ wire' = Tail(wire) /\ ~whole'
          /\ UNCHANGED <<pollnum, buffer, shown, replied, unasked>>
      BY <1>3 DEF Hacien!Lose
    <2> QED BY <2>1, HeadGoes DEF HacienInv, HacienTypes, SinceAsked
  <1>4. CASE UNCHANGED hacien
    BY <1>4 DEF hacien, HacienInv, HacienTypes, SinceAsked, InOrder, BufferIs
  <1> QED BY <1>1, <1>2, <1>3, <1>4 DEF Hacien!Next

(* Nothing else than a notification takes the head of the wire and leaves  *)
(* its reply whole.                                                        *)
LEMMA WholeIsShown ==
    ASSUME HacienInv, Hacien!Next, wire # <<>>, wire' = Tail(wire),
           Head(wire).part = Parts, whole'
    PROVE  shown'[Head(wire).kind] = Head(wire).reply
  <1>1. wire \in Seq(WireParts) /\ Len(Tail(wire)) = Len(wire) - 1 /\ Len(wire) \in Nat
    BY HeadTailProperties, LenProperties DEF HacienInv, HacienTypes
  <1>2. ~Hacien!PollRequest
    <2> SUFFICES ASSUME Hacien!PollRequest PROVE FALSE
      OBVIOUS
    <2>1. \/ wire' = wire
          \/ replied < MaxReplies /\ \E k \in Hacien!Kinds : wire' = wire \o Hacien!Reply(k)
      BY DEF Hacien!PollRequest
    <2>2. wire' = wire \/ Len(wire') > Len(wire)
      BY <2>1, ReplyIsSent
    <2>3. Len(wire') = Len(wire) - 1
      BY <1>1
    <2>4. CASE wire' = wire
      <3>1. Len(wire') = Len(wire)
        BY <2>4
      <3> QED BY <1>1, <2>3, <3>1
    <2>5. CASE Len(wire') > Len(wire)
      BY <1>1, <2>3, <2>5
    <2> QED BY <2>2, <2>4, <2>5
  <1>3. ~Hacien!Lose
    BY DEF Hacien!Lose
  <1> QED BY <1>2, <1>3, LastPartShows DEF Hacien!Next

LEMMA HacienImplies == HacienInv => Hacien!TypeOK
  <1> SUFFICES ASSUME HacienInv PROVE Hacien!TypeOK
    OBVIOUS
  <1>1. ASSUME NEW k \in Hacien!Kinds PROVE unasked[k] \in 0..10
    <2>1. Hacien!PollAt[k] \in {1, 3} /\ SinceAsked(k) /\ pollnum \in 0..10
      BY DEF HacienInv, HacienTypes, Hacien!Kinds, Hacien!PollAt
    <2> QED BY <2>1 DEF SinceAsked
  <1>2. unasked \in [Hacien!Kinds -> 0..10]
    BY <1>1 DEF HacienInv
  <1>3. \A k \in DOMAIN buffer : buffer[k].part \in 1..Parts
    <2>1. \A k \in DOMAIN buffer : buffer[k] \in Received
      BY DEF HacienInv, HacienTypes
    <2> QED BY <2>1 DEF Received
  <1> QED BY <1>2, <1>3 DEF HacienInv, HacienTypes, Hacien!TypeOK, Hacien!Cycle

-----------------------------------------------------------------------------
(* The estimate of the capacity, as its filter has it; and the polls since *)
(* a register was asked for, by the place in the round.                    *)
Estimates ==
    [val : 0..EstimateMax, rejected : 0..MaxConsecutiveRejects,
     rejected_val : Int \cup {None}]

FirstAsked == [VoltageCurrentSOC |-> 3, CellVoltage |-> 5, Temperature |-> 7]

QuietSince(r) ==
    IF loopR >= FirstAsked[r] THEN quiet[r] <= loopR - FirstAsked[r]
    ELSE quiet[r] <= loopR + 14 - FirstAsked[r]

RenogyInv ==
    /\ loopR \in 0..15
    /\ quiet \in [Renogy!Registers -> Nat]
    /\ \A r \in Renogy!Registers : QuietSince(r)
    /\ exp_capacity \in Estimates
    /\ voltage \in Voltages \cup {0}
    /\ max_capacity \in {0, Capacity}
    /\ volt_change_count \in 0..ResyncAfter - 1
    /\ rest \in BOOLEAN

LEMMA RegistersAre ==
    /\ Renogy!Registers = {"VoltageCurrentSOC", "CellVoltage", "Temperature"}
    /\ \A r \in Renogy!Registers :
          FirstAsked[r] \in {3, 5, 7} /\ FirstAsked[r] \in Renogy!AskedAt[r]
  BY DEF Renogy!Registers, Renogy!AskedAt, FirstAsked

LEMMA InitRenogy == Renogy!Init => RenogyInv
  <1> SUFFICES ASSUME Renogy!Init PROVE RenogyInv
    OBVIOUS
  <1>1. /\ loopR = 0 /\ quiet = [r \in Renogy!Registers |-> 0] /\ voltage = 0
        /\ max_capacity = 0 /\ volt_change_count = 0
        /\ exp_capacity = [val |-> 0, rejected |-> 0, rejected_val |-> None]
    BY DEF Renogy!Init, Renogy!Filter!Settled
  <1>2. exp_capacity \in Estimates
    BY <1>1, RenogyAssumption, FilterAssumption DEF Estimates
  <1>3. \A r \in Renogy!Registers : QuietSince(r)
    BY <1>1, RegistersAre DEF QuietSince
  <1>4. rest \in BOOLEAN
    BY DEF Renogy!Init
  <1> QED BY <1>1, <1>2, <1>3, <1>4, RenogyAssumption DEF RenogyInv

LEMMA PollKeepsRenogy ==
    ASSUME RenogyInv, Renogy!PollRequest
    PROVE  RenogyInv'
  <1>1. /\ loopR \in 0..15 /\ quiet \in [Renogy!Registers -> Nat]
        /\ \A r \in Renogy!Registers : QuietSince(r)
    BY DEF RenogyInv
  <1>2. /\ loopR' = IF loopR + 1 = 16 THEN 2 ELSE loopR + 1
        /\ quiet' = [r \in Renogy!Registers |->
                        IF loopR + 1 \in Renogy!AskedAt[r] THEN 0
                        ELSE IF quiet[r] > 14 THEN quiet[r] ELSE quiet[r] + 1]
        /\ UNCHANGED <<exp_capacity, voltage, max_capacity, volt_change_count, rest>>
    BY DEF Renogy!PollRequest, Renogy!RoundEnds, Renogy!Round, Renogy!capacity
  <1>3. loopR' \in 0..15 /\ quiet' \in [Renogy!Registers -> Nat]
    BY <1>1, <1>2
  <1>4. ASSUME NEW r \in Renogy!Registers PROVE QuietSince(r)'
    <2>1. FirstAsked[r] \in {3, 5, 7} /\ FirstAsked[r] \in Renogy!AskedAt[r]
      BY RegistersAre
    <2>2. quiet'[r] = IF loopR + 1 \in Renogy!AskedAt[r] THEN 0
                      ELSE IF quiet[r] > 14 THEN quiet[r] ELSE quiet[r] + 1
      BY <1>2
    <2>3. QuietSince(r) /\ quiet[r] \in Nat
      BY <1>1
    <2>4. CASE loopR + 1 \in Renogy!AskedAt[r]
      BY <1>1, <1>2, <2>1, <2>2, <2>4 DEF QuietSince
    <2>5. CASE loopR + 1 \notin Renogy!AskedAt[r]
      <3>1. loopR + 1 # FirstAsked[r]
        BY <2>1, <2>5
      <3>2. quiet'[r] <= quiet[r] + 1
        BY <2>2, <2>3, <2>5
      <3> QED BY <1>1, <1>2, <1>3, <2>1, <2>3, <3>1, <3>2 DEF QuietSince
    <2> QED BY <2>4, <2>5
  <1> QED BY <1>2, <1>3, <1>4 DEF RenogyInv

(* validate keeps the estimate within its limits, and counts its refusals. *)
LEMMA EstimateIsValid ==
    ASSUME NEW e \in Estimates, NEW v \in Int
    PROVE  Renogy!Filter!Validate(e, v) \in Estimates
  <1>1. /\ e.val \in 0..EstimateMax /\ e.rejected \in 0..MaxConsecutiveRejects
        /\ EstimateMax \in Nat /\ MaxConsecutiveRejects \in Nat
    BY RenogyAssumption, FilterAssumption DEF Estimates
  <1>2. ASSUME v \in 0..EstimateMax PROVE Renogy!Filter!Settled(v) \in Estimates
    BY <1>1, <1>2 DEF Renogy!Filter!Settled, Estimates
  <1>3. ASSUME Renogy!Filter!Rejections(e, v) <= MaxConsecutiveRejects
        PROVE  Renogy!Filter!Refused(e, v) \in Estimates
    <2>1. Renogy!Filter!Rejections(e, v) \in 1..MaxConsecutiveRejects
      BY <1>1, <1>3 DEF Renogy!Filter!Rejections
    <2> QED BY <1>1, <2>1 DEF Renogy!Filter!Refused, Estimates
  <1>4. Renogy!Filter!InBounds(v) <=> v \in 0..EstimateMax
    BY <1>1 DEF Renogy!Filter!InBounds
  <1> QED BY <1>1, <1>2, <1>3, <1>4 DEF Renogy!Filter!Validate

LEMMA PercentIsANumber ==
    ASSUME NEW v \in Nat, NEW prev
    PROVE  Renogy!Percent(v, prev) \in Int
  <1>1. Renogy!PercentAt(v) \in Int
    BY DEF Renogy!PercentAt
  <1> QED BY <1>1 DEF Renogy!Percent

LEMMA ResyncKeepsTypes ==
    ASSUME RenogyInv, NEW e \in Estimates, NEW calm \in BOOLEAN, Renogy!Resync(e, calm),
           voltage' \in Voltages \cup {0}
    PROVE  exp_capacity' \in Estimates /\ volt_change_count' \in 0..ResyncAfter - 1
  <1> DEFINE new == (Capacity * Renogy!Percent(voltage', e.val)) \div 100
             due == e.val = 0 \/ (calm /\ volt_change_count + 1 >= ResyncAfter)
  <1>1. new \in Int
    <2>1. Renogy!Percent(voltage', e.val) \in Int
      BY PercentIsANumber, RenogyAssumption
    <2>2. Capacity * Renogy!Percent(voltage', e.val) \in Int
      BY <2>1, RenogyAssumption
    <2> QED BY <2>2
  <1>2. exp_capacity' = IF due /\ Renogy!OutOfSync(e.val, new)
                        THEN Renogy!Filter!Validate(e, new) ELSE e
    BY DEF Renogy!Resync
  <1>3. volt_change_count' =
            IF e.val = 0 THEN volt_change_count
            ELSE IF ~calm THEN IF volt_change_count > 0 THEN volt_change_count - 1 ELSE 0
            ELSE IF due THEN 0 ELSE volt_change_count + 1
    BY DEF Renogy!Resync
  <1>4. volt_change_count' \in 0..ResyncAfter - 1
    BY <1>3, RenogyAssumption DEF RenogyInv
  <1> HIDE DEF new, due
  <1> QED BY <1>1, <1>2, <1>4, EstimateIsValid

LEMMA ReplyKeepsRenogy ==
    ASSUME RenogyInv, NEW m \in {0, Capacity}, NEW charge \in {-1, 0, 1},
           NEW calm \in BOOLEAN, NEW v \in Voltages \cup {0},
           Renogy!UpdateVoltageCurrentSOC(m, charge, calm, v), rest' \in BOOLEAN
    PROVE  RenogyInv'
  <1>1. max_capacity' = m /\ loopR' = loopR /\ quiet' = quiet
    BY DEF Renogy!UpdateVoltageCurrentSOC, Renogy!polls
  <1>2. /\ voltage' \in Voltages \cup {0} /\ exp_capacity' \in Estimates
        /\ volt_change_count' \in 0..ResyncAfter - 1
    <2>1. CASE m = 0
      BY <2>1 DEF Renogy!UpdateVoltageCurrentSOC, RenogyInv
    <2>2. CASE m # 0
      <3> DEFINE added == IF voltage = 0 THEN 0 ELSE charge
                 e == Renogy!Filter!Validate(exp_capacity, exp_capacity.val + added)
      <3>1. voltage' = v /\ Renogy!Resync(e, calm)
        BY <2>2 DEF Renogy!UpdateVoltageCurrentSOC
      <3>2. exp_capacity.val + added \in Int /\ exp_capacity \in Estimates
        BY RenogyAssumption DEF RenogyInv, Estimates
      <3>3. e \in Estimates
        BY <3>2, EstimateIsValid
      <3> HIDE DEF e
      <3> QED BY <3>1, <3>3, ResyncKeepsTypes
    <2> QED BY <2>1, <2>2
  <1>3. \A r \in Renogy!Registers : QuietSince(r)'
    BY <1>1 DEF RenogyInv, QuietSince
  <1> QED BY <1>1, <1>2, <1>3 DEF RenogyInv

LEMMA NextRenogy == RenogyInv /\ [Renogy!Next]_renogy => RenogyInv'
  <1> SUFFICES ASSUME RenogyInv, [Renogy!Next]_renogy PROVE RenogyInv'
    OBVIOUS
  <1>1. CASE Renogy!PollRequest
    BY <1>1, PollKeepsRenogy
  <1>2. CASE Renogy!ReplyInUse
    <2>1. PICK m \in {0, Capacity}, charge \in {-1, 0, 1}, calm \in BOOLEAN, v \in Voltages :
            Renogy!UpdateVoltageCurrentSOC(m, charge, calm, v)
      BY <1>2 DEF Renogy!ReplyInUse
    <2>2. rest' = rest
      BY <2>1 DEF Renogy!UpdateVoltageCurrentSOC
    <2>3. rest' \in BOOLEAN
      BY <2>2, Zenon DEF RenogyInv
    <2> QED BY <2>1, <2>3, ReplyKeepsRenogy
  <1>3. CASE Renogy!ReplyAtRest
    <2>1. Renogy!UpdateVoltageCurrentSOC(Capacity, 0, TRUE, voltage)
      BY <1>3 DEF Renogy!ReplyAtRest
    <2>2. rest' = rest
      BY <2>1 DEF Renogy!UpdateVoltageCurrentSOC
    <2>3. rest' \in BOOLEAN /\ voltage \in Voltages \cup {0}
      BY <2>2, Zenon DEF RenogyInv
    <2> QED BY <2>1, <2>3, ReplyKeepsRenogy
  <1>4. CASE Renogy!ComesToRest
    <2>1. rest' = TRUE /\ UNCHANGED <<loopR, quiet>>
          /\ UNCHANGED <<exp_capacity, voltage, max_capacity, volt_change_count>>
      BY <1>4 DEF Renogy!ComesToRest, Renogy!polls, Renogy!capacity
    <2> QED BY <2>1 DEF RenogyInv, QuietSince
  <1>5. CASE UNCHANGED renogy
    <2>1. /\ UNCHANGED <<loopR, quiet>>
          /\ UNCHANGED <<exp_capacity, voltage, max_capacity, volt_change_count>>
      BY <1>5 DEF renogy
    <2>2. rest' = rest
      BY <1>5, Zenon DEF renogy
    <2>3. rest' \in BOOLEAN
      BY <2>2, Zenon DEF RenogyInv
    <2> QED BY <2>1, <2>3 DEF RenogyInv, QuietSince
  <1> QED BY <1>1, <1>2, <1>3, <1>4, <1>5 DEF Renogy!Next

LEMMA RenogyImplies == RenogyInv => Renogy!TypeOK
  <1> SUFFICES ASSUME RenogyInv PROVE Renogy!TypeOK
    OBVIOUS
  <1>1. ASSUME NEW r \in Renogy!Registers PROVE quiet[r] \in 0..14
    <2>1. /\ FirstAsked[r] \in {3, 5, 7} /\ QuietSince(r) /\ loopR \in 0..15
          /\ quiet[r] \in Nat
      BY RegistersAre DEF RenogyInv
    <2> QED BY <2>1 DEF QuietSince
  <1>2. quiet \in [Renogy!Registers -> 0..14]
    BY <1>1 DEF RenogyInv
  <1>3. /\ exp_capacity.val \in 0..EstimateMax
        /\ exp_capacity.rejected \in 0..MaxConsecutiveRejects
    BY DEF RenogyInv, Estimates
  <1> QED BY <1>2, <1>3 DEF RenogyInv, Renogy!TypeOK, Renogy!Round

-----------------------------------------------------------------------------
(* What is on its way to a regulator, and from it.                         *)
Writing == {SolarLink!WriteOf(v) : v \in {0, 1}}

Asking == [function : {3}, group : Nat] \cup Writing

Answering == [function : {3}, group : Nat, switch : {0, 1}] \cup Writing

SolarLinkInv ==
    /\ SolarLink!TypeOK
    /\ requests \in Seq(Asking) /\ replies \in Seq(Answering)

LEMMA WritingIs ==
    ASSUME NEW r \in Writing
    PROVE  r.function = 6 /\ r.value \in {0, 1}
  BY DEF Writing, SolarLink!WriteOf, SolarLink!WRITE

LEMMA InitSolarLink == SolarLink!Init => SolarLinkInv
  <1> SUFFICES ASSUME SolarLink!Init PROVE SolarLinkInv
    OBVIOUS
  <1>1. /\ loopS = 0 /\ requests = <<>> /\ replies = <<>> /\ switch \in {0, 1}
        /\ switchS = 0 /\ changesS = 0 /\ lossesS = 0
    BY DEF SolarLink!Init
  <1> QED BY <1>1, SwitchesAssumption DEF SolarLinkInv, SolarLink!TypeOK, SolarLink!InFlight

LEMMA PollKeepsSolarLink ==
    ASSUME SolarLinkInv, SolarLink!PollRequest
    PROVE  SolarLinkInv'
  <1>1. /\ requests \in Seq(Asking) /\ replies \in Seq(Answering) /\ loopS \in Nat
        /\ Len(requests) \in Nat /\ Len(replies) \in Nat /\ MaxRequests \in Nat
    BY LenProperties, SwitchesAssumption DEF SolarLinkInv, SolarLink!TypeOK
  <1>2. /\ Len(requests) + Len(replies) < MaxRequests /\ loopS' \in Nat
        /\ UNCHANGED <<replies, switch, switchS, changesS, lossesS>>
    BY <1>1 DEF SolarLink!PollRequest, SolarLink!InFlight, SolarLink!RoundEnds
  <1>3. \/ requests' = requests
        \/ \E g \in Nat : requests' = Append(requests, SolarLink!ReadOf(g))
    BY DEF SolarLink!PollRequest, SolarLink!PollTable, SolarLink!BatteryParamInfo,
           SolarLink!SolarPanelInfo, SolarLink!SolarPanelAndBatteryState
  <1>4. \A g \in Nat : SolarLink!ReadOf(g) \in Asking
    BY DEF SolarLink!ReadOf, SolarLink!READ, Asking
  <1>5. requests' \in Seq(Asking) /\ Len(requests') \in {Len(requests), Len(requests) + 1}
    BY <1>1, <1>3, <1>4, AppendProperties
  <1> QED BY <1>1, <1>2, <1>5 DEF SolarLinkInv, SolarLink!TypeOK, SolarLink!InFlight

LEMMA CommandKeepsSolarLink ==
    ASSUME SolarLinkInv, NEW v \in {0, 1}, SolarLink!CmdRequest(v)
    PROVE  SolarLinkInv'
  <1> DEFINE c == <<SolarLink!WriteOf(v), SolarLink!ReadOf(SolarLink!SolarPanelInfo),
                    SolarLink!ReadOf(SolarLink!BatteryParamInfo)>>
  <1>1. /\ requests \in Seq(Asking) /\ Len(requests) \in Nat
        /\ replies \in Seq(Answering) /\ Len(replies) \in Nat /\ changesS \in Nat
        /\ {MaxRequests, MaxChanges} \subseteq Nat
    BY LenProperties, SwitchesAssumption DEF SolarLinkInv, SolarLink!TypeOK
  <1>2. c \in Seq(Asking) /\ Len(c) = 3
    BY DEF SolarLink!WriteOf, SolarLink!ReadOf, SolarLink!READ, SolarLink!SolarPanelInfo,
           SolarLink!BatteryParamInfo, Asking, Writing
  <1>3. /\ requests' = requests \o c /\ Len(requests) + Len(replies) + 3 <= MaxRequests
        /\ changesS < MaxChanges /\ changesS' = changesS + 1
        /\ UNCHANGED <<loopS, replies, switch, switchS, lossesS>>
    BY DEF SolarLink!CmdRequest, SolarLink!InFlight
  <1> HIDE DEF c
  <1>4. requests' \in Seq(Asking) /\ Len(requests') = Len(requests) + 3
    <2>1. requests \o c \in Seq(Asking) /\ Len(requests \o c) = Len(requests) + Len(c)
      BY <1>1, <1>2, ConcatProperties, Zenon
    <2> QED BY <1>2, <1>3, <2>1, Zenon
  <1> QED BY <1>1, <1>3, <1>4 DEF SolarLinkInv, SolarLink!TypeOK, SolarLink!InFlight

LEMMA AnswerKeepsSolarLink ==
    ASSUME SolarLinkInv, SolarLink!Answer
    PROVE  SolarLinkInv'
  <1> DEFINE r == Head(requests)
             now == IF r.function = 6 THEN r.value ELSE switch
  <1>1. /\ requests # <<>> /\ requests' = Tail(requests) /\ switch' = now
        /\ replies' = Append(replies, SolarLink!AnswerTo(r, now))
        /\ UNCHANGED <<loopS, switchS, changesS, lossesS>>
    BY DEF SolarLink!Answer, SolarLink!WRITE
  <1>2. /\ requests \in Seq(Asking) /\ replies \in Seq(Answering) /\ switch \in {0, 1}
        /\ Len(replies) \in Nat /\ Len(requests) \in Nat
    BY LenProperties DEF SolarLinkInv, SolarLink!TypeOK
  <1>3. /\ r \in Asking /\ requests' \in Seq(Asking) /\ Len(requests') = Len(requests) - 1
    BY <1>1, <1>2, HeadTailProperties
  <1>4. now \in {0, 1} /\ SolarLink!AnswerTo(r, now) \in Answering
    <2>1. CASE r \in Writing
      BY <2>1, WritingIs DEF SolarLink!AnswerTo, SolarLink!WRITE, Answering
    <2>2. CASE r \in [function : {3}, group : Nat]
      BY <1>2, <2>2 DEF SolarLink!AnswerTo, SolarLink!WRITE, SolarLink!READ, Answering
    <2> QED BY <1>3, <2>1, <2>2 DEF Asking
  <1> HIDE DEF now
  <1>5. replies' \in Seq(Answering) /\ Len(replies') = Len(replies) + 1
    BY <1>1, <1>2, <1>4, AppendProperties
  <1> QED BY <1>1, <1>2, <1>3, <1>4, <1>5
          DEF SolarLinkInv, SolarLink!TypeOK, SolarLink!InFlight

LEMMA NotifyKeepsSolarLink ==
    ASSUME SolarLinkInv, SolarLink!Notify
    PROVE  SolarLinkInv'
  <1> DEFINE r == Head(replies)
  <1>1. /\ replies # <<>> /\ replies' = Tail(replies)
        /\ UNCHANGED <<loopS, requests, switch, changesS, lossesS>>
        /\ IF r.function = 3 /\ r.group = 8 THEN switchS' = r.switch ELSE UNCHANGED switchS
    BY DEF SolarLink!Notify, SolarLink!READ, SolarLink!SolarPanelInfo,
           SolarLink!UpdateSolarPanelInfo
  <1>2. /\ replies \in Seq(Answering) /\ Len(replies) \in Nat /\ Len(requests) \in Nat
        /\ requests \in Seq(Asking) /\ switchS \in {0, 1} /\ MaxRequests \in Nat
    BY LenProperties, SwitchesAssumption DEF SolarLinkInv, SolarLink!TypeOK
  <1>3. /\ r \in Answering /\ replies' \in Seq(Answering)
        /\ Len(replies') = Len(replies) - 1
    BY <1>1, <1>2, HeadTailProperties
  <1>4. switchS' \in {0, 1}
    BY <1>1, <1>2, <1>3, WritingIs DEF Answering
  <1> QED BY <1>1, <1>2, <1>3, <1>4 DEF SolarLinkInv, SolarLink!TypeOK, SolarLink!InFlight

LEMMA LossKeepsSolarLink ==
    ASSUME SolarLinkInv, SolarLink!Lose
    PROVE  SolarLinkInv'
  <1>1. /\ lossesS < MaxLosses /\ lossesS' = lossesS + 1
        /\ \/ requests # <<>> /\ requests' = Tail(requests) /\ replies' = replies
           \/ replies # <<>> /\ replies' = Tail(replies) /\ requests' = requests
        /\ UNCHANGED <<loopS, switch, switchS, changesS>>
    BY DEF SolarLink!Lose
  <1>2. /\ replies \in Seq(Answering) /\ Len(replies) \in Nat /\ Len(requests) \in Nat
        /\ requests \in Seq(Asking) /\ lossesS \in Nat
        /\ {MaxLosses, MaxRequests} \subseteq Nat
    BY LenProperties, SwitchesAssumption DEF SolarLinkInv, SolarLink!TypeOK
  <1>3. /\ replies' \in Seq(Answering) /\ requests' \in Seq(Asking)
        /\ Len(requests') + Len(replies') <= Len(requests) + Len(replies)
    <2>1. CASE requests # <<>> /\ requests' = Tail(requests) /\ replies' = replies
      <3>1. requests' \in Seq(Asking) /\ Len(requests') = Len(requests) - 1
        BY <1>2, <2>1, HeadTailProperties
      <3> QED BY <1>2, <2>1, <3>1
    <2>2. CASE replies # <<>> /\ replies' = Tail(replies) /\ requests' = requests
      <3>1. replies' \in Seq(Answering) /\ Len(replies') = Len(replies) - 1
        BY <1>2, <2>2, HeadTailProperties
      <3> QED BY <1>2, <2>2, <3>1
    <2> QED BY <1>1, <2>1, <2>2
  <1>4. Len(requests') \in Nat /\ Len(replies') \in Nat
    BY <1>3, LenProperties
  <1> QED BY <1>1, <1>2, <1>3, <1>4 DEF SolarLinkInv, SolarLink!TypeOK, SolarLink!InFlight

LEMMA NextSolarLink == SolarLinkInv /\ [SolarLink!Next]_solarlink => SolarLinkInv'
  <1> SUFFICES ASSUME SolarLinkInv, [SolarLink!Next]_solarlink PROVE SolarLinkInv'
    OBVIOUS
  <1>1. CASE SolarLink!PollRequest
    BY <1>1, PollKeepsSolarLink
  <1>2. ASSUME NEW v \in {0, 1}, SolarLink!CmdRequest(v) PROVE SolarLinkInv'
    BY <1>2, CommandKeepsSolarLink
  <1>3. CASE SolarLink!Answer
    BY <1>3, AnswerKeepsSolarLink
  <1>4. CASE SolarLink!SwitchedByHand
    <2>1. switch' = 1 - switch /\ changesS < MaxChanges /\ changesS' = changesS + 1
          /\ UNCHANGED <<loopS, requests, replies, switchS, lossesS>>
      BY <1>4 DEF SolarLink!SwitchedByHand
    <2>2. switch' \in {0, 1} /\ changesS' \in 0..MaxChanges
      BY <2>1, SwitchesAssumption DEF SolarLinkInv, SolarLink!TypeOK
    <2> QED BY <2>1, <2>2 DEF SolarLinkInv, SolarLink!TypeOK, SolarLink!InFlight
  <1>5. CASE SolarLink!Lose
    BY <1>5, LossKeepsSolarLink
  <1>6. CASE SolarLink!Notify
    BY <1>6, NotifyKeepsSolarLink
  <1>7. CASE UNCHANGED solarlink
    BY <1>7 DEF solarlink, SolarLinkInv, SolarLink!TypeOK, SolarLink!InFlight
  <1> QED BY <1>1, <1>2, <1>3, <1>4, <1>5, <1>6, <1>7 DEF SolarLink!Next

-----------------------------------------------------------------------------
(* Likewise to an inverter and from it.                                    *)
Ordered == {VEDirect!PollForData} \cup {VEDirect!PowerTo(v) : v \in BOOLEAN}

Told == [kind : {"state", "head", "tail"}, on : BOOLEAN]

VEDirectInv ==
    /\ VEDirect!TypeOK
    /\ writes \in Seq(Ordered) /\ air \in Seq(Told) /\ _char_buffer \in Seq(BOOLEAN)

LEMMA InitVEDirect == VEDirect!Init => VEDirectInv
  <1> SUFFICES ASSUME VEDirect!Init PROVE VEDirectInv
    OBVIOUS
  <1>1. loopV = 0 /\ _char_buffer = <<>> /\ writes = <<>> /\ air = <<>> /\ owed = {}
    BY DEF VEDirect!Init
  <1>2. {_is_initialized, switchV, on} \subseteq BOOLEAN
    BY DEF VEDirect!Init
  <1> QED BY <1>1, <1>2, SwitchesAssumption DEF VEDirectInv, VEDirect!TypeOK

LEMMA PollKeepsVEDirect ==
    ASSUME VEDirectInv, VEDirect!PollRequest
    PROVE  VEDirectInv'
  <1>1. /\ writes \in Seq(Ordered) /\ Len(writes) \in Nat /\ loopV \in 0..5
        /\ {_is_initialized, switchV, on} \subseteq BOOLEAN /\ MaxWrites \in Nat
    BY LenProperties, SwitchesAssumption DEF VEDirectInv, VEDirect!TypeOK
  <1>2. loopV' \in 0..5
    BY <1>1 DEF VEDirect!PollRequest, VEDirect!NextCount, VEDirect!Shakes
  <1>3. _is_initialized' \in BOOLEAN
    BY DEF VEDirect!PollRequest
  <1>4. PICK w \in {VEDirect!send_magic_packets, VEDirect!keep_alive, <<>>} :
            writes' = writes \o w
    BY DEF VEDirect!PollRequest
  <1>5. w \in Seq(Ordered) /\ Len(w) \in 0..2
    <2>1. VEDirect!PollForData \in Ordered
      BY DEF Ordered
    <2>2. CASE w = <<>>
      BY <2>2
    <2>3. CASE w = <<VEDirect!PollForData>>
      BY <2>1, <2>3
    <2>4. CASE w = <<VEDirect!PollForData, VEDirect!PollForData>>
      BY <2>1, <2>4
    <2> QED BY <2>2, <2>3, <2>4 DEF VEDirect!send_magic_packets, VEDirect!keep_alive
  <1>6. writes' \in Seq(Ordered) /\ Len(writes') = Len(writes) + Len(w)
    BY <1>1, <1>4, <1>5, ConcatProperties
  <1>7. Len(writes') <= MaxWrites
    BY <1>1, <1>5, <1>6, SMTT(30) DEF VEDirect!PollRequest
  <1>8. /\ UNCHANGED <<_char_buffer, air, owed, changesV, lossesV>>
        /\ switchV' = switchV /\ on' = on
    BY DEF VEDirect!PollRequest, VEDirect!inverter
  <1>9. {_is_initialized', switchV', on'} \subseteq BOOLEAN
    BY <1>1, <1>3, <1>8, Zenon
  <1> QED BY <1>2, <1>6, <1>7, <1>8, <1>9 DEF VEDirectInv, VEDirect!TypeOK

LEMMA CommandKeepsVEDirect ==
    ASSUME VEDirectInv, NEW v \in BOOLEAN, VEDirect!CmdRequest(v)
    PROVE  VEDirectInv'
  <1>1. /\ writes \in Seq(Ordered) /\ Len(writes) \in Nat /\ MaxWrites \in Nat
        /\ {_is_initialized, switchV, on} \subseteq BOOLEAN
    BY LenProperties, SwitchesAssumption DEF VEDirectInv, VEDirect!TypeOK
  <1>2. VEDirect!PowerTo(v) \in Ordered
    BY DEF Ordered
  <1>3. /\ writes' = Append(writes, VEDirect!PowerTo(v)) /\ Len(writes) < MaxWrites
        /\ UNCHANGED <<loopV, _char_buffer, air, owed>>
    BY DEF VEDirect!CmdRequest, VEDirect!inverter, VEDirect!plugin
  <1>4. writes' \in Seq(Ordered) /\ Len(writes') = Len(writes) + 1
    BY <1>1, <1>2, <1>3, AppendProperties
  <1>5. _is_initialized' = _is_initialized /\ switchV' = switchV /\ on' = on
    BY Zenon DEF VEDirect!CmdRequest, VEDirect!inverter, VEDirect!plugin
  <1>6. {_is_initialized', switchV', on'} \subseteq BOOLEAN
    BY <1>1, <1>5, Zenon
  <1> QED BY <1>1, <1>3, <1>4, <1>6 DEF VEDirectInv, VEDirect!TypeOK

(* The air after the inverter has said something more.                     *)
LEMMA MoreIsTold ==
    ASSUME VEDirectInv, NEW kind \in {"state", "head", "tail"}, NEW v \in BOOLEAN,
           Len(air) < MaxAir, air' = Append(air, VEDirect!Sent(kind, v))
    PROVE  air' \in Seq(Told) /\ Len(air') <= MaxAir
  <1>1. air \in Seq(Told) /\ Len(air) \in Nat /\ MaxAir \in Nat
    BY LenProperties, SwitchesAssumption DEF VEDirectInv
  <1>2. VEDirect!Sent(kind, v) \in Told
    BY DEF VEDirect!Sent, Told
  <1>3. air' \in Seq(Told) /\ Len(air') = Len(air) + 1
    BY <1>1, <1>2, AppendProperties
  <1> QED BY <1>1, <1>3

LEMMA TakeKeepsVEDirect ==
    ASSUME VEDirectInv, VEDirect!Take
    PROVE  VEDirectInv'
  <1> DEFINE w == Head(writes)
  <1>1. /\ writes # <<>> /\ writes' = Tail(writes) /\ Len(air) < MaxAir
        /\ UNCHANGED <<loopV, _char_buffer>>
    BY DEF VEDirect!Take, VEDirect!plugin
  <1>2. _is_initialized' = _is_initialized /\ switchV' = switchV
    BY Zenon DEF VEDirect!Take, VEDirect!plugin
  <1>3. /\ writes \in Seq(Ordered) /\ Len(writes) \in Nat /\ Len(writes) <= MaxWrites
        /\ air \in Seq(Told) /\ Len(air) <= MaxAir /\ MaxWrites \in Nat
        /\ {_is_initialized, switchV, on} \subseteq BOOLEAN
    BY LenProperties, SwitchesAssumption DEF VEDirectInv, VEDirect!TypeOK
  <1>4. w \in Ordered /\ writes' \in Seq(Ordered) /\ Len(writes') <= MaxWrites
    BY <1>1, <1>3, HeadTailProperties
  <1>5. /\ air' \in Seq(Told) /\ Len(air') <= MaxAir
        /\ owed' \subseteq {"state", "head", "tail"}
        /\ on' \in BOOLEAN
    <2>1. CASE w = VEDirect!PollForData
      <3>1. owed' = {"state", "head"} /\ air' = air
        BY <2>1 DEF VEDirect!Take
      <3>2. on' = on
        BY <2>1, Zenon DEF VEDirect!Take
      <3>3. on' \in BOOLEAN
        BY <1>3, <3>2, Zenon
      <3> QED BY <1>3, <3>1, <3>3
    <2>2. CASE w # VEDirect!PollForData
      <3>1. on' = w.on /\ air' = Append(air, VEDirect!Sent("state", w.on)) /\ owed' = owed
        BY <2>2 DEF VEDirect!Take
      <3>2. w.on \in BOOLEAN
        BY <1>4, <2>2 DEF Ordered, VEDirect!PowerTo
      <3>3. air' \in Seq(Told) /\ Len(air') <= MaxAir
        BY <1>1, <3>1, <3>2, MoreIsTold
      <3> QED BY <3>1, <3>2, <3>3 DEF VEDirectInv, VEDirect!TypeOK
    <2> QED BY <2>1, <2>2
  <1>6. {_is_initialized', switchV', on'} \subseteq BOOLEAN
    BY <1>2, <1>3, <1>5, Zenon
  <1> QED BY <1>1, <1>4, <1>5, <1>6 DEF VEDirectInv, VEDirect!TypeOK

LEMMA SendKeepsVEDirect ==
    ASSUME VEDirectInv, VEDirect!Send
    PROVE  VEDirectInv'
  <1>1. PICK kind \in owed :
            /\ air' = Append(air, VEDirect!Sent(kind, on)) /\ Len(air) < MaxAir
            /\ owed' = (owed \ {kind}) \cup (IF kind = "head" THEN {"tail"} ELSE {})
    BY DEF VEDirect!Send
  <1>2. /\ owed \subseteq {"state", "head", "tail"}
        /\ {_is_initialized, switchV, on} \subseteq BOOLEAN
    BY DEF VEDirectInv, VEDirect!TypeOK
  <1>3. air' \in Seq(Told) /\ Len(air') <= MaxAir
    BY <1>1, <1>2, MoreIsTold
  <1>4. owed' \subseteq {"state", "head", "tail"}
    BY <1>1, <1>2
  <1>5. _is_initialized' = _is_initialized /\ switchV' = switchV /\ on' = on
    BY Zenon DEF VEDirect!Send, VEDirect!plugin
  <1>6. {_is_initialized', switchV', on'} \subseteq BOOLEAN
    BY <1>2, <1>5, Zenon
  <1>7. UNCHANGED <<loopV, _char_buffer, writes>>
    BY DEF VEDirect!Send, VEDirect!plugin
  <1> QED BY <1>3, <1>4, <1>6, <1>7 DEF VEDirectInv, VEDirect!TypeOK

LEMMA NotifyKeepsVEDirect ==
    ASSUME VEDirectInv, VEDirect!Notify
    PROVE  VEDirectInv'
  <1> DEFINE h == Head(air)
             parts == VEDirect!BulkValues(h)
  <1>1. /\ air # <<>> /\ air' = Tail(air) /\ UNCHANGED <<loopV, writes, owed>>
        /\ IF h.kind = "state" THEN switchV' = h.on /\ UNCHANGED _char_buffer
           ELSE VEDirect!SetBulkValues(h)
    BY DEF VEDirect!Notify, VEDirect!plugin, VEDirect!inverter
  <1>2. /\ air \in Seq(Told) /\ Len(air) \in Nat /\ Len(air) <= MaxAir /\ MaxAir \in Nat
        /\ {_is_initialized, switchV, on} \subseteq BOOLEAN
        /\ _char_buffer \in Seq(BOOLEAN) /\ Len(_char_buffer) <= 1
        /\ Len(_char_buffer) \in Nat
    BY LenProperties, SwitchesAssumption DEF VEDirectInv, VEDirect!TypeOK
  <1>3. h \in Told /\ air' \in Seq(Told) /\ Len(air') <= MaxAir
    BY <1>1, <1>2, HeadTailProperties
  <1>4. parts \in Seq(BOOLEAN)
    <2>1. h.on \in BOOLEAN
      BY <1>3 DEF Told
    <2>2. <<h.on>> \in Seq(BOOLEAN) /\ Append(_char_buffer, h.on) \in Seq(BOOLEAN)
      BY <1>2, <2>1, AppendProperties
    <2> QED BY <2>2 DEF VEDirect!BulkValues
  <1>5. Len(parts) \in Nat
    BY <1>4, LenProperties
  <1>6. /\ _char_buffer' \in Seq(BOOLEAN) /\ Len(_char_buffer') <= 1
    <2>1. CASE h.kind = "state"
      BY <1>1, <1>2, <2>1
    <2>2. CASE h.kind # "state"
      <3>1. IF Len(parts) > 1 THEN _char_buffer' = <<>> ELSE _char_buffer' = parts
        BY <1>1, <2>2 DEF VEDirect!SetBulkValues
      <3> HIDE DEF parts
      <3>2. CASE Len(parts) > 1
        BY <3>1, <3>2
      <3>3. CASE ~(Len(parts) > 1)
        BY <1>4, <1>5, <3>1, <3>3
      <3> QED BY <3>2, <3>3
    <2> QED BY <2>1, <2>2
  <1>7. switchV' \in BOOLEAN
    <2>1. CASE h.kind = "state"
      BY <1>1, <1>3, <2>1 DEF Told
    <2>2. CASE h.kind # "state"
      <3>1. \/ switchV' = (switchV \/ \E i \in 1..Len(parts) : parts[i])
            \/ switchV' = switchV
        BY <1>1, <2>2 DEF VEDirect!SetBulkValues
      <3>2. ASSUME switchV' = switchV PROVE switchV' \in BOOLEAN
        BY <1>2, <3>2, Zenon
      <3>3. ASSUME switchV' = (switchV \/ \E i \in 1..Len(parts) : parts[i])
            PROVE  switchV' \in BOOLEAN
        BY <3>3
      <3> QED BY <3>1, <3>2, <3>3
    <2> QED BY <2>1, <2>2
  <1>8. _is_initialized' = _is_initialized /\ on' = on
    BY Zenon DEF VEDirect!Notify, VEDirect!plugin, VEDirect!inverter
  <1>9. {_is_initialized', switchV', on'} \subseteq BOOLEAN
    BY <1>2, <1>7, <1>8, Zenon
  <1> QED BY <1>1, <1>3, <1>6, <1>9 DEF VEDirectInv, VEDirect!TypeOK

LEMMA NextVEDirect == VEDirectInv /\ [VEDirect!Next]_vedirect => VEDirectInv'
  <1> SUFFICES ASSUME VEDirectInv, [VEDirect!Next]_vedirect PROVE VEDirectInv'
    OBVIOUS
  <1>0. {_is_initialized, switchV, on} \subseteq BOOLEAN
    BY DEF VEDirectInv, VEDirect!TypeOK
  <1>1. CASE VEDirect!PollRequest
    BY <1>1, PollKeepsVEDirect
  <1>2. ASSUME NEW v \in BOOLEAN, VEDirect!CmdRequest(v) PROVE VEDirectInv'
    BY <1>2, CommandKeepsVEDirect
  <1>3. CASE VEDirect!Take
    BY <1>3, TakeKeepsVEDirect
  <1>4. CASE VEDirect!Send
    BY <1>4, SendKeepsVEDirect
  <1>5. CASE VEDirect!SwitchedByHand
    <2>1. UNCHANGED <<loopV, _char_buffer, writes, air, owed>>
      BY <1>5 DEF VEDirect!SwitchedByHand, VEDirect!plugin
    <2>2. on' = ~on /\ _is_initialized' = _is_initialized /\ switchV' = switchV
      BY <1>5, Zenon DEF VEDirect!SwitchedByHand, VEDirect!plugin
    <2>3. on' \in BOOLEAN
      BY <2>2
    <2>4. {_is_initialized', switchV', on'} \subseteq BOOLEAN
      BY <1>0, <2>2, <2>3, Zenon
    <2> QED BY <2>1, <2>4 DEF VEDirectInv, VEDirect!TypeOK
  <1>6. CASE VEDirect!Reconnect
    <2>1. /\ UNCHANGED <<loopV, _char_buffer>>
          /\ writes' = <<>> /\ air' = <<>> /\ owed' = {}
      BY <1>6 DEF VEDirect!Reconnect, VEDirect!plugin
    <2>2. on' = on /\ _is_initialized' = _is_initialized /\ switchV' = switchV
      BY <1>6, Zenon DEF VEDirect!Reconnect, VEDirect!plugin
    <2>3. {_is_initialized', switchV', on'} \subseteq BOOLEAN
      BY <1>0, <2>2, Zenon
    <2> QED BY <2>1, <2>3, SwitchesAssumption DEF VEDirectInv, VEDirect!TypeOK
  <1>7. CASE VEDirect!Notify
    BY <1>7, NotifyKeepsVEDirect
  <1>8. CASE UNCHANGED vedirect
    <2>1. UNCHANGED <<loopV, _char_buffer, writes, air, owed>>
      BY <1>8 DEF vedirect
    <2>2. on' = on /\ _is_initialized' = _is_initialized /\ switchV' = switchV
      BY <1>8, Zenon DEF vedirect
    <2>3. {_is_initialized', switchV', on'} \subseteq BOOLEAN
      BY <1>0, <2>2, Zenon
    <2> QED BY <2>1, <2>3 DEF VEDirectInv, VEDirect!TypeOK
  <1> QED BY <1>1, <1>2, <1>3, <1>4, <1>5, <1>6, <1>7, <1>8 DEF VEDirect!Next

-----------------------------------------------------------------------------
(* The state machine of Topband takes the bytes of a notification one by   *)
(* one.  A fold over a sequence is the value at its whole domain of a      *)
(* function that its definition chooses; that there is such a function is  *)
(* shown for the first bytes, and one byte more.                           *)
Turn(b, data, g, s) ==
    IF s = {} THEN b
    ELSE Topband!Byte(g[s \ {Topband!Max(s)}], data[Topband!Max(s)])

Turns(b, data, k) ==
    CHOOSE g : g = [s \in SUBSET (1..k) |-> Turn(b, data, g, s)]

Taken(b, data) == Topband!FoldLeft(Topband!Byte, b, data)

LEMMA TakenIs ==
    ASSUME NEW b, NEW data
    PROVE  Taken(b, data) =
             (CHOOSE g : g = [s \in SUBSET DOMAIN data |-> Turn(b, data, g, s)])[DOMAIN data]
  BY DEF Taken, Topband!FoldLeft, Topband!MapThenFoldSet, Turn

LEMMA LastOf ==
    ASSUME NEW k \in Nat, NEW s \in SUBSET (1..k), s # {}
    PROVE  Topband!Max(s) \in s /\ \A y \in s : Topband!Max(s) >= y
  <1>1. \E x \in s : \A y \in s : x >= y
    <2>1. s \subseteq 0..k
      OBVIOUS
    <2> QED BY <2>1, GreatestNumber
  <1> QED BY <1>1 DEF Topband!Max

LEMMA TurnsExist ==
    ASSUME NEW b, NEW data
    PROVE  \A k \in Nat : \E g : g = [s \in SUBSET (1..k) |-> Turn(b, data, g, s)]
  <1> DEFINE G == {k \in Nat : \E g : g = [s \in SUBSET (1..k) |-> Turn(b, data, g, s)]}
  <1>1. 0 \in G
    <2> DEFINE g == [s \in SUBSET (1..0) |-> b]
    <2>1. \A s \in SUBSET (1..0) : Turn(b, data, g, s) = b
      BY DEF Turn
    <2>2. g = [s \in SUBSET (1..0) |-> Turn(b, data, g, s)]
      BY <2>1
    <2> QED BY <2>2
  <1>2. ASSUME NEW k \in Nat, k \in G PROVE k + 1 \in G
    <2>1. PICK g : g = [s \in SUBSET (1..k) |-> Turn(b, data, g, s)]
      BY <1>2
    <2> DEFINE h == [s \in SUBSET (1..k + 1) |->
                        IF k + 1 \in s THEN Topband!Byte(g[s \ {k + 1}], data[k + 1]) ELSE g[s]]
    <2>2. \A s \in SUBSET (1..k) : s \in SUBSET (1..k + 1) /\ k + 1 \notin s /\ h[s] = g[s]
      OBVIOUS
    <2>3. ASSUME NEW s \in SUBSET (1..k + 1) PROVE h[s] = Turn(b, data, h, s)
      <3>1. CASE k + 1 \in s
        <4>1. Topband!Max(s) = k + 1
          <5>1. k + 1 \in Nat /\ s # {}
            BY <3>1
          <5>2. Topband!Max(s) \in s /\ Topband!Max(s) >= k + 1
            BY <3>1, <5>1, LastOf
          <5>3. Topband!Max(s) \in 1..k + 1
            BY <5>2
          <5> QED BY <5>2, <5>3
        <4>2. s \ {k + 1} \in SUBSET (1..k)
          OBVIOUS
        <4> QED BY <2>2, <3>1, <4>1, <4>2 DEF Turn
      <3>2. CASE k + 1 \notin s
        <4>1. s \in SUBSET (1..k)
          BY <3>2
        <4>2. h[s] = Turn(b, data, g, s)
          BY <2>1, <2>2, <4>1
        <4>3. s \ {Topband!Max(s)} \in SUBSET (1..k)
          BY <4>1
        <4>4. g[s \ {Topband!Max(s)}] = h[s \ {Topband!Max(s)}]
          BY <2>2, <4>3
        <4> HIDE DEF h
        <4> QED BY <4>2, <4>4 DEF Turn
      <3> QED BY <3>1, <3>2
    <2>4. h = [s \in SUBSET (1..k + 1) |-> h[s]]
      OBVIOUS
    <2> HIDE DEF h
    <2>5. h = [s \in SUBSET (1..k + 1) |-> Turn(b, data, h, s)]
      BY <2>3, <2>4
    <2> QED BY <2>5
  <1> HIDE DEF G
  <1>3. Nat \subseteq G
    BY <1>1, <1>2, AllNaturals
  <1> QED BY <1>3 DEF G

(* What every byte takes from one set to the next the whole notification   *)
(* takes from the first set to the last.                                   *)
LEMMA FoldSteps ==
    ASSUME NEW b, NEW D, NEW data \in Seq(D), NEW T, b \in T[0],
           \A k \in 0..Len(data) - 1 : \A r \in T[k] : Topband!Byte(r, data[k + 1]) \in T[k + 1]
    PROVE  Taken(b, data) \in T[Len(data)]
  <1> DEFINE n == Len(data)
             g == Turns(b, data, n)
  <1>1. n \in Nat /\ DOMAIN data = 1..n
    BY LenProperties
  <1>2. g = [s \in SUBSET (1..n) |-> Turn(b, data, g, s)]
    BY <1>1, TurnsExist DEF Turns
  <1>3. Taken(b, data) = g[1..n]
    BY <1>1, TakenIs DEF Turns
  <1>4. \A k \in 0..n - 1 : \A r \in T[k] : Topband!Byte(r, data[k + 1]) \in T[k + 1]
    OBVIOUS
  <1> HIDE DEF g, n
  <1> DEFINE G == {k \in Nat : k <= n => g[1..k] \in T[k]}
  <1>5. 0 \in G
    <2>1. {} \in SUBSET (1..n) /\ 1..0 = {}
      BY <1>1
    <2>2. g[{}] = b
      BY <1>2, <2>1 DEF Turn
    <2> QED BY <2>1, <2>2
  <1>6. ASSUME NEW k \in Nat, k \in G PROVE k + 1 \in G
    <2> SUFFICES ASSUME k + 1 <= n PROVE g[1..k + 1] \in T[k + 1]
      OBVIOUS
    <2>1. 1..k + 1 \in SUBSET (1..n) /\ 1..k + 1 # {}
      <3>1. k + 1 \in 1..k + 1
        BY <1>1
      <3>2. \A x \in 1..k + 1 : x \in 1..n
        BY <1>1
      <3> QED BY <3>1, <3>2
    <2>2. Topband!Max(1..k + 1) = k + 1
      <3>1. /\ Topband!Max(1..k + 1) \in 1..k + 1
            /\ \A y \in 1..k + 1 : Topband!Max(1..k + 1) >= y
        <4>1. k + 1 \in Nat
          OBVIOUS
        <4> QED BY <2>1, <4>1, LastOf
      <3>2. Topband!Max(1..k + 1) >= k + 1
        BY <3>1
      <3> QED BY <3>1, <3>2
    <2>3. (1..k + 1) \ {k + 1} = 1..k
      OBVIOUS
    <2>4. g[1..k + 1] = Topband!Byte(g[1..k], data[k + 1])
      BY <1>2, <2>1, <2>2, <2>3 DEF Turn
    <2>5. g[1..k] \in T[k] /\ k \in 0..n - 1
      BY <1>1, <1>6
    <2> QED BY <1>4, <2>4, <2>5
  <1> HIDE DEF G
  <1>7. n \in G
    BY <1>1, <1>5, <1>6, AllNaturals
  <1>8. Taken(b, data) \in T[n]
    BY <1>1, <1>3, <1>7 DEF G
  <1> QED BY <1>8 DEF n

(* The states of the machine, between notifications and within one.        *)
Machine ==
    {u \in [type : {"SOI", "INFO", "EOI"}, buf : Seq(Int), end : 0..Stored + 1] :
        /\ Len(u.buf) <= Stored + 1
        /\ u.type = "SOI" <=> u.buf = <<>>
        /\ u.type = "SOI" => u.end = 0
        /\ u.type = "EOI" => Len(u.buf) = Stored}

Taking == [util : Machine, done : BOOLEAN]

(* Where the machine is, when the device is at place p of a frame with     *)
(* content c, that came whole so far (i), after k frames that came whole   *)
(* and were missed.  A machine that has found the beginning of the frame   *)
(* has read all of it.  One that took another byte for a beginning is      *)
(* ready for a new one when it has the bytes of a frame: if it is ahead of *)
(* the device, within this frame, so that it misses this one; if it is     *)
(* behind, within the next.                                                *)
Reads(u, p, c) ==
    /\ u.type = IF p = Stored THEN "EOI" ELSE "INFO"
    /\ p >= 2 => u.buf[2] = c
    /\ p >= 3 => u.buf[3] = c
    /\ u.end = IF p < 4 THEN 0 ELSE 4

Phase(u, p, c, i, k) ==
    LET v == Topband!Overrun(u)
    IN /\ k \in 0..2 /\ (~i => k = 0)
       /\ v.type = "SOI" /\ p > 0 => k <= 1
       /\ v.type # "SOI" /\ Len(v.buf) > p => k <= 1
       /\ v.type # "SOI" /\ Len(v.buf) < p => k = 0
       /\ v.type # "SOI" /\ Len(v.buf) = p /\ i => Reads(v, p, c)

TopbandInv ==
    /\ util \in Machine
    /\ place \in 0..Stored /\ digit \in Topband!Digits /\ intact \in BOOLEAN
    /\ Phase(util, place, digit, intact, missed)

LEMMA StartIsMachine ==
    /\ Topband!Start \in Machine /\ Topband!Start.type = "SOI"
    /\ Topband!Overrun(Topband!Start) = Topband!Start
  BY TopbandAssumption DEF Topband!Start, Topband!Overrun, Machine

(* What is left when the index has run past the buffer.                    *)
LEMMA OverrunIs ==
    ASSUME NEW u \in Machine
    PROVE  /\ Topband!Overrun(u) \in Machine
           /\ Len(Topband!Overrun(u).buf) \in 0..Stored
           /\ Topband!Overrun(u) = IF Len(u.buf) = Stored + 1 THEN Topband!Start ELSE u
           /\ Topband!Overrun(u).type # "SOI" => Len(Topband!Overrun(u).buf) >= 1
  <1>1. Len(u.buf) \in 0..Stored + 1 /\ Stored \in Nat /\ Stored >= 3
    BY LenProperties, TopbandAssumption DEF Machine
  <1>2. CASE Len(u.buf) > Stored
    <2>1. Topband!Overrun(u) = Topband!Start /\ Len(u.buf) = Stored + 1
      BY <1>1, <1>2 DEF Topband!Overrun
    <2>2. Len(Topband!Start.buf) = 0
      BY DEF Topband!Start
    <2> QED BY <1>1, <2>1, <2>2, StartIsMachine
  <1>3. CASE ~(Len(u.buf) > Stored)
    <2>1. Topband!Overrun(u) = u /\ Len(u.buf) # Stored + 1
      BY <1>1, <1>3 DEF Topband!Overrun
    <2>2. u.type # "SOI" => Len(u.buf) >= 1
      <3>1. u.type # "SOI" => u.buf # <<>> /\ u.buf \in Seq(Int)
        BY DEF Machine
      <3> QED BY <1>1, <3>1, EmptySeq
    <2> QED BY <1>1, <1>3, <2>1, <2>2
  <1> QED BY <1>2, <1>3

LEMMA StoreIs ==
    ASSUME NEW u \in Machine, Len(u.buf) <= Stored, NEW c \in Int
    PROVE  LET b == Append(u.buf, c)
           IN /\ Topband!Store(u, c) = [type |-> u.type, buf |-> b, end |-> u.end]
              /\ b \in Seq(Int) /\ Len(b) = Len(u.buf) + 1 /\ Len(b) \in 1..Stored + 1
              /\ \A j \in 1..Len(u.buf) : b[j] = u.buf[j]
              /\ b[Len(u.buf) + 1] = c /\ b # <<>>
  <1> DEFINE b == Append(u.buf, c)
  <1>1. u \in [type : {"SOI", "INFO", "EOI"}, buf : Seq(Int), end : 0..Stored + 1]
    BY DEF Machine
  <1>2. /\ b \in Seq(Int) /\ Len(b) = Len(u.buf) + 1 /\ Len(u.buf) \in Nat
        /\ \A j \in 1..Len(u.buf) : b[j] = u.buf[j]
        /\ b[Len(u.buf) + 1] = c /\ b # <<>>
    BY <1>1, AppendProperties, LenProperties
  <1>3. Topband!Store(u, c) = [u EXCEPT !.buf = b]
    BY DEF Topband!Store
  <1>4. Stored \in Nat
    BY TopbandAssumption
  <1> HIDE DEF b
  <1>5. [u EXCEPT !.buf = b] = [type |-> u.type, buf |-> b, end |-> u.end]
    BY <1>1, <1>2, SMTT(30)
  <1> QED BY <1>2, <1>3, <1>4, <1>5 DEF b

(* Out of a frame, only a head is stored.                                  *)
LEMMA OutOfFrame ==
    ASSUME NEW u \in Machine, u.type = "SOI", NEW c \in Int
    PROVE  LET w == Topband!InSOI(u, c)
           IN /\ w \in Machine
              /\ c # Topband!HeadByte => w = u
              /\ c = Topband!HeadByte => w.type = "INFO" /\ Len(w.buf) = 1 /\ w.end = 0
  <1> DEFINE b == Append(u.buf, c)
  <1>1. u.buf = <<>> /\ Len(u.buf) = 0 /\ u.end = 0 /\ Stored \in Nat /\ Stored > 3
    BY TopbandAssumption, EmptySeq DEF Machine
  <1>2. /\ Topband!Store(u, c) = [type |-> u.type, buf |-> b, end |-> u.end]
        /\ b \in Seq(Int) /\ Len(b) = Len(u.buf) + 1 /\ b # <<>>
    <2>1. Len(u.buf) <= Stored
      BY <1>1
    <2> QED BY <2>1, StoreIs
  <1> HIDE DEF b
  <1>3. CASE c = Topband!HeadByte
    <2>1. Topband!InSOI(u, c) = [type |-> "INFO", buf |-> b, end |-> 0]
      BY <1>1, <1>2, <1>3 DEF Topband!InSOI
    <2> DEFINE w == [type |-> "INFO", buf |-> b, end |-> 0]
    <2>2. Len(b) = 1 /\ 0 \in 0..Stored + 1 /\ 1 <= Stored + 1
      BY <1>1, <1>2
    <2>3. w \in [type : {"SOI", "INFO", "EOI"}, buf : Seq(Int), end : 0..Stored + 1]
      BY <1>2, <2>2
    <2>4. w.type = "INFO" /\ w.buf = b /\ w.end = 0
      OBVIOUS
    <2> HIDE DEF w
    <2>5. w \in Machine
      BY <1>2, <2>2, <2>3, <2>4 DEF Machine
    <2> QED BY <1>3, <2>1, <2>2, <2>4, <2>5 DEF w
  <1>4. CASE c # Topband!HeadByte
    BY <1>4 DEF Topband!InSOI
  <1> QED BY <1>3, <1>4

(* Within a frame every byte is.                                           *)
LEMMA InFrame ==
    ASSUME NEW u \in Machine, u.type = "INFO", Len(u.buf) <= Stored, NEW c \in Int
    PROVE  LET w == Topband!InINFO(u, c)
               m == Len(u.buf)
           IN /\ w \in Machine
              /\ w.type = IF c = Topband!Zero /\ m + 1 = Stored THEN "EOI" ELSE "INFO"
              /\ w.end = IF c = Topband!Zero /\ u.end < StoredEndCap THEN m + 1 ELSE u.end
              /\ Len(w.buf) = m + 1 /\ w.buf[m + 1] = c
              /\ \A j \in 1..m : w.buf[j] = u.buf[j]
  <1> DEFINE b == Append(u.buf, c)
             m == Len(u.buf)
             stored == [type |-> "INFO", buf |-> b, end |-> u.end]
             R == [type : {"SOI", "INFO", "EOI"}, buf : Seq(Int), end : 0..Stored + 1]
  <1>1. u.end \in 0..Stored + 1 /\ Stored \in Nat
    BY TopbandAssumption DEF Machine
  <1>2. /\ Topband!Store(u, c) = stored
        /\ b \in Seq(Int) /\ Len(b) = m + 1 /\ Len(b) \in 1..Stored + 1
        /\ b[m + 1] = c /\ b # <<>>
        /\ \A j \in 1..m : b[j] = u.buf[j]
    BY StoreIs
  <1> HIDE DEF b, m
  <1>3. CASE c # Topband!Zero
    <2>1. Topband!InINFO(u, c) = stored
      BY <1>2, <1>3 DEF Topband!InINFO
    <2>2. stored \in Machine
      BY <1>1, <1>2 DEF Machine
    <2> QED BY <1>2, <1>3, <2>1, <2>2 DEF m
  <1>4. CASE c = Topband!Zero
    <2> DEFINE e == IF u.end < StoredEndCap THEN Len(b) ELSE u.end
               t == IF Len(b) = Stored THEN "EOI" ELSE "INFO"
               w == [stored EXCEPT !.end = e, !.type = t]
    <2>1. Topband!Store(u, c).buf = b /\ Topband!Store(u, c).end = u.end
      BY <1>2
    <2>2. Topband!InINFO(u, c) = [Topband!Store(u, c) EXCEPT !.end = e, !.type = t]
      BY <1>4, <2>1 DEF Topband!InINFO
    <2>3. e \in 0..Stored + 1 /\ t \in {"EOI", "INFO"} /\ (t = "EOI" => Len(b) = Stored)
      BY <1>1, <1>2
    <2>4. stored \in R /\ stored.buf = b
      BY <1>1, <1>2
    <2> HIDE DEF e, t, stored
    <2>5. w \in R
      BY <2>3, <2>4
    <2>6. w.buf = b /\ w.type = t /\ w.end = e
      BY <2>4
    <2>7. Topband!InINFO(u, c) = w
      BY <1>2, <2>2
    <2> HIDE DEF w
    <2>8. w \in Machine
      BY <1>2, <2>3, <2>5, <2>6 DEF Machine
    <2> QED BY <1>2, <1>4, <2>6, <2>7, <2>8 DEF m, e, t
  <1> QED BY <1>3, <1>4

(* The byte that follows p bytes of a frame with content c.                *)
ByteAt(p, c) ==
    IF p = 0 THEN Topband!HeadByte ELSE IF p < 3 THEN c ELSE Topband!Zero

LEMMA ByteIs ==
    ASSUME NEW u, NEW b
    PROVE  LET v == Topband!Overrun(u)
               r == Topband!Byte([util |-> u, done |-> FALSE], b)
           IN /\ v.type = "SOI" => r = [util |-> Topband!InSOI(v, b), done |-> FALSE]
              /\ v.type = "INFO" => r = [util |-> Topband!InINFO(v, b), done |-> FALSE]
              /\ v.type = "EOI" =>
                     r = [util |-> Topband!Start, done |-> Topband!ChecksumMatches(v)]
  <1> DEFINE v == Topband!Overrun(u)
             q == [util |-> u, done |-> FALSE]
  <1>1. Topband!Byte(q, b) =
          CASE v.type = "SOI" -> [q EXCEPT !.util = Topband!InSOI(v, b)]
            [] v.type = "INFO" -> [q EXCEPT !.util = Topband!InINFO(v, b)]
            [] v.type = "EOI" -> [util |-> Topband!Start, done |-> Topband!ChecksumMatches(v)]
    <2>1. Topband!Overrun(q.util) = v /\ q.done = FALSE
      OBVIOUS
    <2> HIDE DEF q, v
    <2> QED BY <2>1 DEF Topband!Byte
  <1>2. ASSUME NEW w PROVE [q EXCEPT !.util = w] = [util |-> w, done |-> FALSE]
    <2>1. q \in [util : {u}, done : {FALSE}] /\ w \in {w}
      OBVIOUS
    <2> HIDE DEF q
    <2> DEFINE x == [q EXCEPT !.util = w]
    <2>2. x \in [util : {w}, done : {FALSE}]
      BY <2>1
    <2> HIDE DEF x
    <2>3. x = [util |-> w, done |-> FALSE]
      BY <2>2
    <2> QED BY <2>3 DEF x
  <1> HIDE DEF q, v
  <1> QED BY <1>1, <1>2 DEF q, v

LEMMA ByteStep ==
    ASSUME NEW u \in Machine, NEW p \in 0..Stored, NEW c \in Topband!Digits,
           NEW i \in BOOLEAN, NEW k, Phase(u, p, c, i, k)
    PROVE  LET r == Topband!Byte([util |-> u, done |-> FALSE], ByteAt(p, c))
           IN /\ r \in Taking
              /\ r.done => r.util = Topband!Start
              /\ ~r.done /\ p < Stored => Phase(r.util, p + 1, c, i, k)
              /\ ~r.done /\ p = Stored =>
                    \A d : Phase(r.util, 0, d, TRUE, IF i THEN k + 1 ELSE k)
  <1> DEFINE v == Topband!Overrun(u)
             b == ByteAt(p, c)
             m == Len(v.buf)
             r == Topband!Byte([util |-> u, done |-> FALSE], b)
             l == IF i THEN k + 1 ELSE k
  <1> SUFFICES /\ r \in Taking
               /\ r.done => r.util = Topband!Start
               /\ ~r.done /\ p < Stored => Phase(r.util, p + 1, c, i, k)
               /\ ~r.done /\ p = Stored => \A d : Phase(r.util, 0, d, TRUE, l)
    OBVIOUS
  <1>1. /\ v \in Machine /\ m \in 0..Stored /\ (v.type # "SOI" => m >= 1)
        /\ v.type \in {"SOI", "INFO", "EOI"}
        /\ v.type = "EOI" => m = Stored
    BY OverrunIs DEF Machine
  <1>2. Stored \in Nat /\ Stored > 3 /\ StoredEndCap \in 1..4
    BY TopbandAssumption
  <1>3. /\ k \in 0..2 /\ (~i => k = 0)
        /\ v.type = "SOI" /\ p > 0 => k <= 1
        /\ v.type # "SOI" /\ m > p => k <= 1
        /\ v.type # "SOI" /\ m < p => k = 0
        /\ v.type # "SOI" /\ m = p /\ i => Reads(v, p, c)
    BY DEF Phase
  <1>4. /\ b \in Int /\ (b = Topband!HeadByte <=> p = 0) /\ (b = Topband!Zero <=> p >= 3)
        /\ p \in {1, 2} => b = c
    BY DEF ByteAt, Topband!HeadByte, Topband!Zero, Topband!Digits
  <1> HIDE DEF v, b, r
  <1>5. CASE v.type = "SOI"
    <2> DEFINE w == Topband!InSOI(v, b)
    <2>1. r = [util |-> w, done |-> FALSE]
      BY <1>5, ByteIs DEF r, v
    <2>2. /\ w \in Machine
          /\ b # Topband!HeadByte => w = v
          /\ b = Topband!HeadByte => w.type = "INFO" /\ Len(w.buf) = 1 /\ w.end = 0
      BY <1>1, <1>4, <1>5, OutOfFrame
    <2> HIDE DEF w
    <2>3. Len(w.buf) # Stored + 1
      <3>1. CASE b = Topband!HeadByte
        <4>1. Len(w.buf) = 1
          BY <2>2, <3>1
        <4> QED BY <1>2, <4>1
      <3>2. CASE b # Topband!HeadByte
        BY <1>1, <1>2, <2>2, <3>2
      <3> QED BY <3>1, <3>2
    <2>4. Topband!Overrun(w) = w
      BY <2>2, <2>3, OverrunIs
    <2>5. p < Stored => Phase(w, p + 1, c, i, k)
      <3>1. CASE p = 0
        <4>1. w.type = "INFO" /\ Len(w.buf) = 1 /\ w.end = 0
          BY <1>4, <2>2, <3>1
        <4>2. Reads(w, 1, c)
          BY <1>2, <4>1 DEF Reads
        <4> QED BY <1>3, <2>4, <3>1, <4>1, <4>2 DEF Phase
      <3>2. CASE p # 0
        BY <1>3, <1>4, <1>5, <2>2, <2>4, <3>2 DEF Phase
      <3> QED BY <3>1, <3>2
    <2>6. ASSUME p = Stored, NEW d PROVE Phase(w, 0, d, TRUE, l)
      BY <1>2, <1>3, <1>4, <1>5, <2>2, <2>4, <2>6 DEF Phase
    <2> HIDE DEF l
    <2>7. r \in Taking /\ r.util = w /\ r.done = FALSE
      BY <2>1, <2>2 DEF Taking
    <2> QED BY <2>5, <2>6, <2>7
  <1>6. CASE v.type = "INFO"
    <2> DEFINE w == Topband!InINFO(v, b)
    <2>1. r = [util |-> w, done |-> FALSE]
      BY <1>6, ByteIs DEF r, v
    <2>2. /\ w \in Machine
          /\ w.type = IF b = Topband!Zero /\ m + 1 = Stored THEN "EOI" ELSE "INFO"
          /\ w.end = IF b = Topband!Zero /\ v.end < StoredEndCap THEN m + 1 ELSE v.end
          /\ Len(w.buf) = m + 1 /\ w.buf[m + 1] = b
          /\ \A j \in 1..m : w.buf[j] = v.buf[j]
      BY <1>1, <1>4, <1>6, InFrame
    <2> HIDE DEF w
    <2>3. Topband!Overrun(w) = IF m = Stored THEN Topband!Start ELSE w
      BY <1>1, <1>2, <2>2, OverrunIs
    <2>4. ASSUME p < Stored PROVE Phase(w, p + 1, c, i, k)
      <3>1. CASE m = Stored
        BY <1>1, <1>2, <1>3, <1>6, <2>3, <2>4, <3>1, StartIsMachine DEF Phase
      <3>2. CASE m # Stored
        <4>1. Topband!Overrun(w) = w /\ w.type # "SOI"
          BY <2>2, <2>3, <3>2
        <4>2. ASSUME m = p, i PROVE Reads(w, p + 1, c)
          <5>1. Reads(v, p, c)
            BY <1>3, <1>6, <4>2
          <5>2. w.type = IF p + 1 = Stored THEN "EOI" ELSE "INFO"
            BY <1>2, <1>4, <2>2, <4>2
          <5>3. w.end = IF p + 1 < 4 THEN 0 ELSE 4
            BY <1>2, <1>4, <2>2, <4>2, <5>1 DEF Reads
          <5>4. (p + 1 >= 2 => w.buf[2] = c) /\ (p + 1 >= 3 => w.buf[3] = c)
            <6>1. CASE p = 0
              BY <6>1
            <6>2. CASE p = 1
              BY <1>4, <2>2, <4>2, <6>2
            <6>3. CASE p = 2
              BY <1>4, <2>2, <4>2, <5>1, <6>3 DEF Reads
            <6>4. CASE p >= 3
              BY <2>2, <4>2, <5>1, <6>4 DEF Reads
            <6> QED BY <6>1, <6>2, <6>3, <6>4
          <5> QED BY <5>2, <5>3, <5>4 DEF Reads
        <4> QED BY <1>1, <1>3, <1>6, <2>2, <4>1, <4>2 DEF Phase
      <3> QED BY <3>1, <3>2
    <2>5. ASSUME p = Stored, NEW d PROVE Phase(w, 0, d, TRUE, l)
      <3>1. CASE m = Stored
        <4>1. ~i
          BY <1>3, <1>6, <2>5, <3>1 DEF Reads
        <4>2. l = 0
          BY <1>3, <4>1
        <4> HIDE DEF l
        <4> QED BY <2>3, <3>1, <4>2, StartIsMachine DEF Phase
      <3>2. CASE m # Stored
        <4>1. Topband!Overrun(w) = w /\ w.type # "SOI"
          BY <2>2, <2>3, <3>2
        <4>2. l \in 0..1
          BY <1>1, <1>2, <1>3, <1>6, <2>5, <3>2
        <4> HIDE DEF l
        <4> QED BY <1>1, <2>2, <4>1, <4>2 DEF Phase
      <3> QED BY <3>1, <3>2
    <2> HIDE DEF l
    <2>6. r \in Taking /\ r.util = w /\ r.done = FALSE
      BY <2>1, <2>2 DEF Taking
    <2> QED BY <2>4, <2>5, <2>6
  <1>7. CASE v.type = "EOI"
    <2>1. r = [util |-> Topband!Start, done |-> Topband!ChecksumMatches(v)]
      BY <1>7, ByteIs DEF r, v
    <2>2. Topband!ChecksumMatches(v) \in BOOLEAN
      BY DEF Topband!ChecksumMatches
    <2>3. p < Stored => Phase(Topband!Start, p + 1, c, i, k)
      BY <1>1, <1>2, <1>3, <1>7, StartIsMachine DEF Phase
    <2>4. ASSUME p = Stored, ~Topband!ChecksumMatches(v), NEW d
          PROVE  Phase(Topband!Start, 0, d, TRUE, l)
      <3>1. m = p
        BY <1>1, <1>7, <2>4
      <3>2. ~i
        <4> SUFFICES ASSUME i PROVE FALSE
          OBVIOUS
        <4>1. Reads(v, p, c)
          BY <1>3, <1>7, <3>1
        <4>2. v.end = 4 /\ v.buf[2] = c /\ v.buf[3] = c
          BY <1>2, <2>4, <4>1 DEF Reads
        <4> QED BY <2>4, <4>2 DEF Topband!ChecksumMatches
      <3>3. l = 0
        BY <1>3, <3>2
      <3> HIDE DEF l
      <3> QED BY <3>3, StartIsMachine DEF Phase
    <2> HIDE DEF l
    <2>5. r \in Taking /\ r.util = Topband!Start /\ r.done = Topband!ChecksumMatches(v)
      BY <2>1, <2>2, StartIsMachine DEF Taking
    <2> QED BY <2>3, <2>4, <2>5
  <1> QED BY <1>1, <1>5, <1>6, <1>7

LEMMA FrameBytes ==
    ASSUME NEW d \in Topband!Digits
    PROVE  /\ Topband!Frame(d) \in Seq(Int) /\ Len(Topband!Frame(d)) = Stored + 1
           /\ \A p \in 0..Stored : Topband!Frame(d)[p + 1] = ByteAt(p, d)
  <1> DEFINE zeros == [i \in 1..(Stored + 1 - 3) |-> Topband!Zero]
             head == <<Topband!HeadByte, d, d>>
  <1>1. Stored + 1 - 3 \in Nat /\ Stored \in Nat /\ d \in Int
    BY TopbandAssumption DEF Topband!Digits
  <1>2. zeros \in [1..(Stored + 1 - 3) -> Int]
    BY DEF Topband!Zero
  <1>3. /\ zeros \in Seq(Int) /\ Len(zeros) = Stored + 1 - 3
        /\ \A j \in 1..(Stored + 1 - 3) : zeros[j] = Topband!Zero
    BY <1>1, <1>2, FunctionIsSeq
  <1>4. /\ head \in Seq(Int) /\ Len(head) = 3
        /\ head[1] = Topband!HeadByte /\ head[2] = d /\ head[3] = d
    BY <1>1 DEF Topband!HeadByte
  <1>5. Topband!Frame(d) = head \o zeros
    BY DEF Topband!Frame
  <1> HIDE DEF zeros, head
  <1>6. /\ head \o zeros \in Seq(Int) /\ Len(head \o zeros) = Len(head) + Len(zeros)
        /\ \A i \in 1..Len(head) + Len(zeros) :
              (head \o zeros)[i] = IF i <= Len(head) THEN head[i] ELSE zeros[i - Len(head)]
    BY <1>3, <1>4, ConcatProperties, Zenon
  <1>7. ASSUME NEW p \in 0..Stored PROVE (head \o zeros)[p + 1] = ByteAt(p, d)
    <2>1. p + 1 \in 1..Len(head) + Len(zeros)
      BY <1>1, <1>3, <1>4
    <2>2. CASE p < 3
      <3>1. (head \o zeros)[p + 1] = head[p + 1]
        BY <1>4, <1>6, <2>1, <2>2
      <3>2. p = 0 \/ p = 1 \/ p = 2
        BY <2>2
      <3> QED BY <1>4, <3>1, <3>2 DEF ByteAt
    <2>3. CASE ~(p < 3)
      <3>1. (head \o zeros)[p + 1] = zeros[p + 1 - 3]
        BY <1>4, <1>6, <2>1, <2>3
      <3>2. p + 1 - 3 \in 1..(Stored + 1 - 3)
        BY <1>1, <2>3
      <3> QED BY <1>3, <2>3, <3>1, <3>2 DEF ByteAt
    <2> QED BY <2>2, <2>3
  <1>8. Len(head) + Len(zeros) = Stored + 1
    BY <1>1, <1>3, <1>4
  <1> QED BY <1>5, <1>6, <1>7, <1>8

(* Where the device is when it has sent k bytes more, with a frame that    *)
(* has content d to follow.                                                *)
PlaceAfter(k) == IF place + k <= Stored THEN place + k ELSE place + k - (Stored + 1)
DigitAfter(k, d) == IF place + k <= Stored THEN digit ELSE d

IntactAfter(k) == intact \/ place + k > Stored
MissedAfter(k) == IF place + k > Stored /\ intact THEN missed + 1 ELSE missed

LEMMA PieceBytes ==
    ASSUME TopbandInv, NEW n \in 1..MaxPiece, NEW d \in Topband!Digits
    PROVE  /\ Topband!Piece(n, d) \in Seq(Int) /\ Len(Topband!Piece(n, d)) = n
           /\ \A k \in 0..n - 1 :
                 Topband!Piece(n, d)[k + 1] = ByteAt(PlaceAfter(k), DigitAfter(k, d))
  <1>1. /\ place \in Nat /\ place <= Stored /\ n \in Nat /\ n >= 1
        /\ n <= Stored + 1 /\ Stored \in Nat /\ digit \in Topband!Digits
    BY TopbandAssumption DEF TopbandInv
  <1> DEFINE f == Topband!Frame(digit)
             e == Topband!Frame(d)
             both == f \o e
  <1>2. /\ f \in Seq(Int) /\ Len(f) = Stored + 1
        /\ \A p \in 0..Stored : f[p + 1] = ByteAt(p, digit)
        /\ e \in Seq(Int) /\ Len(e) = Stored + 1
        /\ \A p \in 0..Stored : e[p + 1] = ByteAt(p, d)
    BY <1>1, FrameBytes
  <1>3. Topband!Piece(n, d) = SubSeq(both, place + 1, place + n)
    BY DEF Topband!Piece
  <1> HIDE DEF f, e
  <1>4. /\ both \in Seq(Int) /\ Len(both) = Len(f) + Len(e)
        /\ \A i \in 1..Len(f) + Len(e) :
              both[i] = IF i <= Len(f) THEN f[i] ELSE e[i - Len(f)]
    BY <1>2, ConcatProperties, Zenon
  <1> HIDE DEF both
  <1>5. \A i \in place + 1..place + n : i \in 1..Len(both)
    BY <1>1, <1>2, <1>4
  <1>6. \A i \in place + 1..place + n : both[i] \in Int
    BY <1>4, <1>5, ElementOfSeq
  <1>7. LET s == SubSeq(both, place + 1, place + n)
        IN /\ s \in Seq(Int)
           /\ Len(s) = IF place + 1 <= place + n THEN (place + n) - (place + 1) + 1 ELSE 0
           /\ \A i \in 1..(place + n) - (place + 1) + 1 : s[i] = both[(place + 1) + i - 1]
    <2>1. place + 1 \in Int /\ place + n \in Int
      BY <1>1
    <2> QED BY <1>6, <2>1, SubSeqProperties
  <1>8. Topband!Piece(n, d) \in Seq(Int) /\ Len(Topband!Piece(n, d)) = n
    BY <1>1, <1>3, <1>7
  <1>9. ASSUME NEW k \in 0..n - 1
        PROVE  Topband!Piece(n, d)[k + 1] = ByteAt(PlaceAfter(k), DigitAfter(k, d))
    <2>1. /\ k + 1 \in 1..(place + n) - (place + 1) + 1
          /\ (place + 1) + (k + 1) - 1 = place + k + 1
          /\ place + k + 1 \in 1..Len(f) + Len(e) /\ place + k \in Nat
      BY <1>1, <1>2
    <2>2. Topband!Piece(n, d)[k + 1] = both[place + k + 1]
      BY <1>3, <1>7, <2>1
    <2>3. CASE place + k <= Stored
      <3>1. both[place + k + 1] = f[place + k + 1]
        BY <1>1, <1>2, <1>4, <2>1, <2>3
      <3>2. place + k \in 0..Stored
        BY <1>1, <2>1, <2>3
      <3> QED BY <1>2, <2>2, <2>3, <3>1, <3>2 DEF PlaceAfter, DigitAfter
    <2>4. CASE ~(place + k <= Stored)
      <3> DEFINE p == place + k - (Stored + 1)
      <3>1. p \in 0..Stored /\ place + k + 1 - Len(f) = p + 1 /\ ~(place + k + 1 <= Len(f))
        BY <1>1, <1>2, <2>1, <2>4
      <3>2. both[place + k + 1] = e[place + k + 1 - Len(f)]
        BY <1>4, <2>1, <3>1, SMTT(30)
      <3>3. e[p + 1] = ByteAt(p, d)
        BY <1>2, <3>1
      <3> QED BY <2>2, <2>4, <3>1, <3>2, <3>3 DEF PlaceAfter, DigitAfter
    <2> QED BY <2>3, <2>4
  <1> QED BY <1>8, <1>9

LEMMA InitTopband == Topband!Init => TopbandInv
  BY StartIsMachine DEF Topband!Init, TopbandInv, Phase


(* After k bytes of a notification.                                        *)
After(k, d) ==
    {r \in Taking :
        /\ r.done => r.util = Topband!Start
        /\ ~r.done => Phase(r.util, PlaceAfter(k), DigitAfter(k, d),
                            IntactAfter(k), MissedAfter(k))}

LEMMA OneByteMore ==
    ASSUME TopbandInv, NEW n \in 1..MaxPiece, NEW d \in Topband!Digits,
           NEW k \in 0..n - 1, NEW r \in After(k, d)
    PROVE  Topband!Byte(r, ByteAt(PlaceAfter(k), DigitAfter(k, d))) \in After(k + 1, d)
  <1> DEFINE p == PlaceAfter(k)
             c == DigitAfter(k, d)
             s == Topband!Byte(r, ByteAt(p, c))
  <1>1. /\ place \in Nat /\ place <= Stored /\ n \in Nat /\ n <= Stored + 1
        /\ Stored \in Nat /\ digit \in Topband!Digits /\ intact \in BOOLEAN
        /\ k \in Nat /\ k <= Stored
    BY TopbandAssumption DEF TopbandInv
  <1>2. /\ r \in Taking
        /\ r.done => r.util = Topband!Start
        /\ ~r.done => Phase(r.util, p, c, IntactAfter(k), MissedAfter(k))
    BY DEF After
  <1>3. CASE r.done
    <2>1. s = r
      BY <1>3 DEF Topband!Byte
    <2> QED BY <1>2, <1>3, <2>1 DEF After
  <1>4. CASE ~r.done
    <2>1. r = [util |-> r.util, done |-> FALSE]
      BY <1>2, <1>4 DEF Taking
    <2>2. p \in 0..Stored /\ c \in Topband!Digits /\ IntactAfter(k) \in BOOLEAN
      BY <1>1 DEF PlaceAfter, DigitAfter, IntactAfter
    <2> DEFINE j == IF IntactAfter(k) THEN MissedAfter(k) + 1 ELSE MissedAfter(k)
    <2>3. /\ s \in Taking
          /\ s.done => s.util = Topband!Start
          /\ ~s.done /\ p < Stored =>
                Phase(s.util, p + 1, c, IntactAfter(k), MissedAfter(k))
          /\ ~s.done /\ p = Stored => \A e : Phase(s.util, 0, e, TRUE, j)
      <3>1. r.util \in Machine
        BY <1>2 DEF Taking
      <3>2. s = Topband!Byte([util |-> r.util, done |-> FALSE], ByteAt(p, c))
        BY <2>1
      <3>3. Phase(r.util, p, c, IntactAfter(k), MissedAfter(k))
        BY <1>2, <1>4
      <3> HIDE DEF p, c, s
      <3> DEFINE q == Topband!Byte([util |-> r.util, done |-> FALSE], ByteAt(p, c))
      <3>4. /\ q \in Taking
            /\ q.done => q.util = Topband!Start
            /\ ~q.done /\ p < Stored =>
                  Phase(q.util, p + 1, c, IntactAfter(k), MissedAfter(k))
            /\ ~q.done /\ p = Stored => \A e : Phase(q.util, 0, e, TRUE, j)
        BY <2>2, <3>1, <3>3, ByteStep, Zenon
      <3> HIDE DEF q, j
      <3> QED BY <3>2, <3>4 DEF q
    <2> HIDE DEF s
    <2>4. CASE p < Stored
      <3>1. PlaceAfter(k + 1) = p + 1 /\ DigitAfter(k + 1, d) = c
        BY <1>1, <2>4 DEF PlaceAfter, DigitAfter
      <3>2. IntactAfter(k + 1) = IntactAfter(k) /\ MissedAfter(k + 1) = MissedAfter(k)
        BY <1>1, <2>4 DEF PlaceAfter, IntactAfter, MissedAfter
      <3> QED BY <2>3, <2>4, <3>1, <3>2 DEF After, s
    <2>5. CASE ~(p < Stored)
      <3>1. p = Stored /\ place + k = Stored
        BY <1>1, <2>2, <2>5 DEF PlaceAfter
      <3>2. PlaceAfter(k + 1) = 0 /\ IntactAfter(k + 1) = TRUE
        BY <1>1, <3>1 DEF PlaceAfter, IntactAfter
      <3>3. MissedAfter(k + 1) = j
        BY <1>1, <3>1 DEF MissedAfter, IntactAfter
      <3> HIDE DEF j
      <3> QED BY <2>3, <3>1, <3>2, <3>3 DEF After, s
    <2> QED BY <2>4, <2>5
  <1> QED BY <1>3, <1>4

LEMMA NotifyKeepsTopband ==
    ASSUME TopbandInv, NEW n \in 1..MaxPiece, NEW d \in Topband!Digits, Topband!Notify(n, d)
    PROVE  TopbandInv'
  <1> DEFINE piece == Topband!Piece(n, d)
             start == [util |-> util, done |-> FALSE]
             r == Topband!NotificationUpdate(piece)
             T == [k \in 0..n |-> After(k, d)]
  <1>1. /\ Topband!Advance(n, d) /\ util' = r.util
        /\ missed' = IF r.done THEN 0
                     ELSE IF Topband!Crosses(n) /\ intact
                     THEN Topband!Capped(missed + 1) ELSE missed
        /\ intact' = (intact \/ Topband!Crosses(n))
    BY DEF Topband!Notify
  <1>2. /\ place \in Nat /\ place <= Stored /\ n \in Nat /\ n >= 1 /\ n <= Stored + 1
        /\ Stored \in Nat /\ digit \in Topband!Digits /\ intact \in BOOLEAN
        /\ missed \in 0..2
    BY TopbandAssumption DEF TopbandInv, Phase
  <1>3. /\ piece \in Seq(Int) /\ Len(piece) = n
        /\ \A k \in 0..n - 1 : piece[k + 1] = ByteAt(PlaceAfter(k), DigitAfter(k, d))
    BY PieceBytes
  <1>4. r = Taken(start, piece)
    BY DEF Topband!NotificationUpdate, Taken, Topband!FoldLeft, Topband!MapThenFoldSet
  <1> HIDE DEF piece, r
  <1>5. start \in T[0]
    <2>1. /\ PlaceAfter(0) = place /\ DigitAfter(0, d) = digit
          /\ IntactAfter(0) = intact /\ MissedAfter(0) = missed
      BY <1>2 DEF PlaceAfter, DigitAfter, IntactAfter, MissedAfter
    <2>2. start \in After(0, d)
      BY <2>1 DEF After, Taking, TopbandInv
    <2> QED BY <1>2, <2>2
  <1>6. \A k \in 0..n - 1 : \A q \in T[k] : Topband!Byte(q, piece[k + 1]) \in T[k + 1]
    <2> SUFFICES ASSUME NEW k \in 0..n - 1, NEW q \in T[k]
                 PROVE  Topband!Byte(q, piece[k + 1]) \in T[k + 1]
      OBVIOUS
    <2>1. k \in 0..n /\ k + 1 \in 0..n
      BY <1>2
    <2>2. q \in After(k, d)
      BY <2>1
    <2>3. Topband!Byte(q, ByteAt(PlaceAfter(k), DigitAfter(k, d))) \in After(k + 1, d)
      BY <2>2, OneByteMore
    <2> QED BY <1>3, <2>1, <2>3
  <1> HIDE DEF T, start
  <1>7. r \in T[n]
    BY <1>3, <1>4, <1>5, <1>6, FoldSteps
  <1>8. /\ r \in Taking
        /\ r.done => r.util = Topband!Start
        /\ ~r.done => Phase(r.util, PlaceAfter(n), DigitAfter(n, d),
                            IntactAfter(n), MissedAfter(n))
    BY <1>2, <1>7 DEF T, After
  <1>9. /\ place' = PlaceAfter(n) /\ digit' = DigitAfter(n, d)
        /\ intact' = IntactAfter(n)
        /\ place' \in 0..Stored /\ digit' \in Topband!Digits /\ intact' \in BOOLEAN
    BY <1>1, <1>2
    DEF Topband!Advance, Topband!Crosses, PlaceAfter, DigitAfter, IntactAfter
  <1>10. util' \in Machine /\ r.done \in BOOLEAN
    BY <1>1, <1>8 DEF Taking
  <1>11. CASE r.done
    <2>1. util' = Topband!Start /\ missed' = 0
      BY <1>1, <1>8, <1>11
    <2>2. Phase(Topband!Start, place', digit', intact', 0)
      BY StartIsMachine DEF Phase
    <2> QED BY <1>9, <1>10, <2>1, <2>2 DEF TopbandInv
  <1>12. CASE ~r.done
    <2>1. missed' = MissedAfter(n)
      BY <1>1, <1>2, <1>12 DEF Topband!Crosses, Topband!Capped, MissedAfter
    <2> QED BY <1>1, <1>8, <1>9, <1>10, <1>12, <2>1 DEF TopbandInv
  <1> QED BY <1>11, <1>12

LEMMA NextTopband == TopbandInv /\ [Topband!Next]_topband => TopbandInv'
  <1> SUFFICES ASSUME TopbandInv, [Topband!Next]_topband PROVE TopbandInv'
    OBVIOUS
  <1>1. ASSUME NEW n \in 1..MaxPiece, NEW d \in Topband!Digits, Topband!Lose(n, d)
        PROVE  TopbandInv'
    <2>1. /\ Topband!Advance(n, d) /\ util' = util /\ missed' = 0
          /\ intact' = (Topband!Crosses(n) /\ place + n = Stored + 1)
      BY <1>1 DEF Topband!Lose
    <2>2. /\ place' \in 0..Stored /\ digit' \in Topband!Digits /\ intact' \in BOOLEAN
          /\ intact' => place' = 0
      <3>1. /\ place \in Nat /\ place <= Stored /\ n \in Nat /\ n <= Stored + 1
            /\ Stored \in Nat /\ digit \in Topband!Digits
        BY TopbandAssumption DEF TopbandInv
      <3>2. place' \in 0..Stored /\ digit' \in Topband!Digits
        BY <2>1, <3>1 DEF Topband!Advance, Topband!Crosses
      <3>3. intact' \in BOOLEAN
        BY <2>1
      <3>4. intact' => place' = 0
        <4> SUFFICES ASSUME intact' PROVE place' = 0
          OBVIOUS
        <4>1. Topband!Crosses(n) /\ place + n = Stored + 1
          BY <2>1, Zenon
        <4>2. place' = place + n - (Stored + 1)
          BY <2>1, <4>1 DEF Topband!Advance
        <4> QED BY <3>1, <4>1, <4>2
      <3> QED BY <3>2, <3>3, <3>4
    <2>3. Phase(util, place', digit', intact', 0)
      <3>1. Topband!Overrun(util).type # "SOI" => Len(Topband!Overrun(util).buf) >= 1
        BY OverrunIs DEF TopbandInv
      <3> QED BY <2>2, <3>1 DEF Phase
    <2> QED BY <2>1, <2>2, <2>3 DEF TopbandInv
  <1>2. CASE UNCHANGED topband
    BY <1>2 DEF topband, TopbandInv, Phase
  <1> QED BY <1>1, <1>2, NotifyKeepsTopband DEF Topband!Next

LEMMA TopbandImplies == TopbandInv => Topband!TypeOK /\ NeverStarves
  <1> SUFFICES ASSUME TopbandInv PROVE Topband!TypeOK /\ NeverStarves
    OBVIOUS
  <1>1. Len(util.buf) \in 0..Stored + 1
    BY LenProperties, TopbandAssumption DEF TopbandInv, Machine
  <1>2. Topband!TypeOK
    BY <1>1 DEF TopbandInv, Machine, Topband!TypeOK
  <1>3. NeverStarves
    BY DEF TopbandInv, Phase, NeverStarves, Topband!NeverStarves
  <1> QED BY <1>2, <1>3
-----------------------------------------------------------------------------
(* The places of a finite set of numbers in their order: each of the ranks *)
(* has exactly one place.                                                  *)
LEMMA Count ==
    ASSUME NEW S
    PROVE  Framing!Cardinality(S) = Cardinality(S)
  BY DEF Framing!Cardinality, Cardinality

LEMMA Counted1toN ==
    ASSUME NEW N \in Nat, NEW S \in SUBSET (1..N)
    PROVE  IsFiniteSet(S) /\ Cardinality(S) \in Nat
  <1>1. IsFiniteSet(1..N)
    BY FS_Interval
  <1>2. IsFiniteSet(S)
    BY <1>1, FS_Subset
  <1> QED BY <1>2, FS_CardinalityType

Below(S, i) == {j \in S : j < i}

LEMMA RankedIs ==
    ASSUME NEW S, NEW k
    PROVE  Framing!Ranked(S, k) = {i \in S : Cardinality(Below(S, i)) = k - 1}
  BY Count DEF Framing!Ranked, Below

LEMMA EveryRank ==
    ASSUME NEW N \in Nat
    PROVE  \A n \in Nat : \A S \in SUBSET (1..N) :
              Cardinality(S) = n =>
                \A k \in 1..n : \E i \in S : Cardinality(Below(S, i)) = k - 1
  <1> DEFINE G == {n \in Nat : \A S \in SUBSET (1..N) :
                      Cardinality(S) = n =>
                        \A k \in 1..n : \E i \in S : Cardinality(Below(S, i)) = k - 1}
  <1>1. 0 \in G
    OBVIOUS
  <1>2. ASSUME NEW n \in Nat, n \in G PROVE n + 1 \in G
    <2> SUFFICES ASSUME NEW S \in SUBSET (1..N), Cardinality(S) = n + 1, NEW k \in 1..n + 1
                 PROVE  \E i \in S : Cardinality(Below(S, i)) = k - 1
      OBVIOUS
    <2>1. IsFiniteSet(S)
      BY Counted1toN
    <2>2. PICK m \in S : \A y \in S : m >= y
      <3>1. S # {}
        BY FS_EmptySet
      <3>2. S \subseteq 0..N
        OBVIOUS
      <3> QED BY <3>1, <3>2, GreatestNumber
    <2> DEFINE T == S \ {m}
    <2>3. T \in SUBSET (1..N) /\ Cardinality(T) = n
      BY <2>1, FS_RemoveElement
    <2>4. \A y \in T : y < m
      BY <2>2
    <2>5. CASE k = n + 1
      <3>1. Below(S, m) = T
        <4>1. ~(m < m)
          OBVIOUS
        <4>2. \A y \in S : y < m <=> y # m
          BY <2>4, <4>1
        <4> QED BY <4>2 DEF Below
      <3> QED BY <2>3, <2>5, <3>1
    <2>6. CASE k # n + 1
      <3>1. k \in 1..n
        BY <2>6
      <3>2. PICK i \in T : Cardinality(Below(T, i)) = k - 1
        BY <1>2, <2>3, <3>1
      <3>3. Below(S, i) = Below(T, i)
        BY <2>2, <2>4 DEF Below
      <3> QED BY <3>2, <3>3
    <2> QED BY <2>5, <2>6
  <1> HIDE DEF G
  <1>3. Nat \subseteq G
    BY <1>1, <1>2, AllNaturals
  <1> QED BY <1>3 DEF G

LEMMA OneOfARank ==
    ASSUME NEW N \in Nat, NEW S \in SUBSET (1..N), NEW i \in S, NEW j \in S,
           Cardinality(Below(S, i)) = Cardinality(Below(S, j))
    PROVE  i = j
  <1>1. ASSUME NEW x \in S, NEW y \in S, x < y,
               Cardinality(Below(S, x)) = Cardinality(Below(S, y))
        PROVE  FALSE
    <2>1. Below(S, x) \in SUBSET Below(S, y) /\ x \in Below(S, y) /\ x \notin Below(S, x)
      <3>1. x \in Nat /\ y \in Nat /\ \A z \in S : z \in Nat
        OBVIOUS
      <3>2. \A z \in S : z < x => z < y
        BY <1>1, <3>1
      <3>3. ~(x < x)
        BY <3>1
      <3> QED BY <1>1, <3>2, <3>3 DEF Below
    <2>2. IsFiniteSet(Below(S, y))
      <3>1. Below(S, y) \in SUBSET (1..N)
        BY DEF Below
      <3> QED BY <3>1, Counted1toN
    <2> QED BY <1>1, <2>1, <2>2, FS_Subset
  <1>2. ~(i < j) /\ ~(j < i)
    BY <1>1
  <1> QED BY <1>2

LEMMA InOrderIs ==
    ASSUME NEW N \in Nat, NEW S \in SUBSET (1..N), NEW k \in 1..Cardinality(S)
    PROVE  /\ k \in 1..Framing!Cardinality(S)
           /\ Framing!InOrder(S)[k] \in S
           /\ \A i \in S : Cardinality(Below(S, i)) = k - 1 => Framing!InOrder(S)[k] = i
  <1> DEFINE x == CHOOSE i \in Framing!Ranked(S, k) : TRUE
  <1>1. k \in 1..Framing!Cardinality(S)
    BY Count
  <1>2. Framing!InOrder(S)[k] = x
    BY <1>1 DEF Framing!InOrder
  <1>3. Framing!Ranked(S, k) # {}
    <2>1. Cardinality(S) \in Nat
      BY Counted1toN
    <2>2. \E i \in S : Cardinality(Below(S, i)) = k - 1
      BY <2>1, EveryRank
    <2> QED BY <2>2, RankedIs
  <1>4. x \in Framing!Ranked(S, k)
    BY <1>3
  <1> HIDE DEF x
  <1>5. x \in S /\ Cardinality(Below(S, x)) = k - 1
    BY <1>4, RankedIs
  <1> QED BY <1>1, <1>2, <1>5, OneOfARank

Moved(off, S) == {off + i : i \in S}

LEMMA MovedCount ==
    ASSUME NEW off \in Nat, NEW S, IsFiniteSet(S), S \subseteq Nat
    PROVE  IsFiniteSet(Moved(off, S)) /\ Cardinality(Moved(off, S)) = Cardinality(S)
  <1> DEFINE f == [i \in S |-> off + i]
  <1>1. f \in [S -> Moved(off, S)] /\ \A t \in Moved(off, S) : \E i \in S : f[i] = t
    BY DEF Moved
  <1>2. \A a, b \in S : f[a] = f[b] => a = b
    OBVIOUS
  <1>3. f \in Bijection(S, Moved(off, S))
    BY <1>1, <1>2 DEF Bijection, Injection, Surjection, IsInjective
  <1>4. ExistsBijection(S, Moved(off, S))
    BY <1>3 DEF ExistsBijection
  <1> QED BY <1>4, FS_Bijection

(* The order of places of which some come after all others.                *)
Places(n) == SUBSET (1..n)

LEMMA CountJoins ==
    ASSUME NEW N \in Nat, NEW off \in Nat, NEW A \in Places(off), NEW B \in Places(N)
    PROVE  /\ Cardinality(A) \in Nat /\ Cardinality(B) \in Nat
           /\ Cardinality(A \cup Moved(off, B)) = Cardinality(A) + Cardinality(B)
  <1>1. A \in SUBSET (1..off) /\ B \in SUBSET (1..N)
    BY DEF Places
  <1>2. /\ IsFiniteSet(A) /\ Cardinality(A) \in Nat
        /\ IsFiniteSet(B) /\ Cardinality(B) \in Nat /\ B \subseteq Nat
    <2>1. IsFiniteSet(A) /\ Cardinality(A) \in Nat
      BY <1>1, Counted1toN
    <2>2. IsFiniteSet(B) /\ Cardinality(B) \in Nat
      BY <1>1, Counted1toN
    <2>3. B \subseteq Nat
      BY <1>1
    <2> QED BY <2>1, <2>2, <2>3
  <1>3. /\ IsFiniteSet(Moved(off, B)) /\ Cardinality(Moved(off, B)) = Cardinality(B)
    BY <1>2, MovedCount
  <1>4. A \cap Moved(off, B) = {}
    <2>1. /\ \A i \in A : i \in Nat /\ i <= off
          /\ \A i \in B : i \in Nat /\ i >= 1
      BY <1>1
    <2> QED BY <2>1 DEF Moved
  <1>5. Cardinality(A \cap Moved(off, B)) = 0
    BY <1>4, FS_EmptySet
  <1>6. Cardinality(A \cup Moved(off, B)) =
           Cardinality(A) + Cardinality(Moved(off, B)) - Cardinality(A \cap Moved(off, B))
    BY <1>2, <1>3, FS_Union
  <1> QED BY <1>2, <1>3, <1>5, <1>6

LEMMA OrderJoins ==
    ASSUME NEW N \in Nat, NEW off \in Nat, NEW A \in Places(off), NEW B \in Places(N)
    PROVE  /\ \A k \in 1..Cardinality(A) :
                 Framing!InOrder(A \cup Moved(off, B))[k] = Framing!InOrder(A)[k]
           /\ \A k \in 1..Cardinality(B) :
                 Framing!InOrder(A \cup Moved(off, B))[Cardinality(A) + k] =
                    off + Framing!InOrder(B)[k]
  <1>0. A \in SUBSET (1..off) /\ B \in SUBSET (1..N)
    BY DEF Places
  <1> DEFINE U == A \cup Moved(off, B)
             a == Cardinality(A)
             b == Cardinality(B)
  <1>1. IsFiniteSet(A) /\ a \in Nat /\ IsFiniteSet(B) /\ b \in Nat
    BY <1>0, Counted1toN
  <1>2. /\ \A i \in A : i \in Nat /\ i >= 1 /\ i <= off
        /\ \A i \in B : i \in Nat /\ i >= 1 /\ i <= N
    BY <1>0
  <1>3. U \in SUBSET (1..off + N)
    <2>1. \A i \in A : i \in 1..off + N
      BY <1>2
    <2>2. \A i \in B : off + i \in 1..off + N
      BY <1>2
    <2> QED BY <2>1, <2>2 DEF Moved
  <1>4. ASSUME NEW S \in SUBSET B
        PROVE  Cardinality(A \cup Moved(off, S)) = a + Cardinality(S)
    <2>1. S \in Places(N)
      BY <1>0 DEF Places
    <2> QED BY <2>1, CountJoins
  <1>5. Cardinality(U) = a + b
    BY CountJoins
  <1>6. ASSUME NEW i \in A PROVE Below(U, i) = Below(A, i)
    <2>1. \A j \in B : ~(off + j < i)
      BY <1>2
    <2> QED BY <2>1 DEF Below, Moved
  <1>7. ASSUME NEW i \in B PROVE Below(U, off + i) = A \cup Moved(off, Below(B, i))
    <2>1. \A j \in A : j < off + i
      BY <1>2
    <2>2. \A j \in B : off + j < off + i <=> j < i
      BY <1>2
    <2> QED BY <2>1, <2>2 DEF Below, Moved
  <1>8. ASSUME NEW S \in SUBSET (1..off + N), NEW k \in 1..Cardinality(S)
        PROVE  /\ Framing!InOrder(S)[k] \in S
               /\ \A i \in S : Cardinality(Below(S, i)) = k - 1 => Framing!InOrder(S)[k] = i
    <2>1. off + N \in Nat
      OBVIOUS
    <2> QED BY <2>1, InOrderIs, Zenon
  <1> HIDE DEF U, a, b
  <1>9. ASSUME NEW k \in 1..a PROVE Framing!InOrder(U)[k] = Framing!InOrder(A)[k]
    <2>1. PICK i \in A : Cardinality(Below(A, i)) = k - 1
      BY <1>0, <1>1, EveryRank, ZenonT(40) DEF a
    <2>2. Framing!InOrder(A)[k] = i
      BY <1>0, <2>1, InOrderIs DEF a
    <2>3. i \in U /\ Cardinality(Below(U, i)) = k - 1 /\ k \in 1..Cardinality(U)
      <3>1. i \in U
        BY DEF U
      <3> QED BY <1>1, <1>5, <1>6, <2>1, <3>1
    <2> QED BY <1>3, <1>8, <2>2, <2>3
  <1>10. ASSUME NEW k \in 1..b
         PROVE  Framing!InOrder(U)[a + k] = off + Framing!InOrder(B)[k]
    <2>1. PICK i \in B : Cardinality(Below(B, i)) = k - 1
      BY <1>0, <1>1, EveryRank, ZenonT(40) DEF b
    <2>2. Framing!InOrder(B)[k] = i
      BY <1>0, <2>1, InOrderIs DEF b
    <2>3. Below(B, i) \in SUBSET B
      BY DEF Below
    <2>4. Cardinality(Below(U, off + i)) = a + (k - 1)
      BY <1>4, <1>7, <2>1, <2>3
    <2>5. off + i \in U /\ a + k \in 1..Cardinality(U) /\ a + (k - 1) = (a + k) - 1
      <3>1. off + i \in U
        BY DEF U, Moved
      <3> QED BY <1>1, <1>5, <3>1
    <2> QED BY <1>3, <1>8, <2>2, <2>4, <2>5
  <1> QED BY <1>1, <1>3, <1>5, <1>9, <1>10 DEF U, a, b
-----------------------------------------------------------------------------
(* What is buffered is the end of what was received, and no marker stands  *)
(* in it but the first byte.  Of a packet that was dropped either the next *)
(* marker is near, so that it is short, or all other markers are far.      *)
Short(i) == \E j \in Framing!Marks(received) : i < j /\ j < i + MaxChunk

Overlong(i) ==
    /\ BufMax - MaxChunk < Len(received) - i + 1
    /\ \A j \in Framing!Marks(received) : i < j => BufMax - MaxChunk < j - i

FramingInv ==
    /\ stream \in Seq(Framing!Bytes) /\ received \in Seq(Framing!Bytes)
    /\ Len(stream) <= BufMax
    /\ stream = <<>> \/ Framing!Marks(stream) = {1}
    /\ Len(received) <= MaxBytes
    /\ dropped \subseteq Framing!Marks(received)
    /\ Len(stream) <= Len(received)
    /\ \A i \in 1..Len(stream) : stream[i] = received[Len(received) - Len(stream) + i]
    /\ \A i \in dropped : Short(i) \/ Overlong(i)

(* From a place on, a sequence is what stands there.                       *)
LEMMA SuffixIs ==
    ASSUME NEW S, NEW s \in Seq(S), NEW k \in 1..Len(s) + 1
    PROVE  /\ SubSeq(s, k, Len(s)) \in Seq(S)
           /\ Len(SubSeq(s, k, Len(s))) = Len(s) - k + 1
           /\ \A i \in 1..Len(s) - k + 1 : SubSeq(s, k, Len(s))[i] = s[k + i - 1]
  <1>1. Len(s) \in Nat
    BY LenProperties
  <1>2. \A i \in k..Len(s) : s[i] \in S
    <2>1. \A i \in k..Len(s) : i \in 1..Len(s)
      BY <1>1
    <2> QED BY <2>1, ElementOfSeq
  <1> QED BY <1>1, <1>2, SubSeqProperties

LEMMA MarksAre ==
    ASSUME NEW s \in Seq(Framing!Bytes)
    PROVE  /\ Framing!Marks(s) = {i \in 1..Len(s) : s[i] = Framing!Mark}
           /\ Framing!Marks(s) \subseteq 1..Len(s)
  BY LenProperties DEF Framing!Marks

LEMMA LastMark ==
    ASSUME NEW s \in Seq(Framing!Bytes), Framing!Marks(s) # {}
    PROVE  /\ Framing!Max(Framing!Marks(s)) \in Framing!Marks(s)
           /\ \A i \in Framing!Marks(s) : i <= Framing!Max(Framing!Marks(s))
  <1> DEFINE M == Framing!Marks(s)
  <1>1. Len(s) \in Nat /\ M \subseteq 1..Len(s)
    BY LenProperties, MarksAre
  <1> HIDE DEF M
  <1>2. M \subseteq 0..Len(s)
    BY <1>1
  <1>3. M # {}
    BY DEF M
  <1>4. \E x \in M : \A y \in M : x >= y
    BY <1>1, <1>2, <1>3, GreatestNumber
  <1>5. Framing!Max(M) \in M /\ \A y \in M : Framing!Max(M) >= y
    BY <1>4 DEF Framing!Max
  <1>6. \A y \in M : y <= Framing!Max(M)
    BY <1>1, <1>5
  <1> QED BY <1>5, <1>6 DEF M

(* The stream is cut where the last marker begins, if there is one.        *)
LEMMA CutAtIs ==
    ASSUME NEW s \in Seq(Framing!Bytes)
    PROVE  \/ Framing!Marks(s) = {} /\ Framing!CutAt(s) = -1
           \/ /\ Framing!Marks(s) # {}
              /\ Framing!CutAt(s) = Framing!Max(Framing!Marks(s)) - 1
  <1> DEFINE M == Framing!Marks(s)
             C == {i - 1 : i \in M} \cup {-1}
             m == Framing!Max(M)
  <1>1. M \subseteq 1..Len(s) /\ Len(s) \in Nat
    BY LenProperties, MarksAre
  <1>2. Framing!CutAt(s) = Framing!Max(C)
    BY DEF Framing!CutAt
  <1>3. CASE M = {}
    <2>1. C = {-1}
      BY <1>3
    <2> HIDE DEF C
    <2>2. Framing!Max(C) = -1
      BY <2>1 DEF Framing!Max
    <2> QED BY <1>2, <1>3, <2>2
  <1>4. CASE M # {}
    <2>1. m \in M /\ \A i \in M : i <= m
      BY <1>4, LastMark
    <2> HIDE DEF M, m
    <2>2. m \in Nat /\ m >= 1
      BY <1>1, <2>1
    <2>3. m - 1 \in C /\ \A y \in C : m - 1 >= y
      BY <1>1, <2>1, <2>2
    <2>4. C \subseteq Int
      BY <1>1
    <2> HIDE DEF C
    <2>5. Framing!Max(C) \in C /\ \A y \in C : Framing!Max(C) >= y
      BY <2>3 DEF Framing!Max
    <2>6. Framing!Max(C) = m - 1
      <3>1. Framing!Max(C) \in Int /\ Framing!Max(C) >= m - 1 /\ m - 1 >= Framing!Max(C)
        BY <2>3, <2>4, <2>5, Zenon
      <3> QED BY <2>2, <3>1
    <2> QED BY <1>2, <1>4, <2>6 DEF M, m
  <1> QED BY <1>3, <1>4 DEF M

(* What is left of a stream by the bound and by the loop.  At most MaxChunk *)
(* bytes of it are after its last marker, if that is not the first byte.   *)
LEMMA BoundedIs ==
    ASSUME NEW s \in Seq(Framing!Bytes),
           \A i \in Framing!Marks(s) : i = 1 \/ Len(s) - i < MaxChunk
    PROVE  \E k \in 1..Len(s) + 1 :
              /\ Framing!Bounded(s) = SubSeq(s, k, Len(s))
              /\ Len(s) - k + 1 <= BufMax
              /\ k > 1 => /\ Len(s) > BufMax
                          /\ \/ k \in Framing!Marks(s)
                             \/ Framing!Marks(s) \subseteq {1}
  <1>1. /\ Len(s) \in Nat /\ BufMax \in Nat /\ Kept \in 0..BufMax
        /\ MaxChunk \in 0..BufMax
    BY LenProperties, FramingAssumption
  <1>2. CASE Len(s) <= BufMax
    <2>1. Framing!Bounded(s) = s
      BY <1>2 DEF Framing!Bounded
    <2>2. s = SubSeq(s, 1, Len(s))
      <3> DEFINE t == SubSeq(s, 1, Len(s))
      <3>1. t \in Seq(Framing!Bytes) /\ Len(t) = Len(s) /\ \A i \in 1..Len(s) : t[i] = s[i]
        BY <1>1, SuffixIs
      <3> HIDE DEF t
      <3>2. s = t
        BY <3>1, SeqEqual
      <3> QED BY <3>2 DEF t
    <2> QED BY <1>1, <1>2, <2>1, <2>2
  <1>3. CASE Len(s) > BufMax /\ Framing!CutAt(s) > 0
    <2> DEFINE m == Framing!Max(Framing!Marks(s))
    <2>1. Framing!Marks(s) # {} /\ Framing!CutAt(s) = m - 1
      BY <1>3, CutAtIs
    <2>2. m \in Framing!Marks(s) /\ m \in 1..Len(s)
      BY <2>1, LastMark, MarksAre
    <2> HIDE DEF m
    <2>3. m > 1 /\ Framing!CutAt(s) + 1 = m
      BY <1>3, <2>1, <2>2
    <2>4. Framing!Bounded(s) = SubSeq(s, m, Len(s))
      <3>1. ~(Len(s) <= BufMax)
        BY <1>1, <1>3
      <3>2. Framing!Bounded(s) = SubSeq(s, Framing!CutAt(s) + 1, Len(s))
        BY <1>3, <3>1, Zenon DEF Framing!Bounded
      <3> QED BY <2>3, <3>2
    <2>5. Len(s) - m + 1 <= BufMax
      BY <1>1, <2>2, <2>3
    <2> QED BY <1>1, <1>3, <2>2, <2>4, <2>5
  <1>4. CASE Len(s) > BufMax /\ ~(Framing!CutAt(s) > 0)
    <2>1. Framing!Marks(s) \subseteq {1}
      <3>1. ASSUME NEW i \in Framing!Marks(s) PROVE i = 1
        <4> DEFINE m == Framing!Max(Framing!Marks(s))
        <4>1. Framing!CutAt(s) = m - 1
          BY CutAtIs
        <4>2. m \in 1..Len(s) /\ i <= m /\ i \in 1..Len(s)
          BY LastMark, MarksAre
        <4> HIDE DEF m
        <4> QED BY <1>1, <1>4, <4>1, <4>2
      <3> QED BY <3>1
    <2> DEFINE k == Len(s) - Kept + 1
    <2>2. Framing!Bounded(s) = SubSeq(s, k, Len(s))
      BY <1>1, <1>4 DEF Framing!Bounded
    <2>3. k \in 1..Len(s) + 1 /\ Len(s) - k + 1 <= BufMax
      BY <1>1, <1>4
    <2> HIDE DEF k
    <2> QED BY <1>4, <2>1, <2>2, <2>3
  <1> QED BY <1>1, <1>2, <1>3, <1>4

LEMMA RestIs ==
    ASSUME NEW s \in Seq(Framing!Bytes)
    PROVE  \E k \in 1..Len(s) + 1 :
              LET tail == Framing!Rest(s)
              IN /\ tail \in Seq(Framing!Bytes) /\ Len(tail) = Len(s) - k + 1
                 /\ \A i \in 1..Len(tail) : tail[i] = s[k + i - 1]
                 /\ tail = <<>> \/ Framing!Marks(tail) = {1}
                 /\ tail = <<>> => Framing!Marks(s) = {}
  <1>1. Len(s) \in Nat
    BY LenProperties
  <1>2. CASE Framing!Marks(s) = {}
    <2>1. Framing!Rest(s) = <<>>
      BY <1>2 DEF Framing!Rest
    <2>2. Len(s) + 1 \in 1..Len(s) + 1 /\ Len(<<>>) = Len(s) - (Len(s) + 1) + 1
      BY <1>1
    <2>3. <<>> \in Seq(Framing!Bytes) /\ \A i \in 1..Len(<<>>) : <<>>[i] = s[Len(s) + 1 + i - 1]
      OBVIOUS
    <2> QED BY <1>2, <2>1, <2>2, <2>3
  <1>3. CASE Framing!Marks(s) # {}
    <2> DEFINE m == Framing!Max(Framing!Marks(s))
               t == SubSeq(s, m, Len(s))
    <2>1. /\ m \in Framing!Marks(s) /\ m \in 1..Len(s)
          /\ \A i \in Framing!Marks(s) : i <= m
      BY <1>3, LastMark, MarksAre
    <2>2. Framing!Rest(s) = t
      BY <1>3 DEF Framing!Rest
    <2> HIDE DEF m
    <2>3. /\ t \in Seq(Framing!Bytes) /\ Len(t) = Len(s) - m + 1
          /\ \A i \in 1..Len(s) - m + 1 : t[i] = s[m + i - 1]
      BY <1>1, <2>1, SuffixIs
    <2> HIDE DEF t
    <2>4. Framing!Marks(t) = {i \in 1..Len(t) : t[i] = Framing!Mark}
      BY <2>3, MarksAre
    <2>5. Framing!Marks(s) = {i \in 1..Len(s) : s[i] = Framing!Mark}
      BY MarksAre
    <2>6. 1 \in Framing!Marks(t)
      BY <1>1, <2>1, <2>3, <2>4, <2>5
    <2>7. ASSUME NEW i \in Framing!Marks(t) PROVE i = 1
      <3>1. i \in 1..Len(t) /\ t[i] = Framing!Mark /\ t[i] = s[m + i - 1]
        BY <1>1, <2>1, <2>3, <2>4
      <3>2. m + i - 1 \in Framing!Marks(s)
        BY <1>1, <2>1, <2>3, <2>5, <3>1
      <3>3. m + i - 1 <= m
        BY <2>1, <3>2
      <3> QED BY <1>1, <2>1, <3>1, <3>3
    <2>8. Framing!Marks(t) = {1}
      BY <2>6, <2>7
    <2>9. t # <<>>
      <3>1. Len(t) >= 1
        BY <1>1, <2>1, <2>3
      <3> QED BY <3>1
    <2> QED BY <1>1, <2>1, <2>2, <2>3, <2>8, <2>9
  <1> QED BY <1>2, <1>3

LEMMA InitFraming == Framing!Init => FramingInv
  <1> SUFFICES ASSUME Framing!Init PROVE FramingInv
    OBVIOUS
  <1>1. stream = <<>> /\ received = <<>> /\ dropped = {}
    BY DEF Framing!Init
  <1>2. Len(stream) = 0 /\ Len(received) = 0
    BY <1>1
  <1>3. stream \in Seq(Framing!Bytes) /\ received \in Seq(Framing!Bytes)
    BY <1>1
  <1> QED BY <1>1, <1>2, <1>3, FramingAssumption DEF FramingInv

(* What a notification does: s is what is left of the stream, without the  *)
(* `off' bytes before it, when the loop begins.                            *)
Cut(s, off) ==
    LET gap == Len(received) - Len(stream)
        good == Framing!Good(s, Framing!PacketsOf(s))
    IN /\ s \in Seq(Framing!Bytes) /\ off \in Nat /\ gap <= off
       /\ Len(received') = off + Len(s)
       /\ \A i \in 1..Len(s) : s[i] = received'[off + i]
       /\ dropped' = dropped \cup {i \in Framing!Marks(received') : gap < i /\ i <= off}
       /\ stream' = Framing!Rest(s)
       /\ handled' = handled \o Framing!Messages(s, good)
       /\ framesOk' = framesOk + Framing!Cardinality(good)
       /\ framesBad' = framesBad + Framing!Cardinality(Framing!PacketsOf(s))
                        - Framing!Cardinality(good)

(* ... and what was received before stays.                                 *)
Grows ==
    /\ Len(received) <= Len(received')
    /\ \A i \in 1..Len(received) : received'[i] = received[i]

LEMMA StepFraming ==
    ASSUME FramingInv, NEW n \in 1..MaxChunk, NEW data \in [1..n -> Framing!Bytes],
           Len(received) + n <= MaxBytes, Framing!NotificationUpdate(data)
    PROVE  FramingInv' /\ Grows /\ \E s, off : Cut(s, off)
  <1> DEFINE all == stream \o data
             R == received \o data
             s == Framing!Bounded(all)
             gap == Len(received) - Len(stream)
             D == {gap + i : i \in {j \in Framing!Marks(all) : j <= Len(all) - Len(s)}}
  <1>1. stream' = Framing!Rest(s) /\ received' = R /\ dropped' = dropped \cup D
    BY DEF Framing!NotificationUpdate
  <1>2. /\ n \in Nat /\ n >= 1 /\ n <= MaxChunk /\ BufMax \in Nat /\ MaxChunk \in 0..BufMax
        /\ MaxBytes \in Nat
    BY FramingAssumption
  <1>3. /\ stream \in Seq(Framing!Bytes) /\ received \in Seq(Framing!Bytes)
        /\ Len(stream) \in Nat /\ Len(received) \in Nat /\ gap \in Nat
        /\ Len(stream) <= BufMax
        /\ Framing!Marks(stream) \subseteq {1}
    <2>1. Len(stream) \in Nat /\ Len(received) \in Nat
      BY LenProperties DEF FramingInv
    <2>2. Framing!Marks(stream) \subseteq {1}
      <3>1. CASE stream = <<>>
        <4>1. 1..Len(stream) = {}
          BY <3>1
        <4>2. stream \in Seq(Framing!Bytes)
          BY DEF FramingInv
        <4> QED BY <4>1, <4>2, MarksAre
      <3>2. CASE stream # <<>>
        BY <3>2 DEF FramingInv
      <3> QED BY <3>1, <3>2
    <2> QED BY <2>1, <2>2 DEF FramingInv
  <1>4. data \in Seq(Framing!Bytes) /\ Len(data) = n
    BY <1>2, FunctionIsSeq
  <1>5. /\ all \in Seq(Framing!Bytes) /\ Len(all) = Len(stream) + Len(data)
        /\ \A i \in 1..Len(stream) + Len(data) :
              all[i] = IF i <= Len(stream) THEN stream[i] ELSE data[i - Len(stream)]
    BY <1>3, <1>4, ConcatProperties, Zenon
  <1>6. /\ R \in Seq(Framing!Bytes) /\ Len(R) = Len(received) + Len(data)
        /\ \A i \in 1..Len(received) + Len(data) :
              R[i] = IF i <= Len(received) THEN received[i] ELSE data[i - Len(received)]
    BY <1>3, <1>4, ConcatProperties, Zenon
  <1> HIDE DEF all, R, D
  <1>a. /\ Len(all) = Len(stream) + n /\ Len(R) = Len(received) + n
        /\ Len(received) = gap + Len(stream) /\ Len(R) = gap + Len(all)
        /\ gap \in Nat /\ Len(stream) \in Nat /\ Len(received) \in Nat /\ n \in Nat
        /\ Len(all) \in Nat /\ Len(R) \in Nat
        /\ BufMax \in Nat /\ MaxChunk \in Nat
    BY <1>2, <1>3, <1>4, <1>5, <1>6
  <1> HIDE DEF gap
  <1>7. \A i \in 1..Len(all) : all[i] = R[gap + i]
    <2> SUFFICES ASSUME NEW i \in 1..Len(all) PROVE all[i] = R[gap + i]
      OBVIOUS
    <2>1. CASE i <= Len(stream)
      <3>1. all[i] = stream[i] /\ i \in 1..Len(stream)
        BY <1>a, <1>4, <1>5, <2>1
      <3>2. stream[i] = received[gap + i]
        BY <3>1 DEF FramingInv, gap
      <3>3. gap + i \in 1..Len(received) + Len(data) /\ gap + i <= Len(received)
        BY <1>a, <1>4, <3>1
      <3>4. R[gap + i] = received[gap + i]
        BY <1>6, <3>3
      <3> QED BY <3>1, <3>2, <3>4
    <2>2. CASE ~(i <= Len(stream))
      <3>1. all[i] = data[i - Len(stream)]
        BY <1>5, <2>2
      <3> DEFINE q == gap + i
      <3>2. /\ q \in 1..Len(received) + Len(data) /\ ~(q <= Len(received))
            /\ q - Len(received) = i - Len(stream)
        BY <1>a, <1>4, <2>2
      <3> HIDE DEF q
      <3>3. R[q] = data[q - Len(received)]
        BY <1>6, <3>2
      <3> QED BY <3>1, <3>2, <3>3 DEF q
    <2> QED BY <2>1, <2>2
  <1>8. Framing!Marks(all) = {i \in 1..Len(all) : all[i] = Framing!Mark}
    BY <1>5, MarksAre
  <1>9. ASSUME NEW i \in Framing!Marks(all) PROVE i = 1 \/ Len(stream) < i
    <2>1. i \in 1..Len(all) /\ all[i] = Framing!Mark
      BY <1>8
    <2>2. CASE i <= Len(stream)
      <3>1. i \in 1..Len(stream) /\ stream[i] = Framing!Mark
        BY <1>a, <1>4, <1>5, <2>1, <2>2
      <3>2. i \in Framing!Marks(stream)
        BY <1>3, <3>1, MarksAre
      <3> QED BY <1>3, <3>2
    <2> QED BY <1>a, <2>1, <2>2
  <1>10. \A i \in Framing!Marks(all) : i = 1 \/ Len(all) - i < MaxChunk
    BY <1>2, <1>a, <1>8, <1>9
  <1>11. PICK k \in 1..Len(all) + 1 :
            /\ s = SubSeq(all, k, Len(all))
            /\ Len(all) - k + 1 <= BufMax
            /\ k > 1 => /\ Len(all) > BufMax
                        /\ \/ k \in Framing!Marks(all)
                           \/ Framing!Marks(all) \subseteq {1}
    BY <1>5, <1>10, BoundedIs
  <1> HIDE DEF s
  <1>12. /\ s \in Seq(Framing!Bytes) /\ Len(s) = Len(all) - k + 1
         /\ \A i \in 1..Len(s) : s[i] = all[k + i - 1]
    BY <1>5, <1>11, SuffixIs
  <1>13. PICK l \in 1..Len(s) + 1 :
            /\ stream' \in Seq(Framing!Bytes) /\ Len(stream') = Len(s) - l + 1
            /\ \A i \in 1..Len(stream') : stream'[i] = s[l + i - 1]
            /\ stream' = <<>> \/ Framing!Marks(stream') = {1}
    BY <1>1, <1>12, RestIs
  <1>b. /\ k \in Nat /\ k >= 1 /\ l \in Nat /\ l >= 1
        /\ Len(s) \in Nat /\ Len(s) + k = Len(all) + 1 /\ Len(s) <= BufMax
        /\ Len(stream') \in Nat /\ Len(stream') + l = Len(s) + 1
        /\ k > 1 => Len(all) > BufMax
    <2>1. Len(s) = Len(all) - k + 1
      BY <1>12
    <2>2. Len(stream') = Len(s) - l + 1
      BY <1>13
    <2>3. Len(all) - k + 1 <= BufMax /\ (k > 1 => Len(all) > BufMax)
      BY <1>11
    <2>4. k \in 1..Len(all) + 1 /\ l \in 1..Len(s) + 1
      OBVIOUS
    <2> QED BY <1>a, <2>1, <2>2, <2>3, <2>4
  <1>14. Len(stream') <= BufMax /\ Len(stream') <= Len(R) /\ Len(R) <= MaxBytes
    BY <1>a, <1>b
  <1>15. ASSUME NEW i \in 1..Len(stream')
         PROVE  stream'[i] = R[Len(R) - Len(stream') + i]
    <2>1. stream'[i] = s[l + i - 1] /\ l + i - 1 \in 1..Len(s)
      <3>1. l + i - 1 \in 1..Len(s)
        BY <1>b
      <3> QED BY <1>13, <3>1
    <2>2. s[l + i - 1] = all[k + (l + i - 1) - 1]
      BY <1>12, <2>1
    <2>3. k + (l + i - 1) - 1 \in 1..Len(all)
      BY <1>b, <2>1
    <2>4. gap + (k + (l + i - 1) - 1) = Len(R) - Len(stream') + i
      <3>1. i \in Nat
        OBVIOUS
      <3>2. Len(stream') = Len(s) + 1 - l /\ Len(s) = Len(all) + 1 - k
        BY <1>a, <1>b
      <3> QED BY <1>a, <1>b, <3>1, <3>2
    <2> QED BY <1>7, <2>1, <2>2, <2>3, <2>4
  <1>16. Framing!Marks(R) = {i \in 1..Len(R) : R[i] = Framing!Mark}
    BY <1>6, MarksAre
  <1>17. Framing!Marks(received) \subseteq Framing!Marks(R)
    <2> SUFFICES ASSUME NEW i \in Framing!Marks(received) PROVE i \in Framing!Marks(R)
      OBVIOUS
    <2>1. i \in 1..Len(received) /\ received[i] = Framing!Mark
      BY <1>3, MarksAre
    <2>2. i \in 1..Len(R) /\ R[i] = received[i]
      BY <1>a, <1>4, <1>6, <2>1
    <2> QED BY <1>16, <2>1, <2>2
  <1>18. ASSUME NEW j \in Framing!Marks(R), j <= Len(received)
         PROVE  j \in Framing!Marks(received)
    <2>1. j \in 1..Len(received) /\ R[j] = Framing!Mark /\ R[j] = received[j]
      BY <1>a, <1>4, <1>6, <1>16, <1>18
    <2> QED BY <1>3, <2>1, MarksAre
  <1>19. ASSUME NEW j \in Framing!Marks(all)
         PROVE  gap + j \in Framing!Marks(R)
    <2>1. j \in 1..Len(all) /\ all[j] = Framing!Mark /\ all[j] = R[gap + j]
      BY <1>7, <1>8
    <2>2. gap + j \in 1..Len(R)
      BY <1>a, <2>1
    <2> QED BY <1>16, <2>1, <2>2
  <1>20. ASSUME NEW j \in Framing!Marks(R), gap < j
         PROVE  j - gap \in Framing!Marks(all)
    <2>1. j \in 1..Len(R) /\ R[j] = Framing!Mark
      BY <1>16
    <2>2. j - gap \in 1..Len(all) /\ gap + (j - gap) = j
      BY <1>a, <1>20, <2>1
    <2>3. all[j - gap] = R[j]
      BY <1>7, <2>2
    <2> QED BY <1>8, <2>1, <2>2, <2>3
  <1>21. D \subseteq Framing!Marks(R)
    BY <1>19 DEF D
  <1>22. ASSUME NEW i \in dropped PROVE Short(i)' \/ Overlong(i)'
    <2>1. i \in 1..Len(received) /\ i \in Framing!Marks(received)
      BY <1>3, MarksAre DEF FramingInv
    <2>2. CASE Short(i)
      BY <1>1, <1>17, <2>2 DEF Short
    <2>3. CASE Overlong(i)
      <3>1. BufMax - MaxChunk < Len(R) - i + 1
        BY <1>a, <2>1, <2>3 DEF Overlong
      <3>2. ASSUME NEW j \in Framing!Marks(R), i < j PROVE BufMax - MaxChunk < j - i
        <4>1. j \in 1..Len(R)
          BY <1>16
        <4>2. CASE j <= Len(received)
          BY <1>18, <2>3, <3>2, <4>2 DEF Overlong
        <4>3. CASE ~(j <= Len(received))
          BY <1>a, <2>1, <2>3, <4>1, <4>3 DEF Overlong
        <4> QED BY <4>2, <4>3
      <3> QED BY <1>1, <3>1, <3>2 DEF Overlong
    <2> QED BY <2>2, <2>3 DEF FramingInv
  <1>23. ASSUME NEW i \in D PROVE Short(i)' \/ Overlong(i)'
    <2>1. PICK j \in Framing!Marks(all) : j <= Len(all) - Len(s) /\ i = gap + j
      BY DEF D
    <2>2. j \in 1..Len(all) /\ j < k /\ k > 1 /\ Len(all) > BufMax
      BY <1>a, <1>b, <1>8, <2>1, SMTT(30)
    <2>3. CASE j = 1
      <3>1. BufMax - MaxChunk < Len(R) - i + 1
        BY <1>a, <2>1, <2>2, <2>3
      <3>2. ASSUME NEW m \in Framing!Marks(R), i < m PROVE BufMax - MaxChunk < m - i
        <4>a. m \in 1..Len(R) /\ gap < m
          BY <1>a, <1>16, <2>1, <2>2, <3>2
        <4>1. m - gap \in Framing!Marks(all) /\ m - gap \in 1..Len(all) /\ m \in 1..Len(R)
          BY <1>8, <1>20, <4>a
        <4>2. Len(stream) < m - gap
          BY <1>a, <1>9, <2>1, <2>3, <3>2, <4>1
        <4> QED BY <1>2, <1>a, <2>1, <2>2, <2>3, <4>1, <4>2
      <3> QED BY <1>1, <3>1, <3>2 DEF Overlong
    <2>4. CASE j # 1
      <3>1. k \in Framing!Marks(all)
        BY <1>11, <2>1, <2>2, <2>4
      <3>2. gap + k \in Framing!Marks(R)
        BY <1>19, <3>1
      <3>3. k \in 1..Len(all) /\ Len(stream) < j
        BY <1>8, <1>9, <2>1, <2>4, <3>1
      <3>4. i < gap + k /\ gap + k < i + MaxChunk
        BY <1>2, <1>a, <2>1, <2>2, <3>3
      <3> QED BY <1>1, <3>2, <3>4 DEF Short
    <2> QED BY <2>3, <2>4
  <1>24. dropped \subseteq Framing!Marks(received)
    BY DEF FramingInv
  <1>25. \A i \in dropped' : Short(i)' \/ Overlong(i)'
    BY <1>1, <1>22, <1>23
  <1>26. FramingInv'
    BY <1>1, <1>6, <1>13, <1>14, <1>15, <1>17, <1>21, <1>24, <1>25 DEF FramingInv
  <1>27. Grows
    <2>1. Len(received) <= Len(R)
      BY <1>a
    <2>2. \A i \in 1..Len(received) : R[i] = received[i]
      <3>1. \A i \in 1..Len(received) : i \in 1..Len(received) + Len(data) /\ i <= Len(received)
        BY <1>a, <1>4
      <3> QED BY <1>6, <3>1
    <2> QED BY <1>1, <2>1, <2>2 DEF Grows
  <1>28. Cut(s, gap + k - 1)
    <2> DEFINE off == gap + k - 1
               good == Framing!Good(s, Framing!PacketsOf(s))
    <2>1. off \in Nat /\ gap <= off /\ Len(R) = off + Len(s)
      BY <1>a, <1>b, SMTT(30)
    <2>2. ASSUME NEW i \in 1..Len(s) PROVE s[i] = R[off + i]
      <3>1. k + i - 1 \in 1..Len(all) /\ gap + (k + i - 1) = off + i
        BY <1>a, <1>b
      <3> QED BY <1>7, <1>12, <3>1
    <2>3. D = {i \in Framing!Marks(R) : gap < i /\ i <= off}
      <3>1. ASSUME NEW i \in D PROVE i \in Framing!Marks(R) /\ gap < i /\ i <= off
        <4>1. PICK j \in Framing!Marks(all) : j <= Len(all) - Len(s) /\ i = gap + j
          BY DEF D
        <4>2. j \in 1..Len(all)
          BY <1>8
        <4> QED BY <1>a, <1>b, <1>21, <4>1, <4>2, SMTT(30)
      <3>2. ASSUME NEW i \in Framing!Marks(R), gap < i, i <= off PROVE i \in D
        <4>1. i \in 1..Len(R) /\ i - gap \in Framing!Marks(all)
          BY <1>16, <1>20, <3>2
        <4>2. i - gap <= Len(all) - Len(s) /\ i = gap + (i - gap)
          BY <1>a, <1>b, <3>2, <4>1
        <4> QED BY <4>1, <4>2 DEF D
      <3> QED BY <3>1, <3>2
    <2>4. /\ handled' = handled \o Framing!Messages(s, good)
          /\ framesOk' = framesOk + Framing!Cardinality(good)
          /\ framesBad' = framesBad + Framing!Cardinality(Framing!PacketsOf(s))
                           - Framing!Cardinality(good)
      BY DEF Framing!NotificationUpdate, s, all
    <2> HIDE DEF off, good
    <2> QED BY <1>1, <1>12, <2>1, <2>2, <2>3, <2>4 DEF Cut, gap, off, good
  <1> QED BY <1>26, <1>27, <1>28

LEMMA NotifyFraming ==
    ASSUME FramingInv, Framing!Next
    PROVE  FramingInv' /\ Grows /\ \E s, off : Cut(s, off)
  <1>1. PICK n \in 1..MaxChunk : \E data \in [1..n -> Framing!Bytes] :
           Len(received) + n <= MaxBytes /\ Framing!NotificationUpdate(data)
    BY DEF Framing!Next, Framing!Notify
  <1>2. PICK data \in [1..n -> Framing!Bytes] :
           Len(received) + n <= MaxBytes /\ Framing!NotificationUpdate(data)
    BY <1>1
  <1> QED BY <1>2, StepFraming

LEMMA NextFraming == FramingInv /\ [Framing!Next]_framing => FramingInv'
  <1>1. ASSUME FramingInv, UNCHANGED framing PROVE FramingInv'
    <2>1. stream' = stream /\ received' = received /\ dropped' = dropped
      BY <1>1 DEF framing
    <2> QED BY <1>1, <2>1 DEF FramingInv, Short, Overlong
  <1> QED BY <1>1, NotifyFraming

LEMMA FramingImplies == FramingInv => Framing!TypeOK
  BY DEF FramingInv, Framing!TypeOK

LEMMA LeastMark ==
    ASSUME NEW S, S \subseteq Nat, S # {}
    PROVE  Framing!Min(S) \in S /\ \A y \in S : Framing!Min(S) <= y
  BY LeastNatural DEF Framing!Min

(* The padding that ends a packet lies in it.                              *)
LEMMA FrameEndIs ==
    ASSUME NEW p \in Seq(Framing!Bytes)
    PROVE  Framing!FrameEnd(p) \in 0..Len(p)
  <1> DEFINE top == Framing!Min({Len(p), PacketMax})
             pads == {i \in 2..top : p[i] = Framing!Pad}
             late == {i \in pads : i >= EndCap}
  <1>1. Len(p) \in Nat /\ PacketMax \in Nat
    BY LenProperties, FramingAssumption
  <1>2. top \in Nat /\ top <= Len(p)
    <2>1. {Len(p), PacketMax} \subseteq Nat /\ {Len(p), PacketMax} # {}
      BY <1>1
    <2>2. top \in {Len(p), PacketMax} /\ \A y \in {Len(p), PacketMax} : top <= y
      BY <2>1, LeastMark
    <2> QED BY <1>1, <2>2
  <1> HIDE DEF top
  <1>3. pads \subseteq 0..Len(p) /\ late \subseteq pads
    BY <1>1, <1>2
  <1>4. Framing!FrameEnd(p) = IF late # {} THEN Framing!Min(late) ELSE Framing!Max(pads \cup {0})
    BY DEF Framing!FrameEnd, top
  <1> HIDE DEF pads, late
  <1>5. CASE late # {}
    <2>1. Framing!Min(late) \in late
      <3>1. late \subseteq Nat
        BY <1>1, <1>3
      <3> QED BY <1>5, <3>1, LeastMark
    <2> QED BY <1>3, <1>4, <1>5, <2>1
  <1>6. CASE late = {}
    <2>1. pads \cup {0} \subseteq 0..Len(p) /\ pads \cup {0} # {}
      BY <1>1, <1>3
    <2>2. \E x \in pads \cup {0} : \A y \in pads \cup {0} : x >= y
      BY <1>1, <2>1, GreatestNumber
    <2>3. Framing!Max(pads \cup {0}) \in pads \cup {0}
      BY <2>2 DEF Framing!Max
    <2> QED BY <1>4, <1>6, <2>1, <2>3
  <1> QED BY <1>5, <1>6

LEMMA OverlongImplies == FramingInv => Framing!OnlyOverlongDropped
  <1> SUFFICES ASSUME FramingInv, MaxChunk <= MinEnd,
                      NEW i \in dropped \cap Framing!Starts,
                      Framing!Accepted(Framing!PacketAt(received, i))
               PROVE  Len(Framing!PacketAt(received, i)) > BufMax - MaxChunk
    BY DEF Framing!OnlyOverlongDropped
  <1> DEFINE E == Framing!Ends(received, i)
             e == Framing!Min(E)
             p == Framing!PacketAt(received, i)
  <1>1. /\ received \in Seq(Framing!Bytes) /\ Len(received) \in Nat
        /\ BufMax \in Nat /\ MaxChunk \in Nat /\ MinEnd \in Nat
    BY LenProperties, FramingAssumption DEF FramingInv
  <1>2. /\ Framing!Marks(received) \subseteq 1..Len(received)
        /\ i \in 1..Len(received)
    BY <1>1, MarksAre DEF Framing!Starts
  <1>3. E = {j \in Framing!Marks(received) : j > i} /\ E # {}
    BY DEF Framing!Ends, Framing!Starts
  <1> HIDE DEF E
  <1>4. e \in E /\ \A j \in E : e <= j
    <2>1. E \subseteq Nat
      BY <1>2, <1>3
    <2> QED BY <1>3, <2>1, LeastMark
  <1> HIDE DEF e
  <1>5. e \in Framing!Marks(received) /\ e \in 1..Len(received) /\ i < e
    BY <1>2, <1>3, <1>4
  <1>6. p \in Seq(Framing!Bytes) /\ Len(p) = e - i
    <2>1. \A j \in i..e - 1 : received[j] \in Framing!Bytes
      <3>1. \A j \in i..e - 1 : j \in 1..Len(received)
        BY <1>2, <1>5
      <3> QED BY <1>1, <3>1, ElementOfSeq
    <2>2. p = SubSeq(received, i, e - 1)
      BY DEF Framing!PacketAt, e, E
    <2>3. e - 1 \in Int /\ i \in Int
      BY <1>2, <1>5
    <2> HIDE DEF p
    <2>4. /\ p \in Seq(Framing!Bytes)
          /\ Len(p) = IF i <= e - 1 THEN (e - 1) - i + 1 ELSE 0
      BY <2>1, <2>2, <2>3, SubSeqProperties
    <2> QED BY <1>2, <1>5, <2>4
  <1>7. Framing!FrameEnd(p) >= MinEnd
    BY DEF Framing!Accepted
  <1> HIDE DEF p
  <1>8. e - i >= MaxChunk
    <2>1. Framing!FrameEnd(p) \in 0..Len(p)
      BY <1>6, FrameEndIs
    <2> QED BY <1>1, <1>2, <1>5, <1>6, <1>7, <2>1
  <1>9. CASE Short(i)
    <2>1. PICK j \in Framing!Marks(received) : i < j /\ j < i + MaxChunk
      BY <1>9 DEF Short
    <2>2. e <= j
      BY <1>2, <1>3, <1>4, <2>1
    <2> QED BY <1>1, <1>2, <1>5, <1>8, <2>1, <2>2
  <1>10. CASE Overlong(i)
    <2>1. BufMax - MaxChunk < e - i
      BY <1>5, <1>10 DEF Overlong
    <2> QED BY <1>1, <1>2, <1>5, <1>6, <2>1 DEF p
  <1> QED BY <1>9, <1>10 DEF FramingInv
-----------------------------------------------------------------------------
(* Every marker that is no longer buffered began a packet that was taken,  *)
(* or one that was dropped.                                                *)
Gap == Len(received) - Len(stream)

StreamInv ==
    /\ \A i \in Framing!Marks(received) : i <= Gap => i \in Framing!Starts \cup dropped
    /\ \A i \in dropped : i <= Gap
    /\ handled = Framing!Messages(received, Framing!Good(received, Framing!Taken))
    /\ framesOk = Framing!Cardinality(Framing!Good(received, Framing!Taken))
    /\ framesBad = Framing!Cardinality(Framing!Taken)
                   - Framing!Cardinality(Framing!Good(received, Framing!Taken))

LEMMA EndsAre ==
    ASSUME NEW s \in Seq(Framing!Bytes), NEW i
    PROVE  Framing!Ends(s, i) = {j \in Framing!Marks(s) : j > i}
  BY DEF Framing!Ends

LEMMA PacketsAre ==
    ASSUME NEW s \in Seq(Framing!Bytes)
    PROVE  /\ Framing!PacketsOf(s) \in SUBSET (1..Len(s))
           /\ Len(s) \in Nat
           /\ \A i : i \in Framing!PacketsOf(s) <=>
                        i \in Framing!Marks(s) /\ \E j \in Framing!Marks(s) : j > i
  BY LenProperties, MarksAre DEF Framing!PacketsOf, Framing!Ends

(* A packet is the same in a longer sequence.                              *)
LEMMA PacketMoves ==
    ASSUME NEW s \in Seq(Framing!Bytes), NEW t \in Seq(Framing!Bytes), NEW off \in Nat,
           off + Len(s) <= Len(t), \A i \in 1..Len(s) : s[i] = t[off + i],
           NEW i \in Framing!PacketsOf(s)
    PROVE  /\ off + i \in Framing!PacketsOf(t)
           /\ Framing!PacketAt(t, off + i) = Framing!PacketAt(s, i)
           /\ Framing!PacketAt(s, i) \in Seq(Framing!Bytes)
  <1> DEFINE E == Framing!Ends(s, i)
             F == Framing!Ends(t, off + i)
             e == Framing!Min(E)
             f == Framing!Min(F)
  <1>1. /\ Len(s) \in Nat /\ Len(t) \in Nat
        /\ Framing!Marks(s) = {j \in 1..Len(s) : s[j] = Framing!Mark}
        /\ Framing!Marks(t) = {j \in 1..Len(t) : t[j] = Framing!Mark}
    BY LenProperties, MarksAre
  <1>2. /\ i \in Framing!Marks(s) /\ i \in 1..Len(s)
        /\ E = {j \in Framing!Marks(s) : j > i} /\ E # {}
        /\ F = {j \in Framing!Marks(t) : j > off + i}
    BY <1>1, EndsAre DEF Framing!PacketsOf
  <1> HIDE DEF E, F
  <1>3. ASSUME NEW j \in Framing!Marks(s) PROVE off + j \in Framing!Marks(t)
    <2>1. j \in 1..Len(s) /\ s[j] = Framing!Mark
      BY <1>1
    <2>2. off + j \in 1..Len(t) /\ t[off + j] = Framing!Mark
      BY <1>1, <2>1
    <2> QED BY <1>1, <2>2
  <1>4. ASSUME NEW j \in Framing!Marks(t), off < j, j <= off + Len(s)
        PROVE  j - off \in Framing!Marks(s)
    <2>1. j \in 1..Len(t) /\ t[j] = Framing!Mark
      BY <1>1
    <2>2. j - off \in 1..Len(s) /\ off + (j - off) = j
      BY <1>1, <1>4, <2>1
    <2>3. s[j - off] = t[off + (j - off)]
      BY <2>2
    <2> QED BY <1>1, <2>1, <2>2, <2>3
  <1>5. e \in E /\ \A j \in E : e <= j
    <2>1. E \subseteq Nat
      BY <1>1, <1>2
    <2> QED BY <1>2, <2>1, LeastMark
  <1> HIDE DEF e
  <1>6. e \in Framing!Marks(s) /\ e \in 1..Len(s) /\ e > i
    BY <1>1, <1>2, <1>5
  <1>7. off + e \in F
    BY <1>2, <1>3, <1>6
  <1>8. F \subseteq Nat
    BY <1>1, <1>2
  <1>9. f \in F /\ \A j \in F : f <= j
    BY <1>7, <1>8, LeastMark
  <1> HIDE DEF f
  <1>10. f = off + e
    <2>1. f <= off + e /\ f \in Framing!Marks(t) /\ f > off + i /\ f \in Nat
      BY <1>2, <1>7, <1>8, <1>9
    <2>2. f - off \in Framing!Marks(s)
      BY <1>2, <1>4, <1>6, <2>1
    <2>3. f - off \in E
      BY <1>2, <2>1, <2>2
    <2>4. e <= f - off
      BY <1>5, <2>3
    <2> QED BY <1>6, <2>1, <2>4
  <1> DEFINE p == Framing!PacketAt(s, i)
             q == Framing!PacketAt(t, off + i)
  <1>11. p = SubSeq(s, i, e - 1) /\ q = SubSeq(t, off + i, off + e - 1)
    <2>1. p = SubSeq(s, i, e - 1)
      BY DEF Framing!PacketAt, e, E
    <2>2. q = SubSeq(t, off + i, f - 1)
      BY DEF Framing!PacketAt, f, F
    <2>3. f - 1 = off + e - 1
      BY <1>6, <1>10
    <2> QED BY <2>1, <2>2, <2>3, Zenon
  <1> HIDE DEF p, q
  <1>12. /\ p \in Seq(Framing!Bytes) /\ Len(p) = e - i
         /\ \A j \in 1..e - i : p[j] = s[i + j - 1]
    <2>1. \A j \in i..e - 1 : s[j] \in Framing!Bytes
      <3>1. \A j \in i..e - 1 : j \in 1..Len(s)
        BY <1>2, <1>6
      <3> QED BY <3>1, ElementOfSeq
    <2>2. e - 1 \in Int /\ i \in Int
      BY <1>2, <1>6
    <2>3. /\ p \in Seq(Framing!Bytes)
          /\ Len(p) = IF i <= e - 1 THEN (e - 1) - i + 1 ELSE 0
          /\ \A j \in 1..(e - 1) - i + 1 : p[j] = s[i + j - 1]
      BY <1>11, <2>1, <2>2, SubSeqProperties
    <2>4. (e - 1) - i + 1 = e - i /\ i <= e - 1
      BY <1>2, <1>6
    <2> QED BY <2>3, <2>4
  <1>13. /\ q \in Seq(Framing!Bytes) /\ Len(q) = e - i
         /\ \A j \in 1..e - i : q[j] = t[(off + i) + j - 1]
    <2>1. \A j \in off + i..off + e - 1 : t[j] \in Framing!Bytes
      <3>1. \A j \in off + i..off + e - 1 : j \in 1..Len(t)
        BY <1>1, <1>2, <1>6
      <3> QED BY <3>1, ElementOfSeq
    <2>2. off + e - 1 \in Int /\ off + i \in Int
      BY <1>2, <1>6
    <2>3. /\ q \in Seq(Framing!Bytes)
          /\ Len(q) = IF off + i <= off + e - 1 THEN (off + e - 1) - (off + i) + 1 ELSE 0
          /\ \A j \in 1..(off + e - 1) - (off + i) + 1 : q[j] = t[(off + i) + j - 1]
      BY <1>11, <2>1, <2>2, SubSeqProperties
    <2>4. (off + e - 1) - (off + i) + 1 = e - i /\ off + i <= off + e - 1
      BY <1>2, <1>6
    <2> QED BY <2>3, <2>4
  <1>14. \A j \in 1..e - i : p[j] = q[j]
    <2> SUFFICES ASSUME NEW j \in 1..e - i PROVE p[j] = q[j]
      OBVIOUS
    <2>1. i + j - 1 \in 1..Len(s) /\ (off + i) + j - 1 = off + (i + j - 1)
      BY <1>2, <1>6
    <2>2. s[i + j - 1] = t[off + (i + j - 1)]
      BY <2>1
    <2> QED BY <1>12, <1>13, <2>1, <2>2
  <1>15. p = q
    BY <1>12, <1>13, <1>14, SeqEqual
  <1>16. off + i \in Framing!PacketsOf(t)
    <2>1. off + i \in Framing!Marks(t) /\ off + e \in Framing!Marks(t) /\ off + e > off + i
      BY <1>2, <1>3, <1>6
    <2> QED BY <2>1, PacketsAre
  <1> QED BY <1>12, <1>15, <1>16 DEF p, q

(* A marker that is still buffered is the last one received; so what is    *)
(* taken was taken before it.                                              *)
LEMMA LastIsBuffered ==
    ASSUME FramingInv
    PROVE  /\ Gap \in Nat /\ Gap <= Len(received) /\ Len(received) \in Nat
           /\ Framing!Marks(received) = {i \in 1..Len(received) : received[i] = Framing!Mark}
           /\ \A i \in Framing!Marks(received) : i <= Gap \/ i = Gap + 1
           /\ Framing!Starts \in SUBSET (1..Gap)
  <1>1. /\ stream \in Seq(Framing!Bytes) /\ received \in Seq(Framing!Bytes)
        /\ Len(stream) \in Nat /\ Len(received) \in Nat /\ Len(stream) <= Len(received)
    BY LenProperties DEF FramingInv
  <1>2. Gap \in Nat /\ Gap + Len(stream) = Len(received)
    BY <1>1 DEF Gap
  <1>3. Framing!Marks(received) = {i \in 1..Len(received) : received[i] = Framing!Mark}
    BY <1>1, MarksAre
  <1>4. ASSUME NEW i \in Framing!Marks(received), ~(i <= Gap) PROVE i = Gap + 1
    <2>1. /\ i \in 1..Len(received) /\ received[i] = Framing!Mark
          /\ i - Gap \in 1..Len(stream) /\ Gap + (i - Gap) = i
      BY <1>1, <1>2, <1>3, <1>4
    <2>2. stream[i - Gap] = received[Gap + (i - Gap)]
      BY <2>1 DEF FramingInv, Gap
    <2>3. i - Gap \in Framing!Marks(stream)
      BY <1>1, <2>1, <2>2, MarksAre
    <2>4. stream # <<>>
      <3>1. Len(stream) >= 1
        BY <1>1, <2>1
      <3> QED BY <3>1
    <2>5. i - Gap = 1
      BY <2>3, <2>4 DEF FramingInv
    <2> QED BY <1>2, <2>1, <2>5
  <1>5. Framing!Starts \in SUBSET (1..Gap)
    <2>1. ASSUME NEW i \in Framing!Starts PROVE i \in 1..Gap
      <3>1. PICK j \in Framing!Marks(received) : j > i
        BY DEF Framing!Starts
      <3>2. /\ i \in Framing!Marks(received) /\ i \in 1..Len(received)
            /\ j \in 1..Len(received)
        BY <1>3 DEF Framing!Starts
      <3> QED BY <1>1, <1>2, <1>4, <3>1, <3>2
    <2> QED BY <2>1
  <1> QED BY <1>1, <1>2, <1>3, <1>4, <1>5

(* A notification adds the packets of its stream to those that were taken. *)
LEMMA TakenGrows ==
    ASSUME FramingInv, FramingInv', StreamInv, Grows, NEW s, NEW off, Cut(s, off)
    PROVE  /\ Framing!Taken \in SUBSET (1..off)
           /\ Framing!Taken' = Framing!Taken \cup Moved(off, Framing!PacketsOf(s))
           /\ \A i \in Framing!Marks(received') :
                 i <= Gap' => i \in Framing!Starts' \cup dropped'
           /\ \A i \in dropped' : i <= Gap'
  <1> DEFINE M == Framing!Marks(received)
             N == Framing!Marks(received')
  <1>1. /\ s \in Seq(Framing!Bytes) /\ off \in Nat /\ Gap <= off
        /\ Len(received') = off + Len(s)
        /\ \A i \in 1..Len(s) : s[i] = received'[off + i]
        /\ dropped' = dropped \cup {i \in N : Gap < i /\ i <= off}
        /\ stream' = Framing!Rest(s)
    BY DEF Cut, Gap
  <1>2. /\ Gap \in Nat /\ Gap <= Len(received) /\ Len(received) \in Nat
        /\ M = {i \in 1..Len(received) : received[i] = Framing!Mark}
        /\ Framing!Starts \in SUBSET (1..Gap)
    BY LastIsBuffered
  <1>3. /\ received' \in Seq(Framing!Bytes) /\ Len(received') \in Nat /\ Len(s) \in Nat
        /\ N = {i \in 1..Len(received') : received'[i] = Framing!Mark}
    BY <1>1, LenProperties, MarksAre DEF FramingInv
  <1>4. Framing!Starts = {i \in M : \E j \in M : j > i}
    BY DEF Framing!Starts
  <1>5. Framing!Starts' = {i \in N : \E j \in N : j > i}
    BY DEF Framing!Starts, Framing!Marks
  <1>6. /\ Framing!Taken = Framing!Starts \ dropped
        /\ Framing!Taken' = Framing!Starts' \ dropped'
    BY DEF Framing!Taken
  <1>7. \A i \in dropped : i \in Int /\ i <= Gap
    <2>1. dropped \subseteq Int
      BY <1>2 DEF FramingInv
    <2> QED BY <2>1 DEF StreamInv
  <1>8. \A i \in M : i <= Gap => i \in Framing!Starts \cup dropped
    BY DEF StreamInv
  <1>9. M \subseteq N
    BY <1>2, <1>3 DEF Grows
  <1>10. \A i \in N : i <= Gap => i \in M
    BY <1>2, <1>3 DEF Grows
  <1>11. ASSUME NEW i \in N, off < i
         PROVE  i - off \in Framing!Marks(s) /\ off + (i - off) = i
    <2>1. i \in 1..Len(received') /\ received'[i] = Framing!Mark
      BY <1>3
    <2>2. i - off \in 1..Len(s) /\ off + (i - off) = i
      BY <1>1, <1>3, <1>11, <2>1
    <2>3. s[i - off] = received'[off + (i - off)]
      BY <1>1, <2>2
    <2> QED BY <1>1, <2>1, <2>2, <2>3, MarksAre
  <1>12. ASSUME NEW i \in Framing!Marks(s) PROVE off + i \in N /\ i \in 1..Len(s)
    <2>1. i \in 1..Len(s) /\ s[i] = Framing!Mark
      BY <1>1, MarksAre
    <2>2. off + i \in 1..Len(received') /\ received'[off + i] = Framing!Mark
      BY <1>1, <1>3, <2>1
    <2> QED BY <1>3, <2>1, <2>2
  <1> HIDE DEF M, N
  <1>13. Framing!Taken \in SUBSET (1..off)
    <2>1. 1..Gap \subseteq 1..off
      BY <1>1, <1>2
    <2> QED BY <1>2, <1>6, <2>1, Zenon
  <1>14. Framing!Starts \subseteq Framing!Starts'
    BY <1>4, <1>5, <1>9
  <1>15. ASSUME NEW i \in Framing!Taken'
         PROVE  i \in Framing!Taken \cup Moved(off, Framing!PacketsOf(s))
    <2>1. i \in N /\ i \notin dropped' /\ i \in 1..Len(received')
      BY <1>3, <1>5, <1>6 DEF N
    <2>2. PICK j \in N : j > i
      BY <1>5, <1>6
    <2>3. CASE off < i
      <3>1. j \in 1..Len(received')
        BY <1>3 DEF N
      <3>2. off < j /\ j - off > i - off
        BY <1>1, <1>3, <2>1, <2>2, <2>3, <3>1
      <3>3. /\ i - off \in Framing!Marks(s) /\ off + (i - off) = i
            /\ j - off \in Framing!Marks(s)
        BY <1>11, <2>1, <2>3, <3>2
      <3>4. i - off \in Framing!PacketsOf(s)
        BY <1>1, <3>2, <3>3, PacketsAre
      <3> QED BY <3>3, <3>4 DEF Moved
    <2>4. CASE ~(off < i)
      <3>1. i <= Gap
        <4>1. ~(Gap < i /\ i <= off)
          BY <1>1, <2>1
        <4> QED BY <1>1, <1>2, <1>3, <2>1, <2>4, <4>1
      <3>2. i \in Framing!Starts \cup dropped
        BY <1>8, <1>10, <2>1, <3>1
      <3> QED BY <1>1, <1>6, <2>1, <3>2
    <2> QED BY <2>3, <2>4
  <1>16. ASSUME NEW i \in Framing!Taken PROVE i \in Framing!Taken'
    <2>1. i \in 1..Gap /\ i \in Framing!Starts' /\ i \notin dropped
      BY <1>2, <1>6, <1>14
    <2>2. ~(Gap < i)
      BY <1>2, <2>1
    <2> QED BY <1>1, <1>6, <2>1, <2>2
  <1>17. ASSUME NEW i \in Framing!PacketsOf(s) PROVE off + i \in Framing!Taken'
    <2>1. i \in Framing!Marks(s) /\ \E j \in Framing!Marks(s) : j > i
      BY <1>1, PacketsAre
    <2>2. PICK j \in Framing!Marks(s) : j > i
      BY <2>1
    <2>3. off + i \in N /\ off + j \in N /\ i \in 1..Len(s) /\ j \in 1..Len(s)
      BY <1>12, <2>1
    <2>4. off + j > off + i /\ ~(off + i <= off) /\ ~(off + i <= Gap)
      BY <1>1, <1>2, <1>3, <2>2, <2>3
    <2>5. off + i \notin dropped'
      BY <1>1, <1>7, <2>4
    <2> QED BY <1>5, <1>6, <2>3, <2>4, <2>5
  <1>18. Framing!Taken' = Framing!Taken \cup Moved(off, Framing!PacketsOf(s))
    BY <1>15, <1>16, <1>17 DEF Moved
  <1>19. PICK k \in 1..Len(s) + 1 :
            /\ stream' \in Seq(Framing!Bytes) /\ Len(stream') = Len(s) - k + 1
            /\ \A i \in 1..Len(stream') : stream'[i] = s[k + i - 1]
            /\ stream' = <<>> \/ Framing!Marks(stream') = {1}
            /\ stream' = <<>> => Framing!Marks(s) = {}
    BY <1>1, RestIs
  <1>20. Gap' = off + k - 1 /\ k \in Nat /\ k >= 1 /\ off <= Gap' /\ Gap' \in Nat
    <2>1. Gap' = Len(received') - Len(stream')
      BY DEF Gap
    <2>2. Len(stream') = Len(s) - k + 1
      BY <1>19
    <2> QED BY <1>1, <1>3, <2>1, <2>2
  <1>21. ASSUME NEW i \in N, i <= Gap' PROVE i \in Framing!Starts' \cup dropped'
    <2>1. i \in Nat /\ i \in 1..Len(received')
      BY <1>3 DEF N
    <2>2. CASE i <= Gap
      BY <1>1, <1>8, <1>10, <1>14, <2>2
    <2>3. CASE Gap < i /\ i <= off
      BY <1>1, <2>3 DEF N
    <2>4. CASE off < i
      <3>1. i - off \in Framing!Marks(s)
        BY <1>11, <2>4
      <3>2. stream' # <<>> /\ Framing!Marks(stream') = {1}
        BY <1>19, <3>1
      <3>3. Len(stream') \in Nat /\ 1 \in 1..Len(stream') /\ stream'[1] = Framing!Mark
        BY <1>19, <3>2, MarksAre, LenProperties
      <3>4. stream'[1] = s[k + 1 - 1] /\ k + 1 - 1 = k
        BY <1>19, <1>20, <3>3
      <3>5. Len(stream') = Len(s) - k + 1 /\ Len(stream') >= 1
        BY <1>19, <3>3
      <3>6. k \in 1..Len(s) /\ s[k] = Framing!Mark
        BY <1>3, <1>20, <3>3, <3>4, <3>5
      <3>7. off + k \in N
        BY <1>1, <1>12, <3>6, MarksAre
      <3>8. off + k > i
        BY <1>1, <1>20, <1>21, <2>1
      <3> QED BY <1>5, <3>7, <3>8
    <2> QED BY <1>1, <1>2, <2>1, <2>2, <2>3, <2>4
  <1>22. \A i \in dropped' : i <= Gap'
    <2>1. ASSUME NEW i \in dropped PROVE i <= Gap'
      BY <1>1, <1>2, <1>7, <1>20
    <2>2. ASSUME NEW i \in N, i <= off PROVE i <= Gap'
      <3>1. i \in Nat
        BY <1>3 DEF N
      <3> QED BY <1>1, <1>20, <2>2, <3>1
    <2> QED BY <1>1, <2>1, <2>2 DEF N
  <1> QED BY <1>13, <1>18, <1>21, <1>22 DEF N

(* A good packet is good wherever the stream is cut.                       *)
LEMMA GoodGrows ==
    ASSUME FramingInv, FramingInv', StreamInv, Grows, NEW s, NEW off, Cut(s, off)
    PROVE  /\ Framing!Good(received, Framing!Taken)' =
                 Framing!Good(received, Framing!Taken)
                    \cup Moved(off, Framing!Good(s, Framing!PacketsOf(s)))
           /\ \A i \in Framing!Taken :
                 Framing!PacketAt(received', i) = Framing!PacketAt(received, i)
           /\ \A i \in Framing!PacketsOf(s) :
                 Framing!PacketAt(received', off + i) = Framing!PacketAt(s, i)
  <1>1. /\ s \in Seq(Framing!Bytes) /\ off \in Nat /\ Len(received') = off + Len(s)
        /\ \A i \in 1..Len(s) : s[i] = received'[off + i]
        /\ received' \in Seq(Framing!Bytes) /\ received \in Seq(Framing!Bytes)
        /\ Len(s) \in Nat /\ Len(received) \in Nat /\ Len(received) <= Len(received')
    <2>1. s \in Seq(Framing!Bytes) /\ received \in Seq(Framing!Bytes)
      BY DEF Cut, FramingInv
    <2> QED BY <2>1, LenProperties DEF Cut, FramingInv, Grows
  <1>2. Framing!Taken' = Framing!Taken \cup Moved(off, Framing!PacketsOf(s))
    BY TakenGrows
  <1>3. ASSUME NEW i \in Framing!Taken
        PROVE  Framing!PacketAt(received', i) = Framing!PacketAt(received, i)
    <2>1. i \in Framing!PacketsOf(received) /\ i \in Nat
      <3>1. i \in Framing!PacketsOf(received)
        BY <1>1, PacketsAre DEF Framing!Taken, Framing!Starts
      <3> QED BY <1>1, <3>1, PacketsAre
    <2>2. 0 + Len(received) <= Len(received') /\ 0 + i = i /\ 0 \in Nat
      BY <1>1, <2>1
    <2>3. \A j \in 1..Len(received) : received[j] = received'[0 + j]
      <3>1. \A j \in 1..Len(received) : 0 + j = j
        BY <1>1
      <3> QED BY <3>1 DEF Grows
    <2>4. Framing!PacketAt(received', 0 + i) = Framing!PacketAt(received, i)
      BY <1>1, <2>1, <2>2, <2>3, PacketMoves, ZenonT(40)
    <2> QED BY <2>2, <2>4
  <1>4. ASSUME NEW i \in Framing!PacketsOf(s)
        PROVE  Framing!PacketAt(received', off + i) = Framing!PacketAt(s, i)
    <2>1. off + Len(s) <= Len(received')
      BY <1>1
    <2> QED BY <1>1, <2>1, PacketMoves, SMTT(30)
  <1>5. /\ Framing!Good(received, Framing!Taken) =
              {i \in Framing!Taken : Framing!Accepted(Framing!PacketAt(received, i))}
        /\ Framing!Good(s, Framing!PacketsOf(s)) =
              {i \in Framing!PacketsOf(s) : Framing!Accepted(Framing!PacketAt(s, i))}
        /\ Framing!Good(received, Framing!Taken)' =
              {i \in Framing!Taken' : Framing!Accepted(Framing!PacketAt(received', i))}
    BY DEF Framing!Good
  <1>6. Framing!Good(received, Framing!Taken)' =
           Framing!Good(received, Framing!Taken)
              \cup Moved(off, Framing!Good(s, Framing!PacketsOf(s)))
    <2>1. ASSUME NEW i \in Framing!Taken'
          PROVE  \/ i \in Framing!Taken
                 \/ \E k \in Framing!PacketsOf(s) : i = off + k
      BY <1>2 DEF Moved
    <2>2. ASSUME NEW i \in Framing!Good(received, Framing!Taken)'
          PROVE  i \in Framing!Good(received, Framing!Taken)
                      \cup Moved(off, Framing!Good(s, Framing!PacketsOf(s)))
      <3>1. i \in Framing!Taken' /\ Framing!Accepted(Framing!PacketAt(received', i))
        BY <1>5, <2>2
      <3>2. CASE i \in Framing!Taken
        BY <1>3, <1>5, <3>1, <3>2
      <3>3. ASSUME NEW k \in Framing!PacketsOf(s), i = off + k
            PROVE  k \in Framing!Good(s, Framing!PacketsOf(s))
        BY <1>4, <1>5, <3>1, <3>3
      <3> QED BY <2>1, <3>1, <3>2, <3>3, Zenon DEF Moved
    <2>3. ASSUME NEW i \in Framing!Good(received, Framing!Taken)
          PROVE  i \in Framing!Good(received, Framing!Taken)'
      BY <1>2, <1>3, <1>5, Zenon
    <2>4. ASSUME NEW k \in Framing!Good(s, Framing!PacketsOf(s))
          PROVE  off + k \in Framing!Good(received, Framing!Taken)'
      BY <1>2, <1>4, <1>5, Zenon DEF Moved
    <2> QED BY <2>2, <2>3, <2>4, Zenon DEF Moved
  <1> QED BY <1>3, <1>4, <1>6

SamePackets(r, t, A) == \A i \in A : Framing!PacketAt(r, i) = Framing!PacketAt(t, i)

MovedPackets(r, off, s, B) ==
    \A i \in B : Framing!PacketAt(r, off + i) = Framing!PacketAt(s, i)

Joined(r, t, A, off, s, B) ==
    Framing!Messages(r, A \cup Moved(off, B)) = Framing!Messages(t, A) \o Framing!Messages(s, B)

(* The messages of places of which some come after all others are those of *)
(* the first places, followed by those of the others.                      *)
LEMMA MessagesJoin ==
    ASSUME NEW N \in Nat, NEW off \in Nat, NEW A \in Places(off), NEW B \in Places(N),
           NEW r, NEW t, NEW s,
           SamePackets(r, t, A), MovedPackets(r, off, s, B)
    PROVE  Joined(r, t, A, off, s, B)
  <1> DEFINE U == A \cup Moved(off, B)
             a == Cardinality(A)
             b == Cardinality(B)
             f == Framing!Messages(t, A)
             g == Framing!Messages(s, B)
             h == Framing!Messages(r, U)
             T == {f[k] : k \in 1..a} \cup {g[k] : k \in 1..b} \cup {h[k] : k \in 1..a + b}
  <1>1. /\ a \in Nat /\ b \in Nat
        /\ Cardinality(U) = a + b
        /\ \A k \in 1..a : Framing!InOrder(U)[k] = Framing!InOrder(A)[k]
        /\ \A k \in 1..b : Framing!InOrder(U)[a + k] = off + Framing!InOrder(B)[k]
    <2>1. a \in Nat /\ b \in Nat /\ Cardinality(U) = a + b
      BY CountJoins
    <2>2. /\ \A k \in 1..a : Framing!InOrder(U)[k] = Framing!InOrder(A)[k]
          /\ \A k \in 1..b : Framing!InOrder(U)[a + k] = off + Framing!InOrder(B)[k]
      BY OrderJoins
    <2> QED BY <2>1, <2>2
  <1>2. \A k \in 1..a : Framing!InOrder(A)[k] \in A
    BY InOrderIs DEF Places
  <1>3. \A k \in 1..b : Framing!InOrder(B)[k] \in B
    BY InOrderIs DEF Places
  <1>4. f = [k \in 1..a |-> Framing!Message(Framing!PacketAt(t, Framing!InOrder(A)[k]))]
    BY Count DEF Framing!Messages
  <1>5. g = [k \in 1..b |-> Framing!Message(Framing!PacketAt(s, Framing!InOrder(B)[k]))]
    BY Count DEF Framing!Messages
  <1>6. h = [k \in 1..a + b |-> Framing!Message(Framing!PacketAt(r, Framing!InOrder(U)[k]))]
    BY <1>1, Count DEF Framing!Messages
  <1> HIDE DEF U, a, b, f, g, h
  <1>7. f \in [1..a -> T] /\ g \in [1..b -> T] /\ h \in [1..a + b -> T]
    BY <1>4, <1>5, <1>6
  <1> HIDE DEF T
  <1>8. /\ f \in Seq(T) /\ Len(f) = a /\ g \in Seq(T) /\ Len(g) = b
        /\ h \in Seq(T) /\ Len(h) = a + b
    <2>1. a + b \in Nat
      BY <1>1
    <2> QED BY <1>1, <1>7, <2>1, FunctionIsSeq
  <1> DEFINE c == f \o g
  <1>9. /\ c \in Seq(T) /\ Len(c) = Len(f) + Len(g)
        /\ \A k \in 1..Len(f) + Len(g) :
              c[k] = IF k <= Len(f) THEN f[k] ELSE g[k - Len(f)]
    BY <1>8, ConcatProperties, Zenon
  <1> HIDE DEF c
  <1>10. ASSUME NEW k \in 1..a + b PROVE h[k] = c[k]
    <2>1. CASE k <= a
      <3>1. k \in 1..a
        BY <1>1, <2>1
      <3>2. c[k] = f[k]
        BY <1>8, <1>9, <2>1
      <3>3. Framing!InOrder(U)[k] = Framing!InOrder(A)[k] /\ Framing!InOrder(A)[k] \in A
        BY <1>1, <1>2, <3>1
      <3>4. /\ h[k] = Framing!Message(Framing!PacketAt(r, Framing!InOrder(A)[k]))
            /\ f[k] = Framing!Message(Framing!PacketAt(t, Framing!InOrder(A)[k]))
        BY <1>4, <1>6, <3>1, <3>3
      <3> QED BY <3>2, <3>3, <3>4 DEF SamePackets
    <2>2. CASE ~(k <= a)
      <3>1. k - a \in 1..b /\ a + (k - a) = k
        BY <1>1, <2>2
      <3>2. c[k] = g[k - a]
        BY <1>8, <1>9, <2>2
      <3> DEFINE l == k - a
                 i == Framing!InOrder(B)[l]
      <3>3. l \in 1..b /\ a + l = k /\ i \in B
        BY <1>3, <3>1
      <3>4. Framing!InOrder(U)[k] = off + i
        BY <1>1, <3>3
      <3>5. g[l] = Framing!Message(Framing!PacketAt(s, i))
        BY <1>5, <3>3
      <3> HIDE DEF l, i
      <3>6. h[k] = Framing!Message(Framing!PacketAt(r, off + i))
        BY <1>6, <3>4
      <3> QED BY <3>2, <3>3, <3>5, <3>6 DEF l, MovedPackets
    <2> QED BY <2>1, <2>2
  <1>11. h = c
    BY <1>8, <1>9, <1>10, SeqEqual
  <1> QED BY <1>11 DEF Joined, h, c, f, g, U

LEMMA InitStream == Framing!Init => StreamInv
  <1> SUFFICES ASSUME Framing!Init PROVE StreamInv
    OBVIOUS
  <1>1. /\ stream = <<>> /\ received = <<>> /\ dropped = {} /\ handled = <<>>
        /\ framesOk = 0 /\ framesBad = 0
    BY DEF Framing!Init
  <1>2. Framing!Marks(received) = {}
    <2>1. <<>> \in Seq(Framing!Bytes) /\ 1..Len(<<>>) = {}
      OBVIOUS
    <2> QED BY <1>1, <2>1, MarksAre
  <1>3. Framing!Taken = {} /\ Framing!Good(received, Framing!Taken) = {}
    BY <1>2 DEF Framing!Taken, Framing!Starts, Framing!Good
  <1>4. Framing!Cardinality({}) = 0
    BY Count, FS_EmptySet
  <1>5. Framing!Messages(received, {}) = <<>>
    <2> DEFINE f == Framing!Messages(received, {})
    <2>1. f = [k \in {} |-> Framing!Message(Framing!PacketAt(received, Framing!InOrder({})[k]))]
      <3>1. 1..0 = {}
        OBVIOUS
      <3> QED BY <1>4, <3>1 DEF Framing!Messages
    <2> HIDE DEF f
    <2>2. f \in [1..0 -> {}]
      BY <2>1
    <2>3. f \in Seq({}) /\ Len(f) = 0
      BY <2>2, FunctionIsSeq
    <2>4. f = <<>>
      BY <2>3, EmptySeq
    <2> QED BY <2>4 DEF f
  <1>6. /\ framesOk = Framing!Cardinality({})
        /\ framesBad = Framing!Cardinality({}) - Framing!Cardinality({})
    BY <1>1, <1>4
  <1>7. handled = Framing!Messages(received, {})
    BY <1>1, <1>5
  <1>8. \A i \in dropped : i <= Gap
    BY <1>1
  <1> QED BY <1>2, <1>3, <1>6, <1>7, <1>8 DEF StreamInv

LEMMA StepStream ==
    ASSUME FramingInv, FramingInv', StreamInv, Grows, NEW s, NEW off, Cut(s, off)
    PROVE  StreamInv'
  <1> DEFINE P == Framing!PacketsOf(s)
             B == Framing!Good(s, P)
             T == Framing!Taken
             A == Framing!Good(received, T)
             n == Len(s)
  <1>1. s \in Seq(Framing!Bytes) /\ off \in Nat /\ n \in Nat
    BY LenProperties DEF Cut
  <1>2. /\ handled' = handled \o Framing!Messages(s, B)
        /\ framesOk' = framesOk + Framing!Cardinality(B)
        /\ framesBad' = framesBad + Framing!Cardinality(P) - Framing!Cardinality(B)
    BY DEF Cut
  <1>3. P \in SUBSET (1..n) /\ B \in SUBSET (1..n) /\ B \subseteq P
    BY <1>1, PacketsAre DEF Framing!Good
  <1>4. /\ T \in SUBSET (1..off) /\ A \in SUBSET (1..off)
        /\ T' = T \cup Moved(off, P)
        /\ \A i \in Framing!Marks(received') :
              i <= Gap' => i \in Framing!Starts' \cup dropped'
        /\ \A i \in dropped' : i <= Gap'
    BY TakenGrows DEF Framing!Good
  <1>5. /\ A' = A \cup Moved(off, B)
        /\ \A i \in T : Framing!PacketAt(received', i) = Framing!PacketAt(received, i)
        /\ \A i \in P : Framing!PacketAt(received', off + i) = Framing!PacketAt(s, i)
    BY GoodGrows
  <1>6. /\ handled = Framing!Messages(received, A)
        /\ framesOk = Framing!Cardinality(A)
        /\ framesBad = Framing!Cardinality(T) - Framing!Cardinality(A)
    BY DEF StreamInv
  <1>7. A \subseteq T
    BY DEF Framing!Good
  <1>8. Framing!Messages(received, A)' = Framing!Messages(received', A')
    BY DEF Framing!Messages
  <1>p. /\ T \in Places(off) /\ A \in Places(off) /\ P \in Places(n) /\ B \in Places(n)
    BY <1>3, <1>4 DEF Places
  <1> HIDE DEF P, B, T, A, n
  <1>9. handled' = Framing!Messages(received', A')
    <2>1. SamePackets(received', received, A) /\ MovedPackets(received', off, s, B)
      BY <1>3, <1>5, <1>7 DEF SamePackets, MovedPackets
    <2>2. Framing!Messages(received', A \cup Moved(off, B)) =
             Framing!Messages(received, A) \o Framing!Messages(s, B)
      <3>1. Joined(received', received, A, off, s, B)
        BY <1>1, <1>p, <2>1, MessagesJoin
      <3> QED BY <3>1 DEF Joined
    <2> QED BY <1>2, <1>5, <1>6, <2>2
  <1>10. /\ Cardinality(A) \in Nat /\ Cardinality(B) \in Nat
         /\ Cardinality(A') = Cardinality(A) + Cardinality(B)
    BY <1>1, <1>5, <1>p, CountJoins
  <1>11. /\ Cardinality(T) \in Nat /\ Cardinality(P) \in Nat
         /\ Cardinality(T') = Cardinality(T) + Cardinality(P)
    BY <1>1, <1>4, <1>p, CountJoins
  <1>12. framesOk' = Framing!Cardinality(A')
    BY <1>2, <1>6, <1>10, Count
  <1>13. framesBad' = Framing!Cardinality(T') - Framing!Cardinality(A')
    BY <1>2, <1>6, <1>10, <1>11, Count
  <1> QED BY <1>4, <1>8, <1>9, <1>12, <1>13 DEF StreamInv, A, T

LEMMA NextStream == FramingInv /\ StreamInv /\ [Framing!Next]_framing => StreamInv'
  <1>1. ASSUME FramingInv, StreamInv, UNCHANGED framing PROVE StreamInv'
    <2>1. /\ stream' = stream /\ received' = received /\ dropped' = dropped
          /\ handled' = handled /\ framesOk' = framesOk /\ framesBad' = framesBad
      BY <1>1 DEF framing
    <2>2. Framing!Starts' = Framing!Starts /\ Framing!Taken' = Framing!Taken /\ Gap' = Gap
      BY <2>1 DEF Framing!Starts, Framing!Taken, Gap
    <2> QED BY <1>1, <2>1, <2>2 DEF StreamInv
  <1>2. ASSUME FramingInv, StreamInv, Framing!Next PROVE StreamInv'
    <2>1. FramingInv' /\ Grows /\ \E s, off : Cut(s, off)
      BY <1>2, NotifyFraming
    <2> QED BY <1>2, <2>1, StepStream
  <1> QED BY <1>1, <1>2

LEMMA StreamImplies == FramingInv /\ StreamInv => Framing!CuttingIsIrrelevant
  <1> SUFFICES ASSUME FramingInv, StreamInv PROVE Framing!CuttingIsIrrelevant
    OBVIOUS
  <1> DEFINE T == Framing!Taken
             A == Framing!Good(received, T)
  <1>1. /\ handled = Framing!Messages(received, A)
        /\ framesOk = Framing!Cardinality(A)
        /\ framesBad = Framing!Cardinality(T) - Framing!Cardinality(A)
    BY DEF StreamInv
  <1>2. Gap \in Nat /\ T \in SUBSET (1..Gap) /\ A \in SUBSET (1..Gap)
    BY LastIsBuffered DEF Framing!Taken, Framing!Good
  <1> HIDE DEF T, A
  <1>3. Cardinality(A) \in Nat /\ Cardinality(T) \in Nat
    BY <1>2, Counted1toN, Zenon
  <1>4. framesOk + framesBad = Framing!Cardinality(T)
    BY <1>1, <1>3, Count
  <1> QED BY <1>1, <1>4 DEF Framing!CuttingIsIrrelevant, A, T
-----------------------------------------------------------------------------
(* The composition.  A step of a part leaves the variables of the others   *)
(* alone, so that for each of them it is a step of its own or none.        *)
PartsInv ==
    /\ FilterInv /\ FramingInv /\ StreamInv /\ TopbandInv /\ HacienInv /\ BatteryInv
    /\ RenogyInv
    /\ SolarLinkInv /\ VEDirectInv /\ LinkInv
    /\ part = "frame" => FrameInv

LEMMA InitParts == PartsInit => PartsInv
  BY InitFilterInv, InitFraming, InitStream, InitTopband, InitHacien, InitBattery,
     InitRenogy,
     InitSolarLink, InitVEDirect, InitLink, InitFrame DEF PartsInit, PartsInv

LEMMA StepOfOne ==
    ASSUME [PartsNext]_partsVars
    PROVE  /\ part' = part
           /\ [Next]_vars /\ [Framing!Next]_framing /\ [Topband!Next]_topband
           /\ [Hacien!Next]_hacien /\ [Battery!Next]_battery /\ [Renogy!Next]_renogy
           /\ [SolarLink!Next]_solarlink /\ [VEDirect!Next]_vedirect /\ [Link!Next]_link
           /\ [Frame!Next]_frame
  <1>1. CASE UNCHANGED partsVars
    BY <1>1 DEF partsVars
  <1>2. CASE part = "filter" /\ Next /\ Others("filter")
    BY <1>2 DEF Others
  <1>3. CASE part = "framing" /\ Framing!Next /\ Others("framing")
    BY <1>3 DEF Others
  <1>4. CASE part = "frame" /\ Frame!Next /\ Others("frame")
    BY <1>4 DEF Others
  <1>5. CASE part = "topband" /\ Topband!Next /\ Others("topband")
    BY <1>5 DEF Others
  <1>6. CASE part = "hacien" /\ Hacien!Next /\ Others("hacien")
    BY <1>6 DEF Others
  <1>7. CASE part = "battery" /\ Battery!Next /\ Others("battery")
    BY <1>7 DEF Others
  <1>8. CASE part = "renogy" /\ Renogy!Next /\ Others("renogy")
    BY <1>8 DEF Others
  <1>9. CASE part = "solarlink" /\ SolarLink!Next /\ Others("solarlink")
    BY <1>9 DEF Others
  <1>10. CASE part = "vedirect" /\ VEDirect!Next /\ Others("vedirect")
    BY <1>10 DEF Others
  <1>11. CASE part = "link" /\ Link!Next /\ Others("link")
    BY <1>11 DEF Others
  <1> QED BY <1>1, <1>2, <1>3, <1>4, <1>5, <1>6, <1>7, <1>8, <1>9, <1>10, <1>11
          DEF PartsNext

LEMMA StepKeepsParts == PartsInv /\ [PartsNext]_partsVars => PartsInv'
  <1> SUFFICES ASSUME PartsInv, [PartsNext]_partsVars PROVE PartsInv'
    OBVIOUS
  <1>1. /\ FilterInv' /\ FramingInv' /\ StreamInv' /\ TopbandInv' /\ HacienInv'
        /\ BatteryInv' /\ RenogyInv'
        /\ SolarLinkInv' /\ VEDirectInv' /\ LinkInv'
    BY StepOfOne, NextFilterInv, NextFraming, NextStream, NextTopband, NextHacien,
       NextBattery, NextRenogy,
       NextSolarLink, NextVEDirect, NextLink DEF PartsInv
  <1>2. part = "frame" => FrameInv'
    BY StepOfOne, NextFrame DEF PartsInv
  <1> QED BY <1>1, <1>2, StepOfOne DEF PartsInv

LEMMA PartsInvariant == PartsSpec => []PartsInv
  BY InitParts, StepKeepsParts, PTL DEF PartsSpec

(* The types and bounds of all parts: of what the plugins buffer, whatever *)
(* the devices send; of the stored values; of what waits to be sent.       *)
THEOREM PartsTypeCorrect == PartsSpec => []PartsTypeOK
  <1>1. PartsInv => PartsTypeOK
    <2> SUFFICES ASSUME PartsInv PROVE PartsTypeOK
      OBVIOUS
    <2>1. TypeOK
      BY DEF PartsInv, FilterInv
    <2>2. /\ Framing!TypeOK /\ Topband!TypeOK /\ Hacien!TypeOK /\ Battery!TypeOK
          /\ Renogy!TypeOK
      BY FramingImplies, TopbandImplies, HacienImplies, BatteryImplies, RenogyImplies
      DEF PartsInv
    <2>3. SolarLink!TypeOK /\ VEDirect!TypeOK /\ Link!TypeOK
      BY DEF PartsInv, SolarLinkInv, VEDirectInv, LinkInv
    <2>4. part = "frame" => Frame!TypeOK
      BY DEF PartsInv, FrameInv
    <2> QED BY <2>1, <2>2, <2>3, <2>4 DEF PartsTypeOK
  <1> QED BY <1>1, PartsInvariant, PTL

(* The state of a battery comes to agree with its current, and its health  *)
(* with its cycles, after refused readings too (solardevice.py:830-874).   *)
THEOREM BatterySettlesAlways == PartsSpec => []BatterySettles
  <1>1. PartsInv => BatterySettles
    BY BatteryImplies DEF PartsInv
  <1> QED BY <1>1, PartsInvariant, PTL

(* A cell that was once right stays within the deadband of the truth       *)
(* (solardevice.py:879-901).                                               *)
THEOREM CellTracksAlways == PartsSpec => []CellTracks
  <1>1. PartsInv => CellTracks
    BY BatteryImplies DEF PartsInv
  <1> QED BY <1>1, PartsInvariant, PTL

(* Of a damaged frame nothing is shown that was not sent, and all is shown *)
(* that the damage did not hit (Meritsun:117-228).                         *)
THEOREM FrameIsReadAlways == PartsSpec => []FrameIsRead
  <1>1. PartsInv => FrameIsRead
    BY DEF PartsInv, FrameInv, FrameIsRead
  <1> QED BY <1>1, PartsInvariant, PTL

(* However the stream is cut, lost in part or damaged, its good packets    *)
(* are handled in order, each once, and every other packet is counted; the *)
(* bound of the buffer costs a good one only if it is itself overlong      *)
(* (Meritsun:76-115).                                                      *)
THEOREM StreamIsReadAlways == PartsSpec => []StreamIsRead
  <1>1. PartsInv => StreamIsRead
    BY StreamImplies, OverlongImplies DEF PartsInv, StreamIsRead
  <1> QED BY <1>1, PartsInvariant, PTL

(* A battery that sends whole frames is read: of any three in a row one is *)
(* handled, whatever came before (Topband:70-120).                         *)
THEOREM NeverStarvesAlways == PartsSpec => []NeverStarves
  <1>1. PartsInv => NeverStarves
    BY TopbandImplies DEF PartsInv
  <1> QED BY <1>1, PartsInvariant, PTL

(* A reply of a Hacien battery that arrives whole is shown, whatever was   *)
(* lost before it and whatever that left in the buffer (Hacien:60-73).     *)
THEOREM WholeReplyIsShown == PartsSpec => WholeReplyShown
  <1>1. PartsInv /\ [PartsNext]_partsVars
          => [(wire # <<>> /\ wire' = Tail(wire) /\ Head(wire).part = Parts /\ whole')
                => shown'[Head(wire).kind] = Head(wire).reply]_Hacien!vars
    <2> SUFFICES ASSUME PartsInv, [PartsNext]_partsVars, wire # <<>>, wire' = Tail(wire),
                        Head(wire).part = Parts, whole', ~ UNCHANGED Hacien!vars
                 PROVE  shown'[Head(wire).kind] = Head(wire).reply
      OBVIOUS
    <2>1. HacienInv /\ Hacien!Next
      BY StepOfOne DEF PartsInv, hacien, Hacien!vars
    <2> QED BY <2>1, WholeIsShown
  <1> QED BY <1>1, PartsInvariant, PTL
          DEF PartsSpec, WholeReplyShown, Hacien!WholeReplyShown

(* The interval of a link is asked for again only if some link was slow    *)
(* since the counts were last read (ble.py:38-56).                         *)
THEOREM IntervalAskedForAReason == PartsSpec => Link!AskedForAReason
  <1>1. PartsInv /\ [PartsNext]_partsVars => [asked' => slowSeen]_Link!vars
    <2> SUFFICES ASSUME PartsInv, [PartsNext]_partsVars, asked', ~ UNCHANGED Link!vars
                 PROVE  slowSeen
      OBVIOUS
    <2>1. LinkInv /\ Link!Next
      BY StepOfOne DEF PartsInv, link, Link!vars
    <2> QED BY <2>1, AskedForSlowness
  <1> QED BY <1>1, PartsInvariant, PTL DEF PartsSpec, Link!AskedForAReason
=============================================================================

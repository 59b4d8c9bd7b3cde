------------------------- MODULE ValueFilterProofs -------------------------
(***************************************************************************)
(* What validate guarantees for every choice of limits, readings and       *)
(* length of the escape.  The three properties of ValueFilter are not      *)
(* inductive: they speak of the stored value and of the history of         *)
(* readings, and what ties the two together is the pair of counters        *)
(* rejected/rejected_val.  FilterInv says how.                             *)
(***************************************************************************)
EXTENDS ValueFilter, TLAPS

(* A refused reading is the latest in-range one; the refusals counted are  *)
(* at most the consistent in-range readings seen; and if the latest        *)
(* reading of a run is not stored, every reading of the run was counted.   *)
Counted ==
    /\ filter.rejected > 0 => filter.rejected_val = last
    /\ filter.rejected <= steady
    /\ streak > 0 => \/ filter.val = last
                     \/ filter.rejected >= streak

FilterInv == TypeOK /\ NothingOutOfRangeStored /\ Counted

(* One call of validate has one of four outcomes.                          *)
LEMMA ValidateCases ==
    ASSUME NEW v \in Readings, Read(v)
    PROVE  \/ v = filter.val /\ filter' = Settled(v)
           \/ v # filter.val /\ ~InBounds(v) /\ filter' = filter
           \/ /\ v # filter.val /\ InBounds(v) /\ Far(filter, v)
              /\ Rejections(filter, v) <= MaxConsecutiveRejects
              /\ filter' = Refused(filter, v)
           \/ /\ v # filter.val /\ InBounds(v)
              /\ ~(Far(filter, v) /\ Rejections(filter, v) <= MaxConsecutiveRejects)
              /\ filter' = Settled(v)
  BY DEF Validate, Read

LEMMA InitFilterInv == Init => FilterInv
  BY FilterAssumption
  DEF Init, FilterInv, TypeOK, NothingOutOfRangeStored, Counted, Settled

(* The history counters move together with the run they count.             *)
LEMMA ObserveType ==
    ASSUME NEW v \in Readings, TypeOK, Observe(v)
    PROVE  /\ last' \in Int
           /\ streak' \in 0 .. MaxConsecutiveRejects + 1
           /\ steady' \in 0 .. MaxConsecutiveRejects + 1
           /\ InBounds(v) => last' = v /\ streak' > 0 /\ steady' > 0
           /\ ~InBounds(v) => last' = last /\ streak' = 0 /\ steady' = steady
  BY FilterAssumption DEF TypeOK, Observe, Longer

LEMMA RejectionsType ==
    ASSUME NEW v \in Readings, TypeOK
    PROVE  Rejections(filter, v) \in 1 .. MaxConsecutiveRejects + 1
  BY FilterAssumption DEF TypeOK, Rejections

LEMMA ReadTypeOK ==
    ASSUME NEW v \in Readings, TypeOK, Read(v)
    PROVE  TypeOK'
<1> USE FilterAssumption
<1>1. v \in Int /\ v # None
  OBVIOUS
<1>2. /\ last' \in Int
      /\ streak' \in 0 .. MaxConsecutiveRejects + 1
      /\ steady' \in 0 .. MaxConsecutiveRejects + 1
  BY ObserveType DEF Read
<1>3. /\ filter' \in [val : Int, rejected : 0 .. MaxConsecutiveRejects, rejected_val : Int \cup {None}]
      /\ filter'.rejected = 0 <=> filter'.rejected_val = None
  <2>1. CASE filter' = Settled(v)
    BY <2>1, <1>1 DEF Settled
  <2>2. CASE filter' = filter
    BY <2>2 DEF TypeOK
  <2>3. CASE /\ Rejections(filter, v) <= MaxConsecutiveRejects
             /\ filter' = Refused(filter, v)
    <3>1. Rejections(filter, v) \in 1 .. MaxConsecutiveRejects
      BY <2>3, RejectionsType
    <3> QED
      BY <2>3, <3>1, <1>1 DEF TypeOK, Refused
  <2> QED
    BY <2>1, <2>2, <2>3, ValidateCases
<1> QED
  BY <1>2, <1>3 DEF TypeOK

LEMMA ReadInRange ==
    ASSUME NEW v \in Readings, TypeOK, NothingOutOfRangeStored, Read(v)
    PROVE  NothingOutOfRangeStored'
<1> USE FilterAssumption
<1>1. CASE v = filter.val /\ filter' = Settled(v)
  BY <1>1 DEF Settled, NothingOutOfRangeStored, InBounds
<1>2. CASE filter' = filter
  BY <1>2 DEF NothingOutOfRangeStored, InBounds
<1>3. CASE /\ InBounds(v)
           /\ filter' = Refused(filter, v)
  BY <1>3 DEF Refused, NothingOutOfRangeStored, InBounds
<1>4. CASE InBounds(v) /\ filter' = Settled(v)
  BY <1>4 DEF Settled, NothingOutOfRangeStored, InBounds
<1> QED
  BY <1>1, <1>2, <1>3, <1>4, ValidateCases

(* The step that matters: a far reading that is consistent with the run    *)
(* lengthens the count of refusals and the history by one alike.           *)
LEMMA RejectionsCounted ==
    ASSUME NEW v \in Readings, FilterInv, Observe(v), InBounds(v), Far(filter, v)
    PROVE  /\ Rejections(filter, v) <= steady'
           /\ Rejections(filter, v) >= streak'
<1> USE FilterAssumption DEF FilterInv, TypeOK
<1>1. filter.val # last \/ ~Near(v, last)
  BY DEF Far, Near
<1>2. CASE filter.rejected_val # None /\ Near(v, filter.rejected_val)
  <2>1. filter.rejected > 0 /\ filter.rejected_val = last /\ filter.rejected <= steady
    BY <1>2 DEF Counted
  <2>2. /\ Rejections(filter, v) = filter.rejected + 1
        /\ Near(v, last)
    BY <1>2, <2>1 DEF Rejections
  <2>3. steady' = Longer(steady) /\ streak' = IF streak > 0 THEN Longer(streak) ELSE 1
    BY <2>1, <2>2 DEF Observe
  <2>4. streak > 0 => filter.rejected >= streak
    BY <2>2, <1>1 DEF Counted
  <2> QED
    BY <2>1, <2>2, <2>3, <2>4 DEF Longer
<1>3. CASE ~(filter.rejected_val # None /\ Near(v, filter.rejected_val))
  <2>1. Rejections(filter, v) = 1
    BY <1>3 DEF Rejections
  <2>2. steady' > 0
    BY ObserveType
  <2>3. ~(streak > 0 /\ Near(v, last))
    BY <1>1, <1>3 DEF Counted
  <2>4. streak' = 1
    BY <2>3 DEF Observe
  <2> QED
    BY <2>1, <2>2, <2>4, ObserveType
<1> QED
  BY <1>2, <1>3

LEMMA ReadCounted ==
    ASSUME NEW v \in Readings, FilterInv, Read(v)
    PROVE  Counted'
<1> USE FilterAssumption
<1>0. Observe(v) /\ TypeOK
  BY DEF Read, FilterInv
<1>1. CASE ~InBounds(v)
  <2>1. last' = last /\ streak' = 0 /\ steady' = steady
    BY <1>0, <1>1, ObserveType
  <2>2. filter' = filter \/ filter' = Settled(v)
    BY <1>0, <1>1, ValidateCases
  <2> QED
    BY <2>1, <2>2 DEF Counted, Settled, FilterInv, TypeOK
<1>2. CASE InBounds(v) /\ filter' = Settled(v)
  BY <1>0, <1>2, ObserveType DEF Counted, Settled
<1>3. CASE /\ InBounds(v) /\ Far(filter, v)
           /\ filter' = Refused(filter, v)
  <2>1. filter'.rejected = Rejections(filter, v) /\ filter'.rejected_val = v
    BY <1>3 DEF Refused
  <2> QED
    BY <1>0, <1>3, <2>1, RejectionsCounted, ObserveType DEF Counted
<1> QED
  BY <1>0, <1>1, <1>2, <1>3, ValidateCases

LEMMA NextFilterInv == FilterInv /\ [Next]_vars => FilterInv'
<1> SUFFICES ASSUME FilterInv, [Next]_vars PROVE FilterInv'
  OBVIOUS
<1>1. ASSUME NEW v \in Readings, Read(v) PROVE FilterInv'
  BY <1>1, ReadTypeOK, ReadInRange, ReadCounted DEF FilterInv
<1>2. CASE UNCHANGED vars
  BY <1>2 DEF vars, FilterInv, TypeOK, NothingOutOfRangeStored, Counted, InBounds
<1> QED
  BY <1>1, <1>2 DEF Next

(* The filter's state is well formed in every reachable state, for every   *)
(* limit the configuration may give.                                       *)
THEOREM FilterTypeCorrect == Spec => []TypeOK
<1>1. FilterInv => TypeOK
  BY DEF FilterInv
<1> QED
  BY InitFilterInv, NextFilterInv, <1>1, PTL DEF Spec

(* No sequence of readings puts a value outside [Min, Max] into the        *)
(* entity, whatever MaxDiff and the length of the escape.                  *)
THEOREM FilterInRange == Spec => []NothingOutOfRangeStored
<1>1. FilterInv => NothingOutOfRangeStored
  BY DEF FilterInv
<1> QED
  BY InitFilterInv, NextFilterInv, <1>1, PTL DEF Spec

(* The escape never fails: MaxConsecutiveRejects + 1 consecutive in-range, *)
(* mutually consistent readings always get the latest of them stored.      *)
THEOREM FilterNeverLatches == Spec => []PersistentChangeBelieved
<1>1. FilterInv => PersistentChangeBelieved
  BY FilterAssumption DEF FilterInv, Counted, TypeOK, PersistentChangeBelieved
<1> QED
  BY InitFilterInv, NextFilterInv, <1>1, PTL DEF Spec

(* ... and nothing less than such a run (out-of-range readings aside)      *)
(* makes the stored value jump by more than MaxDiff.                       *)
THEOREM FilterRefusesNoise == Spec => JumpNeedsConsistentRun
<1>1. FilterInv /\ [Next]_vars => [Jump => steady' > MaxConsecutiveRejects]_vars
  <2> SUFFICES ASSUME FilterInv, NEW v \in Readings, Read(v), Jump
               PROVE  steady' > MaxConsecutiveRejects
    BY DEF Next, vars
  <2> USE FilterAssumption
  <2>1. Observe(v) /\ TypeOK
    BY DEF Read, FilterInv
  <2>2. filter'.val # filter.val
    BY DEF Jump
  <2>3. /\ InBounds(v) /\ filter' = Settled(v)
        /\ ~(Far(filter, v) /\ Rejections(filter, v) <= MaxConsecutiveRejects)
    BY <2>2, ValidateCases DEF Settled, Refused
  <2>4. Far(filter, v)
    BY <2>3 DEF Jump, Settled
  <2> QED
    BY <2>1, <2>3, <2>4, RejectionsCounted, RejectionsType, ObserveType
<1> QED
  BY InitFilterInv, NextFilterInv, <1>1, PTL DEF Spec, JumpNeedsConsistentRun
=============================================================================

---------------------------- MODULE ValueFilter ----------------------------
(***************************************************************************)
(* PowerDevice.validate (src/solardevice.py): the filter every reading of  *)
(* voltage, current, power, temperature, state of charge, capacity and     *)
(* charge cycles passes before it becomes the entity's stored value.       *)
(*                                                                         *)
(* A reading outside [Min, Max] is refused.  A reading more than MaxDiff   *)
(* away from the stored value is refused too, except that the filter gives *)
(* in after MaxConsecutiveRejects refusals of mutually consistent readings *)
(* and believes the device.                                                *)
(***************************************************************************)
EXTENDS Integers

CONSTANTS Readings,               \* what a decoder may hand to the setter
          InitVal,                \* definition['val'] of a new device
          Min, Max, MaxDiff,      \* the limits, after apply_limit_overrides
          MaxConsecutiveRejects,  \* class constant, 2
          None                    \* Python's None, for rejected_val

(* Limits come from __init__ and may be overridden by any number in the    *)
(* device's section.  MaxDiff is the one that must make sense: with a      *)
(* negative one no two readings are ever consistent.                       *)
ASSUME FilterAssumption ==
    /\ Readings \subseteq Int
    /\ InitVal \in {0, 2731}
    /\ Min \in Int /\ Max \in Int
    /\ MaxDiff \in Nat
    /\ MaxConsecutiveRejects \in Nat
    /\ None \notin Int

VARIABLES filter,   \* the definition's mutable part: val, rejected, rejected_val
          last,     \* history: the latest reading that was within [Min, Max]
          streak,   \* history: how many readings in a row, up to the latest, were
                    \*   within [Min, Max] and each consistent with the one before
          steady    \* history: the same, out-of-range readings not counted as a break

vars == <<filter, last, streak, steady>>
history == <<last, streak, steady>>

-----------------------------------------------------------------------------
Abs(n) == IF n < 0 THEN -n ELSE n
Near(a, b) == Abs(a - b) <= MaxDiff
InBounds(v) == Min <= v /\ v <= Max

(* 0 and 2731 (0 degrees C in deci-kelvin) mean "no value yet".            *)
Unset(v) == v \in {0, 2731}

(* A filter no reading was refused by since the stored value was believed  *)
(* or confirmed.                                                           *)
Settled(v) == [val |-> v, rejected |-> 0, rejected_val |-> None]

(* definition['rejected'] once the far reading v has been counted.         *)
RejectionsNoReset(f, v) == f.rejected + 1   \* every refusal counts

Rejections(f, v) ==
    IF f.rejected_val # None /\ Near(v, f.rejected_val) THEN f.rejected + 1 ELSE 1

Far(f, v) == ~Unset(f.val) /\ ~Near(v, f.val)

(* The filter after it refused the far reading v.                          *)
Refused(f, v) == [val |-> f.val, rejected |-> Rejections(f, v), rejected_val |-> v]

(* One call of validate.                                                   *)
ValidateStrict(f, v) ==           \* as before the escape was added: refuse for ever
    IF v # f.val /\ InBounds(v) /\ ~Far(f, v) THEN Settled(v) ELSE f

ValidateEscapeFirst(f, v) ==      \* the escape tested before the limits
    IF v = f.val THEN Settled(v)
    ELSE IF Far(f, v) /\ Rejections(f, v) <= MaxConsecutiveRejects
         THEN Refused(f, v)
         ELSE IF InBounds(v) \/ Far(f, v) THEN Settled(v) ELSE f

Validate(f, v) ==
    IF v = f.val THEN Settled(v)
    ELSE IF ~InBounds(v) THEN f
    ELSE IF Far(f, v) /\ Rejections(f, v) <= MaxConsecutiveRejects
         THEN Refused(f, v)
         ELSE Settled(v)

(* The history variables count up to the length of the longest run that    *)
(* matters, MaxConsecutiveRejects + 1.                                     *)
Longer(n) == IF n > MaxConsecutiveRejects THEN n ELSE n + 1

Observe(v) ==
    IF InBounds(v)
    THEN /\ last' = v
         /\ streak' = IF streak > 0 /\ Near(v, last) THEN Longer(streak) ELSE 1
         /\ steady' = IF steady > 0 /\ Near(v, last) THEN Longer(steady) ELSE 1
    ELSE /\ streak' = 0
         /\ UNCHANGED <<last, steady>>

-----------------------------------------------------------------------------
Init == /\ filter = Settled(InitVal)
        /\ last = InitVal
        /\ streak = 0
        /\ steady = 0

Read(v) == /\ filter' = Validate(filter, v)
           /\ Observe(v)

Next == \E v \in Readings : Read(v)

Spec == Init /\ [][Next]_vars

-----------------------------------------------------------------------------
(* Every field has its type, and the count of refusals and the refused     *)
(* reading are set and cleared together (two separate dict entries in the  *)
(* code, written at four places).                                          *)
TypeOK ==
    /\ filter \in [val : Int, rejected : 0 .. MaxConsecutiveRejects, rejected_val : Int \cup {None}]
    /\ filter.rejected = 0 <=> filter.rejected_val = None
    /\ last \in Int
    /\ streak \in 0 .. MaxConsecutiveRejects + 1
    /\ steady \in 0 .. MaxConsecutiveRejects + 1

(* No way into the stored value, not even the escape, lets a reading       *)
(* outside the configured limits through (solardevice.py:666-671).         *)
NothingOutOfRangeStored ==
    /\ filter.val = InitVal \/ InBounds(filter.val)
    /\ filter.rejected_val # None => InBounds(filter.rejected_val)

(* The escape works: whatever is stored, after MaxConsecutiveRejects + 1   *)
(* readings in a row that are within the limits and consistent with each   *)
(* other the entity shows the latest of them.  This is the promise "a      *)
(* stale stored value never latches an entity for ever" of                 *)
(* solardevice.py:224-225 and 673-678.                                     *)
PersistentChangeBelieved ==
    streak > MaxConsecutiveRejects => filter.val = last

(* Scattered noise never gets through (solardevice.py:680-681): the stored *)
(* value moves by more than MaxDiff only from "no value yet" or to a       *)
(* reading that ends a run of MaxConsecutiveRejects + 1 in-range readings  *)
(* that are consistent with one another.                                   *)
Jump == /\ filter'.val # filter.val
        /\ Far(filter, filter'.val)

JumpNeedsConsistentRun == [][Jump => steady' > MaxConsecutiveRejects]_vars

(* The comment of solardevice.py:661-662 reads: "the escape below counts   *)
(* *consecutive* ones".  Taken literally the run that makes the filter     *)
(* give in has no other reading in its midst.                              *)
JumpNeedsConsecutiveRun == [][Jump => streak' > MaxConsecutiveRejects]_vars
=============================================================================

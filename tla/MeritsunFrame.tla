--------------------------- MODULE MeritsunFrame ---------------------------
(***************************************************************************)
(* plugins/Meritsun: the decoding of one frame whose checksum is right.    *)
(*                                                                         *)
(* The checksum adds the bytes up, and a byte is two characters.  It does  *)
(* not see a byte of value 0 overwritten by characters that are no         *)
(* hexadecimal digits (_readField's comment, 152-155), nor a frame whose   *)
(* tail was overwritten by '0' characters (187-189); and a packet swollen  *)
(* by duplicated fragments has a good head but garbage for cells (211-213).*)
(* A byte is scaled down to 0 or 1, a long field to two of them.           *)
(***************************************************************************)
EXTENDS Integers, Sequences, FiniteSets

CONSTANTS
    Scalars,       \* mcurrent, mcapacity, charge_cycles, soc, temperature, status
    Slots,         \* 16 cells
    MinVoltage,    \* 1000: a data frame has at least this voltage
    MinCell,       \* 1000: a plausible cell
    None           \* the entity has no value yet, or the field none that counts

VARIABLES
    sent,          \* the frame as the device sent it
    got,           \* the frame as it was received, and whether it is `full`
    shown,         \* entities: what the frame made of them
    updated        \* what handleMessage returned

vars == <<sent, got, shown, updated>>

Junk == 9          \* two characters of which one at least is no digit
Fields(bytes) == [1..2 -> bytes]
Frames(bytes) ==
    [mvoltage : Fields(bytes), scalars : [Scalars -> Fields(bytes)],
     afestatus : [1..1 -> bytes], cells : [1..Slots -> Fields(bytes)]]

(* asciihex.field_value: low byte first, 0 when it cannot be read.         *)
Readable(field) == Junk \notin {field[k] : k \in DOMAIN field}

FieldValue(field) ==
    IF ~Readable(field) THEN 0
    ELSE IF Len(field) = 1 THEN field[1] ELSE field[1] + 2 * field[2]

(* _readField                                                              *)
ReadFieldAsZero(field) == FieldValue(field)

ReadField(field) == IF Readable(field) THEN FieldValue(field) ELSE None

(* How a field may arrive without the checksum noticing.                   *)
Damaged(field) ==
    {g \in [DOMAIN field -> {0, 1, Junk}] :
        \A k \in DOMAIN field : g[k] = field[k] \/ (field[k] = 0 /\ g[k] = Junk)}

-----------------------------------------------------------------------------
(* handleMessage, cells: up to the first empty slot, implausible ones      *)
(* skipped.                                                                *)
CellsUsed(g) ==
    {i \in 1..Slots :
        /\ \A j \in 1..i : FieldValue(g.frame.cells[j]) # 0
        /\ FieldValue(g.frame.cells[i]) >= MinCell}

CellsOf(g) ==
    [i \in 1..Slots |->
        IF g.full /\ i \in CellsUsed(g) THEN FieldValue(g.frame.cells[i]) ELSE None]

(* handleMessage: a voltage, and something besides it.                     *)
VoltageOnly(f) == \A s \in Scalars : ReadField(f.scalars[s]) \in {None, 0}

HasVoltage(f) == ReadField(f.mvoltage) # None /\ FieldValue(f.mvoltage) >= MinVoltage

IsReading(f) == HasVoltage(f) /\ ~VoltageOnly(f)

Nothing ==
    [mvoltage |-> None, scalars |-> [s \in Scalars |-> None], afestatus |-> None,
     cells |-> [i \in 1..Slots |-> None]]

HandleMessage(g) ==
    /\ updated' = IsReading(g.frame)
    /\ shown' =
         IF ~IsReading(g.frame) THEN Nothing
         ELSE [mvoltage |-> FieldValue(g.frame.mvoltage),
               scalars |-> [s \in Scalars |-> ReadField(g.frame.scalars[s])],
               afestatus |-> IF g.full THEN FieldValue(g.frame.afestatus) ELSE None,
               cells |-> CellsOf(g)]

-----------------------------------------------------------------------------
(* What happens to the frame on its way.                                   *)
Blank == [mvoltage |-> sent.mvoltage, scalars |-> [s \in Scalars |-> <<0, 0>>],
          afestatus |-> <<0>>, cells |-> [i \in 1..Slots |-> <<0, 0>>]]

Arrives(frame, full) ==
    LET g == [frame |-> frame, full |-> full]
    IN got' = g /\ HandleMessage(g) /\ UNCHANGED sent

HandleFull ==
    \E v \in Damaged(sent.mvoltage), a \in Damaged(sent.afestatus) :
      \E ss \in [Scalars -> [1..2 -> {0, 1, Junk}]] :
        \E cs \in [1..Slots -> [1..2 -> {0, 1, Junk}]] :
            /\ \A s \in Scalars : ss[s] \in Damaged(sent.scalars[s])
            /\ \A i \in 1..Slots : cs[i] \in Damaged(sent.cells[i])
            /\ Arrives([mvoltage |-> v, scalars |-> ss, afestatus |-> a, cells |-> cs], TRUE)

HandleBloated ==
    \E cs \in [1..Slots -> Fields({0, 1})] :
        Arrives([sent EXCEPT !.afestatus = <<1>>, !.cells = cs], FALSE)

HandleBlank == Arrives(Blank, TRUE)

Init ==
    /\ sent \in {f \in Frames({0, 1}) : IsReading(f)}
    /\ got = None /\ shown = Nothing /\ updated = FALSE

(* One frame: handleMessage keeps nothing from one frame to the next.      *)
Next == got = None /\ (HandleFull \/ HandleBloated \/ HandleBlank)

Spec == Init /\ [][Next]_vars

-----------------------------------------------------------------------------
TypeOK ==
    /\ sent \in Frames({0, 1})
    /\ updated \in BOOLEAN
    /\ shown.mvoltage \in 0..3 \cup {None}
    /\ \A s \in Scalars : shown.scalars[s] \in 0..3 \cup {None}
    /\ \A i \in 1..Slots : shown.cells[i] \in MinCell..3 \cup {None}

(* No entity ever takes a value the device did not send, whatever happened *)
(* to the frame that its checksum cannot see.                              *)
NothingInvented ==
    /\ shown.mvoltage \in {None, FieldValue(sent.mvoltage)}
    /\ shown.afestatus \in {None, FieldValue(sent.afestatus)}
    /\ \A s \in Scalars : shown.scalars[s] \in {None, FieldValue(sent.scalars[s])}
    /\ \A i \in 1..Slots : shown.cells[i] \in {None, FieldValue(sent.cells[i])}

(* Damage costs no more than what it hit: in a frame that is taken, every  *)
(* scalar that can be read is shown, and so is every plausible cell with   *)
(* no unreadable or empty slot before it.                                  *)
DamageIsContained ==
    updated =>
        /\ \A s \in Scalars :
              Readable(got.frame.scalars[s]) => shown.scalars[s] = FieldValue(sent.scalars[s])
        /\ got.full =>
              \A i \in 1..Slots :
                  /\ FieldValue(sent.cells[i]) >= MinCell
                  /\ \A j \in 1..i : Readable(got.frame.cells[j]) /\ FieldValue(sent.cells[j]) # 0
                  => shown.cells[i] = FieldValue(sent.cells[i])
=============================================================================

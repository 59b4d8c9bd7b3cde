-------------------------- MODULE MeritsunFraming --------------------------
(***************************************************************************)
(* plugins/Meritsun: notifications are pieces, cut anywhere, of a stream of *)
(* frames that each begin with a marker and end with padding.  The plugin  *)
(* accumulates them, takes what is between two markers for a packet, and   *)
(* handles it if its checksum is right.                                    *)
(*                                                                         *)
(* The stream is any sequence of bytes: frames in order, frames that were  *)
(* damaged or lost in part, and junk.  The proportions of the code are     *)
(* scaled down: a field is one digit and not two characters, the checksum  *)
(* one digit and not two fields.                                           *)
(***************************************************************************)
EXTENDS Integers, Sequences, SequencesExt, FiniteSetsExt

CONSTANTS
    BufMax,        \* 512: a longer stream is cut
    Kept,          \* 256: to the last marker, else to its last bytes
    MinEnd,        \* 60: the content of a frame is at least so long
    EndCap,        \* 110: padding found from here on does not count
    PacketMax,     \* 122: the part of a packet that is looked at
    FullMax,       \* 130: a longer packet is "bloated", its cells are not used
    MaxChunk,      \* bound: bytes of a notification
    MaxBytes       \* bound: bytes received

VARIABLES
    stream,        \* Util._stream
    handled,       \* packets given to handleMessage, each with `full`
    ok, bad,       \* _frames_ok, _frames_bad
    received,      \* history: every byte received,
    dropped        \*   and where packets began that cutting the stream dropped

vars == <<stream, handled, ok, bad, received, dropped>>

Digits == 0..1
Pad == 2           \* END_VAL
Mark == 3          \* 0x92 and 0xC9, which are treated alike
Bytes == Digits \cup {Pad, Mark}

Init ==
    /\ stream = <<>> /\ handled = <<>> /\ ok = 0 /\ bad = 0
    /\ received = <<>> /\ dropped = {}

Marks(s) == {i \in DOMAIN s : s[i] = Mark}

-----------------------------------------------------------------------------
(* _frameEnd: the last padding byte before EndCap, or the first from there *)
(* on.                                                                     *)
FrameEnd(p) ==
    LET pads == {i \in 2..Min({Len(p), PacketMax}) : p[i] = Pad}
        late == {i \in pads : i >= EndCap}
    IN IF late # {} THEN Min(late) ELSE Max(pads \cup {0})

(* asciihex.field_value: what is not a digit counts as 0.                  *)
FieldValue(b) == IF b \in Digits THEN b ELSE 0

(* asciihex.checksum_matches                                               *)
ChecksumMatches(p, end) ==
    LET content == SubSeq(p, 2, end - 2)
    IN FoldLeft(LAMBDA total, b : total + FieldValue(b), 0, content) = FieldValue(p[end - 1])

(* _handleDataPacket: what it accepts, and what it hands on.               *)
Accepted(p) == FrameEnd(p) >= MinEnd /\ ChecksumMatches(p, FrameEnd(p))

Message(p) == [content |-> SubSeq(p, 2, Min({Len(p), PacketMax - 1})), full |-> Len(p) <= FullMax]

-----------------------------------------------------------------------------
(* The bound of the buffer: cut to the last marker, unless that is its     *)
(* first byte already or there is none.                                    *)
CutAt(s) == Max({i - 1 : i \in Marks(s)} \cup {-1})      \* rfind, counted from 0

BoundedToMark(s) ==
    IF Len(s) > BufMax /\ CutAt(s) >= 0 THEN SubSeq(s, CutAt(s) + 1, Len(s)) ELSE s

Bounded(s) ==
    IF Len(s) <= BufMax THEN s
    ELSE IF CutAt(s) > 0 THEN SubSeq(s, CutAt(s) + 1, Len(s))
    ELSE SubSeq(s, Len(s) - Kept + 1, Len(s))

(* A packet is what is between two markers.  The loop takes them one after *)
(* the other; what begins at the last marker stays buffered.               *)
Ends(s, i) == {j \in Marks(s) : j > i}

PacketAt(s, i) == SubSeq(s, i, Min(Ends(s, i)) - 1)

FirstPacketOf(s) == {i \in Marks(s) : \A j \in Marks(s) : i <= j /\ Ends(s, i) # {}}

PacketsOf(s) == {i \in Marks(s) : Ends(s, i) # {}}

Good(s, starts) == {i \in starts : Accepted(PacketAt(s, i))}

(* Places in their order - before the k-th there are k - 1 - and the       *)
(* messages of the packets that begin there.                               *)
Ranked(S, k) == {i \in S : Cardinality({j \in S : j < i}) = k - 1}

InOrder(S) == [k \in 1..Cardinality(S) |-> CHOOSE i \in Ranked(S, k) : TRUE]

Messages(s, starts) ==
    [k \in 1..Cardinality(starts) |-> Message(PacketAt(s, InOrder(starts)[k]))]

Rest(s) == IF Marks(s) = {} THEN <<>> ELSE SubSeq(s, Max(Marks(s)), Len(s))

(* notificationUpdate                                                      *)
NotificationUpdate(data) ==
    LET s == Bounded(stream \o data)
        good == Good(s, PacketsOf(s))
        cut == Len(stream \o data) - Len(s)
    IN /\ stream' = Rest(s)
       /\ handled' = handled \o Messages(s, good)
       /\ ok' = ok + Cardinality(good)
       /\ bad' = bad + Cardinality(PacketsOf(s)) - Cardinality(good)
       /\ received' = received \o data
       /\ dropped' = dropped \cup {Len(received) - Len(stream) + i :
                                     i \in {j \in Marks(stream \o data) : j <= cut}}

Notify ==
    \E n \in 1..MaxChunk : \E data \in [1..n -> Bytes] :
        /\ Len(received) + n <= MaxBytes
        /\ NotificationUpdate(data)

Next == Notify

Spec == Init /\ [][Next]_vars

-----------------------------------------------------------------------------
(* Where a reader of the whole stream finds packets, those aside that were *)
(* dropped.                                                                *)
Starts == {i \in Marks(received) : \E j \in Marks(received) : j > i}
Taken == Starts \ dropped

(* Types; and between notifications the stream holds at most one packet,   *)
(* not ended, and is bounded whatever comes (Meritsun:85-88).              *)
TypeOK ==
    /\ stream \in Seq(Bytes) /\ received \in Seq(Bytes)
    /\ Len(stream) <= BufMax
    /\ stream = <<>> \/ Marks(stream) = {1}
    /\ Len(received) <= MaxBytes
    /\ dropped \subseteq Marks(received)

(* However the stream is cut into notifications, and whatever is lost or   *)
(* damaged in it, what is handled are the good packets of the stream in    *)
(* their order, each once, and every other packet is counted as bad, but   *)
(* for those dropped with an overlong stream (notificationUpdate's comment *)
(* at Meritsun:76-80).                                                     *)
CuttingIsIrrelevant ==
    /\ handled = Messages(received, Good(received, Taken))
    /\ ok = Cardinality(Good(received, Taken)) /\ ok + bad = Cardinality(Taken)

(* Cutting the stream costs a good frame only if it is itself so long that *)
(* it leaves no room for a notification: the frame that a notification     *)
(* begins survives the overflow the notification causes, as long as no     *)
(* notification can hold a whole frame and the next marker.                *)
OnlyOverlongDropped ==
    MaxChunk <= MinEnd =>
        \A i \in dropped \cap Starts :
            Accepted(PacketAt(received, i)) => Len(PacketAt(received, i)) > BufMax - MaxChunk
=============================================================================

--------------------------- MODULE TopbandFraming ---------------------------
(***************************************************************************)
(* plugins/Topband: a state machine that takes the bytes of notifications  *)
(* one by one.  The device streams frames of one fixed length, one after   *)
(* the other; a notification may be any piece of that stream, and any may  *)
(* be lost.  The plugin knows a frame only by its first byte and by what   *)
(* stands at its last places, and it drops the rest of the notification    *)
(* that completes a frame.                                                 *)
(*                                                                         *)
(* Scaled down: a frame is the head, one digit of content, one of          *)
(* checksum, and zeros.                                                    *)
(***************************************************************************)
EXTENDS Integers, Sequences, SequencesExt

CONSTANTS
    Stored,          \* 114: bytes stored of a frame; it has one more
    EndCap,        \* 110: zeros from here on do not move `end`
    MaxChunk       \* bound: bytes of a notification, at most a frame

VARIABLES
    util,          \* Util: type (RecvDataType), buf (RevBuf up to Revindex), end
    place,         \* how many bytes of its current frame the device has sent
    digit,         \*   and the content of that frame
    intact,        \* history: nothing of that frame was lost so far,
    missed         \*   frames in a row that came whole, none of them handled

vars == <<util, place, digit, intact, missed>>

HeadByte == 94     \* protocolHead; the digits are 0x30 and 0x31
Zero == 0          \* protocolEnd
Digits == {48, 49}

Frame(d) == <<HeadByte, d, d>> \o [i \in 1..(Stored + 1 - 3) |-> Zero]

-----------------------------------------------------------------------------
Start == [type |-> "SOI", buf |-> <<>>, end |-> 0]

(* A byte, where the index has not run past the buffer.                    *)
Store(u, b) == [u EXCEPT !.buf = Append(@, b)]

InSOI(u, b) == IF b = HeadByte THEN [Store(u, b) EXCEPT !.type = "INFO"] ELSE u

InINFO(u, b) ==
    LET stored == Store(u, b)
    IN IF b # Zero THEN stored
       ELSE [stored EXCEPT !.end = IF u.end < EndCap THEN Len(stored.buf) ELSE @,
                           !.type = IF Len(stored.buf) = Stored THEN "EOI" ELSE "INFO"]

(* asciihex.checksum_matches over what lies before `end`.                  *)
ChecksumMatches(u) == u.end >= 4 /\ u.buf[u.end - 2] = u.buf[u.end - 1]

OverrunKept(u) == [u EXCEPT !.buf = <<>>]     \* the state is not reset

Overrun(u) == IF Len(u.buf) > Stored THEN Start ELSE u

(* One turn of the loop; done is the return from the middle of it.         *)
Byte(r, b) ==
    LET u == Overrun(r.util)
    IN IF r.done THEN r
       ELSE CASE u.type = "SOI" -> [r EXCEPT !.util = InSOI(u, b)]
              [] u.type = "INFO" -> [r EXCEPT !.util = InINFO(u, b)]
              [] u.type = "EOI" -> [util |-> Start, done |-> ChecksumMatches(u)]

NotificationUpdate(data) == FoldLeft(Byte, [util |-> util, done |-> FALSE], data)

-----------------------------------------------------------------------------
(* The next n bytes of the stream, the next frame having content d.        *)
Piece(n, d) == SubSeq(Frame(digit) \o Frame(d), place + 1, place + n)

Crosses(n) == place + n >= Stored + 1

Advance(n, d) ==
    IF Crosses(n)
    THEN place' = place + n - (Stored + 1) /\ digit' = d
    ELSE place' = place + n /\ digit' = d /\ d = digit

Capped(n) == IF n > 3 THEN 3 ELSE n

Notify(n, d) ==
    LET r == NotificationUpdate(Piece(n, d))
    IN /\ Advance(n, d)
       /\ util' = r.util
       /\ missed' = IF r.done THEN 0
                    ELSE IF Crosses(n) /\ intact THEN Capped(missed + 1) ELSE missed
       /\ intact' = (intact \/ Crosses(n))

Lose(n, d) ==
    /\ Advance(n, d)
    /\ intact' = (Crosses(n) /\ place + n = Stored + 1)
    /\ missed' = 0
    /\ UNCHANGED util

(* The device may have been in the middle of a frame when it was connected.*)
Init == /\ util = Start
        /\ place \in 0..Stored /\ digit \in Digits
        /\ intact = (place = 0) /\ missed = 0

Next == \E n \in 1..MaxChunk, d \in Digits : Notify(n, d) \/ Lose(n, d)

Spec == Init /\ [][Next]_vars

-----------------------------------------------------------------------------
TypeOK ==
    /\ util.type \in {"SOI", "INFO", "EOI"}
    /\ Len(util.buf) \in 0..Stored + 1 /\ util.end \in 0..Stored + 1
    /\ util.type = "SOI" => util.end = 0
    /\ place \in 0..Stored /\ digit \in Digits

(* However the stream is cut and whatever was lost of it before, of any    *)
(* three frames in a row that arrive whole at least one is handled: the    *)
(* state machine finds its way back, and the bytes it drops with a         *)
(* handled frame never cost it the next one for good.                      *)
NeverStarves == missed < 3
=============================================================================

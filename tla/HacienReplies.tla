--------------------------- MODULE HacienReplies ---------------------------
(***************************************************************************)
(* plugins/Hacien: a battery that is polled for two registers in turn and  *)
(* answers each request in several notifications.  The plugin starts a new *)
(* message at every notification that begins with 01 03, appends all       *)
(* others, and handles what it has whenever its CRC is right.              *)
(*                                                                         *)
(* A notification is one part of one reply.  What its bytes are matters in *)
(* three ways: a later part may happen to begin with 01 03; it may be all  *)
(* zeros, which leaves the CRC of a complete message right; and it may be  *)
(* a single byte, at which data[1] raises.  That the CRC is right for      *)
(* parts of different replies by chance is left out.                       *)
(***************************************************************************)
EXTENDS Integers, Sequences

CONSTANTS
    Parts,         \* notifications of a reply
    MaxReplies,    \* bound: replies the battery sends
    Shapes         \* what the parts after the first may be, of
                   \*   {"plain", "like_new", "zeros", "single"}

VARIABLES
    pollnum,       \* Util.pollnum
    wire,          \* the parts sent and not yet received, in order
    buffer,        \* Util.buffer, as a sequence of parts
    shown,         \* the entities of each kind: the reply they were taken from
    replies,       \* how many replies were sent
    quiet,         \* history: polls since each kind was last asked for,
    whole          \*   and the reply being received lacks no part so far

vars == <<pollnum, wire, buffer, shown, replies, quiet, whole>>

(* 0x4c: voltage and cells, asked for at pollnum 1; 0x32: the rest, at 3.  *)
Kinds == {"cells", "state"}
PollAt == [cells |-> 1, state |-> 3]
Cycle == 10

(* A part of the wire as a notification of the given shape.                *)
Notification(p, shape) ==
    [reply |-> p.reply, part |-> p.part, kind |-> p.kind, shape |-> shape]

IsNew(p) == p.part = 1 \/ p.shape = "like_new"

(* A message is whole if it is all parts of one reply, in order; zeros     *)
(* after it do not change the CRC.                                         *)
IsReply(m) ==
    /\ Len(m) >= Parts
    /\ \A k \in 1..Parts : m[k].part = k /\ m[k].reply = m[1].reply

Valid(m) == IsReply(m) /\ \A k \in Parts + 1..Len(m) : m[k].shape = "zeros"

-----------------------------------------------------------------------------
Init == /\ pollnum = 0 /\ wire = <<>> /\ buffer = <<>>
        /\ shown = [k \in Kinds |-> 0] /\ replies = 0
        /\ quiet = [k \in Kinds |-> 0] /\ whole = TRUE

Asked(k) == pollnum = PollAt[k]

Reply(k) == [i \in 1..Parts |-> [reply |-> replies + 1, part |-> i, kind |-> k]]

NextPoll(n) == (IF n = Cycle THEN 0 ELSE n) + 1

(* pollRequest, and the battery's answer if the request gets there.        *)
PollRequest ==
    /\ pollnum' = NextPoll(pollnum)
    /\ quiet' = [k \in Kinds |-> IF Asked(k) THEN 0
                                 ELSE IF quiet[k] > Cycle THEN quiet[k] ELSE quiet[k] + 1]
    /\ \/ UNCHANGED <<wire, replies>>
       \/ \E k \in Kinds :
            /\ Asked(k) /\ replies < MaxReplies
            /\ wire' = wire \o Reply(k)
            /\ replies' = replies + 1
    /\ UNCHANGED <<buffer, shown, whole>>

(* The buffer a notification leaves.                                       *)
BufferKept(p) == Append(buffer, p)

Buffered(p) == IF IsNew(p) THEN <<p>> ELSE Append(buffer, p)

HandleMessage(m) == shown' = [shown EXCEPT ![m[1].kind] = m[1].reply]

NotificationUpdate(p) ==
    IF p.shape = "single"
    THEN UNCHANGED <<buffer, shown>>           \* IndexError
    ELSE /\ buffer' = Buffered(p)
         /\ IF Valid(Buffered(p)) THEN HandleMessage(Buffered(p)) ELSE UNCHANGED shown

Notify ==
    /\ wire # <<>>
    /\ \E shape \in IF Head(wire).part = 1 THEN {"plain"} ELSE Shapes :
          /\ NotificationUpdate(Notification(Head(wire), shape))
          /\ whole' = ((Head(wire).part = 1 \/ whole) /\ shape \in {"plain", "zeros"})
    /\ wire' = Tail(wire)
    /\ UNCHANGED <<pollnum, replies, quiet>>

(* Notifications are lost with the link, or for want of a slot.            *)
Lose ==
    /\ wire # <<>>
    /\ wire' = Tail(wire) /\ whole' = FALSE
    /\ UNCHANGED <<pollnum, buffer, shown, replies, quiet>>

Next == PollRequest \/ Notify \/ Lose

Spec == Init /\ [][Next]_vars

-----------------------------------------------------------------------------
(* Types; and each register is asked for once in ten polls, for ever.      *)
TypeOK ==
    /\ pollnum \in 0..Cycle
    /\ replies \in 0..MaxReplies
    /\ shown \in [Kinds -> 0..MaxReplies]
    /\ quiet \in [Kinds -> 0..Cycle]
    /\ \A k \in DOMAIN buffer : buffer[k].part \in 1..Parts

(* A reply that arrives whole is shown, whatever was lost before it and    *)
(* whatever that left in the buffer - unless one of its parts looks like   *)
(* the start of another, or is a single byte.                              *)
WholeReplyShown ==
    [][(wire # <<>> /\ wire' = Tail(wire) /\ Head(wire).part = Parts /\ whole')
        => shown'[Head(wire).kind] = Head(wire).reply]_vars
=============================================================================

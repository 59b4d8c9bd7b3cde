---------------------------- MODULE LinkInterval ----------------------------
(***************************************************************************)
(* A configured connection_interval (ble._assert_connection_interval,      *)
(* ble._verify_link, hci): asked for when a link comes up, and again when  *)
(* most frames of the last minute were rejected, because the peripheral    *)
(* may have renegotiated the link slow and nothing reports that.           *)
(*                                                                         *)
(* hcitool may find no handle, fail, or be refused: all one here.  A link  *)
(* at the interval asked for loses a frame now and then; one that is slow  *)
(* loses them all (ble.py:18-20).  When a link is lost the plugin keeps    *)
(* its counts, and the next link is first judged with them.                *)
(***************************************************************************)
EXTENDS Naturals

CONSTANTS
    VerifySeconds,   \* VERIFY_SECONDS, in rounds of _hold
    MinFrames,       \* MIN_FRAMES_TO_JUDGE
    Burst,           \* bound: frames of one round
    Noise,           \* bound: frames a good link damages from one check to the next
    MaxCount         \* bound: where the plugin's counts are cut off

VARIABLES
    up,              \* the coroutine is in _hold
    slow,            \* the link was renegotiated and not set since
    since,           \* since_verify
    ok, bad,         \* the plugin's _frames_ok and _frames_bad
    asked,           \* history: _verify_link has just asked for the interval,
    slowSeen         \*   and some link was slow since the counts were last read

vars == <<up, slow, since, ok, bad, asked, slowSeen>>

Capped(n) == IF n > MaxCount THEN MaxCount ELSE n

-----------------------------------------------------------------------------
(* frame_health, and what _verify_link makes of it.                        *)
GoneSlowOnAccepted(a, r) == a >= MinFrames /\ ~(10 * a >= 3 * (a + r))

GoneSlow(a, r) == a + r >= MinFrames /\ ~(10 * a >= 3 * (a + r))

CountsRead(a, r) == ok' = 0 /\ bad' = 0

VerifyLink(a, r, set) ==
    /\ CountsRead(a, r)
    /\ asked' = GoneSlow(a, r)
    /\ slow' = (slow /\ ~(GoneSlow(a, r) /\ set))
    /\ slowSeen' = slow'

(* A round of _hold, in which a accepted and r rejected frames arrive.     *)
Round(a, r, set) ==
    /\ up
    /\ IF slow THEN a = 0 ELSE bad + r <= Noise \/ r = 0
    /\ IF since + 1 >= VerifySeconds
       THEN since' = 0 /\ VerifyLink(Capped(ok + a), Capped(bad + r), set)
       ELSE /\ since' = since + 1
            /\ ok' = Capped(ok + a) /\ bad' = Capped(bad + r)
            /\ asked' = FALSE
            /\ UNCHANGED <<slow, slowSeen>>
    /\ UNCHANGED up

Hold == \E a, r \in 0..Burst, set \in BOOLEAN : Round(a, r, set)

(* _assert_connection_interval on a link that has just come up.            *)
Connect(set) ==
    /\ ~up
    /\ up' = TRUE /\ since' = 0
    /\ slow' \in IF set THEN {FALSE} ELSE BOOLEAN
    /\ slowSeen' = (slowSeen \/ slow')
    /\ asked' = FALSE
    /\ UNCHANGED <<ok, bad>>

Lose ==
    /\ up
    /\ up' = FALSE /\ slow' = FALSE /\ asked' = FALSE
    /\ UNCHANGED <<since, ok, bad, slowSeen>>

(* The peripheral asks for a slow interval and BlueZ grants it.            *)
Renegotiate ==
    /\ up /\ ~slow
    /\ slow' = TRUE /\ slowSeen' = TRUE /\ asked' = FALSE
    /\ UNCHANGED <<up, since, ok, bad>>

Init == /\ up = FALSE /\ slow = FALSE /\ since = 0 /\ ok = 0 /\ bad = 0
        /\ asked = FALSE /\ slowSeen = FALSE

Next == Hold \/ (\E set \in BOOLEAN : Connect(set)) \/ Lose \/ Renegotiate

(* _hold goes on, and if again and again a check could find the link slow  *)
(* and hcitool set it, once it does: not every minute of a slow link has   *)
(* too few frames to judge it by, and hcitool does not fail for ever.      *)
SetBySlowness == \E r \in 0..Burst : Round(0, r, TRUE) /\ asked'

Fairness == WF_vars(Hold) /\ SF_vars(SetBySlowness)

Spec == Init /\ [][Next]_vars /\ Fairness

-----------------------------------------------------------------------------
TypeOK ==
    /\ {up, slow, asked, slowSeen} \subseteq BOOLEAN
    /\ since \in 0..VerifySeconds - 1
    /\ ok \in 0..MaxCount /\ bad \in 0..MaxCount

(* A link that has gone slow is set again, or lost, however many good      *)
(* frames came before and whatever the links before it left in the counts. *)
SlowLinkIsSet == (up /\ slow) ~> (~up \/ ~slow)

(* The interval is asked for again only for a reason: since the counts     *)
(* were last read some link, though perhaps one before this, was slow.     *)
AskedForAReason == [][asked' => slowSeen]_vars
=============================================================================

---------------------------- MODULE DeviceWrites ----------------------------
(***************************************************************************)
(* The writes to one device: the payloads of commands, each a coroutine    *)
(* that write_with_retry runs in, and the polls of _hold.  They share the  *)
(* write lock of the client they go through; every connection has a client *)
(* and a lock of its own.                                                  *)
(*                                                                         *)
(* A payload stays with the client the device had when the command came,   *)
(* and is given up with it.  Between its two attempts a payload sleeps,    *)
(* and does not hold the lock.                                             *)
(*                                                                         *)
(* Payloads are numbered in the order commands produce them.  pc of one:   *)
(*                                                                         *)
(*   unborn       no command has produced it                               *)
(*   scheduled    call_soon_threadsafe has not reached its coroutine       *)
(*   waiting      async with lock                                          *)
(*   writing      client.write_gatt_char()                                 *)
(*   sleeping     sleep(0.2)                                               *)
(*   accepted, refused, dropped     what has become of it                  *)
(*                                                                         *)
(* External: bleak's client.  A write that reaches the device may still    *)
(* raise, when the answer is lost.                                         *)
(***************************************************************************)
EXTENDS Naturals, SequencesExt

CONSTANTS MaxPayloads,    \* bound: how many payloads commands produce
          MaxConns,       \* bound: how many connections the device has
          Attempts,       \* write_with_retry's attempts, 2
          Poll,           \* the poll of _hold, as a user of the lock
          None

Payloads == 1 .. MaxPayloads
Conns == 1 .. MaxConns
Users == Payloads \cup {Poll}

ASSUME WritesAssumption ==
    /\ MaxPayloads \in Nat /\ MaxConns \in Nat /\ Attempts \in Nat \ {0}
    /\ {Poll, None} \cap Nat = {} /\ Poll # None

VARIABLES
    pc,         \* of each payload, and of maintain_device: none, subscribing, then in
                \*   _hold: idle, waiting, writing; leaving
    on,         \* the connection each of them writes through; 0: none
    tries,      \* write_with_retry's attempt, per payload
    reached,    \* what is being written has reached the device
    client,     \* dev._client: the connection commands are written through; 0: none
    link,       \* the connection that is up; 0: none
    conns,      \* how many connections there have been
    holder,     \* per connection, who holds its write lock
    waiters,    \* ... and who queues for it
    stop, loop,
    device      \* history: the payloads that reached the device, in that order

lock == <<holder, waiters>>
radio == <<client, link, conns>>
vars == <<pc, on, tries, reached, radio, lock, stop, loop, device>>

-----------------------------------------------------------------------------
Init == /\ pc = [u \in Users |-> IF u = Poll THEN "none" ELSE "unborn"]
        /\ on = [u \in Users |-> 0]
        /\ tries = [p \in Payloads |-> 0]
        /\ reached = {}
        /\ client = 0 /\ link = 0 /\ conns = 0
        /\ holder = [c \in Conns |-> None]
        /\ waiters = [c \in Conns |-> <<>>]
        /\ stop = FALSE /\ loop = TRUE
        /\ device = <<>>

-----------------------------------------------------------------------------
(* async with lock: granted at once, or u queues.                          *)
Acquire(u, c) ==
    \/ /\ holder[c] = None
       /\ holder' = [holder EXCEPT ![c] = u]
       /\ pc' = [pc EXCEPT ![u] = "writing"]
       /\ UNCHANGED waiters
    \/ /\ holder[c] # None
       /\ waiters' = [waiters EXCEPT ![c] = Append(@, u)]
       /\ pc' = [pc EXCEPT ![u] = "waiting"]
       /\ UNCHANGED holder

(* u gives the lock to the one that has waited longest and goes on at next. *)
ReleaseToNewest(u, next) ==
    LET c == on[u] IN
    \/ /\ waiters[c] = <<>>
       /\ holder' = [holder EXCEPT ![c] = None]
       /\ pc' = [pc EXCEPT ![u] = next]
       /\ UNCHANGED waiters
    \/ /\ waiters[c] # <<>>
       /\ holder' = [holder EXCEPT ![c] = Last(waiters[c])]
       /\ waiters' = [waiters EXCEPT ![c] = Front(@)]
       /\ pc' = [pc EXCEPT ![u] = next, ![Last(waiters[c])] = "writing"]

Release(u, next) ==
    LET c == on[u] IN
    \/ /\ waiters[c] = <<>>
       /\ holder' = [holder EXCEPT ![c] = None]
       /\ pc' = [pc EXCEPT ![u] = next]
       /\ UNCHANGED waiters
    \/ /\ waiters[c] # <<>>
       /\ holder' = [holder EXCEPT ![c] = Head(waiters[c])]
       /\ waiters' = [waiters EXCEPT ![c] = Tail(@)]
       /\ pc' = [pc EXCEPT ![u] = next, ![Head(waiters[c])] = "writing"]

(* u leaves the queue wherever it is in it.                                *)
GiveUpWaiting(u, next) ==
    LET c == on[u] IN
    /\ \E i \in 1 .. Len(waiters[c]) :
          /\ waiters[c][i] = u
          /\ waiters' = [waiters EXCEPT ![c] = RemoveAt(@, i)]
    /\ pc' = [pc EXCEPT ![u] = next]
    /\ UNCHANGED holder

-----------------------------------------------------------------------------
(* run_command: cmdRequest returns n payloads; characteristic_write_value  *)
(* schedules each on the client there is, or drops it when there is none.  *)
Unborn == {p \in Payloads : pc[p] = "unborn"}

RunCommand(n) ==
    /\ loop /\ n <= Cardinality(Unborn)
    /\ LET first == MaxPayloads - Cardinality(Unborn) + 1
           born == first .. first + n - 1
       IN /\ pc' = [u \in Users |->
                        IF u \notin born THEN pc[u]
                        ELSE IF client = 0 THEN "dropped" ELSE "scheduled"]
          /\ on' = [u \in Users |-> IF u \in born THEN client ELSE on[u]]
    /\ UNCHANGED <<tries, reached, radio, lock, stop, loop, device>>

(* The loop runs what was scheduled in that order.                         *)
Starts(p) ==
    /\ loop /\ pc[p] = "scheduled"
    /\ \A q \in Payloads : q < p => pc[q] # "scheduled"
    /\ tries' = [tries EXCEPT ![p] = 1]
    /\ Acquire(p, on[p])
    /\ UNCHANGED <<on, reached, radio, stop, loop, device>>

(* The radio delivers what is being written.                               *)
Reaches(u) ==
    /\ pc[u] = "writing" /\ u \notin reached /\ link # 0 /\ link = on[u]
    /\ reached' = reached \cup {u}
    /\ device' = IF u = Poll THEN device ELSE Append(device, u)
    /\ UNCHANGED <<pc, on, tries, radio, lock, stop, loop>>

WriteReturns(p) ==
    /\ loop /\ pc[p] = "writing" /\ p \in reached
    /\ Release(p, "accepted")
    /\ reached' = reached \ {p}
    /\ UNCHANGED <<on, tries, radio, stop, loop, device>>

(* It raises, having reached the device or not: once more, or give up.     *)
MoreAttempts(p) == tries[p] < Attempts

WriteRaises(p) ==
    /\ loop /\ pc[p] = "writing"
    /\ Release(p, IF MoreAttempts(p) THEN "sleeping" ELSE "refused")
    /\ reached' = reached \ {p}
    /\ UNCHANGED <<on, tries, radio, stop, loop, device>>

TriesAgainConnected(p) ==       \* waits for its connection to be up
    /\ loop /\ pc[p] = "sleeping" /\ link = on[p]
    /\ tries' = [tries EXCEPT ![p] = @ + 1]
    /\ Acquire(p, on[p])
    /\ UNCHANGED <<on, reached, radio, stop, loop, device>>

TriesAgain(p) ==
    /\ loop /\ pc[p] = "sleeping"
    /\ tries' = [tries EXCEPT ![p] = @ + 1]
    /\ Acquire(p, on[p])
    /\ UNCHANGED <<on, reached, radio, stop, loop, device>>

Writes(p) == Starts(p) \/ WriteReturns(p) \/ WriteRaises(p) \/ TriesAgain(p)

-----------------------------------------------------------------------------
(* maintain_device and _hold, as far as writes see them.                   *)
Connects ==
    /\ loop /\ ~stop /\ pc[Poll] = "none" /\ link = 0 /\ conns < MaxConns
    /\ conns' = conns + 1
    /\ link' = conns' /\ client' = conns'
    /\ on' = [on EXCEPT ![Poll] = conns']
    /\ pc' = [pc EXCEPT ![Poll] = "subscribing"]
    /\ UNCHANGED <<tries, reached, lock, stop, loop, device>>

Subscribes ==
    /\ loop /\ pc[Poll] = "subscribing" /\ link = on[Poll]
    /\ pc' = [pc EXCEPT ![Poll] = "idle"]
    /\ UNCHANGED <<on, tries, reached, radio, lock, stop, loop, device>>

(* A turn of _hold that polls.                                             *)
PollUnlocked ==                 \* write_gatt_char() without the lock
    /\ loop /\ ~stop /\ pc[Poll] = "idle" /\ link = on[Poll]
    /\ pc' = [pc EXCEPT ![Poll] = "writing"]
    /\ UNCHANGED <<on, tries, reached, radio, lock, stop, loop, device>>

PollStarts ==
    /\ loop /\ ~stop /\ pc[Poll] = "idle" /\ link = on[Poll]
    /\ Acquire(Poll, on[Poll])
    /\ UNCHANGED <<on, tries, reached, radio, stop, loop, device>>

PollReturns ==
    /\ loop /\ pc[Poll] = "writing" /\ Poll \in reached
    /\ Release(Poll, "idle")
    /\ reached' = reached \ {Poll}
    /\ UNCHANGED <<on, tries, radio, stop, loop, device>>

(* _hold ends: on_disconnected, and what is up is closed.                  *)
Leaves == /\ client' = 0
          /\ UNCHANGED <<on, tries, link, conns, stop, loop, device>>

PollRaises ==
    /\ loop /\ pc[Poll] = "writing"
    /\ Release(Poll, "leaving")
    /\ reached' = reached \ {Poll}
    /\ Leaves

HoldEnds ==
    /\ loop
    /\ \/ pc[Poll] = "idle" /\ (stop \/ link # on[Poll])
       \/ pc[Poll] = "subscribing"        \* start_notify raises, or is cancelled
    /\ pc' = [pc EXCEPT ![Poll] = "leaving"]
    /\ Leaves
    /\ UNCHANGED <<reached, lock>>

(* CancelledError in the poll: its place in the queue, or the lock, is     *)
(* given up.                                                               *)
PollCancelled ==
    /\ loop /\ stop
    /\ \/ /\ pc[Poll] = "writing"
          /\ Release(Poll, "leaving")
       \/ /\ pc[Poll] = "waiting"
          /\ GiveUpWaiting(Poll, "leaving")
    /\ reached' = reached \ {Poll}
    /\ Leaves

Disconnects ==
    /\ loop /\ pc[Poll] = "leaving"
    /\ pc' = [pc EXCEPT ![Poll] = "none"]
    /\ on' = [on EXCEPT ![Poll] = 0]
    /\ link' = 0
    /\ UNCHANGED <<tries, reached, client, conns, lock, stop, loop, device>>

Maintain == PollReturns \/ PollRaises \/ HoldEnds \/ PollCancelled \/ Disconnects

LinkDrops == /\ link # 0 /\ link' = 0
             /\ UNCHANGED <<pc, on, tries, reached, client, conns, lock, stop, loop, device>>

Stop == /\ ~stop /\ stop' = TRUE
        /\ UNCHANGED <<pc, on, tries, reached, radio, lock, loop, device>>

(* BleManager.stop cancels the tasks and then stops the loop.              *)
LoopStops == /\ stop /\ loop /\ loop' = FALSE
             /\ UNCHANGED <<pc, on, tries, reached, radio, lock, stop, device>>

Stopped == ~loop /\ UNCHANGED vars

Next == \/ \E n \in Payloads : RunCommand(n)
        \/ \E p \in Payloads : Writes(p)
        \/ \E u \in Users : Reaches(u)
        \/ Connects \/ Subscribes \/ PollStarts \/ Maintain
        \/ LinkDrops \/ Stop \/ LoopStops \/ Stopped

(* Every write returns or raises, since the ATT transaction times out;     *)
(* sleeps end; the loop runs what is ready.  Nothing is assumed of         *)
(* connecting, subscribing, or of how often _hold polls.                   *)
Spec == /\ Init /\ [][Next]_vars
        /\ \A p \in Payloads : WF_vars(Writes(p))
        /\ WF_vars(PollReturns \/ PollRaises)

-----------------------------------------------------------------------------
(* tests/test_write_lock.py: "Writes to one connection are serialised."    *)
(* Whoever writes holds the lock of the connection it writes through, over *)
(* failures, retries, cancelled polls, lost links and new connections, and *)
(* a lock nobody uses is free (ble.py:71-77, connection.py:46-48).         *)
WritesSerialised ==
    /\ \A u \in Users : pc[u] = "writing" => holder[on[u]] = u
    /\ \A c \in Conns : holder[c] # None => pc[holder[c]] = "writing" /\ on[holder[c]] = c
    /\ \A c \in Conns : holder[c] = None => waiters[c] = <<>>

(* Payloads reach the device in the order the commands came, across        *)
(* connections too: one is overtaken only if an attempt of its own was     *)
(* refused, and then only during its 0.2 seconds of sleep                  *)
(* (connection.py:44-57, solardevice.py:142-143).                          *)
OvertakenOnlyByRetry ==
    \A i, j \in 1 .. Len(device) : i < j /\ device[i] > device[j] => tries[device[j]] > 1

(* Every payload of a command comes to an end, however much is polled and  *)
(* whatever happens to the connection it waits for, unless the loop is     *)
(* stopped (connection.py:44-57).                                          *)
CommandsSettle ==
    \A p \in Payloads :
        pc[p] = "scheduled" ~> (pc[p] \in {"accepted", "refused"} \/ ~loop)
=============================================================================

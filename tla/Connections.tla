---------------------------- MODULE Connections ----------------------------
(***************************************************************************)
(* ble.BleManager and ble.maintain_device: one coroutine per device on one *)
(* event loop, each of which keeps its device connected.  Setting up a     *)
(* connection is serialised by connect_lock, because the Bluetooth         *)
(* controller allows one LE Create Connection at a time.                   *)
(*                                                                         *)
(* Coroutines only switch at an await, so one action is what a coroutine   *)
(* does from one await to the next.  pc says which await it is in:         *)
(*                                                                         *)
(*   unborn         register() has not created the task                    *)
(*   waiting        connect_lock.acquire()                                 *)
(*   connecting     client.connect()                                       *)
(*   subscribing    client.start_notify(), holding connect_lock still      *)
(*   polling        client.write_gatt_char() of a poll, in _hold           *)
(*   holding        the sleep of _hold                                     *)
(*   disconnecting  client.disconnect(), in the finally block              *)
(*   backoff        the sleep after a failed attempt                       *)
(*   done           the task has ended                                     *)
(*                                                                         *)
(* asyncio.Lock hands the lock to its waiters in the order they came, and  *)
(* a coroutine that asks for it while one waits queues behind it.          *)
(***************************************************************************)
EXTENDS Naturals, SequencesExt

CONSTANTS Devices,
          Polled,         \* those whose plugin is polled; the others stream
          MaxAttempt,     \* bound: where the count of attempts is cut off; the
                          \*   code stops telling them apart at 30
          None

ASSUME ConnectionsAssumption ==
    /\ Polled \subseteq Devices
    /\ MaxAttempt \in Nat
    /\ None \notin Devices

VARIABLES
    pc,
    link,       \* client.is_connected of the coroutine's current client
    connected,  \* the local of that name: this attempt got to _hold
    attempt,    \* the local of that name: what the backoff grows with
    client,     \* dev._client is not None: commands can be written
    online,     \* the availability last published for the device
    holder,     \* who holds connect_lock
    waiters,    \* who queues for it
    stopCall,   \* BleManager.stop: not called, waiting for _shutdown, or done
                \*   waiting because five seconds were over
    stop,       \* BleManager._stop
    cancelled,  \* tasks a cancel() is yet to be delivered to
    loop,       \* the event loop runs
    fails       \* history: failed attempts since the last good connection

lock == <<holder, waiters>>
shutdown == <<stopCall, stop, cancelled, loop>>
vars == <<pc, link, connected, attempt, client, online, lock, shutdown, fails>>

-----------------------------------------------------------------------------
Init == /\ pc = [d \in Devices |-> "unborn"]
        /\ link = [d \in Devices |-> FALSE]
        /\ connected = [d \in Devices |-> FALSE]
        /\ attempt = [d \in Devices |-> 0]
        /\ client = [d \in Devices |-> FALSE]
        /\ online = [d \in Devices |-> FALSE]
        /\ holder = None
        /\ waiters = <<>>
        /\ stopCall = "none"
        /\ stop = FALSE
        /\ cancelled = {}
        /\ loop = TRUE
        /\ fails = [d \in Devices |-> 0]

-----------------------------------------------------------------------------
OneMoreUncut(n) == n + 1

OneMore(n) == IF n < MaxAttempt THEN n + 1 ELSE n

(* An await of d's that is over.  A task with a cancel() pending gets      *)
(* CancelledError from it instead of its result.                           *)
Resumes(d) == loop /\ d \notin cancelled

(* d asks for connect_lock at the top of maintain_device's loop, with a    *)
(* new client.                                                             *)
Request(d) ==
    /\ link' = [link EXCEPT ![d] = FALSE]
    /\ connected' = [connected EXCEPT ![d] = FALSE]
    /\ \/ /\ holder = None
          /\ holder' = d
          /\ pc' = [pc EXCEPT ![d] = "connecting"]
          /\ UNCHANGED waiters
       \/ /\ holder # None
          /\ waiters' = Append(waiters, d)
          /\ pc' = [pc EXCEPT ![d] = "waiting"]
          /\ UNCHANGED holder

(* d leaves the "async with connect_lock" block, to its own next await.    *)
Release(d, next) ==
    \/ /\ waiters = <<>>
       /\ holder' = None
       /\ pc' = [pc EXCEPT ![d] = next]
       /\ UNCHANGED waiters
    \/ /\ waiters # <<>>
       /\ holder' = Head(waiters)
       /\ waiters' = Tail(waiters)
       /\ pc' = [pc EXCEPT ![d] = next, ![Head(waiters)] = "connecting"]

(* dev.on_connected(client) and dev.on_disconnected().                     *)
OnConnected(d) == /\ client' = [client EXCEPT ![d] = TRUE]
                  /\ online' = [online EXCEPT ![d] = TRUE]

OnDisconnectedKeepsOnline(d) ==         \* the client forgotten, nothing published
    /\ client' = [client EXCEPT ![d] = FALSE]
    /\ UNCHANGED online

OnDisconnected(d) == /\ client' = [client EXCEPT ![d] = FALSE]
                     /\ online' = [online EXCEPT ![d] = FALSE]

(* What follows the finally block when there was no good connection.       *)
AfterFailureNotCounted(d) == UNCHANGED attempt

AfterFailure(d) ==
    IF stop THEN UNCHANGED attempt ELSE attempt' = [attempt EXCEPT ![d] = OneMore(@)]

GivesUp == "done"                       \* the exception ends the task

PcAfterFailure == IF stop THEN "done" ELSE "backoff"

(* ... and when there was one.                                             *)
AfterGoodConnectionRetries(d) ==        \* no look at the stop event
    attempt' = [attempt EXCEPT ![d] = 0] /\ Request(d)

AfterGoodConnection(d) ==
    \/ /\ stop
       /\ pc' = [pc EXCEPT ![d] = "done"]
       /\ link' = [link EXCEPT ![d] = FALSE]
       /\ UNCHANGED <<attempt, connected, lock>>
    \/ /\ ~stop
       /\ attempt' = [attempt EXCEPT ![d] = 0]
       /\ Request(d)

-----------------------------------------------------------------------------
(* BleManager.register: the task is created and runs to its first await.   *)
Register(d) ==
    /\ loop /\ pc[d] = "unborn"
    /\ \/ /\ stop
          /\ pc' = [pc EXCEPT ![d] = "done"]
          /\ UNCHANGED <<link, connected, lock>>
       \/ /\ ~stop
          /\ Request(d)
    /\ UNCHANGED <<attempt, client, online, shutdown, fails>>

ConnectSucceedsUnlocked(d) ==           \* connect_lock given up before start_notify
    /\ Resumes(d) /\ pc[d] = "connecting"
    /\ link' = [link EXCEPT ![d] = TRUE]
    /\ OnConnected(d)
    /\ Release(d, "subscribing")
    /\ UNCHANGED <<connected, attempt, shutdown, fails>>

ConnectSucceeds(d) ==
    /\ Resumes(d) /\ pc[d] = "connecting"
    /\ link' = [link EXCEPT ![d] = TRUE]
    /\ OnConnected(d)
    /\ pc' = [pc EXCEPT ![d] = "subscribing"]
    /\ UNCHANGED <<connected, attempt, lock, shutdown, fails>>

(* client.connect() raises, the link up or not: it often aborts while      *)
(* services are resolved.  The lock is released, on_disconnected called,   *)
(* and a link that is up closed.                                           *)
ConnectFailsHoldingLock(d) ==           \* acquire() and release() without finally
    /\ Resumes(d) /\ pc[d] = "connecting"
    /\ fails' = [fails EXCEPT ![d] = OneMore(@)]
    /\ OnDisconnected(d)
    /\ AfterFailure(d)
    /\ link' = [link EXCEPT ![d] = FALSE]
    /\ pc' = [pc EXCEPT ![d] = PcAfterFailure]
    /\ UNCHANGED <<connected, lock, shutdown>>

EstablishmentFails(d) ==
    /\ fails' = [fails EXCEPT ![d] = OneMore(@)]
    /\ OnDisconnected(d)
    /\ \/ /\ link'[d]
          /\ Release(d, "disconnecting")
          /\ UNCHANGED attempt
       \/ /\ ~link'[d]
          /\ AfterFailure(d)
          /\ Release(d, PcAfterFailure)
    /\ UNCHANGED <<connected, shutdown>>

ConnectFails(d) ==
    /\ Resumes(d) /\ pc[d] = "connecting"
    /\ \E up \in BOOLEAN : link' = [link EXCEPT ![d] = up]
    /\ EstablishmentFails(d)

(* A turn of _hold's loop polls, if the device is polled and its plugin    *)
(* has something to ask, and then sleeps.                                  *)
HoldPcs(d) == IF d \in Polled THEN {"polling", "holding"} ELSE {"holding"}

(* The last start_notify returned: the connection counts as good from here *)
(* on.  Out of the lock, the interval is asserted, and _hold is entered.   *)
SubscribeSucceeds(d) ==
    /\ Resumes(d) /\ pc[d] = "subscribing"
    /\ link[d]
    /\ connected' = [connected EXCEPT ![d] = TRUE]
    /\ fails' = [fails EXCEPT ![d] = 0]
    /\ \E next \in HoldPcs(d) : Release(d, next)
    /\ UNCHANGED <<link, attempt, client, online, shutdown>>

SubscribeFails(d) ==
    /\ Resumes(d) /\ pc[d] = "subscribing"
    /\ UNCHANGED link
    /\ EstablishmentFails(d)

(* The way out of _hold and through the finally block.                     *)
LeaveHold(d) ==
    /\ OnDisconnected(d)
    /\ \/ /\ link[d]
          /\ pc' = [pc EXCEPT ![d] = "disconnecting"]
          /\ UNCHANGED <<attempt, connected, link, lock>>
       \/ /\ ~link[d]
          /\ AfterGoodConnection(d)

(* The write of a poll returned, or raised, which ends _hold.              *)
PollSucceeds(d) ==
    /\ Resumes(d) /\ pc[d] = "polling"
    /\ link[d]
    /\ pc' = [pc EXCEPT ![d] = "holding"]
    /\ UNCHANGED <<link, connected, attempt, client, online, lock, shutdown, fails>>

PollFails(d) ==
    /\ Resumes(d) /\ pc[d] = "polling"
    /\ LeaveHold(d)
    /\ UNCHANGED <<shutdown, fails>>

(* The sleep of _hold is over (every poll_interval, or at once on stop):   *)
(* go on while the link is up.  A sleeping task is woken by the stop event *)
(* and cancelled in the same turn of the loop, and either may end the      *)
(* sleep, so a pending cancel does not keep it from resuming normally.     *)
HoldWakesBlind(d) ==                    \* "while not stop_event.is_set()" alone
    /\ loop /\ pc[d] = "holding"
    /\ cancelled' = cancelled \ {d}
    /\ \/ /\ ~stop
          /\ \E next \in HoldPcs(d) : pc' = [pc EXCEPT ![d] = next]
          /\ UNCHANGED <<link, connected, attempt, client, online, lock>>
       \/ /\ stop
          /\ LeaveHold(d)
    /\ UNCHANGED <<stopCall, stop, loop, fails>>

HoldWakes(d) ==
    /\ loop /\ pc[d] = "holding"
    /\ cancelled' = cancelled \ {d}
    /\ \/ /\ ~stop /\ link[d]
          /\ \E next \in HoldPcs(d) : pc' = [pc EXCEPT ![d] = next]
          /\ UNCHANGED <<link, connected, attempt, client, online, lock>>
       \/ /\ stop \/ ~link[d]
          /\ LeaveHold(d)
    /\ UNCHANGED <<stopCall, stop, loop, fails>>

(* client.disconnect() returned or raised, both of which are the end of    *)
(* it.                                                                     *)
Disconnected(d) ==
    /\ Resumes(d) /\ pc[d] = "disconnecting"
    /\ \/ /\ connected[d]
          /\ AfterGoodConnection(d)
       \/ /\ ~connected[d]
          /\ AfterFailure(d)
          /\ pc' = [pc EXCEPT ![d] = PcAfterFailure]
          /\ link' = [link EXCEPT ![d] = FALSE]
          /\ UNCHANGED <<connected, lock>>
    /\ UNCHANGED <<client, online, shutdown, fails>>

(* The backoff is over, or cut short by stop.                              *)
BackoffEnds(d) ==
    /\ loop /\ pc[d] = "backoff"
    /\ \/ /\ stop
          /\ pc' = [pc EXCEPT ![d] = "done"]
          /\ UNCHANGED <<link, connected, lock>>
       \/ /\ ~stop
          /\ Request(d)
    /\ cancelled' = cancelled \ {d}
    /\ UNCHANGED <<attempt, client, online, stopCall, stop, loop, fails>>

(* CancelledError surfaces at the await.  It is no Exception, so nothing   *)
(* catches it: locks are released and the finally block runs; its          *)
(* disconnect() is awaited unless that is what was cancelled.              *)
Cancelled(d) ==
    /\ loop /\ d \in cancelled
    /\ cancelled' = cancelled \ {d}
    /\ LET next == IF link[d] /\ pc[d] \notin {"disconnecting", "backoff"}
                   THEN "disconnecting" ELSE "done"
       IN \/ /\ pc[d] = "waiting"
             /\ \E i \in 1 .. Len(waiters) :
                    waiters[i] = d /\ waiters' = RemoveAt(waiters, i)
             /\ pc' = [pc EXCEPT ![d] = next]
             /\ UNCHANGED holder
          \/ /\ pc[d] \in {"connecting", "subscribing"}
             /\ Release(d, next)
          \/ /\ pc[d] \in {"polling", "holding", "disconnecting", "backoff"}
             /\ pc' = [pc EXCEPT ![d] = next]
             /\ UNCHANGED lock
    /\ OnDisconnected(d)
    /\ UNCHANGED <<link, connected, attempt, stopCall, stop, loop, fails>>

Step(d) == \/ ConnectSucceeds(d) \/ ConnectFails(d)
           \/ SubscribeSucceeds(d) \/ SubscribeFails(d)
           \/ PollSucceeds(d) \/ PollFails(d)
           \/ HoldWakes(d)
           \/ Disconnected(d) \/ BackoffEnds(d) \/ Cancelled(d)

-----------------------------------------------------------------------------
(* The radio link goes away under a client; nobody is told, is_connected   *)
(* turns false.                                                            *)
LinkDrops(d) ==
    /\ link[d]
    /\ pc[d] \in {"subscribing", "polling", "holding", "disconnecting"}
    /\ link' = [link EXCEPT ![d] = FALSE]
    /\ UNCHANGED <<pc, connected, attempt, client, online, lock, shutdown, fails>>

(* BleManager.stop, called by main in its own thread, hands _shutdown to   *)
(* the loop and waits for it.                                              *)
StopCalled ==
    /\ stopCall = "none"
    /\ stopCall' = "waiting"
    /\ UNCHANGED <<pc, link, connected, attempt, client, online, lock, stop, cancelled, loop,
                   fails>>

(* _shutdown sets the event and cancels every task.                        *)
Shutdown ==
    /\ loop /\ stopCall # "none" /\ ~stop
    /\ stop' = TRUE
    /\ cancelled' = {d \in Devices : pc[d] \notin {"unborn", "done"}}
    /\ UNCHANGED <<pc, link, connected, attempt, client, online, lock, stopCall, loop, fails>>

(* The five seconds of result() are over before the loop got to _shutdown, *)
(* which stays queued: something held the loop that long without an await, *)
(* the two sleeps of five seconds in send_magic_packets or a run of        *)
(* hcitool.  The TimeoutError is swallowed.                                *)
StopGivesUp ==
    /\ stopCall = "waiting" /\ ~stop
    /\ stopCall' = "gave up"
    /\ UNCHANGED <<pc, link, connected, attempt, client, online, lock, stop, cancelled, loop,
                   fails>>

(* In either case loop.stop is scheduled from the other thread.  When      *)
(* _shutdown has returned, it is behind the wake-ups of the cancelled      *)
(* tasks: each gets one more step.  When stop() gave up, it may overtake   *)
(* these, and _shutdown itself.                                            *)
LoopStopsAtOnce ==                      \* without waiting for _shutdown
    /\ loop /\ stopCall # "none"
    /\ loop' = FALSE
    /\ UNCHANGED <<pc, link, connected, attempt, client, online, lock, stopCall, stop,
                   cancelled, fails>>

LoopStops ==
    /\ loop
    /\ \/ stopCall = "waiting" /\ stop /\ cancelled = {}
       \/ stopCall = "gave up"
    /\ loop' = FALSE
    /\ UNCHANGED <<pc, link, connected, attempt, client, online, lock, stopCall, stop,
                   cancelled, fails>>

Stopped == ~loop /\ UNCHANGED vars

Next == \/ \E d \in Devices : Register(d) \/ Step(d) \/ LinkDrops(d)
        \/ StopCalled \/ Shutdown \/ StopGivesUp \/ LoopStops \/ Stopped

(* Fairness.  The event loop runs every callback that is ready; sleeps     *)
(* end; bleak's connect and disconnect have timeouts of their own, and so  *)
(* has the ATT transaction of a poll write.  start_notify has no timeout   *)
(* in this code, so nothing is assumed of it while the link is up.         *)
Spec ==
    /\ Init /\ [][Next]_vars
    /\ \A d \in Devices :
          /\ WF_vars(ConnectSucceeds(d) \/ ConnectFails(d))
          /\ WF_vars(SubscribeFails(d) /\ ~link[d])
          /\ WF_vars(PollSucceeds(d) \/ PollFails(d))
          /\ WF_vars(HoldWakes(d))
          /\ WF_vars(Disconnected(d))
          /\ WF_vars(BackoffEnds(d))
          /\ WF_vars(Cancelled(d))
    /\ WF_vars(Shutdown) /\ WF_vars(LoopStops)

-----------------------------------------------------------------------------
Pcs == {"unborn", "waiting", "connecting", "subscribing", "polling", "holding",
        "disconnecting", "backoff", "done"}

(* Types, and the queue for the lock is the set of coroutines waiting for  *)
(* it, each in it once.                                                    *)
TypeOK ==
    /\ pc \in [Devices -> Pcs]
    /\ link \in [Devices -> BOOLEAN] /\ connected \in [Devices -> BOOLEAN]
    /\ client \in [Devices -> BOOLEAN] /\ online \in [Devices -> BOOLEAN]
    /\ attempt \in [Devices -> 0 .. MaxAttempt] /\ fails \in [Devices -> 0 .. MaxAttempt]
    /\ holder \in Devices \cup {None}
    /\ waiters \in Seq(Devices)
    /\ stopCall \in {"none", "waiting", "gave up"}
    /\ stop \in BOOLEAN /\ loop \in BOOLEAN /\ cancelled \subseteq Devices

Establishing(d) == pc[d] \in {"connecting", "subscribing"}

(* At most one device is between the start of connect() and the end of its *)
(* last start_notify(), over every interleaving of failures, drops,        *)
(* cancellations and late registrations (ble.py:92-94, 103-115).           *)
OneEstablishment ==
    \A d, e \in Devices : Establishing(d) /\ Establishing(e) => d = e

(* The lock is not leaked: it is held exactly by the device that is        *)
(* connecting, and nobody waits for a lock that is free.                   *)
LockAccounted ==
    /\ \A d \in Devices : holder = d <=> Establishing(d)
    /\ \A d \in Devices : pc[d] = "waiting" <=> \E i \in 1 .. Len(waiters) : waiters[i] = d
    /\ holder = None => waiters = <<>>

(* The availability a device's entities show and the client its commands   *)
(* are written to are those of an attempt that has connected and not yet   *)
(* been given up: never while the device backs off, waits for the lock,    *)
(* closes its link, or after its task has ended (solardevice.py:107-123).  *)
AvailabilityFollowsClient ==
    \A d \in Devices :
        /\ online[d] = client[d]
        /\ client[d] <=> pc[d] \in {"subscribing", "polling", "holding"}

(* The backoff grows with the number of failed attempts in a row and with  *)
(* nothing else: the count is right whenever an attempt starts or a        *)
(* backoff is slept (ble.py:129-133).                                      *)
BackoffCountsFailures ==
    \A d \in Devices :
        pc[d] \in {"waiting", "connecting", "subscribing", "backoff"} => attempt[d] = fails[d]

(* Stopping is final: once a task has noticed the stop, it only closes its *)
(* link and ends; no connection attempt starts after it, and none is left  *)
(* in the queue for the lock.  And when the loop has been stopped, that is *)
(* true of every device, and none is left marked online, unless stop()     *)
(* gave up on a loop that did not get to _shutdown in time: then devices   *)
(* may be left as they were (ble.py:99, 127-128, 189-199).                 *)
AtRest(d) == pc[d] \in {"unborn", "disconnecting", "done"} /\ ~online[d]

StopIsFinal ==
    /\ stop => \A d \in Devices \ cancelled : AtRest(d)
    /\ ~loop /\ stopCall # "gave up" => \A d \in Devices : AtRest(d)

(* A device that is not connected is tried again and again, unless the     *)
(* program stops or some device's start_notify never returns: that one     *)
(* keeps connect_lock and with it everybody else out.                      *)
StuckSubscribing == <>[](\E e \in Devices : pc[e] = "subscribing")

Retried ==
    \A d \in Devices :
        \/ StuckSubscribing
        \/ pc[d] \in {"waiting", "disconnecting", "backoff", "done"}
              ~> (pc[d] = "connecting" \/ stopCall # "none")

(* A lost link is noticed: the device does not stay marked online, except  *)
(* when the loop was stopped by a stop() that had given up waiting.        *)
LostLinkNoticed ==
    \A d \in Devices : (online[d] /\ ~link[d]) ~> (~online[d] \/ stopCall = "gave up")
=============================================================================

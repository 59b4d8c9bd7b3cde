----------------------------- MODULE Lifecycle -----------------------------
(***************************************************************************)
(* The life of the process: monitor_app.main from the start of the scan to *)
(* its return, supervisor.supervise with its LivenessTracker, the          *)
(* late-discovery thread, and what the interpreter waits for before the    *)
(* process is gone.                                                        *)
(*                                                                         *)
(* main runs in the main thread, and so do signal handlers, between two    *)
(* of its bytecodes.  run_logger runs in a worker of a ThreadPoolExecutor, *)
(* which the interpreter joins on its way out; late discovery and the      *)
(* Bluetooth loop run in daemon threads, which it does not.                *)
(*                                                                         *)
(* main.pc   discover     manager.discover() has not returned              *)
(*           register     about to look at the next configured section     *)
(*           adding       register() waits for the loop to add main.sec    *)
(*           wait         stop_event.wait(check_interval), in supervise    *)
(*           check, scan, count     what supervise looks at, in that order *)
(*           stopping     about to set stop_event and to call              *)
(*                        manager.stop()                                   *)
(*           returned, raised       main is over, with or without a code   *)
(*           overtaken              ... or since late discovery added to   *)
(*                                  the tracker while supervise looked     *)
(*           blocked      the signal handler waits for the lock inside     *)
(*                        stop_event, which main itself holds              *)
(*                                                                         *)
(* External, modelled from how the code uses them: the scan, which shows   *)
(* what advertises at the time or fails; threading.Event, whose lock is    *)
(* not reentrant; the interpreter's exit.                                  *)
(***************************************************************************)
EXTENDS Naturals, FiniteSets

CONSTANTS Sections,       \* the sections of the ini file with a mac and a type
          Broken,         \* those SolarDevice cannot be made for
          MaxSignals,     \* bound: how many signals arrive
          None

ASSUME LifecycleAssumption ==
    /\ IsFiniteSet(Sections)
    /\ Broken \subseteq Sections
    /\ MaxSignals \in Nat
    /\ None \notin Sections \cup Nat

VARIABLES
    main,         \* pc, the sections to look at, the one at hand
    late,         \* the late-discovery thread, likewise
    visible,      \* the devices that advertise
    devices,      \* section -> SolarDevice
    adding,       \* register()'s _add coroutines that have not run
    tasks,        \* the devices with a maintain_device task
    expected,     \* LivenessTracker._last: the names expected
    stale,        \* ... and those whose last reading is too old
    snapshot,     \* the list liveness.stale() returned
    stop_event,
    logger,       \* the worker thread
    loop,         \* the Bluetooth loop runs
    code,         \* what main will return
    signals,      \* how many signals have arrived
    healthy       \* history: the expected devices that never went stale

registry == <<devices, adding, tasks, expected>>
vars == <<main, late, visible, registry, stale, snapshot, stop_event, logger, loop,
          code, signals, healthy>>

MainOver == main.pc \in {"returned", "raised", "overtaken"}
Exited == MainOver /\ logger = "done"

With(pc, todo, sec) == [pc |-> pc, todo |-> todo, sec |-> sec]

At(pc) == With(pc, {}, None)

Init == /\ main = At("discover")
        /\ late = At("unborn")
        /\ visible \in SUBSET Sections
        /\ devices = {} /\ adding = {} /\ tasks = {} /\ expected = {}
        /\ stale = {} /\ snapshot = {}
        /\ stop_event = FALSE
        /\ logger = "running"
        /\ loop = TRUE
        /\ code = None
        /\ signals = 0
        /\ healthy = {}

-----------------------------------------------------------------------------
(* _register(s), up to the call of manager.register: devices[s] and        *)
(* liveness.expect(s).  A device that cannot be set up is skipped.         *)
SetUp(s) == /\ devices' = devices \cup {s}
            /\ expected' = expected \cup {s}
            /\ healthy' = healthy \cup {s}
            /\ adding' = adding \cup {s}

Skip == UNCHANGED <<devices, expected, healthy, adding>>

(* manager.discover(timeout=15) and the loop over the configured sections; *)
(* nothing catches what it raises.                                         *)
MainDiscovers ==
    /\ main.pc = "discover"
    /\ \/ main' = With("register", visible, None)
       \/ main' = At("raised")
    /\ UNCHANGED <<late, visible, registry, stale, snapshot, stop_event, logger, loop,
                   code, signals, healthy>>

MainRegisters(s) ==
    /\ main.pc = "register" /\ s \in main.todo
    /\ \/ /\ s \notin Broken
          /\ SetUp(s)
          /\ main' = With("adding", main.todo \ {s}, s)
       \/ /\ s \in Broken
          /\ Skip
          /\ main' = With("register", main.todo \ {s}, None)
    /\ UNCHANGED <<late, visible, tasks, stale, snapshot, stop_event, logger, loop, code,
                   signals>>

(* register() returns when _add has run; or the five seconds are over      *)
(* first, and the TimeoutError ends main.  _add stays on the loop.         *)
MainRegistered ==
    /\ main.pc = "adding"
    /\ \/ /\ main.sec \notin adding
          /\ main' = With("register", main.todo, None)
       \/ /\ main.sec \in adding
          /\ main' = At("raised")
    /\ UNCHANGED <<late, visible, registry, stale, snapshot, stop_event, logger, loop,
                   code, signals, healthy>>

(* No configured device was discovered: exit, to be restarted.             *)
GiveUp == /\ main.pc = "register" /\ main.todo = {} /\ devices = {}
          /\ code' = 1
          /\ main' = At("stopping")
          /\ UNCHANGED <<late, visible, registry, stale, snapshot, stop_event, logger,
                         loop, signals, healthy>>

StartThreads ==
    /\ main.pc = "register" /\ main.todo = {} /\ devices # {}
    /\ main' = At("wait")
    /\ late' = At("wait")
    /\ UNCHANGED <<visible, registry, stale, snapshot, stop_event, logger, loop, code,
                   signals, healthy>>

-----------------------------------------------------------------------------
(* supervise: stop_event.wait(check_interval) ...                          *)
SuperviseWakes ==
    /\ main.pc = "wait"
    /\ \/ stop_event /\ main' = At("stopping") /\ code' = 0
       \/ ~stop_event /\ main' = At("check") /\ UNCHANGED code
    /\ UNCHANGED <<late, visible, registry, stale, snapshot, stop_event, logger, loop,
                   signals, healthy>>

(* ... logger_future.done() ...                                            *)
SuperviseChecksLogger ==
    /\ main.pc = "check"
    /\ \/ logger = "done" /\ main' = At("stopping") /\ code' = 1
       \/ logger # "done" /\ main' = At("scan") /\ UNCHANGED code
    /\ UNCHANGED <<late, visible, registry, stale, snapshot, stop_event, logger, loop,
                   signals, healthy>>

(* ... liveness.stale(timeout) ...                                         *)
SuperviseScans ==
    /\ main.pc = "scan"
    /\ snapshot' = stale
    /\ main' = At("count")
    /\ UNCHANGED <<late, visible, registry, stale, stop_event, logger, loop, code, signals,
                   healthy>>

(* ... and len(stale) == liveness.expected_count().                        *)
AnyStale(names) == names # {}           \* if stale:

AllConfiguredStale(names) ==            \* against the sections, not the devices expected
    Cardinality(names) = Cardinality(Sections)

AllStale(names) == Cardinality(names) = Cardinality(expected)

SuperviseCounts ==
    /\ main.pc = "count"
    /\ \/ AllStale(snapshot) /\ main' = At("stopping") /\ code' = 1
       \/ ~AllStale(snapshot) /\ main' = At("wait") /\ UNCHANGED code
    /\ UNCHANGED <<late, visible, registry, stale, snapshot, stop_event, logger, loop,
                   signals, healthy>>

(* stop_event.set(), manager.stop(), return.  stop() cancels the tasks and *)
(* stops the loop, and its waits have timeouts.                            *)
Stops == /\ main.pc = "stopping"
         /\ stop_event' = TRUE
         /\ loop' = FALSE
         /\ main' = At("returned")
         /\ UNCHANGED <<late, visible, registry, stale, snapshot, logger, code, signals,
                        healthy>>

Main == \/ MainDiscovers
        \/ \E s \in Sections : MainRegisters(s)
        \/ MainRegistered
        \/ GiveUp \/ StartThreads
        \/ SuperviseWakes \/ SuperviseChecksLogger \/ SuperviseScans \/ SuperviseCounts
        \/ Stops

-----------------------------------------------------------------------------
(* _late_discovery_loop: stop_event.wait(120), and what is missing.        *)
Missing == Sections \ devices

LateWakes ==
    /\ late.pc = "wait" /\ main.pc # "blocked"
    /\ \/ stop_event /\ late' = At("ended")
       \/ ~stop_event /\ Missing # {} /\ late' = With("discover", Missing, None)
    /\ UNCHANGED <<main, visible, registry, stale, snapshot, stop_event, logger, loop,
                   code, signals, healthy>>

(* A scan that fails is tried again at the next turn.                      *)
LateScanFailsOnce ==                    \* break instead of continue
    /\ late.pc = "discover"
    /\ late' = At("ended")
    /\ UNCHANGED <<main, visible, registry, stale, snapshot, stop_event, logger, loop,
                   code, signals, healthy>>

LateScanFails ==
    /\ late.pc = "discover"
    /\ late' = At("wait")
    /\ UNCHANGED <<main, visible, registry, stale, snapshot, stop_event, logger, loop,
                   code, signals, healthy>>

LateScanFinds ==
    /\ late.pc = "discover" /\ loop
    /\ late' = With("register", late.todo \cap visible, None)
    /\ UNCHANGED <<main, visible, registry, stale, snapshot, stop_event, logger, loop,
                   code, signals, healthy>>

(* liveness.expect() puts a new key in a dict supervise may be iterating   *)
(* over in its thread: then the iteration raises, and nothing in main      *)
(* catches it.                                                             *)
LateRegisters(s) ==
    /\ late.pc = "register" /\ s \in late.todo
    /\ \/ /\ s \notin Broken
          /\ SetUp(s)
          /\ late' = With("adding", late.todo \ {s}, s)
          /\ \/ UNCHANGED main
             \/ main.pc = "scan" /\ main' = At("overtaken")
       \/ /\ s \in Broken
          /\ Skip
          /\ late' = With("register", late.todo \ {s}, None)
          /\ UNCHANGED main
    /\ UNCHANGED <<visible, tasks, stale, snapshot, stop_event, logger, loop, code, signals>>

LateRoundEnds ==
    /\ late.pc = "register" /\ late.todo = {}
    /\ late' = At("wait")
    /\ UNCHANGED <<main, visible, registry, stale, snapshot, stop_event, logger, loop,
                   code, signals, healthy>>

(* The TimeoutError of a register() ends this thread: only discover() is   *)
(* inside the try.                                                         *)
LateRegistered ==
    /\ late.pc = "adding"
    /\ \/ /\ late.sec \notin adding
          /\ late' = With("register", late.todo, None)
       \/ /\ late.sec \in adding
          /\ late' = At("dead")
    /\ UNCHANGED <<main, visible, registry, stale, snapshot, stop_event, logger, loop,
                   code, signals, healthy>>

Late == /\ ~Exited
        /\ \/ LateWakes \/ LateScanFails \/ LateScanFinds
           \/ \E s \in Sections : LateRegisters(s)
           \/ LateRoundEnds \/ LateRegistered

-----------------------------------------------------------------------------
(* The loop gets to an _add.                                               *)
AddForgotten(s) ==                      \* cancelled when register() times out
    /\ ~Exited /\ loop /\ s \in adding
    /\ adding' = adding \ {s}
    /\ tasks' = IF s \in {main.sec, late.sec} THEN tasks \cup {s} ELSE tasks
    /\ UNCHANGED <<main, late, visible, devices, expected, stale, snapshot, stop_event,
                   logger, loop, code, signals, healthy>>

AddRuns(s) ==
    /\ ~Exited /\ loop /\ s \in adding
    /\ adding' = adding \ {s}
    /\ tasks' = tasks \cup {s}
    /\ UNCHANGED <<main, late, visible, devices, expected, stale, snapshot, stop_event,
                   logger, loop, code, signals, healthy>>

(* run_logger delivers a reading of s, and liveness.record(s) notes it.    *)
Records(s) ==
    /\ loop /\ logger = "running" /\ s \in tasks
    /\ s \in stale
    /\ stale' = stale \ {s}
    /\ UNCHANGED <<main, late, visible, registry, snapshot, stop_event, logger, loop, code,
                   signals, healthy>>

(* Ten minutes without a reading of s.                                     *)
GoesStale(s) ==
    /\ ~Exited /\ s \in expected \ stale
    /\ stale' = stale \cup {s}
    /\ healthy' = healthy \ {s}
    /\ UNCHANGED <<main, late, visible, registry, snapshot, stop_event, logger, loop, code,
                   signals>>

(* A device comes in range, or is switched on; or the other way round.     *)
Appears(s) ==
    /\ ~MainOver
    /\ visible' = IF s \in visible THEN visible \ {s} ELSE visible \cup {s}
    /\ UNCHANGED <<main, late, registry, stale, snapshot, stop_event, logger, loop, code,
                   signals, healthy>>

(* run_logger's loop condition: no failure of log ends it.                 *)
LoggerRunsForEver ==                    \* while True:
    /\ logger = "running" /\ stop_event
    /\ UNCHANGED vars

LoggerEnds ==
    /\ logger = "running" /\ stop_event
    /\ logger' = "done"
    /\ UNCHANGED <<main, late, visible, registry, stale, snapshot, stop_event, loop, code,
                   signals, healthy>>

(* SIGTERM or SIGINT: _handle_signal sets stop_event.  When the signal     *)
(* interrupts main while it holds the lock inside stop_event, on its way   *)
(* in or out of wait() or in its own set(), the handler blocks on it.      *)
Signal ==
    /\ ~Exited /\ main.pc # "blocked"
    /\ signals < MaxSignals /\ signals' = signals + 1
    /\ \/ stop_event' = TRUE /\ UNCHANGED main
       \/ main.pc \in {"wait", "stopping"} /\ main' = At("blocked") /\ UNCHANGED stop_event
    /\ UNCHANGED <<late, visible, registry, stale, snapshot, logger, loop, code, healthy>>

Gone == Exited /\ UNCHANGED vars

Next == \/ Main \/ Late
        \/ \E s \in Sections : AddRuns(s) \/ Records(s) \/ GoesStale(s) \/ Appears(s)
        \/ LoggerEnds \/ Signal \/ Gone

(* Every thread runs: main's waits and the worker's have timeouts, a scan  *)
(* returns or raises, the loop gets to an _add however long it was busy.   *)
(* The late thread scans for ever, and its scans do not fail for ever.     *)
Spec == /\ Init /\ [][Next]_vars
        /\ WF_vars(Main) /\ WF_vars(Late) /\ WF_vars(LoggerEnds)
        /\ SF_vars(~Exited /\ LateScanFinds)
        /\ \A s \in Sections : WF_vars(AddRuns(s))

-----------------------------------------------------------------------------
MainPcs == {"discover", "register", "adding", "wait", "check", "scan", "count",
            "stopping", "returned", "raised", "overtaken", "blocked"}

LatePcs == {"unborn", "wait", "discover", "register", "adding", "ended", "dead"}

(* Types, and what is expected is what is registered: a device is expected *)
(* to deliver exactly if it is in the table, and it has a task or is about *)
(* to be given one.                                                        *)
TypeOK ==
    /\ main \in [pc : MainPcs, todo : SUBSET Sections, sec : Sections \cup {None}]
    /\ late \in [pc : LatePcs, todo : SUBSET Sections, sec : Sections \cup {None}]
    /\ visible \subseteq Sections /\ devices \subseteq Sections \ Broken
    /\ adding \subseteq Sections /\ tasks \subseteq Sections
    /\ expected = devices
    /\ adding \cup tasks = devices /\ adding \cap tasks = {}
    /\ stale \subseteq expected /\ snapshot \subseteq expected
    /\ healthy \subseteq expected \ stale
    /\ stop_event \in BOOLEAN /\ loop \in BOOLEAN
    /\ logger \in {"running", "done"}
    /\ code \in {None, 0, 1} /\ signals \in 0 .. MaxSignals

(* A restart because of silence happens only when every device has been    *)
(* silent: not while one has always been on time, not even one that late   *)
(* discovery adds between the two looks supervise takes at the tracker     *)
(* (supervisor.py:93-94).                                                  *)
NoRestartWhileHealthy ==
    [][main.pc = "count" /\ main'.pc = "stopping" => healthy = {}]_vars

(* Once a stop has been requested the process goes away, whatever main is  *)
(* doing: scanning, registering, giving up, supervising, or failing; the   *)
(* exception is the handler that blocks on the event's own lock.           *)
StopLeadsToExit == stop_event ~> (Exited \/ main.pc = "blocked")

(* When main returns the process is about to go: the worker thread, which  *)
(* the interpreter joins, and the loop are told to end (monitor_app.py:    *)
(* 162, 184-185).                                                          *)
ReturnEndsThreads == main.pc = "returned" => stop_event /\ ~loop /\ code # None

(* If main came to supervise, and every device falls silent for good, the  *)
(* process is gone in the end (supervisor.py:87-96), with two exceptions   *)
(* after which nobody looks at the devices and the process stays: the      *)
(* signal handler that blocks main, and late discovery that adds a name to *)
(* the tracker while stale() iterates over it, which ends main             *)
(* (supervisor.py:63).  A main that ended before it came to supervise, in  *)
(* the first scan or a registration, is no promise of supervise's.         *)
SilenceLeadsToExit ==
    <>(main.pc = "wait") /\ <>[](expected # {} /\ expected \subseteq stale)
        => <>(Exited \/ main.pc \in {"blocked", "overtaken"})

(* An expected device is maintained in the end, even if its registration   *)
(* timed out, unless the loop is stopped: otherwise the tracker waits for  *)
(* a device nobody connects to.                                            *)
ExpectedIsMaintained ==
    \A s \in Sections : s \in expected ~> (s \in tasks \/ ~loop \/ Exited)

(* docs/superpowers/specs/2026-07-17-solar-monitor-improvement-design.md,  *)
(* success criterion 1: "No single-point failure [...] leaves the process  *)
(* alive-but-idle; each either self-heals or exits non-zero for systemd to *)
(* restart."  Main is over, no device is served, and the interpreter waits *)
(* for a worker that nobody has told to stop.                              *)
NoAliveButIdle == ~(MainOver /\ tasks = {} /\ adding = {} /\ ~stop_event)

(* A device that can be set up and stays in range is registered, as long   *)
(* as the program supervises and no registration in the late-discovery     *)
(* thread has timed out, which ends that thread for good: failed scans and *)
(* sections that cannot be set up do not (monitor_app.py:165-175).         *)
MissingIsRegistered ==
    \A s \in Sections \ Broken :
        <>[](/\ s \in visible /\ ~stop_event /\ late.pc # "dead"
             /\ main.pc \in {"wait", "check", "scan", "count"})
            => <>(s \in devices)
=============================================================================

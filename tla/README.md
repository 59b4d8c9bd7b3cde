# Verification of solar-monitor

TLA+ modules, TLC configurations and TLAPS proofs about the daemon in this
repository: a program that holds Bluetooth LE connections to batteries,
regulators and inverters, filters and collects their readings, delivers them to
an MQTT broker and/or an HTTP server, and passes commands from MQTT to the
devices.

Run everything from this directory:

    tlc -workers 2 -config MCConnections.cfg MCConnections   # likewise the other cfgs
    tlapm ConnectionsProofs.tla                              # likewise the other proofs

## 1. The system

### Threads

| thread | code | ends |
|---|---|---|
| main | `monitor_app.main`: scan, register, `supervisor.supervise`; also runs signal handlers | returns an exit code or raises |
| logger worker | `supervisor.run_logger` in a `ThreadPoolExecutor` | on `stop_event`; **joined at interpreter exit** |
| Bluetooth loop (daemon) | `ble.BleManager`: one `maintain_device` coroutine per device, `connect_lock` | `manager.stop()` |
| late discovery (daemon) | `main._late_discovery_loop` | on `stop_event`, or by an exception |
| command bridge (daemon) | `ble.command_bridge` | on `stop_event` |
| paho network thread | `on_connect`, `on_message`, retransmission | with the client |

### Components

| component | state it keeps | operations | interacts through |
|---|---|---|---|
| **Value filter** `PowerDevice.validate` | per variable: `val`, `rejected`, `rejected_val`, limits | `validate`, `apply_limit_overrides` | called by every plugin's setter |
| **Command path** `DataLoggerMqtt.on_message`, `ble.command_bridge` | `sets` (lists per device), `trigger`, a shared wake event | append, set trigger; swap list, submit | plain dicts and lists shared by two threads without a lock |
| **Connections** `BleManager`, `maintain_device`, `_hold` | `connect_lock`, per coroutine `attempt`, `connected`, client; `dev._client`, availability | register, connect, subscribe, hold, poll, back off, stop | asyncio lock and events; `on_connected` / `on_disconnected` callbacks |
| **Delivery** `_enqueue`, `run_logger`, `DataLogger` | bounded queue, `logdata` (value and time last delivered), the MQTT client's outgoing messages | enqueue, take, publish, POST, remember, refresh | `queue.Queue`; two sinks that fail independently |
| **Lifecycle** `main`, `supervise`, `LivenessTracker` | device table, tracker, `stop_event`, exit code | scan, register, supervise, late discovery, signals, stop | events, futures, the tracker's dict shared by three threads |
| **Discovery and subscriptions** `DataLoggerMqtt` | `_command_topics`, `_listener_created`, `_published` | create sensor/switch/listener, publish, on_connect | dicts shared with paho's thread |
| **Availability** `set_available` | retained messages the client has not got rid of yet | mark at start, at registration, on (dis)connection | `on_connected` / `on_disconnected` callbacks; the broker |
| Device writes `write_with_retry`, `characteristic_write_value` | `_write_lock`, current client | write, retry | coroutines on the loop |
| **Entities** `PowerDevice`, `BatteryDevice`, ... | values, derived state and health, cell voltages | setters and getters | called from the notification handler |
| **Plugins** Meritsun, Topband, Hacien, SolarLink, RenogyBatt, VEDirect | reassembly buffers, poll position, handshake, a capacity estimate | notification handler, poll request, command request | called by `SolarDevice` |
| **Connection interval** `_verify_link`, `hci` | frame counts (in the plugin), time since the last check | ask for the interval on connecting, and when the frames go bad | `frame_health`; an `hcitool` process |
| Codecs `codec`, `asciihex`, `modbus` | none | pure functions | called by plugins |
| `duallog`, entry point, configuration | none of interest | I/O | |

### What is hard about it

- **Interleavings.** Five threads and a set of coroutines share dicts, lists
  and events; only connecting and writing take locks. The atomicity of the
  command path is that of single dict and list operations.
- **Failure at every await.** A connection attempt may fail, lose its link or
  be cancelled at each of its awaits, with or without the lock, with or without
  a link to close.
- **Two sinks, one memory.** A value is remembered once for both sinks, while
  the MQTT client itself keeps some messages and not others.
- **Liveness of an unattended machine.** Devices come late, fall silent, links
  break; the program must keep trying, and must end when systemd can do better.
- **Shutdown.** A process only goes away when all non-daemon threads do.
- **A filter that must neither believe noise nor refuse the truth for ever**,
  and values derived from what it was given, not from what it let through.
- **Byte streams without a frame.** Notifications are cut anywhere, damaged and
  lost, and some damage the checksums do not see.
- **Replies nobody matches to their requests**, so that one read before a
  command may be taken for the state after it.

`PROJECT.json` lists each such hazard at its line with the properties that
would catch it going wrong.

### What makes each component correct

- *Value filter*: nothing outside the limits is stored; a persistent change is
  believed; scattered noise is not.
- *Command path*: per device first in first out, each command once, none lost,
  no lost wake-up.
- *Connections*: one connection set-up at a time; the lock is never leaked;
  availability is truthful; the backoff counts failures; everything is retried;
  stopping is final.
- *Delivery*: what is remembered as sent is what the sinks have; the broker
  ends up with the last reading; the producer never blocks.
- *Lifecycle*: no restart while a device is healthy, a restart when all are
  silent, every stop request ends the process, missing devices are found.
- *Subscriptions*: a switch that reports stays subscribed, a config that the
  broker lost comes back.
- *Availability*: the last word on each device is true, over restarts.
- *Device writes*: one write at a time; commands keep their order, retries
  apart; every command is settled.
- *Framing*: however a byte stream is cut into notifications, the frames decoded
  are those of the stream; nothing that was not sent is shown; after any loss
  the plugin finds its way back.
- *Poll cycles*: every register is read again and again; switches come to show
  what the device does.
- *Battery entity*: state and health settle on the stored values; a cell that
  was right stays right.
- *Connection interval*: a link gone slow is set again, and none without reason.

## 2. The modules

Every module keeps the source's names. `PROJECT.json` ("map") gives the lines
behind each definition. Operators that are described as a deviation in their
trailing comment (`...Unlocked`, `...NoReset`, `...Forgotten`, and so on)
appear in no specification: each is what a definition would be with a plausible
bug, and substituting it must make the property it is meant for fail.

### ValueFilter, ValueFilterProofs

One action, `Read(v)`: a call of `validate` for one definition. `filter` is the
definition's mutable part. Two history variables count runs of consistent
readings, one of which is broken by an out-of-range reading and one is not.
The limits are constants with the assumption that `MaxDiff` is not negative
(`apply_limit_overrides` accepts any number).

### CommandQueue, CommandBridge, CommandBridgeProofs

`CommandQueue` is the promise: a first-in-first-out queue per device, whose
entries are eventually handed out when the device is known and the program
does not stop. `CommandBridge` has an action for each access of
`on_message` (get the list, append to it, set the trigger) and of
`command_bridge` (register triggers, wait, clear, look at a list, swap it,
iterate over it). Lists have an identity: the one `on_message` got hold of may
be the one in `sets`, the one being drained, or one that nobody will read.
`ImplementsQueue` is the refinement, with `pending` being what the bridge is
iterating over followed by what is in `sets`. A command lost to an orphaned
list was never in `pending`; that this happens is a finding (below).

### Connections, ConnectionsProofs

One coroutine per device, one action per stretch between two awaits; `pc`
names the await (the module's header lists them). `holder` and `waiters` are
the asyncio lock, handed over in order of arrival. `cancelled` is the set of
tasks whose `cancel()` has not surfaced yet; `Cancelled` is the `finally` block
running under `CancelledError`, including its `disconnect()`. A sleep that
races stop and cancellation may end either way. `BleManager.stop` is called from
main's thread: `StopCalled` queues `_shutdown` (`Shutdown`) and waits for it, or
gives up after five seconds (`StopGivesUp`), which the code swallows; in either
case the loop is then stopped (`LoopStops`), after the cancelled tasks had their
step if stop() waited, and at any point if it gave up.

### Delivery, DeliveryProofs

The notification side (`Report`), the worker in four steps (`Take`,
`SendMqtt`, `SendHttp`, `Remember`), exceptions (`LogRaises`), the refresh
(`BecomesDue`), and, external, paho and the broker: a publish without a
connection returns a failure code, yet a QoS 1 message is kept and sent on
every new connection; packets on a breaking connection are lost; an
acknowledgement may be lost. Whether an HTTP server is configured is chosen in
the initial state, so one run covers both. `doubtful` is history: the items of
which, since the client last took a publish, a QoS 0 packet was lost, a publish
was refused but kept, or something failed after the publish (it is in a
property's premise, in no guard). A switch is not made doubtful by a lost
connection or acknowledgement: the client sends it again.

### DeviceWrites, DeviceWritesProofs

The payloads of commands as coroutines of `write_with_retry`, and the polls of
`_hold`, around write locks, of which each connection has its own. `on` is the client a payload
captured when its command came; `client` is `dev._client` and `link` the
connection that is up, which differ while a lost link has not been noticed.
That a write reaches the device (`Reaches`) and that it returns are two
actions, so that one may raise after it took effect. The part of
`maintain_device` that concerns writes is repeated here in small; Connections
has all of it.

### Lifecycle, LifecycleProofs

`main` step by step, from the scan to its return, with its look at
`stop_event`, at the worker, at the tracker and at the count as four actions,
so that late discovery, signals and the worker may come between any two of
them. `Broken` are sections whose device cannot be set up. The tracker's clock
is abstracted to which devices' last reading is too old (`stale`). A process is
gone (`Exited`) when main is over *and* the worker, which the interpreter
joins, has ended. Main is over when it returned, when something it calls before
it supervises raised (`raised`), or when late discovery added to the tracker
while `stale()` iterated over it (`overtaken`).

### MqttSubscriptions

The logger worker in `publish` and `create_listener` (`wpc` is where it is),
paho's thread in `on_connect` (`visit` is what the iterator over
`_command_topics` has still to visit, `size` how many it began with, as
CPython checks), the broker with its subscriptions and retained configs, a
process that may crash. `created` and `sensors` are `_listener_created` and the
`_published` dict with the age of an entry: fresh or due for a refresh.

### Availability

The messages of `set_available` in the order the client keeps them, and the
word the broker retains. The process may crash at any time, the connection
break, an acknowledgement be lost so that a message is sent twice, and the
broker lose its retained messages. `Word(d)` is the truth.

### MeritsunFraming, MeritsunFrame

`MeritsunFraming` feeds the accumulator every stream over a small alphabet in
every cutting. A packet is the place of its marker (`PacketsOf`), and the
loop handles the good ones in the order of their places (`InOrder`, which holds
the k-th place of a set); so the same operators say what a notification handles
and what a reader of the whole stream would. `received` and `dropped` are
history for the latter. `MeritsunFrame` takes one
frame from the device to the entities, with the three kinds of damage its code
speaks of: bytes damaged where a zero was, which the checksum does not see; a
run of zeros; and "bloated" frames. Fields are two bytes of one bit.

### TopbandFraming

The three states of the byte machine, in a stream of fixed-length frames of
which pieces get lost. `missed` counts whole frames in a row none of which was
handled.

### HacienReplies

Requests, replies in parts, and the buffer. That CRCs are right only for whole
replies is taken for granted, up to trailing zeros, which leave a CRC of 0 as
it is. `quiet` is how many polls ago each register was asked for (its bound is in `TypeOK`).

### SolarLinkSwitch, VEDirectSwitch

A device with a switch that is commanded, switched by hand, and read back.
Requests and replies are queues, with losses. In VEDirectSwitch the output
voltage says "on" too, through a buffer that may hold it back for long.

### RenogyBatt

The poll cycle, and the estimate of the remaining capacity: `exp_capacity` is
the filter of that entity, the `Validate` of ValueFilter. `rest` is a promise
of the environment: from now on the battery neither gives nor takes.

### BatteryEntity

The setters of current and of charge cycles around two instances of
ValueFilter, and the filter cell voltages have instead. `truth` is the voltage
a cell really has; `CellNoise` is a reading far from it.

### LinkInterval

`_verify_link` in the rounds of `_hold`, reading the counts of the plugin. A
good link damages a frame now and then, a slow one all of them (ble.py:18-20).

### MCPlugins, PluginsProofs; MCMqtt, MqttProofs

Most of the components above share no state with each other. The two modules
compose them for one run each: `part`, chosen in the initial state, is the one
that moves, with the instances of the others at rest. Their properties are
those of the module they extend, and those of the instances under names of
their own, some of which join two properties of a part. They take the constants
of all parts, with the assumptions the proofs need; the values are in the cfgs.
The assumptions come from the code, but for three that relate scaled-down
proportions as the real ones are: a notification is no longer than the stream
buffer (512 bytes, the most a notification can hold); a Topband frame is longer
than its header, and its padding begins where `end` stays with its first byte
(`TopbandAssumption`); and a good link damages less than 70 % of the
fewest frames it is judged by (ble.py:18-20, `LinkAssumption`).

| name | stands for |
|---|---|
| `PartsTypeOK` | `TypeOK` of every part, whether it moves or not; among its bounds are those of the stream buffer of MeritsunFraming and of how long HacienReplies and RenogyBatt leave a register out |
| `StreamIsRead` | `CuttingIsIrrelevant` and `OnlyOverlongDropped` of MeritsunFraming |
| `FrameIsRead` | `NothingInvented` and `DamageIsContained` of MeritsunFrame |
| `BatterySettles` | `StateSettles` and `HealthSettles` of BatteryEntity |
| `SwitchesAreShown` | `SwitchIsShown` of SolarLinkSwitch and of VEDirectSwitch |
| `SlowLinkIsSet` | `SlowLinkIsSet` and `AskedForAReason` of LinkInterval |

### How the components meet

Delivery's `Report` is what a notification does while Connections has the
device in `holding` or `polling`; the entity values it reports have passed
ValueFilter. `Records` of Lifecycle is the worker of Delivery after a `log`.
CommandBridge's `submitted` is what DeviceWrites runs as `RunCommand`.
Lifecycle's `AddRuns` is Connections' `Register`, and its `Stops` is
Connections' `StopCalled` to `LoopStops`. A plugin's notification handler ends in
the setters of BatteryEntity and ValueFilter, and its poll request is what
Connections writes in `polling`; LinkInterval reads what MeritsunFraming counts;
CommandBridge's `OnMessage` happens while MqttSubscriptions has the switch
subscribed; Availability's words are Connections' `online`. The modules are checked separately;
each takes the others as an environment that may do at any time whatever it
may do at some time.

## 3. The runs

| run | shows | bounds, and why they are enough |
|---|---|---|
| value_filter | the filter, over every sequence of readings: nothing out of range stored, never latched, a jump only at the end of a consistent run | readings -1..10, limits 0..8, `MaxDiff` 1: values below, on and beyond both limits and three clusters that are not consistent with each other. 2731 plays the same role as 0 and is covered by the proofs, which are for all limits |
| | MeritsunFraming: how the stream is cut does not matter; the buffer is bounded; cutting it costs only overlong packets | all streams of 8 bytes over two digits, padding and marker, in notifications of up to 3; a buffer of 6 cut to 2, so that it overflows with and without a marker in it |
| | MeritsunFrame: nothing is shown that was not sent; damage costs only what it hit | two scalars and two cells of two bytes: one damaged and one good of each |
| | TopbandFraming: of three whole frames in a row one is handled | frames of 6 bytes, notifications of up to a frame, endless stream |
| | HacienReplies: a whole reply is shown; both registers are asked for | 3 parts, 3 replies: a first, a last and one between, two kinds |
| | SolarLinkSwitch, VEDirectSwitch: the switch shown becomes that of the device | two changes (a command and a hand, in either order), one loss; as many requests under way as a command and a poll make |
| | RenogyBatt: all registers are asked for | capacity 4, estimate up to 5 |
| | BatteryEntity: state and health settle, a cell tracks | currents on both sides of every threshold and beyond the limits; 8 cell values, steps of 2, noise far off |
| | LinkInterval: a slow link is set again, and only with a reason | checks every 2 rounds, 2 frames to judge, 2 a round |
| value_filter_consecutive | *violation*: the run need not be consecutive | the filter, as above |
| command_bridge | CommandBridge: no lost wake-up; a refinement of the queue, hence per device first in first out and each command once | 2 devices, 3 commands: two in one list, a third during the drain, two devices in one round |
| | MqttSubscriptions: switches that report stay subscribed, lost configs come back | 2 entities, each a switch or a sensor, 2 faults (crash, lost connection, subscribe raising, a broker that forgets): any fault in the midst of the recovery from any other |
| | Availability: the last word is true once devices are marked, and the broker converges to it | 2 devices, 2 faults of any kind, 3 messages kept per device |
| command_lost | *violation*: a command can be lost | the bridge, as above |
| mqtt_thread_dies | *violation*: the network thread dies, and no command is heard any more | MqttSubscriptions, as above |
| renogy_resync | *violation*: the estimate of a battery at rest is never corrected | capacity 12 with a maxdiff of 1, a correction every 3 replies instead of 300, four voltages |
| connections | exclusive set-up, lock, availability, backoff, final stop, which leaves no device online unless stop() gave up; retry and noticing of lost links | 3 devices (one connects, two queue, in either order), one of them polled; the attempt count is cut off at 2, as the code's exponent is at 30 |
| delivery | what is remembered was accepted and, for a switch over lost connections too, is what the broker shows; the broker converges | a switch (QoS 1) and a sensor (QoS 0), 2 values, queue of 1, one change, one lost connection, one failed POST or exception, 2 packets under way. One of each failure at every place is what the argument needs: after the last failure the refresh repairs the rest |
| delivery_switch | *violation*: an undelivered switch state is delivered later and not corrected | the switch alone, two changes |
| device_writes | writes to one connection are serialised, a payload is overtaken only during its own retry, every payload is settled | 3 payloads (one command with three, or up to three commands), 2 connections, 2 attempts as in the code: a retry that waits behind two others, and one that outlives its connection |
| lifecycle | no needless restart, restart on silence once main supervises, stop leads to exit, registration completed, missing devices found | 2 working sections and a broken one, 2 signals |
| lifecycle_idle | *violation*: alive but idle | the same |

Properties in a *violation* run state what a comment or a document says, which
the code does not do; they are listed in section 5.

`connections`, `device_writes` and `lifecycle` check for deadlock with an
explicit "finished" action for the states in which the system may stop;
`delivery` never stops. In `value_filter`, `command_bridge` and their parts the
check is off: a bounded stream comes to its end, as does one frame, and the
parts at rest have nothing to do; that nothing is left undone at the end is
what their liveness properties say.

### Fairness

- *CommandBridge*: weak fairness of each thread. Neither waits on anything but
  `wake.wait(0.5)`, which ends by itself.
- *Connections*: weak fairness of everything the event loop runs or bleak
  bounds by a timeout: connect, disconnect, a poll's write, sleeps,
  cancellation. `start_notify` has no timeout in this code, so **nothing** is
  assumed of it while the link is up; `Retried` therefore has the exception of a
  device that hangs there with the lock held. Once stop() is called the loop
  gets to `_shutdown`, and to `loop.stop` once that is queued. Nothing is assumed
  of links dropping, of stop() being called, or of its giving up.
- *MqttSubscriptions*, *Availability*: systemd starts a process that crashed,
  paho reconnects, threads and broker run, refresh intervals pass, and an entity
  goes on reporting (strong fairness: the worker may be busy with another).
  Faults are bounded, which is to say that they stop.
- *SolarLinkSwitch*, *VEDirectSwitch*: `_hold` polls for ever, the device takes
  and answers what reaches it, notifications are handled. Losses are bounded.
- *RenogyBatt*: the battery goes on answering.
- *LinkInterval*: `_hold` goes on, and a check with enough frames in which
  hcitool succeeds, when possible again and again, happens (strong fairness).
  The other plugin models have safety properties only and no fairness.
- *Delivery*: the worker and paho's thread run, paho reconnects by itself, the
  refresh interval passes, and a device goes on sending notifications for which
  the queue again and again has room (strong fairness: the queue fills and
  empties). The failures are bounded, which is to say that they stop.
- *DeviceWrites*: every write returns or raises (the ATT transaction has a
  timeout), sleeps end, the loop runs what is ready. Nothing is assumed of
  connecting or of how often is polled.
- *Lifecycle*: the threads run, the loop gets to a coroutine that was submitted
  however long it was busy, and late scans do not fail for ever (strong
  fairness of a successful scan). Nothing is assumed of devices appearing, of
  readings, or of signals.

## 4. The proofs

Proved with TLAPS for every value of the constants that satisfies the modules'
named assumptions:

| module | theorem | says |
|---|---|---|
| ValueFilterProofs | FilterTypeCorrect, FilterInRange | state well formed; nothing outside the limits is ever stored |
| | FilterNeverLatches, FilterRefusesNoise | a persistent change is believed; a jump ends a consistent run |
| ConnectionsProofs | ConnectionsTypeCorrect | types, for any number of devices |
| | LockNeverLeaks, EstablishmentIsExclusive | the lock is held exactly by the device that connects; its queue is exactly the waiting ones; one set-up at a time |
| | AvailabilityIsTruthful | availability and client follow the connection |
| | StoppingIsFinal | a task that saw the stop connects no more and is offline, and once the loop is stopped that is so of all devices, unless stop() gave up waiting |
| | BackoffIsRight | the attempt count is the number of failures since the last good connection |
| DeviceWritesProofs | WritesNeverOverlap | one write at a time per connection, by the holder of its lock, for any number of payloads, connections and attempts |
| | OnlyRetriesAreOvertaken | a payload is overtaken only during its own retry |
| DeliveryProofs | DeliveryTypeCorrect | types |
| | BrokerShowsRemembered | once nothing about an item is under way, the broker shows what is remembered of it: for a switch over any number of lost connections and acknowledgements, for a sensor if no packet was lost; refused-but-kept publishes and failures after the publish are excepted |
| | OnlyAcceptedIsRemembered | nothing is remembered that MQTT or the server did not take |
| CommandBridgeProofs | BridgeTypeCorrect | types, and what on_message may be holding when |
| | NoWakeUpIsLost | the bridge never sleeps on a command that was signalled |
| | BridgeImplementsQueue | every step of the two threads is one of the abstract queue or a stutter: first in first out, each command once |
| MqttProofs | PartsTypeCorrect | types of the bridge, the subscriptions and the availability messages, over any crashes |
| | BridgeIsAwake | `NoWakeUpIsLost`, as the run states it |
| | AvailabilitySaysTheTruth | over any faults, the last word on each device is true once main has marked them |
| PluginsProofs | PartsTypeCorrect | types and bounds of all plugins: of what they buffer, whatever the devices send, of how long a register is left out, of the estimate, of what waits to be sent |
| | StreamIsReadAlways | however a Meritsun stream is cut, lost in part or damaged, its good packets are handled in order, each once, all others are counted, and the buffer's bound costs a good one only if it is overlong |
| | FrameIsReadAlways | of a damaged frame nothing is shown that was not sent, and all that the damage did not hit |
| | NeverStarvesAlways | of three whole Topband frames in a row one is handled, whatever was lost before |
| | WholeReplyIsShown | a Hacien reply that arrives whole is shown, whatever an earlier one left in the buffer |
| | BatterySettlesAlways | three consistent readings in a row bring the state into line with the stored current, and the health with the stored cycles |
| | CellTracksAlways | a cell that was right stays right to within the deadband, whatever the noise |
| | IntervalAskedForAReason | the interval of a link is asked for again only if it was slow since the counts were last read (the safety part of `SlowLinkIsSet`) |
| LifecycleProofs | LifecycleTypeCorrect | expected = registered = with a task or about to get one |
| | ReturnIsClean | when main returns, worker and loop have been told to end (not in a run) |
| | NoNeedlessRestart | no restart on silence while one device has always been on time |

The arguments:

- `FilterInv` adds to the type invariant that the run of refusals counted by
  the filter and the run counted by the history agree (`Counted`): either the
  stored value is the last reading, or the filter has counted at least as many
  refusals as the run is long. The promise to believe a run follows at its
  last reading.
- `ConnInv` is types, `LockInv` and availability. `LockInv` has what
  `LockAccounted` has, and in addition that nobody is in the queue twice:
  without it, handing the lock over would not remove its receiver from the
  queue. The proof has one lemma for the effect of each of asking for, handing
  over and giving back the lock, and for a cancelled waiter leaving the middle
  of the queue; a step of a device changes the lock in one of these ways.
- `StopInv`: after the stop, a task whose cancellation has surfaced only
  disconnects or is over (`RestInv`); that it is offline then is availability,
  from `ConnInv`. And unless stop() gave up, a loop that was stopped has run
  `_shutdown` and let every cancellation surface (`OrderlyInv`). `CountsInv`: the count is the number of failures while an attempt
  is made or waited for, is one behind while the link of a failed attempt is
  being closed, and both start again after a good connection.
- `WritesInv`: the queue of each lock is exactly the users that wait for it,
  each once (`LockInv`); payloads are born in order, on no earlier connection
  than those before them (`BirthInv`); and whoever is still at its first attempt
  has all later ones of its connection behind it (`OrderInv`). Only the newest
  connection reaches the device, which makes this an order over connections.
- `DeliveryInv`: the QoS 1 packets on the wire are the first ones the client
  still keeps, in the same order (`WireInv`), so losing the wire loses none of
  them and an acknowledgement removes just the packet that was taken; the last
  packet about an item, on the wire and in what is kept, says what the worker
  has in its hands or else what is remembered, and if there is none the broker
  shows it (`HeadsInv`); and what the worker knows of the reading in
  its hands is true (`WorkerInv`).
- `BridgeInv`: commands are numbered as they come, and the one `on_message` has
  at hand is in no list but its device's (`NewestInv`); a list it may append to
  while the bridge drains it has been replaced by an empty one (`DrainedInv`);
  a device with a signalled command in its list is known, and while the event is
  clear the bridge has yet to look at that list (`WakeInv`). `DrainedInv` is why
  an append to the list being drained is an append to the queue.
- `LifeInv` adds that a section still to be registered is not in the table
  (`TodoIsMissing`), that main and late discovery never register at the same
  time (`OneRegistrar`), and that the list of silent devices and the set of
  always-healthy ones are disjoint. From it, equal cardinalities of the list
  and the table (`CountIsEnough`) make them the same set, so no healthy device
  is left. Finiteness of the set of sections is used here.

- `AvailInv` adds to `LastWordIsTrue` that a device is registered only in a
  process that has marked its devices (`NoneBeforeUp`): then nothing is linked
  when main writes "offline" for all, so all of those words are true. The rest
  is one lemma for a word that is appended and one for the oldest that is taken.
- MCMqtt and MCPlugins compose parts that share nothing. A lemma of each says
  that a step of the composition is, for every part, a step of its own or none
  (`StepOfOne`); so each part has its own invariant, proved of its own steps,
  and the theorems are of the composition. The bridge's invariant is that of
  CommandBridgeProofs, instantiated.
- `SubscriptionsInv`: the iterator of `on_connect` is over topics that exist,
  and what the worker has in its hands is one of them (`KnownInv`: a switch
  whose listener is known, or being created, has its command topic in the set).
- `CellInv` is that the voltage is within the limits and `CellTracks` itself.
  What carries it is the triangle inequality: a step of the voltage of at most
  `CellDiff - Deadband` is within `CellDiff` of a stored value that is within
  `Deadband` of it, and damage of more than `CellDiff + Deadband` is not.
- `StateInv` is `FilterInv` of ValueFilterProofs, for the filter of the current,
  and the property. That the filter believes the end of a run, proved there, is
  why the reading of which the state was derived is the one that is stored.
  `HealthInv` is the same of the charge cycles; a reading that is not positive,
  of which no health is derived, is out of the filter's range and ends the run.
- `FramingInv`: what is buffered is the end of what was received, and holds no
  marker but its first byte. So a marker in the way of the bound came with the
  notification itself: a packet cut off either has the next marker within a
  notification's length (`Short`), and is then no good frame, or began the
  buffer, and then all other markers are far from it (`Overlong`).
- `StreamInv`: every marker that is no longer buffered began a packet that was
  taken or one that was dropped, and what was handled and counted are the taken
  ones. A notification takes the packets of the bounded stream; moved to their
  place in all that was received, they are the packets there that come after
  all taken before (`TakenGrows`), and they are the same packets, good or not
  (`GoodGrows`). That the messages of both together are the old ones followed
  by the new is a fact about ordering sets of numbers (`OrderJoins`).
- `TopbandInv`: `Phase` relates the machine to the place in the frame that
  is being sent. As long as no frame has been missed anything may be buffered;
  one frame later either the machine waits for a head, or it is ahead of the
  frame, holds what began inside an earlier one, and runs full before this one
  ends; two frames later it is in step with the frame and has read exactly its
  bytes, whose checksum is then right. What a notification does is a fold over
  its bytes; `FoldSteps` says that what holds at first and is kept by each byte
  holds at the end.
- `HacienInv`: as long as nothing of a reply was lost, what is buffered is
  that reply from its first part on, and what is on the wire continues it;
  `SinceAsked` bounds by the poll cycle how long ago each register was asked
  for, and `RenogyInv` does so with the place in the cycle.
- Where an argument is by induction over numbers (the rank of a place, the bytes
  of a notification), it is by least elements: the set of numbers with the
  property holds 0 and with each number the next (`LeastNatural`,
  `AllNaturals`), from the well-foundedness of `<`. The library's induction
  theorem takes an operator, which these provers cannot instantiate.

Only model-checked: all liveness properties (fairness and ENABLED are outside
the prover's reach), which are those of Connections, Lifecycle, Delivery and
DeviceWrites, `AvailabilityConverges`, `SwitchesStaySubscribed`,
`ConfigComesBack`, `SwitchesAreShown`, and `SlowLinkIsSet` but for its safety
part; and the fairness in `ImplementsQueue`. Every invariant and every action
property the passing runs check is proved. The *violation* runs are
counterexamples, which is all TLC is needed for.

## 5. Where code and documentation disagree

- **Consecutive rejections** (`value_filter_consecutive`). An out-of-range
  reading returns from `validate` before the rejection count is touched, so the
  three consistent readings that make the filter give in need not be
  consecutive, as solardevice.py:661-662 says they must be.
- **A command can be lost** (`command_lost`). `on_message` gets the list and
  appends to it in two steps; in between, the bridge may have replaced the list
  *and* finished with the old one. `command_bridge`'s docstring says such a
  command is still delivered.
- **Undelivered, but delivered** (`delivery_switch`). A switch state published
  while disconnected is reported as undelivered and not remembered, yet the
  client keeps it. If the switch is back at the remembered value when the
  client reconnects, the broker shows the old state until the refresh.
- **Alive but idle** (`lifecycle_idle`). An exception of the first scan, or a
  registration that times out, ends main without setting `stop_event`, and the
  interpreter joins the logger worker for ever. The design document's success
  criterion 1 excludes just that.

- **A thread that dies of a new switch** (`mqtt_thread_dies`). `on_connect`
  iterates over the set of command topics while the logger worker adds to it.
  The iterator raises outside the `try`, and the network thread ends; comments
  in both callbacks say that this must not happen.
- **A correction that is never made** (`renogy_resync`). RenogyBatt sets its
  estimate to what the voltage says only if they are more than a tenth of the
  capacity apart, and the filter's maxdiff of 5 refuses just that. Its escape is
  not reached, since every reply stores a value near the old one in between.

Behaviour that a property names as its exception, worth knowing:

- A signal that interrupts main while it holds the lock inside `stop_event`
  leaves its handler waiting for that lock (`blocked` in Lifecycle;
  `StopLeadsToExit`, `SilenceLeadsToExit`).
- Late discovery that adds a device while `stale()` iterates over the tracker
  makes the iteration raise, which ends main without `stop_event` being set: the
  process goes on, and nobody looks at silence any more (`overtaken` in
  Lifecycle; `SilenceLeadsToExit`).
- `BleManager.stop` gives up after five seconds, and the loop may be held longer
  than that by the sleeps of VEDirect's handshake or by `hcitool`: the loop is
  then stopped with devices connected and marked online, and they stay so until the
  next start (`gave up` in Connections; `StopIsFinal`, `LostLinkNoticed`).
- A registration that times out in late discovery ends that thread for good
  (`MissingIsRegistered`).
- A device whose `start_notify` never returns keeps everybody from connecting
  (`Retried`).
- A stop requested between two looks of `supervise` may be taken for the death
  of the worker, and the process then exits with 1 (supervisor.py:84).
- A command whose first attempt is refused is overtaken by later ones during
  the 0.2 s of its sleep, and one that comes while the device is not connected
  is dropped (`OvertakenOnlyByRetry`, `dropped` in DeviceWrites).
- A chunk of a Hacien reply that begins with 01 03, or is a single byte, costs
  the reply it belongs to (`WholeReplyShown`).
- A cell whose first reading was wrong, but within the limits, refuses all
  readings far from it for ever (`CellTracks` starts from one that was right).
- Between a crash and the next start the broker shows a device online that
  nobody looks at (`LastWordIsTrue` starts with the marking).
- The first check of a new link may judge it by the frames of the last one
  (`slowSeen` in `AskedForAReason`).
- A value MQTT took and the server refused is not remembered; if the reading
  returns to the remembered value, the broker keeps the other one until the
  refresh (`doubtful` in `RememberedIsPublished`).

## 6. Not modelled

- The content of readings, the arithmetic of setters and getters, byte order and
  signs, topic names, payload and log formats: pure functions of one value.
- What the plugins make of the fields of a reply that no state depends on: they
  are stored as they are read, through the filter.
- Parsing of arguments and configuration: it precedes every thread, except
  `getboolean('trusted')` (monitor_app.py:146), which may raise in `_register`;
  that outcome is left out.
- The upper limit of a plausible cell voltage in Meritsun's frames: a value
  beyond it is ignored like one below the lower limit, which is modelled.
- `duallog`, developer scripts, container and systemd files: I/O only. Of `hci`
  there is only whether it succeeds.
- Wall-clock arithmetic: a reading *is* too old, a value *is* due; both happen
  at any time.
- Two sections with one mac: Lifecycle identifies a section with its device.
- CRCs and checksums by their bits: a CRC is right or not. The additive checksum
  of Meritsun and Topband is computed, over few values.

## 7. Plan

All modules planned are written, and every safety property of the passing runs
is proved. What is left, in this order:

| module | theorem | what it needs |
|---|---|---|
| MqttSubscriptions | what the iterator has visited is subscribed to, or on its way, unless `subscribe` raised | a history variable for the topics whose subscribe raised on this connection |
| CommandBridge | a command that is never drained went into a list that `on_message` got before the swap | the identity of lists, as in `DrainedInv` |
| ValueFilter, RenogyBatt | how long the filter may refuse, as a bound on readings | the runs of `Counted` |

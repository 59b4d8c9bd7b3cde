------------------------------ MODULE Delivery ------------------------------
(***************************************************************************)
(* The way of a reading from a device's notification to the sinks:         *)
(*                                                                         *)
(*   SolarDevice._enqueue      puts it on a bounded queue and never blocks *)
(*   supervisor.run_logger     takes it off in a worker thread             *)
(*   DataLogger.log            sends it if it differs from the value last  *)
(*                             delivered, or if that is too long ago       *)
(*   DataLogger.send_to_server hands it to the MQTT client and POSTs it    *)
(*   DataLogger.logdata        remembers it if every sink accepted it      *)
(*                                                                         *)
(* External, modelled from how the code uses them: the MQTT client (paho), *)
(* whose publish returns rc = 0 when it could hand the packet to an open   *)
(* connection and keeps QoS 1 messages until they are acknowledged, sending *)
(* them again on every new connection; the broker with its retained value  *)
(* per topic; the HTTP server, whose answer may be lost.                   *)
(***************************************************************************)
EXTENDS Naturals, Sequences

CONSTANTS
    Items,         \* device/variable pairs, each a topic
    Qos1,          \* the items published at QoS 1: power_switch
    Values,        \* what a reading can be
    QueueMax,      \* queue.Queue(maxsize): 10000 in the code
    MaxChanges,    \* bound: how often a reading changes
    MaxDrops,      \* bound: how often the MQTT connection is lost
    MaxFailures,   \* bound: how many POSTs fail or calls of log raise
    MaxPackets,    \* bound: MQTT packets on the wire, or kept by the client
    None

ASSUME DeliveryAssumption ==
    /\ Qos1 \subseteq Items
    /\ QueueMax \in Nat \ {0}
    /\ None \notin Values
    /\ {MaxChanges, MaxDrops, MaxFailures, MaxPackets} \subseteq Nat

VARIABLES
    http,          \* a url is configured: readings are POSTed as well as
                   \*   published (MQTT is always configured here)
    reading,       \* the device's entities
    queue,
    worker,        \* run_logger's thread: pc, the reading it logs, delivered, and
                   \*   as history whether the MQTT client took the reading
    logdata,       \* DataLogger.logdata[..]['value']
    due,           \* logdata[..]['ts'] is older than the refresh interval
    up,            \* the MQTT client has a connection
    wire,          \* packets handed to the connection, not yet at the broker
    outbox,        \* QoS 1 messages the client keeps until acknowledged
    broker,        \* the broker's retained value per topic
    server,        \* what the HTTP server last took
    changes, drops, failures,   \* counters for the bounds
    doubtful       \* history: the items of which, since the client last took a
                   \*   publish, a QoS 0 packet was lost, a publish was refused
                   \*   but kept, or something failed after the publish

mqtt == <<up, wire, outbox, broker>>
counters == <<changes, drops, failures>>
vars == <<reading, queue, worker, logdata, due, mqtt, server, counters, doubtful, http>>

Idle == [pc |-> "get"]

Init == /\ http \in BOOLEAN
        /\ reading \in [Items -> Values]
        /\ queue = <<>>
        /\ worker = Idle
        /\ logdata = [i \in Items |-> None]
        /\ due = {}
        /\ up = FALSE
        /\ wire = <<>>
        /\ outbox = <<>>
        /\ broker = [i \in Items |-> None]
        /\ server = [i \in Items |-> None]
        /\ changes = 0 /\ drops = 0 /\ failures = 0
        /\ doubtful = {}

-----------------------------------------------------------------------------
(* _enqueue / try_put: dropped when the queue is full.                     *)
EnqueueUnbounded(i, v) == queue' = Append(queue, <<i, v>>)     \* no maxsize

Enqueue(i, v) == queue' = IF Len(queue) < QueueMax THEN Append(queue, <<i, v>>) ELSE queue

(* A notification: the entity takes a new value or keeps it, and is        *)
(* enqueued in either case.                                                *)
Report(i, v) ==
    /\ \/ v = reading[i] /\ UNCHANGED changes
       \/ v # reading[i] /\ changes < MaxChanges /\ changes' = changes + 1
    /\ reading' = [reading EXCEPT ![i] = v]
    /\ Enqueue(i, v)
    /\ UNCHANGED <<worker, logdata, due, mqtt, server, drops, failures, doubtful, http>>

-----------------------------------------------------------------------------
(* What log decides to do with a reading it was given.                     *)
MustSendNever(i, v) == logdata[i] # v           \* no refresh

MustSend(i, v) == logdata[i] # v \/ i \in due

(* queue.get, and the comparison with logdata: only this thread writes it. *)
Take ==
    /\ worker.pc = "get"
    /\ queue # <<>>
    /\ queue' = Tail(queue)
    /\ LET i == Head(queue)[1]
           v == Head(queue)[2]
       IN worker' = IF MustSend(i, v)
                    THEN [pc |-> "mqtt", item |-> i, val |-> v, delivered |-> TRUE,
                          handed |-> FALSE]
                    ELSE Idle
    /\ UNCHANGED <<reading, logdata, due, mqtt, server, counters, doubtful, http>>

(* paho's publish.  With a connection the packet goes on the wire, and a   *)
(* QoS 1 message is kept too.  Without one rc is not 0, but a QoS 1        *)
(* message is kept all the same.                                           *)
Packet(i, v) == <<i, v>>

ClientPublish(i, v) ==
    /\ wire' = IF up THEN Append(wire, Packet(i, v)) ELSE wire
    /\ outbox' = IF i \in Qos1 THEN Append(outbox, Packet(i, v)) ELSE outbox
    /\ doubtful' = IF up THEN doubtful \ {i}
                 ELSE IF i \in Qos1 THEN doubtful \cup {i} ELSE doubtful
    /\ UNCHANGED <<up, broker>>

(* DataLoggerMqtt.publish returns rc = 0, ...                              *)
AcceptedAlways == TRUE                          \* return True whatever rc is

Accepted == up

(* ... and send_to_server's delivered takes its value.                     *)
SendMqtt ==
    /\ worker.pc = "mqtt"
    /\ Len(wire) < MaxPackets /\ Len(outbox) < MaxPackets
    /\ ClientPublish(worker.item, worker.val)
    /\ worker' = [worker EXCEPT !.pc = "http", !.delivered = Accepted,
                                 !.handed = up]
    /\ UNCHANGED <<reading, queue, logdata, due, server, counters, http>>

(* History: the broker may get to know what logdata will not remember.     *)
Doubt == doubtful' = IF worker.handed THEN doubtful \cup {worker.item} ELSE doubtful

(* The POST succeeds; is refused or gets an error status; or is taken by   *)
(* the server, whose answer then does not arrive in time.                  *)
SendHttpForgetsMqtt ==                          \* delivered overwritten, not combined
    /\ worker.pc = "http"
    /\ http
    /\ server' = [server EXCEPT ![worker.item] = worker.val]
    /\ worker' = [worker EXCEPT !.pc = "remember", !.delivered = TRUE]
    /\ UNCHANGED <<reading, queue, logdata, due, mqtt, counters, doubtful, http>>

SendHttp ==
    /\ worker.pc = "http"
    /\ \/ /\ http
          /\ server' = [server EXCEPT ![worker.item] = worker.val]
          /\ worker' = [worker EXCEPT !.pc = "remember"]
          /\ UNCHANGED <<failures, doubtful>>
       \/ /\ http
          /\ failures < MaxFailures /\ failures' = failures + 1
          /\ \/ UNCHANGED server
             \/ server' = [server EXCEPT ![worker.item] = worker.val]
          /\ worker' = [worker EXCEPT !.pc = "remember", !.delivered = FALSE]
          /\ Doubt
       \/ /\ ~http
          /\ worker' = [worker EXCEPT !.pc = "remember"]
          /\ UNCHANGED <<server, failures, doubtful>>
    /\ UNCHANGED <<reading, queue, logdata, due, mqtt, changes, drops, http>>

(* log remembers value and time if everything was delivered.               *)
Remember ==
    /\ worker.pc = "remember"
    /\ \/ /\ worker.delivered
          /\ logdata' = [logdata EXCEPT ![worker.item] = worker.val]
          /\ due' = due \ {worker.item}
       \/ /\ ~worker.delivered
          /\ UNCHANGED <<logdata, due>>
    /\ worker' = Idle
    /\ UNCHANGED <<reading, queue, mqtt, server, counters, doubtful, http>>

(* Something in log raises, and run_logger logs it and goes on: before the  *)
(* publish (a payload the client refuses), after that of a switch whose    *)
(* listener could not be created (datalogger.py:108), or in the POST.      *)
LogRaises ==
    /\ \/ worker.pc = "mqtt"
       \/ worker.pc = "http" /\ (http \/ worker.item \in Qos1)
    /\ failures < MaxFailures /\ failures' = failures + 1
    /\ Doubt
    /\ worker' = Idle
    /\ UNCHANGED <<reading, queue, logdata, due, mqtt, server, changes, drops, http>>

RunLogger == Take \/ SendMqtt \/ SendHttp \/ Remember

(* The refresh interval has passed since the item was last delivered.      *)
BecomesDue(i) ==
    /\ logdata[i] # None /\ i \notin due
    /\ due' = due \cup {i}
    /\ UNCHANGED <<reading, queue, worker, logdata, mqtt, server, counters, doubtful, http>>

-----------------------------------------------------------------------------
(* The client (re)connects and sends what it has kept again.               *)
Connect == /\ ~up
           /\ up' = TRUE
           /\ wire' = outbox
           /\ UNCHANGED <<reading, queue, worker, logdata, due, outbox, broker, server,
                          counters, doubtful, http>>

(* History: packets that are lost and that the client will not send again. *)
Lost(packets) ==
    doubtful' = doubtful \cup ({packets[k][1] : k \in 1 .. Len(packets)} \ Qos1)

(* The connection is lost, and with it what is on the wire.                *)
Drop == /\ up
        /\ drops < MaxDrops /\ drops' = drops + 1
        /\ up' = FALSE
        /\ wire' = <<>>
        /\ Lost(wire)
        /\ UNCHANGED <<reading, queue, worker, logdata, due, outbox, broker, server,
                       changes, failures, http>>

(* The broker takes a packet, and a QoS 1 message is acknowledged.         *)
BrokerTakes ==
    /\ wire # <<>>
    /\ LET p == Head(wire) IN
          /\ broker' = [broker EXCEPT ![p[1]] = p[2]]
          /\ outbox' = IF p[1] \in Qos1 THEN Tail(outbox) ELSE outbox
    /\ wire' = Tail(wire)
    /\ UNCHANGED <<reading, queue, worker, logdata, due, up, server, counters, doubtful, http>>

(* The same, but the connection breaks before the acknowledgement is back. *)
BrokerTakesAckLost ==
    /\ wire # <<>>
    /\ drops < MaxDrops /\ drops' = drops + 1
    /\ LET p == Head(wire) IN broker' = [broker EXCEPT ![p[1]] = p[2]]
    /\ up' = FALSE
    /\ wire' = <<>>
    /\ Lost(Tail(wire))
    /\ UNCHANGED <<reading, queue, worker, logdata, due, outbox, server, changes, failures,
                   http>>

Next == \/ \E i \in Items : \E v \in Values : Report(i, v)
        \/ RunLogger \/ LogRaises
        \/ \E i \in Items : BecomesDue(i)
        \/ Connect \/ Drop \/ BrokerTakes \/ BrokerTakesAckLost

(* Fairness: the worker thread and paho's network thread run; paho         *)
(* reconnects by itself; time passes; and a device that is connected keeps *)
(* sending notifications, which the queue has room for again and again.    *)
Spec == /\ Init /\ [][Next]_vars
        /\ WF_vars(RunLogger)
        /\ WF_vars(Connect) /\ WF_vars(BrokerTakes)
        /\ \A i \in Items :
              /\ WF_vars(BecomesDue(i))
              /\ SF_vars(Len(queue) < QueueMax /\ Report(i, reading[i]))

-----------------------------------------------------------------------------
(* Types; and the queue is bounded whatever the speed of the worker.       *)
TypeOK ==
    /\ reading \in [Items -> Values]
    /\ queue \in Seq(Items \X Values) /\ Len(queue) <= QueueMax
    /\ \/ worker = Idle
       \/ worker \in [pc : {"mqtt", "http", "remember"}, item : Items, val : Values,
                      delivered : BOOLEAN, handed : BOOLEAN]
    /\ logdata \in [Items -> Values \cup {None}]
    /\ due \subseteq {i \in Items : logdata[i] # None}
    /\ up \in BOOLEAN
    /\ wire \in Seq(Items \X Values) /\ outbox \in Seq(Qos1 \X Values)
    /\ broker \in [Items -> Values \cup {None}]
    /\ server \in [Items -> Values \cup {None}]
    /\ doubtful \subseteq Items /\ http \in BOOLEAN

(* Nothing about item i is under way.                                      *)
Quiet(i) == /\ worker.pc = "get"
            /\ \A k \in 1 .. Len(wire) : wire[k][1] # i
            /\ \A k \in 1 .. Len(outbox) : outbox[k][1] # i

(* A value that is remembered as sent is what the broker shows, once       *)
(* nothing about it is under way: for a switch over any lost connections   *)
(* and acknowledgements, since the client sends a message it keeps until   *)
(* the broker has it, and for a sensor unless a packet was lost; with one  *)
(* sink or two, over refusals and exceptions, except a switch refused but  *)
(* kept, or a failure after the publish (datalogger.py:107-116, 378-386).  *)
RememberedIsPublished ==
    \A i \in Items :
        Quiet(i) /\ i \notin doubtful /\ logdata[i] # None => broker[i] = logdata[i]

(* A value is remembered only when the MQTT client took it and the server  *)
(* has it, in whatever order the two fail and recover: the success of one  *)
(* never hides the failure of the other (datalogger.py:396-419).           *)
RememberedOnlyIfAccepted ==
    [][\A i \in Items : logdata'[i] # logdata[i] =>
          /\ worker.handed
          /\ http => server[i] = logdata'[i]]_vars

(* A reading that does not change any more gets to the broker, over lost   *)
(* connections, lost packets, failed POSTs, exceptions and dropped samples *)
(* alike.  For a sensor it is the refresh that makes this true.            *)
BrokerConverges == \A i \in Items : <>[](broker[i] = reading[i])

(* datalogger.py:378-379: "Remember a value as sent only once it has been: *)
(* an undelivered value must stay different from the cache so the next     *)
(* reading resends it."  So when nothing is under way, a reading that will *)
(* not be resent is the value the broker shows.  (For a switch: a sensor's *)
(* packet may be lost after it was accepted.)                              *)
UndeliveredWillBeResent ==
    \A i \in Qos1 :
        Quiet(i) /\ queue = <<>> /\ ~MustSend(i, reading[i]) => broker[i] = reading[i]
=============================================================================

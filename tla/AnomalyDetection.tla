-------------------------- MODULE AnomalyDetection --------------------------
(***************************************************************************)
(* The Anomaly Detection service (services/anomaly_detection/app): it      *)
(* reads telemetry.enriched in batches, adds each reading to the rolling   *)
(* window of its device and metric in Redis, and records and publishes an  *)
(* anomaly when the z-score of the reading reaches a threshold.            *)
(*                                                                         *)
(* One device, one metric and the partition that carries them: windows do  *)
(* not interact.  Timestamps come from the device, in any order.  The      *)
(* z-score (value - mean) / stddev is compared exactly, with its square    *)
(* written over integers: Deviation^2 / Spread.  Failures, crashes,        *)
(* evictions from the consumer group and losses of the Redis key are       *)
(* counted in "faults"; MaxFaults bounds them.                             *)
(***************************************************************************)
EXTENDS Integers, Sequences, FiniteSets, FiniteSetsExt

CONSTANTS
    Values,         \* the values a reading may have
    Malformed,      \* a payload that TelemetryEnrichedMessage rejects
    WindowSize,     \* window_size_seconds
    MinSamples,     \* min_window_samples
    QuarterSquares, \* 4 * threshold^2 of each severity
    MaxRecords,     \* getmany's max_records
    MaxLog,         \* bound: events in the topic
    MaxTime,        \* bound: the timestamps of readings
    MaxFaults       \* bound: failures, crashes, evictions and losses of the window

Severities == {"low", "medium", "high", "critical"}

ASSUME AnomalyDetectionAssumption ==
    /\ Values \subseteq Nat
    /\ WindowSize \in Nat \ {0}
    /\ MinSamples \in Nat
    /\ QuarterSquares \in [Severities -> Nat \ {0}]
    /\ QuarterSquares["low"] < QuarterSquares["medium"]
    /\ QuarterSquares["medium"] < QuarterSquares["high"]
    /\ QuarterSquares["high"] < QuarterSquares["critical"]
    /\ MaxRecords \in Nat \ {0}
    /\ MaxLog \in Nat /\ MaxTime \in Nat /\ MaxFaults \in Nat

Readings == [value : Values, time : 0..MaxTime]

ASSUME MalformedAssumption == Malformed \notin Readings

VARIABLES
    enriched,  \* the partition of telemetry.enriched
    committed, \* the group's committed offset
    member,    \* does the broker take commits of the service, once it has joined?
    generation, \* how many times the partition has been assigned to it
    window,    \* the sorted set window:<device>:<metric>
    anomalies, \* rows of the anomalies table
    published, \* messages of anomalies.detected
    pc,        \* where the service is in run_service / process_event
    position,  \* the next offset it fetches
    cursor,    \* the offset it processes next ...
    end,       \* ... in the batch that ends before this offset
    found,     \* the anomaly in hand
    nextId,    \* the next fresh anomaly_id (uuid4)
    examined,  \* the offsets for which process_event has returned
    seen,      \* the readings added to the window since it was last empty
    last,      \* the reading added last
    faults

groupVars   == <<member, generation>>
serviceVars == <<pc, position, cursor, end, found>>
windowVars  == <<window, seen, last>>
storeVars   == <<anomalies, published, nextId>>
vars == <<enriched, committed, groupVars, windowVars, storeVars, serviceVars, examined, faults>>

NoReading == [value |-> 0, time |-> 0]
NoAnomaly == [id |-> 0, at |-> 0, severity |-> "low", count |-> 0]

-----------------------------------------------------------------------------
(* WindowStats and the z-score, over a set of readings.                    *)

Sum(readings)     == MapThenSumSet(LAMBDA m : m.value, readings)
Squares(readings) == MapThenSumSet(LAMBDA m : m.value * m.value, readings)

(* count * (value - mean), and count^2 * variance. *)
Deviation(value, readings) == Cardinality(readings) * value - Sum(readings)
Spread(readings) == Cardinality(readings) * Squares(readings) - Sum(readings) * Sum(readings)

(* Mutant of Reached: no test for a zero standard deviation. *)
MutantReached(value, readings) ==
    {s \in Severities :
        4 * Deviation(value, readings) * Deviation(value, readings)
            >= QuarterSquares[s] * Spread(readings)}

(* The severities whose threshold |z| reaches; z is 0 if the stddev is 0.  *)
Reached(value, readings) ==
    {s \in Severities :
        /\ Spread(readings) # 0
        /\ 4 * Deviation(value, readings) * Deviation(value, readings)
            >= QuarterSquares[s] * Spread(readings)}

(* classify_severity tests the highest threshold first. *)
MostSevere(reached) ==
    CHOOSE s \in reached : \A other \in reached : QuarterSquares[other] <= QuarterSquares[s]

-----------------------------------------------------------------------------
Init ==
    /\ enriched = <<>> /\ committed = 0 /\ member = "none" /\ generation = 0
    /\ window = {} /\ seen = {} /\ last = NoReading
    /\ anomalies = {} /\ published = <<>> /\ nextId = 1
    /\ pc = "down" /\ position = 0 /\ cursor = 0 /\ end = 0
    /\ found = NoAnomaly
    /\ examined = {} /\ faults = 0

Fault == faults < MaxFaults /\ faults' = faults + 1

(* The Ingestion Consumer publishes an event. *)
Ingest(event) ==
    /\ Len(enriched) < MaxLog
    /\ enriched' = Append(enriched, event)
    /\ UNCHANGED <<committed, groupVars, windowVars, storeVars, serviceVars, examined, faults>>

(* Redis restarts empty, or the key expires after two windows of silence.  *)
LoseWindow ==
    /\ window # {}
    /\ Fault
    /\ window' = {} /\ seen' = {} /\ last' = NoReading
    /\ UNCHANGED <<enriched, committed, groupVars, storeVars, serviceVars, examined>>

(* Mutant of StartOffset: auto_offset_reset = latest on every assignment.  *)
MutantStartOffset == Len(enriched)

(* Where the service begins to fetch when it is assigned the partition.    *)
StartOffset == committed

(* The client joins the group in the background and is assigned the        *)
(* partition: at the start, and again after an eviction, in the middle of  *)
(* a batch too, which the loop goes on with.                               *)
Rebalance ==
    /\ pc # "down" /\ member # "member"
    /\ member' = "member"
    /\ generation' = generation + 1
    /\ position' = StartOffset
    /\ UNCHANGED <<enriched, committed, windowVars, storeVars, pc, cursor, end, found, examined,
                   faults>>

(* Heartbeats missed, or more than max_poll_interval_ms between two calls  *)
(* of getmany: the broker takes the partition away.  The client does not   *)
(* know it yet.                                                            *)
Evict ==
    /\ member = "member"
    /\ Fault
    /\ member' = "evicted"
    /\ UNCHANGED <<enriched, committed, generation, windowVars, storeVars, serviceVars, examined>>

Start ==
    /\ pc = "down"
    /\ pc' = "poll"
    /\ UNCHANGED <<enriched, committed, groupVars, windowVars, storeVars, position, cursor, end,
                   found, examined, faults>>

(* The process dies, or leaves its loop on a signal or an exception.       *)
Leave ==
    /\ pc' = "down" /\ member' = "none"
    /\ position' = 0 /\ cursor' = 0 /\ end' = 0
    /\ found' = NoAnomaly
    /\ UNCHANGED <<enriched, generation, windowVars, storeVars, examined>>

Crash ==
    /\ pc # "down"
    /\ Fault /\ Leave
    /\ UNCHANGED committed

(* Mutant of Poll: the next offset to fetch is one too far. *)
MutantPoll ==
    /\ pc = "poll" /\ member # "none"
    /\ position < Len(enriched)
    /\ pc' = "batch"
    /\ cursor' = position
    /\ end' \in (position + 1)..Min({Len(enriched), position + MaxRecords})
    /\ position' = end' + 1
    /\ UNCHANGED <<enriched, committed, groupVars, windowVars, storeVars, found, examined, faults>>

Poll ==
    /\ pc = "poll" /\ member # "none"
    /\ position < Len(enriched)
    /\ pc' = "batch"
    /\ cursor' = position
    /\ end' \in (position + 1)..Min({Len(enriched), position + MaxRecords})
    /\ position' = end'
    /\ UNCHANGED <<enriched, committed, groupVars, windowVars, storeVars, found, examined, faults>>

(* getmany times out with an empty batch. *)
PollEmpty ==
    /\ pc = "poll"
    /\ UNCHANGED vars

Commit ==
    /\ pc = "batch" /\ cursor = end
    /\ member = "member"
    /\ committed' = position
    /\ pc' = "poll"
    /\ UNCHANGED <<enriched, groupVars, windowVars, storeVars, position, cursor, end, found,
                   examined, faults>>

(* The broker rejects the commit of a member it has evicted, or the call   *)
(* fails with or without having been applied: the loop ends.               *)
CommitFails ==
    /\ pc = "batch" /\ cursor = end
    /\ \/ member = "evicted" /\ UNCHANGED <<committed, faults>>
       \/ member = "member" /\ Fault /\ committed' \in {committed, position}
    /\ Leave

-----------------------------------------------------------------------------
(* process_event. *)

(* process_event returns and the loop takes the next message.              *)
Return ==
    /\ pc' = "batch"
    /\ cursor' = cursor + 1
    /\ examined' = examined \cup {cursor}
    /\ found' = NoAnomaly
    /\ UNCHANGED <<enriched, committed, groupVars, position, end>>

Event == enriched[cursor + 1]

InHand == pc = "batch" /\ cursor < end

SkipMalformed ==
    /\ InHand /\ Event = Malformed
    /\ Return
    /\ UNCHANGED <<windowVars, storeVars, faults>>

(* Mutant of Trimmed: ZREMRANGEBYSCORE keeps the cutoff itself. *)
MutantTrimmed(reading) ==
    {m \in window \cup {reading} : m.time + WindowSize >= reading.time}

(* Mutant of Trimmed: readings later than this one are trimmed as well. *)
MutantTrimmedLater(reading) ==
    {m \in window \cup {reading} :
        m.time + WindowSize > reading.time /\ m.time <= reading.time}

(* ZADD, then ZREMRANGEBYSCORE -inf .. timestamp - window_size. *)
Trimmed(reading) ==
    {m \in window \cup {reading} : m.time + WindowSize > reading.time}

AddReading ==
    /\ window' = Trimmed(Event)
    /\ seen' = seen \cup {Event}
    /\ last' = Event

(* Too few samples, or a z-score below every threshold.                    *)
Normal ==
    /\ InHand /\ Event # Malformed
    /\ AddReading
    /\ Cardinality(window') < MinSamples \/ Reached(Event.value, window') = {}
    /\ Return
    /\ UNCHANGED <<storeVars, faults>>

(* Mutant of Detect: the anomaly is published before it has its row. *)
MutantDetect ==
    /\ InHand /\ Event # Malformed
    /\ AddReading
    /\ Cardinality(window') >= MinSamples
    /\ Reached(Event.value, window') # {}
    /\ found' = [id |-> nextId, at |-> cursor,
                 severity |-> MostSevere(Reached(Event.value, window')),
                 count |-> Cardinality(window')]
    /\ nextId' = nextId + 1
    /\ published' = Append(published, found')
    /\ pc' = "record"
    /\ UNCHANGED <<enriched, committed, groupVars, anomalies, position, cursor, end, examined,
                   faults>>

Detect ==
    /\ InHand /\ Event # Malformed
    /\ AddReading
    /\ Cardinality(window') >= MinSamples
    /\ Reached(Event.value, window') # {}
    /\ found' = [id |-> nextId, at |-> cursor,
                 severity |-> MostSevere(Reached(Event.value, window')),
                 count |-> Cardinality(window')]
    /\ nextId' = nextId + 1
    /\ pc' = "record"
    /\ UNCHANGED <<enriched, committed, groupVars, anomalies, published, position, cursor, end,
                   examined, faults>>

(* A failure of Redis, with or without the pipeline executed, skips the    *)
(* event.                                                                  *)
WindowFails ==
    /\ InHand /\ Event # Malformed
    /\ Fault
    /\ AddReading \/ UNCHANGED windowVars
    /\ Return
    /\ UNCHANGED storeVars

(* Mutant of Record: an event that has a row already gets no second one.   *)
MutantRecord ==
    /\ pc = "record"
    /\ \/ /\ anomalies' = IF \E a \in anomalies : a.at = found.at THEN anomalies
                         ELSE anomalies \cup {found}
          /\ UNCHANGED faults
       \/ Fault /\ anomalies' \in {anomalies, anomalies \cup {found}}
    /\ pc' = "publish"
    /\ UNCHANGED <<enriched, committed, groupVars, windowVars, published, nextId, position,
                   cursor, end, found, examined>>

(* The INSERT; its failure is logged and the anomaly still published.      *)
Record ==
    /\ pc = "record"
    /\ \/ anomalies' = anomalies \cup {found} /\ UNCHANGED faults
       \/ Fault /\ anomalies' \in {anomalies, anomalies \cup {found}}
    /\ pc' = "publish"
    /\ UNCHANGED <<enriched, committed, groupVars, windowVars, published, nextId, position,
                   cursor, end, found, examined>>

(* Mutant of Publish: a failed publish is retried from the verdict. *)
MutantPublish ==
    /\ pc = "publish"
    /\ UNCHANGED <<windowVars, anomalies, nextId>>
    /\ \/ published' = Append(published, found) /\ UNCHANGED faults /\ Return
       \/ /\ Fault /\ published' \in {published, Append(published, found)}
          /\ pc' = "batch"
          /\ found' = NoAnomaly
          /\ UNCHANGED <<enriched, committed, groupVars, position, cursor, end, examined>>

(* The publication; its failure is logged and the loop goes on.            *)
Publish ==
    /\ pc = "publish"
    /\ \/ published' = Append(published, found) /\ UNCHANGED faults
       \/ Fault /\ published' \in {published, Append(published, found)}
    /\ Return
    /\ UNCHANGED <<windowVars, anomalies, nextId>>

-----------------------------------------------------------------------------
ProcessEvent == SkipMalformed \/ Normal \/ Detect \/ WindowFails \/ Record \/ Publish

Service ==
    \/ Start \/ Crash \/ Rebalance \/ Evict
    \/ Poll \/ PollEmpty \/ ProcessEvent \/ Commit \/ CommitFails

Next ==
    \/ \E event \in Readings \cup {Malformed} : Ingest(event)
    \/ LoseWindow
    \/ Service

Spec == Init /\ [][Next]_vars

-----------------------------------------------------------------------------
Anomaly == [id : Nat, at : Nat, severity : Severities, count : Nat]

(* Every variable holds a value the program can hold.                      *)
TypeOK ==
    /\ enriched \in Seq(Readings \cup {Malformed})
    /\ committed \in 0..Len(enriched)
    /\ member \in {"none", "member", "evicted"}
    /\ pc = "down" => member = "none"
    /\ pc \in {"batch", "record", "publish"} => member # "none"
    /\ window \subseteq seen /\ seen \subseteq Readings
    /\ last \in Readings \cup {NoReading}
    /\ anomalies \subseteq Anomaly
    /\ published \in Seq(Anomaly)
    /\ pc \in {"down", "poll", "batch", "record", "publish"}
    /\ position \in 0..Len(enriched)
    /\ cursor \in Nat /\ end \in 0..Len(enriched) /\ cursor <= end
    /\ pc \in {"record", "publish"} => cursor < end
    /\ found \in Anomaly
    /\ nextId \in Nat /\ generation \in Nat /\ faults \in Nat
    /\ examined \subseteq Nat

(* At-least-once: process_event has returned for every committed event.    *)
CommittedIsExamined == \A o \in 0..(committed - 1) : o \in examined

(* The service implements AtLeastOnceDelivery on its partition: an event is *)
(* settled when process_event has returned for it, with an anomaly         *)
(* published or without, and acknowledged when the batch is committed      *)
(* (main.py, run_service).                                                 *)
Delivery == INSTANCE AtLeastOnceDelivery WITH
    Partitions <- {0}, Messages <- Readings \cup {Malformed},
    log <- [p \in {0} |-> enriched], settled <- [p \in {0} |-> examined],
    acked <- [p \in {0} |-> committed]

ImplementsDelivery == Delivery!Spec

(* The rolling window is what its name says: once the newest reading has   *)
(* been added, it holds exactly the readings of the last WindowSize        *)
(* seconds, however many of them came late, were redelivered or had been   *)
(* trimmed before (rolling_window.py:62-77).                               *)
WindowIsExact ==
    (seen # {} /\ \A m \in seen : m.time <= last.time) =>
        window = {m \in seen : m.time + WindowSize > last.time}

(* No reading of the last WindowSize seconds before the newest is missing, *)
(* not even after a late reading has trimmed by its own, older cutoff.     *)
RecentKept ==
    \A m \in seen : (\A n \in seen : m.time + WindowSize > n.time) => m \in window

(* A reading counts among its own samples, so |z| <= sqrt(count - 1): an   *)
(* anomaly has a severity that its number of samples can reach, and none   *)
(* comes from a window of equal values (detector.py:28, 33-47).            *)
SeverityNeedsSamples ==
    \A a \in anomalies : QuarterSquares[a.severity] <= 4 * (a.count - 1)

(* An event is reported at most once per assignment of the partition: a    *)
(* further anomaly for it, with a new anomaly_id, takes a redelivery from  *)
(* the committed offset, after a restart or in the same process after an   *)
(* eviction (main.py, run_service; detector.py, process_event).            *)
DuplicatesBoundedByAssignments ==
    \A a \in anomalies : Cardinality({b \in anomalies : b.at = a.at}) <= generation
=============================================================================

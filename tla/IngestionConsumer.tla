------------------------- MODULE IngestionConsumer -------------------------
(***************************************************************************)
(* The Ingestion Consumer (services/ingestion_consumer/app): a consumer    *)
(* group of one or more processes that read telemetry.raw, enrich each     *)
(* event with device metadata cached in Redis, insert it into PostgreSQL   *)
(* and publish it to telemetry.enriched, or divert it to the dead-letter   *)
(* queue.  Every await of process_message, get_device_metadata and         *)
(* send_to_dlq is a step of its own, so another process, the broker, an    *)
(* operator or a crash can act between any two of them.                    *)
(*                                                                         *)
(* A call to Redis, PostgreSQL or Kafka can fail, and a failed call may or *)
(* may not have taken effect.  Failures, crashes, evictions and signals    *)
(* are counted in "faults"; MaxFaults bounds them.                         *)
(***************************************************************************)
EXTENDS Naturals, Sequences, FiniteSets, FiniteSetsExt

CONSTANTS
    Instances,         \* the consumer processes of the group
    Partitions,        \* the partitions of telemetry.raw
    Devices,           \* the device identifiers messages may carry
    Malformed,         \* a payload that TelemetryRawMessage rejects
    NoPartition,       \* "no message in hand"
    RestartsAfterExit, \* does the supervisor restart a process that exits with 0?
    MaxRecords,        \* getmany's max_records
    MaxLog,            \* bound: messages produced per partition
    MaxVersion,        \* bound: versions of a device's metadata
    MaxFaults          \* bound: failures, crashes, evictions and signals

ASSUME ConstantsAssumption ==
    /\ RestartsAfterExit \in BOOLEAN
    /\ MaxRecords \in Nat \ {0}
    /\ MaxLog \in Nat
    /\ MaxVersion \in Nat \ {0}
    /\ MaxFaults \in Nat
    /\ Malformed \notin Devices
    /\ NoPartition \notin Partitions

VARIABLES
    (* Kafka: the raw topic, its consumer group and the two output topics. *)
    log,        \* log[p]: the messages of partition p; offset o is log[p][o + 1]
    committed,  \* committed[p]: the group's committed offset
    group,      \* the members the broker accepts commits from
    generation, \* how many times the group has been rebalanced
    enriched,   \* events published to telemetry.enriched
    dlq,        \* messages published to telemetry.dlq
    (* PostgreSQL. *)
    device,     \* device[d]: version of the row of d in devices, 0 if there is none
    rows,       \* rows of telemetry_events
    dlqTable,   \* rows of dead_letter_events
    nextId,     \* the next fresh event_id (uuid4)
    (* Redis: the hash device:<id>. *)
    cache,      \* cache[d]: the metadata version cached, 0 if there is no key
    ttl,        \* ttl[d]: the key has an expiry pending
    (* The consumer processes. *)
    assigned,   \* assigned[i]: the partitions the client of i believes it owns
    position,   \* position[i][p]: the next offset i fetches
    pc,         \* where i is in run_consumer / process_message
    cur,        \* cur[i]: the partition of the message in hand
    cursor,     \* cursor[i][p]: the offset of p that i processes next ...
    end,        \* end[i][p]: ... in the batch that ends before this offset
    meta,       \* meta[i]: the device metadata in hand
    eid,        \* eid[i]: the event_id in hand
    reason,     \* reason[i]: why the message in hand is dead-lettered
    stopping,   \* shutdown_event is set
    faults

kafkaVars    == <<log, committed, group, generation, enriched, dlq>>
postgresVars == <<device, rows, dlqTable, nextId>>
redisVars    == <<cache, ttl>>
batchVars    == <<assigned, position, cursor, end>>
messageVars  == <<cur, meta, eid, reason>>
vars == <<kafkaVars, postgresVars, redisVars, batchVars, messageVars, pc, stopping, faults>>

Messages == Devices \cup {Malformed}
Reasons  == {"validation_failed", "device_not_found", "fk_violation", "db_error"}
Stages   == {"down", "exited", "poll", "batch", "lookup", "fetch", "store", "expire",
             "insert", "publish", "dead_letter", "dead_letter_row"}
InHand   == {"lookup", "fetch", "store", "expire", "insert", "publish",
             "dead_letter", "dead_letter_row"}

-----------------------------------------------------------------------------
(* Derived state. *)

Members == {i \in Instances : pc[i] \notin {"down", "exited"}}

Remaining(i, p) == cursor[i][p] < end[i][p]

(* Mutant of BatchDone: commit() moved into the message loop. *)
MutantBatchBegun(i) == cur[i] # NoPartition

BatchDone(i) == \A p \in Partitions : ~Remaining(i, p)

(* The message in hand, and the identity it has in the raw topic. *)
Here(i)   == [part |-> cur[i], off |-> cursor[i][cur[i]]]
DeviceOf(i) == log[cur[i]][cursor[i][cur[i]] + 1]

Row(i)        == [id |-> nextId, at |-> Here(i)]
Published(i)  == [id |-> eid[i], at |-> Here(i), meta |-> meta[i]]
DeadLetter(i) == [at |-> Here(i), reason |-> reason[i]]

(* A message is settled once it is downstream: published or dead-lettered. *)
Settled(p, o) ==
    \/ \E e \in enriched : e.at = [part |-> p, off |-> o]
    \/ \E d \in dlq : d.at = [part |-> p, off |-> o]

-----------------------------------------------------------------------------
Init ==
    /\ log = [p \in Partitions |-> <<>>]
    /\ committed = [p \in Partitions |-> 0]
    /\ group = {} /\ generation = 0
    /\ enriched = {} /\ dlq = {}
    /\ device = [d \in Devices |-> 0]
    /\ rows = {} /\ dlqTable = {} /\ nextId = 0
    /\ cache = [d \in Devices |-> 0]
    /\ ttl = [d \in Devices |-> FALSE]
    /\ assigned = [i \in Instances |-> {}]
    /\ position = [i \in Instances |-> [p \in Partitions |-> 0]]
    /\ pc = [i \in Instances |-> "down"]
    /\ cur = [i \in Instances |-> NoPartition]
    /\ cursor = [i \in Instances |-> [p \in Partitions |-> 0]]
    /\ end = [i \in Instances |-> [p \in Partitions |-> 0]]
    /\ meta = [i \in Instances |-> 0]
    /\ eid = [i \in Instances |-> 0]
    /\ reason = [i \in Instances |-> "validation_failed"]
    /\ stopping = [i \in Instances |-> FALSE]
    /\ faults = 0

Fault == faults < MaxFaults /\ faults' = faults + 1

GoTo(i, stage) == pc' = [pc EXCEPT ![i] = stage]

-----------------------------------------------------------------------------
(* The environment: producers, operators, Redis expiry and the broker. *)

Produce(p, m) ==
    /\ Len(log[p]) < MaxLog
    /\ log' = [log EXCEPT ![p] = Append(@, m)]
    /\ UNCHANGED <<committed, group, generation, enriched, dlq, postgresVars, redisVars,
                   batchVars, messageVars, pc, stopping, faults>>

(* POST /devices, or an operator's UPDATE of an existing row. *)
WriteDevice(d) ==
    /\ device[d] < MaxVersion
    /\ device' = [device EXCEPT ![d] = @ + 1]
    /\ UNCHANGED <<kafkaVars, rows, dlqTable, nextId, redisVars, batchVars, messageVars,
                   pc, stopping, faults>>

(* An operator's DELETE, which the foreign key forbids once d has events. *)
DeleteDevice(d) ==
    /\ device[d] # 0
    /\ \A r \in rows : log[r.at.part][r.at.off + 1] # d
    /\ Fault
    /\ device' = [device EXCEPT ![d] = 0]
    /\ UNCHANGED <<kafkaVars, rows, dlqTable, nextId, redisVars, batchVars, messageVars,
                   pc, stopping>>

ExpireKey(d) ==
    /\ ttl[d]
    /\ cache' = [cache EXCEPT ![d] = 0]
    /\ ttl' = [ttl EXCEPT ![d] = FALSE]
    /\ UNCHANGED <<kafkaVars, postgresVars, batchVars, messageVars, pc, stopping, faults>>

(* Mutant of StartOffset: every assignment begins with the oldest message. *)
MutantStartEarliest(p) == 0

(* Where a member that is assigned p begins to fetch. *)
StartOffset(p) == committed[p]

(* The broker hands every partition to a member; each member it reaches    *)
(* starts again from the committed offset, whatever batch it still holds.  *)
(* Members that died are gone from "group" already; live processes outside *)
(* it join in any order.                                                   *)
Rebalance ==
    \E members \in SUBSET Members :
        /\ members # {} /\ group \subseteq members
        /\ \/ members # group
           \/ \E p \in Partitions : \A i \in group : p \notin assigned[i]
        /\ \E owner \in [Partitions -> members] :
              /\ assigned' = [i \in Instances |->
                    IF i \in members THEN {p \in Partitions : owner[p] = i} ELSE assigned[i]]
              /\ position' = [i \in Instances |-> [p \in Partitions |->
                    IF owner[p] = i THEN StartOffset(p) ELSE position[i][p]]]
        /\ group' = members
        /\ generation' = generation + 1
        /\ UNCHANGED <<log, committed, enriched, dlq, postgresVars, redisVars, cursor, end,
                       messageVars, pc, stopping, faults>>

(* A live member misses its heartbeats; its client does not know it yet. *)
Evict(i) ==
    /\ i \in group
    /\ Fault
    /\ group' = group \ {i}
    /\ UNCHANGED <<log, committed, generation, enriched, dlq, postgresVars, redisVars,
                   batchVars, messageVars, pc, stopping>>

-----------------------------------------------------------------------------
(* Process life cycle. *)

ForgetMessage(i) ==
    /\ meta' = [meta EXCEPT ![i] = 0]
    /\ eid' = [eid EXCEPT ![i] = 0]
    /\ reason' = [reason EXCEPT ![i] = "validation_failed"]

(* All volatile state goes with the process. *)
Leave(i, stage) ==
    /\ GoTo(i, stage)
    /\ group' = group \ {i}
    /\ assigned' = [assigned EXCEPT ![i] = {}]
    /\ cursor' = [cursor EXCEPT ![i] = [p \in Partitions |-> 0]]
    /\ end' = [end EXCEPT ![i] = [p \in Partitions |-> 0]]
    /\ cur' = [cur EXCEPT ![i] = NoPartition]
    /\ ForgetMessage(i)
    /\ stopping' = [stopping EXCEPT ![i] = FALSE]
    /\ position' = [position EXCEPT ![i] = [p \in Partitions |-> 0]]
    /\ UNCHANGED <<log, generation, postgresVars, redisVars>>

(* An exception reaches run_consumer, which logs it, stops the clients and *)
(* returns: the process exits with status 0.                               *)
Raise(i) == Fault /\ Leave(i, "exited")

(* Mutant of Start: only an abnormal end is restarted. *)
MutantStartAfterCrash(i) ==
    /\ pc[i] = "down"
    /\ GoTo(i, "poll")
    /\ UNCHANGED <<kafkaVars, postgresVars, redisVars, batchVars, messageVars, stopping,
                   faults>>

Start(i) ==
    /\ pc[i] = "down" \/ (pc[i] = "exited" /\ RestartsAfterExit)
    /\ GoTo(i, "poll")
    /\ UNCHANGED <<kafkaVars, postgresVars, redisVars, batchVars, messageVars, stopping,
                   faults>>

Crash(i) ==
    /\ i \in Members
    /\ Fault /\ Leave(i, "down")
    /\ UNCHANGED <<committed, enriched, dlq>>

Signal(i) ==
    /\ i \in Members /\ ~stopping[i]
    /\ Fault
    /\ stopping' = [stopping EXCEPT ![i] = TRUE]
    /\ UNCHANGED <<kafkaVars, postgresVars, redisVars, batchVars, messageVars, pc>>

Stop(i) ==
    /\ pc[i] = "poll" /\ stopping[i]
    /\ Leave(i, "exited")
    /\ UNCHANGED <<committed, enriched, dlq, faults>>

-----------------------------------------------------------------------------
(* run_consumer: fetch a batch, process it message by message, commit.     *)

Poll(i) ==
    /\ pc[i] = "poll" /\ ~stopping[i]
    /\ \E fetched \in [Partitions -> 0..MaxLog] :
          /\ \A p \in Partitions :
                IF p \in assigned[i]
                THEN position[i][p] <= fetched[p] /\ fetched[p] <= Len(log[p])
                ELSE fetched[p] = position[i][p]
          /\ fetched # position[i]
          /\ MapThenSumSet(LAMBDA p : fetched[p] - position[i][p], Partitions) <= MaxRecords
          /\ position' = [position EXCEPT ![i] = fetched]
          /\ cursor' = [cursor EXCEPT ![i] = [p \in Partitions |->
                IF p \in assigned[i] THEN position[i][p] ELSE end[i][p]]]
          /\ end' = [end EXCEPT ![i] = [p \in Partitions |->
                IF p \in assigned[i] THEN fetched[p] ELSE end[i][p]]]
    /\ GoTo(i, "batch")
    /\ UNCHANGED <<kafkaVars, postgresVars, redisVars, assigned, messageVars, stopping, faults>>

(* getmany times out with an empty batch: nothing to process or commit.    *)
PollEmpty(i) ==
    /\ pc[i] = "poll" /\ ~stopping[i]
    /\ UNCHANGED vars

PollFails(i) ==
    /\ pc[i] = "poll" /\ ~stopping[i]
    /\ Raise(i)
    /\ UNCHANGED <<committed, enriched, dlq>>

(* Messages go partition by partition; a message that does not validate    *)
(* goes to the dead-letter queue.                                          *)
Receive(i) ==
    /\ pc[i] = "batch"
    /\ \E p \in Partitions :
          /\ Remaining(i, p)
          /\ cur[i] # NoPartition /\ Remaining(i, cur[i]) => p = cur[i]
          /\ cur' = [cur EXCEPT ![i] = p]
          /\ IF log[p][cursor[i][p] + 1] = Malformed
             THEN /\ reason' = [reason EXCEPT ![i] = "validation_failed"]
                  /\ GoTo(i, "dead_letter")
             ELSE GoTo(i, "lookup") /\ UNCHANGED reason
    /\ UNCHANGED <<kafkaVars, postgresVars, redisVars, batchVars, meta, eid, stopping, faults>>

(* Mutant of CommittedBy: the offset of the last message, not of the next. *)
MutantCommittedByLast(i) ==
    [p \in Partitions |-> IF p \in assigned[i] THEN position[i][p] - 1 ELSE committed[p]]

CommittedBy(i) ==
    [p \in Partitions |-> IF p \in assigned[i] THEN position[i][p] ELSE committed[p]]

Commit(i) ==
    /\ pc[i] = "batch" /\ BatchDone(i)
    /\ i \in group
    /\ committed' = CommittedBy(i)
    /\ cur' = [cur EXCEPT ![i] = NoPartition]
    /\ GoTo(i, "poll")
    /\ UNCHANGED <<log, group, generation, enriched, dlq, postgresVars, redisVars, batchVars,
                   meta, eid, reason, stopping, faults>>

(* The broker rejects the commit of a process it has evicted, or the call  *)
(* fails with or without having been applied.                              *)
CommitFails(i) ==
    /\ pc[i] = "batch" /\ BatchDone(i)
    /\ \/ /\ i \notin group
          /\ Leave(i, "exited")
          /\ UNCHANGED <<committed, faults>>
       \/ /\ i \in group
          /\ Raise(i)
          /\ committed' \in {committed, CommittedBy(i)}
    /\ UNCHANGED <<enriched, dlq>>

-----------------------------------------------------------------------------
(* get_device_metadata: Redis first, then PostgreSQL, then fill the cache. *)

(* A failed HGETALL falls through to PostgreSQL like a miss.               *)
Lookup(i) ==
    /\ pc[i] = "lookup"
    /\ \/ /\ cache[DeviceOf(i)] # 0
          /\ meta' = [meta EXCEPT ![i] = cache[DeviceOf(i)]]
          /\ GoTo(i, "insert")
          /\ UNCHANGED faults
       \/ /\ (cache[DeviceOf(i)] = 0 /\ UNCHANGED faults) \/ Fault
          /\ GoTo(i, "fetch")
          /\ UNCHANGED meta
    /\ UNCHANGED <<kafkaVars, postgresVars, redisVars, batchVars, cur, eid, reason, stopping>>

Fetch(i) ==
    /\ pc[i] = "fetch"
    /\ IF device[DeviceOf(i)] = 0
       THEN /\ reason' = [reason EXCEPT ![i] = "device_not_found"]
            /\ GoTo(i, "dead_letter")
            /\ UNCHANGED meta
       ELSE /\ meta' = [meta EXCEPT ![i] = device[DeviceOf(i)]]
            /\ GoTo(i, "store")
            /\ UNCHANGED reason
    /\ UNCHANGED <<kafkaVars, postgresVars, redisVars, batchVars, cur, eid, stopping, faults>>

(* Nothing in process_message catches a failed SELECT.                     *)
FetchFails(i) ==
    /\ pc[i] = "fetch"
    /\ Raise(i)
    /\ UNCHANGED <<committed, enriched, dlq>>

(* HSET leaves the expiry of an existing key alone; EXPIRE comes after it. *)
HSet(d, version) ==
    /\ cache' = [cache EXCEPT ![d] = version]
    /\ UNCHANGED ttl

Store(i) ==
    /\ pc[i] = "store"
    /\ \/ HSet(DeviceOf(i), meta[i]) /\ GoTo(i, "expire") /\ UNCHANGED faults
       \/ Fault /\ GoTo(i, "insert") /\ (HSet(DeviceOf(i), meta[i]) \/ UNCHANGED redisVars)
    /\ UNCHANGED <<kafkaVars, postgresVars, batchVars, messageVars, stopping>>

Expire(i) ==
    /\ pc[i] = "expire"
    /\ \/ /\ ttl' = [ttl EXCEPT ![DeviceOf(i)] = cache[DeviceOf(i)] # 0]
          /\ UNCHANGED faults
       \/ Fault /\ UNCHANGED ttl
    /\ GoTo(i, "insert")
    /\ UNCHANGED <<kafkaVars, postgresVars, cache, batchVars, messageVars, stopping>>

-----------------------------------------------------------------------------
(* process_message: INSERT with a fresh event_id, then publish.            *)

Insert(i) ==
    /\ pc[i] = "insert"
    /\ IF device[DeviceOf(i)] # 0
       THEN /\ rows' = rows \cup {Row(i)}
            /\ eid' = [eid EXCEPT ![i] = nextId]
            /\ nextId' = nextId + 1
            /\ GoTo(i, "publish")
            /\ UNCHANGED reason
       ELSE /\ reason' = [reason EXCEPT ![i] = "fk_violation"]
            /\ GoTo(i, "dead_letter")
            /\ UNCHANGED <<rows, eid, nextId>>
    /\ UNCHANGED <<kafkaVars, device, dlqTable, redisVars, batchVars, cur, meta, stopping,
                   faults>>

(* Mutant of InsertFails: the error is logged and processing goes on, as   *)
(* process_event does in services/anomaly_detection.                       *)
MutantInsertSwallowed(i) ==
    /\ pc[i] = "insert"
    /\ Fault
    /\ eid' = [eid EXCEPT ![i] = nextId]
    /\ nextId' = nextId + 1
    /\ GoTo(i, "publish")
    /\ UNCHANGED <<kafkaVars, device, rows, dlqTable, redisVars, batchVars, cur, meta,
                   reason, stopping>>

(* Any other error of the INSERT, with or without the row written.         *)
InsertFails(i) ==
    /\ pc[i] = "insert"
    /\ Fault
    /\ \/ device[DeviceOf(i)] # 0 /\ rows' = rows \cup {Row(i)} /\ nextId' = nextId + 1
       \/ UNCHANGED <<rows, nextId>>
    /\ reason' = [reason EXCEPT ![i] = "db_error"]
    /\ GoTo(i, "dead_letter")
    /\ UNCHANGED <<kafkaVars, device, dlqTable, redisVars, batchVars, cur, meta, eid, stopping>>

(* process_message returns, its locals go out of scope, and the loop takes *)
(* the next message.                                                       *)
NextMessage(i) ==
    /\ cursor' = [cursor EXCEPT ![i][cur[i]] = @ + 1]
    /\ GoTo(i, "batch")
    /\ ForgetMessage(i)
    /\ UNCHANGED <<assigned, position, end, cur, stopping>>

Publish(i) ==
    /\ pc[i] = "publish"
    /\ enriched' = enriched \cup {Published(i)}
    /\ NextMessage(i)
    /\ UNCHANGED <<log, committed, group, generation, dlq, postgresVars, redisVars, faults>>

(* Mutant of PublishFails: the message is retried from its INSERT. *)
MutantPublishRetried(i) ==
    /\ pc[i] = "publish"
    /\ Fault
    /\ GoTo(i, "insert")
    /\ UNCHANGED <<kafkaVars, postgresVars, redisVars, batchVars, messageVars, stopping>>

PublishFails(i) ==
    /\ pc[i] = "publish"
    /\ Raise(i)
    /\ enriched' \in {enriched, enriched \cup {Published(i)}}
    /\ UNCHANGED <<committed, dlq>>

-----------------------------------------------------------------------------
(* send_to_dlq: the topic first, then a best-effort row for the API.       *)

SendDeadLetter(i) ==
    /\ pc[i] = "dead_letter"
    /\ dlq' = dlq \cup {DeadLetter(i)}
    /\ GoTo(i, "dead_letter_row")
    /\ UNCHANGED <<log, committed, group, generation, enriched, postgresVars, redisVars,
                   batchVars, messageVars, stopping, faults>>

SendDeadLetterFails(i) ==
    /\ pc[i] = "dead_letter"
    /\ Raise(i)
    /\ dlq' \in {dlq, dlq \cup {DeadLetter(i)}}
    /\ UNCHANGED <<committed, enriched>>

InsertDeadLetter(i) ==
    /\ pc[i] = "dead_letter_row"
    /\ \/ dlqTable' = dlqTable \cup {DeadLetter(i)} /\ UNCHANGED faults
       \/ Fault /\ UNCHANGED dlqTable
    /\ NextMessage(i)
    /\ UNCHANGED <<kafkaVars, device, rows, nextId, redisVars>>

-----------------------------------------------------------------------------
ProcessMessage(i) ==
    \/ Receive(i) \/ Lookup(i) \/ Fetch(i) \/ Store(i) \/ Expire(i)
    \/ Insert(i) \/ Publish(i) \/ SendDeadLetter(i) \/ InsertDeadLetter(i)

CallFails(i) ==
    \/ PollFails(i) \/ FetchFails(i) \/ InsertFails(i) \/ PublishFails(i)
    \/ SendDeadLetterFails(i) \/ CommitFails(i)

Environment ==
    \/ \E p \in Partitions, m \in Messages : Produce(p, m)
    \/ \E d \in Devices : WriteDevice(d) \/ DeleteDevice(d) \/ ExpireKey(d)
    \/ Rebalance
    \/ \E i \in Instances : Evict(i) \/ Crash(i) \/ Signal(i)

Consumer(i) ==
    \/ Start(i) \/ Stop(i) \/ Poll(i) \/ PollEmpty(i)
    \/ ProcessMessage(i) \/ Commit(i) \/ CallFails(i)

Next == Environment \/ \E i \in Instances : Consumer(i)

Spec == Init /\ [][Next]_vars

(* The supervisor restarts what it restarts, the broker finishes its       *)
(* rebalances, and the event loop of a live process keeps running: each    *)
(* await returns or raises.  Nothing obliges anyone to produce, to write a *)
(* device, or to fail.                                                     *)
Fairness ==
    /\ WF_vars(Rebalance)
    /\ \A i \in Instances :
          /\ WF_vars(Start(i)) /\ WF_vars(Stop(i)) /\ WF_vars(Poll(i))
          /\ WF_vars(ProcessMessage(i)) /\ WF_vars(Commit(i) \/ CommitFails(i))

FairSpec == Spec /\ Fairness

-----------------------------------------------------------------------------
Place   == [part : Partitions, off : Nat]

KafkaTypeOK ==
    /\ log \in [Partitions -> Seq(Messages)]
    /\ committed \in [Partitions -> Nat]
    /\ group \in SUBSET Instances
    /\ generation \in Nat
    /\ enriched \in SUBSET [id : Nat, at : Place, meta : Nat]
    /\ dlq \in SUBSET [at : Place, reason : Reasons]

PostgresTypeOK ==
    /\ device \in [Devices -> Nat]
    /\ rows \in SUBSET [id : Nat, at : Place]
    /\ dlqTable \in SUBSET [at : Place, reason : Reasons]
    /\ nextId \in Nat

RedisTypeOK ==
    /\ cache \in [Devices -> Nat]
    /\ ttl \in [Devices -> BOOLEAN]

BatchTypeOK ==
    /\ assigned \in [Instances -> SUBSET Partitions]
    /\ position \in [Instances -> [Partitions -> Nat]]
    /\ cursor \in [Instances -> [Partitions -> Nat]]
    /\ end \in [Instances -> [Partitions -> Nat]]

ProcessTypeOK ==
    /\ pc \in [Instances -> Stages]
    /\ cur \in [Instances -> Partitions \cup {NoPartition}]
    /\ meta \in [Instances -> Nat]
    /\ eid \in [Instances -> Nat]
    /\ reason \in [Instances -> Reasons]
    /\ stopping \in [Instances -> BOOLEAN]
    /\ faults \in 0..MaxFaults

(* Every variable holds a value the program can hold.                      *)
TypeOK ==
    KafkaTypeOK /\ PostgresTypeOK /\ RedisTypeOK /\ BatchTypeOK /\ ProcessTypeOK

(* At-least-once (main.py:106-107): a message whose offset is committed    *)
(* has been published downstream or dead-lettered, whatever crashed, was   *)
(* evicted or failed on the way.                                           *)
CommittedIsSettled ==
    \A p \in Partitions : \A o \in 0..(committed[p] - 1) : Settled(p, o)

(* Messages of a partition are first settled in log order: no interleaving *)
(* of a rebalanced-away batch with its replacement lets a later message    *)
(* overtake one that is still unsettled.                                   *)
SettledInOrder ==
    \A p \in Partitions : \A o \in 0..(Len(log[p]) - 1) :
        Settled(p, o) => \A earlier \in 0..(o - 1) : Settled(p, earlier)

(* Tables and topics agree: every event that Anomaly Detection can see is  *)
(* stored, since what is published to telemetry.enriched carries the       *)
(* event_id of a row of the same message (steps 3 and 4 of                 *)
(* process_message), and GET /telemetry/dlq shows only messages that are   *)
(* in the dead-letter topic, which send_to_dlq writes before the table.    *)
TablesFollowTopics ==
    /\ \A e \in enriched : [id |-> e.id, at |-> e.at] \in rows
    /\ dlqTable \subseteq dlq

(* A message is inserted at most once per group generation: redelivery,    *)
(* which creates a second row because event_id is drawn afresh, happens    *)
(* only when a rebalance rewinds the partition to its committed offset.    *)
DuplicatesBoundedByRebalances ==
    \A r \in rows : Cardinality({s \in rows : s.at = r.at}) <= generation

(* A commit never moves the group's offset back, even the commit of a      *)
(* process that still finishes a batch fetched before a rebalance.         *)
CommitsNeverRewind ==
    [][\A p \in Partitions : committed'[p] >= committed[p]]_committed

(* Every message of the raw topic is settled in the end, if the supervisor *)
(* restarts the consumer (decisions.md:18: no data is lost).               *)
EveryMessageSettled ==
    \A p \in Partitions : \A o \in 0..(MaxLog - 1) :
        (Len(log[p]) > o) ~> (Len(log[p]) > o /\ Settled(p, o))

(* The consumer group implements AtLeastOnceDelivery: an offset is settled  *)
(* once its message is published or dead-lettered.                         *)
Settlement == [p \in Partitions |-> {o \in 0..(Len(log[p]) - 1) : Settled(p, o)}]

Delivery == INSTANCE AtLeastOnceDelivery WITH settled <- Settlement, acked <- committed

ImplementsDelivery == Delivery!Spec

(* enrichment.py:22-24: whatever is cached expires within the TTL, so a    *)
(* key without an expiry exists only while its writer is about to set one. *)
EveryCachedKeyExpires ==
    \A d \in Devices :
        cache[d] # 0 /\ ~ttl[d] =>
            \E i \in Instances : pc[i] = "expire" /\ DeviceOf(i) = d
=============================================================================

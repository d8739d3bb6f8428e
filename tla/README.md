# Formal verification of the telemetry intelligence platform

This directory holds TLA+ models of the platform, TLC configurations that
check them on small instances, and TLAPS proofs of their most important
properties for every instance. Paths below are relative to the repository root.

## 1. The system

    device -> API Gateway -> telemetry.raw -> Ingestion Consumer -> telemetry.enriched
           -> Anomaly Detection -> anomalies.detected -> Diagnosis Service -> diagnoses
    scripts/ingest_incidents.py -> API Gateway -> ChromaDB -> Diagnosis Service
    Prometheus -> Alertmanager -> Alert Receiver -> alert_events, custom_rules.yml -> Prometheus

PostgreSQL, Redis, Kafka and ChromaDB carry all state that outlives a process.
The Python processes are asyncio programs: within one process, code between two
`await`s is atomic and nothing else is.

| Component | State | Operations | Interacts through |
|---|---|---|---|
| Ingestion Consumer (`services/ingestion_consumer`) | batch in hand, fetch position; Redis `device:<id>` | poll, validate, enrich, insert, publish, dead-letter, commit, stop | topics raw / enriched / dlq, consumer group, `telemetry_events`, `dead_letter_events`, device cache |
| Anomaly Detection (`services/anomaly_detection`) | batch in hand; Redis `window:<device>:<metric>` | add a reading and trim, z-score, classify, insert, publish, commit | topics enriched / anomalies.detected, `anomalies` |
| Diagnosis Service (`services/diagnosis_service`) | batch in hand | read context, retrieve, call the LLM, parse its reply, insert, commit | anomalies.detected, `diagnoses` (foreign key to `anomalies`), ChromaDB, Bedrock |
| API Gateway: rate limiter | Redis `ratelimit:<user>:<endpoint>` | trim, add, count, answer 429 or pass, fail open | every worker of the gateway shares the Redis key |
| API Gateway: telemetry | connection pool, the producer's buffer, Redis query cache | publish with a timeout, query with cache, list dead letters | telemetry.raw, `telemetry_events`, `dead_letter_events` |
| API Gateway: knowledge base | none of its own | chunk, upsert, insert | ChromaDB, `incidents_knowledge` |
| API Gateway: devices, anomalies, auth | none of its own | CRUD, latest diagnosis, token checks | PostgreSQL |
| Alert Receiver: webhook | Prometheus gauges, background triage tasks | upsert by fingerprint, sync gauges, triage | Alertmanager, `alert_events`, Bedrock |
| Alert Receiver: monitors | `custom_rules.yml` | create / update / delete, rewrite the file, reload Prometheus | `monitors`, Prometheus |
| Simulator, scripts, deployment, schema | none | load, data generation, configuration | the API; restart policies |

### What is hard, and what makes each part correct

* **Ingestion Consumer.** Offsets are committed after a whole batch, so a crash,
  a rebalance or a failed commit redelivers. Two processes can work on the same
  messages: the broker moves a partition while its old owner is in the middle of
  a batch it cannot abandon. Each event is written by an INSERT and a publication that
  fail separately; a dead letter by a publication and a best-effort INSERT.
  Correct means: a committed message is downstream; first deliveries are in log
  order; a commit never goes back; whatever is published has its row; the number
  of rows an event can get is bounded; nothing stays unsettled for ever.
* **Anomaly Detection.** Timestamps come from devices, so readings arrive late and
  trim by their own cutoff; redelivered readings meet a window that has seen
  them; the z-score of n samples cannot exceed sqrt(n - 1). Correct means: the
  window is what the trimming is meant to leave, no recent reading is lost, a severity is
  one its sample count can reach, duplicates need a restart or a rebalance.
* **Diagnosis Service.** The anomaly's row and message are written by two calls,
  the first of which may fail silently; the model replies what it likes; failures are
  not retried. A batch of LLM calls can outlast the poll interval, so that the group evicts
  the service in the middle of it. Correct means: committed anomalies were handled, the foreign key
  rejects nothing that has (or will have) its row, an anomaly is "pending" only for
  a reason, duplicates multiply only with assignments of the partition.
* **Knowledge base.** An incident goes into two stores by two calls, nothing undoes
  the first, and the script that posts it gives up after a minute while the gateway
  goes on. Correct means: what is confirmed is listed and retrievable, repeated runs
  multiply a file no further than that, and what a diagnosis was generated from can be looked up.
* **Rate limiter.** A request reads its clock, and only later reaches Redis: requests
  overtake each other. Correct means: no placement of a window admits more than
  the limit, and a rejection has a cause.
* **Telemetry endpoints.** A request holds a connection of the pool from its first
  dependency to its answer, also a POST that only waits for Kafka. A publish that times
  out may have happened, or happen later; the query cache is filled after awaits; rows and
  their total are two statements. Correct means: a 202 is in Kafka, copies are
  accounted for, the cache is stale for a bounded time, every request is answered.
* **Alert Receiver, webhook.** Alertmanager gives up on a webhook that then runs on beside
  its repetition; a failed upsert is answered 202 and not retried; a redelivered "resolved"
  inserts a row; a triage is one of three sources in turn, in a task a crash forgets.
  Correct means: one triage per event and none forgotten without a fault, a history
  that is the alert's, and what fires is recorded.
* **Alert Receiver, monitors.** Each request changes a row, reads all rows and rewrites one
  file; Prometheus may read it half-written, and a reload can arrive after its sender has
  given up. Correct means: no request leaves a file older than the rows that were there
  when the overlap began, and a reported reload is one.

## 2. Modules

| Module | Models | Checked by | Proved in |
|---|---|---|---|
| `IngestionConsumer` | the consumer group of the Ingestion Consumer | `MCIngestion_*.cfg` | `IngestionConsumer_proofs`, `IngestionDelivery_proofs` |
| `AtLeastOnceDelivery` | abstract: what a consumer of a topic promises | as `ImplementsDelivery` of three services | `IngestionDelivery_proofs`, `AnomalyPipeline_proofs`, `RagPipeline_proofs` |
| `AnomalyDetection` | Anomaly Detection for one device and metric | `MCAnomaly_window.cfg` | `AnomalyPipeline_proofs` |
| `DiagnosisService` | the Diagnosis Service | `MCRagPipeline.cfg` | `RagPipeline_proofs` |
| `KnowledgeBase` | the script and the gateway writing incidents | `MCRagPipeline.cfg` | `RagPipeline_proofs` |
| `RagPipeline` | these two composed over the ChromaDB collection | `MCRagPipeline.cfg` | `RagPipeline_proofs` |
| `AnomalyPipeline` | Anomaly Detection and the Diagnosis Service composed | `MCAnomaly_pipeline.cfg` | `AnomalyPipeline_proofs` |
| `RateLimiter` | one bucket of the API Gateway's rate limiter | `MCRateLimiter_window.cfg` | `RateLimiter_proofs` |
| `TelemetryApi` | the telemetry endpoints, their pool, cache and producer | `MCTelemetryApi.cfg` | `TelemetryApi_proofs` |
| `AlertReceiver` | the Alert Receiver's webhook, gauges and triage, with Alertmanager | `MCAlertReceiver_*.cfg` | `AlertReceiver_proofs` |
| `Monitors` | the monitor API, the rules file and Prometheus | `MCMonitors.cfg` | `Monitors_proofs` |

The `MC*` modules only give names to the values a configuration uses.
`PROJECT.json` maps every definition to the lines it translates. Definitions
named `Mutant...` are plausible bugs of the code; each property has one that breaks it.

### IngestionConsumer

`pc[i]` is the place of process `i`: `poll` and `batch` are `run_consumer`'s loop
(`main.py:93-109`), `lookup`/`fetch`/`store`/`expire` the awaits of
`get_device_metadata` (`enrichment.py:42-67`), `insert` and `publish` those of
`process_message` (`consumer.py:68-124`), `dead_letter` and `dead_letter_row` those of
`send_to_dlq` (`consumer.py:162-184`). `cursor`/`end` are the batch in hand,
`position` is where the client fetches next and what `commit()` commits. `down` is a
process that died, `exited` one that ended with status 0 (`main.py:111-120` does so after
any exception). `Rebalance` gives each member its partitions and the committed offset
but leaves the batch in hand alone: aiokafka does not interrupt the loop. A
process outside `group` has its commit rejected. A device is a version number, 0
for "no row"; the cache holds a version and whether an expiry is pending.
Every failing call has an action `...Fails`, in which the call may have been
applied; each costs one of `MaxFaults`.

Abstracted: payload contents (a message is its device, or `Malformed`), metrics,
logging, connection pools. `Rebalance` is a single step: a member learns of it at
once unless it has been evicted.

`AtLeastOnceDelivery` has three variables: `log`, `settled`, `acked`. The refinement
mapping sends a consumer state to the offsets whose message is published or
dead-lettered, and the committed offsets. Anomaly Detection and the Diagnosis Service
implement the same abstraction with one partition each, where an offset is settled
when `process_event` or `process_anomaly_message` has returned for it.

These two have the same loop, modelled for one process and one partition. `member` is
`none` until the process has joined the group, `member` from its assignment (`Rebalance`, which
sets `position` to `StartOffset` and counts `generation`) and `evicted` once the broker
has taken the partition away (`Evict`: heartbeats missed, or too long between two calls of
`getmany`), which the client learns later: it may go on with its batch, have its commit
rejected (`CommitFails`), fetch on, or rejoin in the middle of the batch
and be given it again after its end. A rebalance that the broker starts for its own reasons is an `Evict`
and a `Rebalance`. Two processes at once, as in a rolling update, are modelled in `IngestionConsumer` only.

### AnomalyDetection

`window` is the sorted set as a set of readings (a member is
`value:timestamp`, so equal readings coincide); `Trimmed` is ZADD and
ZREMRANGEBYSCORE, one pipeline (`rolling_window.py:71-79`). `Deviation` is `n(x - mean)`
and `Spread` is `n^2` times the variance, so `|z| >= t` is `Deviation^2 >= t^2 Spread`: exact
over integers, where the code uses floats. Thresholds are given as four times
their square, so 2.5 is the integer 25. The ghost variables `seen` and `last` are what the
properties compare the window with. After the verdict, `Record` and
`Publish` follow `detector.py:133-177`: both swallow their failures.

### DiagnosisService, AnomalyPipeline

`Generate` stands for `run_diagnosis_pipeline`, which only reads and ends together or with
one exception: it retrieves up to `TopK` incidents of `collection` (`Retrieved`), shows them to
the LLM and parses the reply. The ghost `shown` of a row keeps what the prompt showed; the column
`retrieved_incident_ids` is another thing, the LLM's own unchecked claim, and is not modelled.
A reply is its form (object, another JSON value, prose), the fields it has, those whose
type is not what the prompt asks for, and the confidence in tenths; `ParseReply` and
`ClampConfidence` are `_parse_diagnosis_response` and the clamping after it. `Persist` is
`persist_diagnosis` with the foreign key and the CHECK of the confidence
(`db/init.sql:98`), which prose and a bad confidence would meet without the parser's
defaults. `Answer` is what `GET .../diagnosis` says of an anomaly: pending, its latest
diagnosis, or a 500 for lists the response model refuses. The ghost `unusable` notes
replies that leave nothing to persist. `down` is a process that died, `exited` one that
ended with status 0: after a signal, an exception of `getmany` (`LoopEnds`) or a commit that raised
(`CommitFails`; `main.py:150-158`); `RestartsAfterExit` says whether the supervisor restarts it. `AnomalyDetection` needs
no such distinction, as no liveness is claimed of it: its `Start` may never happen. Alone, the module assumes of
Anomaly Detection only `Announce`: a message, with or without its row.
`AnomalyPipeline` removes that assumption: it instantiates `DiagnosisService` over the
state of `AnomalyDetection` and lets either act at any time. `AnnouncesAsAssumed` says
what Anomaly Detection does of what `Announce` assumes: of the rows that the
Diagnosis Service can ask for, none appears but with its message. In this composition the model's
reply is always useful, so that `LossesAreFailures` can say that nothing but a failure
loses an anomaly: its row, its message and its diagnosis are there in the end.

### KnowledgeBase, RagPipeline

A post is its `incident_id`, fresh each time. `StartScript`, `Post` and `GiveUp` are the
script (`scripts/ingest_incidents.py`): files in turn, one post at a time, a timeout
after which it goes on with the next file while the gateway may still complete the first.
`Upsert` and `InsertRow` are the gateway's two writes (`knowledge.py`), in this order, each
with a failure that may have been applied; `stage` is where each post is. Nothing removes
chunks. `RagPipeline` composes it with `DiagnosisService`: `collection` is one variable of
both, so a diagnosis can be generated from an incident between its two writes.

### RateLimiter

`Stamp` reads the clock (`rate_limiter.py:53`); `Admit`, `Reject` and `FailOpen` are the
MULTI/EXEC pipeline and the answer (57-87, 118-124). Any number of ticks and of other
requests may come between. Redis can lose its data, which opens a new `epoch`.
Wall clocks of workers are assumed equal.

### TelemetryApi

`stage[r]`: `waiting` for a connection (`Acquire`, in the order of `waiting`),
`admitted`, then for a POST `publishing` until the answer or `PublishTimesOut`, for
a GET `selected`, `counted` and `answer` (`telemetry.py:160-240`). `Refuse` is
every rejection after the connection was taken: token, role, rate limit. A publish that
times out leaves its message `lingering` in the producer's buffer, whence `FlushBuffer`
may deliver it after the 503; `AckLost` appends a message and does not say so, whether its
sender still waits or has given up. `FillCache` sets
the answer with a fresh expiry whatever is cached by then; `SkipCache` is the
failing Redis. `Ingest` is the Ingestion Consumer inserting a row, between any two
statements. `CacheHit` answers without a query, but still holds a connection. One set
of filters stands for all: keys of others never meet. `longest` records the longest time from a SELECT to its SET,
the only term by which the cache exceeds its TTL.

### AlertReceiver

`stage[h]` is the place of a webhook `h`: `alerts` is the loop of `receive_alerts`
(`main.py:127-164`), where each alert of `todo[h]` is one statement of
`upsert_alert_event`; `insert` is between the UPDATE that found nothing and the INSERT
(`database.py:80-124`); `gauges` is after the SELECT of `_sync_firing_gauges`, whose
result `shot[h]` is applied without another `await`. The partial unique index
(`db/init.sql:160`) is `IsNew`. `events` is the table, with ghost
fields: the status a row was born with and how many triages it started. `told` is what
Alertmanager believes the receiver knows, and changes only with an answer it still
waits for (`GiveUp`): the rest of an abandoned handler runs beside the next ones.
The loop takes the alerts of a payload in any order: no two have one fingerprint.
A triage is a task of its own (`triage.py:48-101`): it reads diagnoses (`platform` says for
which alerts there are any), else asks the LLM, else fills in a template,
and saves; a failed statement, a crash or the garbage collector (no reference to the task is kept,
`main.py:157`) drops it (`dropped`). `triage_enabled` is
assumed at its default, true. The gauges by severity are reset and counted as those by
pipeline, and left out; the text of a triage is abstracted to "written".

### Monitors

A worker is a request or the startup code (`Lifespan`). `Change` is the statement of
`create_monitor`, `update_monitor` or `delete_monitor`, `ReadEnabled` the SELECT of
`_sync_rules_file`, `OpenFile` and `CloseFile` the rewriting (opening truncates; no other
coroutine of the process runs in between, but Prometheus may read), `Reload` and `ReloadFails`
the POST of `_reload_prometheus`, which in the second case can still arrive (`late`). Prometheus loads a
whole and valid file or keeps what it has; a restart starts from the file, and fails on
one it cannot load. Requests run only while `phase` is `serving`. `versions` and `alone`
are ghosts: what the table has asked for since no request was under way, and whether
requests have overlapped since. A failure empties `versions`, until the next quiet moment.

## 3. Runs

| Run | Instance | States | Shows |
|---|---|---|---|
| `ingestion_group` | 2 processes, 1 partition, 2 messages, 1 fault | 764 k | `DuplicatesBoundedByRebalances`, `ImplementsDelivery`, `CommitsNeverRewind`: rebalances need no fault, so a batch taken away and the one that replaces it interleave freely |
| `ingestion_crash` | 1 process, 2 partitions, 1 message each, 2 faults | 108 k | `TypeOK`, `TablesFollowTopics`, `EveryMessageSettled`: two faults hit any two calls, also of a redelivery |
| `ingestion_compose` | 1 process, 1 message, 1 fault, no restart after status 0 | | violates `EveryMessageSettled` |
| `ingestion_expiry` | 1 process, 1 message, 1 fault | | violates `EveryCachedKeyExpires` |
| `anomaly_window` | 4 readings, 2 values, 3 timestamps, window 2, 1 fault | 1089 k | `TypeOK`, `WindowIsExact`, `RecentKept`, `SeverityNeedsSamples`, `DuplicatesBoundedByAssignments`, `ImplementsDelivery`: all orders of all readings, so late, equal, redelivered ones; the fault can be an eviction at any await |
| `anomaly_pipeline` | 2 readings, 3 faults shared by both services | 423 k | `ForeignKeyNeverRaces`, `DiagnosesPerEvent`, `LossesAreFailures`, `AnnouncesAsAssumed`: each service can be evicted and restarted, the bound generation * dGeneration is reached, and failures lose an anomaly at each of its three steps |
| `diagnosis` | 1 anomaly, 2 messages, 5 kinds of reply, 1 fault; 1 file, 2 runs of the script, 2 faults of its own | 588 k | `TypeOK`, `DiagnosesBoundedByAssignments`, `PendingIsExplained`, `ImplementsDelivery`, `EveryMessageHandled` (under a supervisor that restarts every exit); `ConfirmedIsRetrievable`, `CopiesBoundedByRuns`, `ShownIsListed` |
| `ratelimit_window` | 4 requests, limit 2, 6 ticks, window 2 ticks, 1 fault | 528 k | `NoBoundarySpike`, `RejectionHasCause`, `RetryAfterInRange` |
| `telemetry_api` | 2 requests, pools of 1 and of 2, 1 event sent twice, TTL 1, 1 row, 1 tick, 1 fault | 544 k | `TypeOK`, `CopiesMatchAnswers`, `AnswersAreFresh`, `PageWithinTotal`, `EveryRequestAnswered` |
| `alert_events` | 1 critical alert that fires twice, 2 webhooks at once, 2 faults | 373 k | `TypeOK`, `TriagedOnce`, `TriagedUnlessDropped`, `HistoryFollowsEpisodes`, `FiringIsRecorded`: late, repeated and concurrent notifications of both episodes |
| `alert_resolution` | 1 alert, 1 webhook at a time, 1 fault | | violates `ResolutionIsRecorded` |
| `monitors` | 2 requests at once, 2 monitors, a valid and an invalid expression, 3 changes, 1 fault | 159 k | `TypeOK`, `StalenessBounded`, `ReportedIsInForce` |

Bounds. `MaxLog`, `MaxTime`, `MaxFaults` and their like only cut unbounded counters; the
proved theorems do not depend on their values. Two processes are enough for an old
and a new owner of a partition; two messages for an order and a batch of
two; four requests for a limit of two, one that overtakes and one that is rejected; window
thresholds of |z| = 1, 1.41, 1.73 and 2 put every severity within four or five samples.
Two requests on one connection exhaust the pool, and on two race for the cache; one row and
one tick are enough for a page that is older than the one it replaces. Two writers of the
rules file and three changes give the older of them the last word. Two runs of the script over
one file give copies; a second fault lets one post time out and another lose its row.
Alerts meet only in the payload of one webhook, so one alert with two
webhooks is enough for what can happen to its row.
The rate limiter and the "violation" liveness run may stop (time ends, the process
is not restarted), and so may Alertmanager, once every alert is resolved: their
configurations do not check deadlock, all others do.

### What the violations say

Each contrasts what the code does with a sentence of the repository:

* `ingestion_compose`: any exception ends `run_consumer` with status 0
  (`main.py:111`), and `restart: on-failure` does not restart that;
  `test_resilience.py:177` and `decisions.md:18` promise that consumers resume. Kubernetes
  (`restartPolicy: Always`) does restart it, and there `EveryMessageSettled` holds. Anomaly Detection
  (`main.py:102`) and the Diagnosis Service (`main.py:150`) end in the same way, and
  `docker-compose.yml:343` and `:382` give them the same policy: `EveryMessageHandled` is shown for
  `RestartsAfterExit = TRUE`, and under the compose file one exception, such as a
  commit rejected after an eviction, stops the diagnoses in the same way.
* `ingestion_expiry`: HSET without its EXPIRE (`enrichment.py:61-62`) is cached for ever;
  `enrichment.py:23` promises expiry within the TTL.
* `alert_resolution`: a database error is logged and the webhook answered 202
  (`main.py:161-175`), where `alerting.md:326` promises a 500 and a retry. A firing alert is
  repeated and so recorded later (`FiringIsRecorded` holds); a resolution is not. The run
  allows one webhook at a time, because with two a notification that Alertmanager gave up
  can also insert its row after the resolution.

Differences that the models contain and no run states, most of them one branch:

* A PostgreSQL error dead-letters a valid event (`consumer.py:95`; `decisions.md:17` says it
  queues in Kafka).
* After a late reading the window spans more than its N seconds (`rolling_window.py:66`
  against line 8).
* A diagnosis that fails or has useless lists is dropped; `anomalies.py:196` calls "pending"
  what is still being generated. `PendingIsExplained` says for which reasons.
* `retrieved_incident_ids` of a diagnosis is what the LLM replies, or `[]`
  (`rag_pipeline.py:251`, `main.py:69`): it can name an incident that was not retrieved, or none that
  ever existed. `ShownIsListed` speaks of the incidents in the prompt, not of this column.
* Rejected requests are counted (`rate_limiter.py:62`), so the `Retry-After` that
  `decisions.md:99` calls exact can be too short; `RetryAfterInRange` is what holds.
* The gauges of labels not listed at `main.py:430` are never reset and grow with each
  webhook, against the comment at `main.py:422`.
* A triage that was lost is never made up for, although `alerting.md:301` says that GET
  requests it: GET only reads.
* asyncpg returns JSONB as a string, so triage summaries made from diagnoses leave
  out their recommended actions (`triage.py:173`).
* Overlapping changes of monitors can leave the older rules in the file until the next change
  or start, where `alerting.md:233` says that it matches the table; `StalenessBounded`
  says how old. One expression that Prometheus rejects makes it reject
  every later reload, so that no other monitor takes effect. An update that
  meets a concurrent delete may answer with no monitor.
* The page and the total of a listing with a status filter are two statements and can
  disagree when statuses change in between (`anomalies.py`); those of telemetry cannot, as
  rows are only added (`PageWithinTotal`).

### Fairness

Liveness is checked under weak fairness of the steps of each live process (its event
loop runs, and each call returns or raises), of `Start` (the supervisor restarts what its
policy restarts, `RestartsAfterExit`) and of the broker's `Rebalance` (a client that has lost
its partition rejoins). In `TelemetryApi` it is
`Serve(r)`: the gateway runs, and PostgreSQL and Redis answer or fail within their time. Kafka
need not answer: `PublishTimesOut` is the gateway's own step. Nobody is
obliged to produce, to fail, or to succeed after a failure: a call that fails
is an outcome of a fair choice, and `MaxFaults` says that failures end.
Strong fairness is assumed of one action, Alertmanager's `Notify` of an alert: it repeats what
fires (`repeat_interval`, `alertmanager.yml:42`) and retries what was not acknowledged, and a
repetition can find a webhook about the same alert still in flight any number of times.

## 4. Proofs

All theorems are proved by TLAPS for every value of the constants that satisfies the
named assumptions (`ConstantsAssumption`, `AnomalyDetectionAssumption`,
`MalformedAssumption`, `AnomalyPipelineAssumption`, `RateLimiterAssumption`,
`DiagnosisServiceAssumption`, `RepliesAssumption`, `RagPipelineAssumption`, `TelemetryApiAssumption`, `MonitorsAssumption`,
`AlertReceiverAssumption`), which say only that bounds are naturals,
limits positive, requests in flight finitely many and special values distinct.

* **`IngestionConsumer_proofs`**: `TypeCorrect`, `AtLeastOnce`, `InOrder`.
  `CommittedIsSettled` is not inductive: the commit takes `position`, which says nothing of
  what has been settled. The invariant adds that everything below `cursor` is settled,
  that `position` of an assigned partition is at most `end` (or the committed offset, where
  no batch has been fetched since the rebalance), that the committed offset never
  exceeds what is settled, and that settled offsets of a partition
  form an initial segment. A process that has lost its partition keeps
  its part of the invariant, as it speaks of its own batch.
* **`IngestionDelivery_proofs`**: `NeverRewinds`, `DeliveryImplemented`, `TablesAgree`,
  `OneRowPerGeneration`. The commit of a partition's owner is at least the committed offset
  because `position` started there at the last rebalance and nobody else's commit is
  accepted since; every step then maps to `Settle`, `Acknowledge`, `Append1` or a stutter.
  A message about to be published has its row, and one whose dead letter has been sent is in the
  topic. An offset can still get a row from each process that has it in its batch or may
  fetch it; a rebalance adds one such process at most.
* **`AnomalyPipeline_proofs`**, first about `AnomalyDetection` alone: `DetectionTypeCorrect`,
  `RollingWindowIsExact`, `RecentReadingsKept`, `DetectionOncePerAssignment`, `DetectionDelivers`,
  `DeviationBound` and `SeverityReachable`. A late reading may trim less, never more:
  the invariant says that the window contains every seen reading that is recent relative to all
  seen ones, and only readings recent relative to the last. The rows of an event, those that the
  batch in hand may still add and those that a fetch may still add (one each) never
  exceed `generation`: a rebalance adds one, since it moves `position` back over the
  rest of a batch that goes on. The refinement needs, besides
  `DetectionAtLeastOnce` and the loop's invariant, that a process that has joined the group never
  fetches behind the committed offset (`NotBehind`): every step is then an `Append1`, a `Settle`, an `Acknowledge` or
  a stutter.
  `SeverityNeedsSamples` rests on the sums over an arbitrary finite set of readings.
  Induction over such a set is not available as a rule, so it is done by least
  counterexample: `SumExists` takes the smallest cardinality for which the recursive function
  of the sum would not exist (`WFMin` of the library), `SumEquation` gives the equation, and
  `DeviationBound` is Samuelson's inequality, that the square of `n(x - mean)` is at most
  `(n - 1)` times `n^2` times the variance for every finite set of readings and each x of it. A
  verdict is reached only if the samples allow it, and `Detect` writes that verdict
  with that count.
  Then about both services: `ForeignKeyRejectsForGood`, `DiagnosesMultiplyWithAssignments`,
  `AnnouncementsAsAssumed`, `LossesBounded` and `PipelineDelivers`. An anomaly in hand has an id that
  no message carries yet, so its INSERT cannot follow its message. An event has at most
  `generation` messages and a message at most `dGeneration` diagnoses, by the same account as above; `ProductBound`, an
  injection into pairs, multiplies the two. `LossesAreFailures` is not inductive: an anomaly
  in hand whose INSERT has failed is already lost, and shows so only later. `LostIds` counts it from
  then on; each step adds one id at most, and only a failure or a crash does. It also takes that
  what is handled has a message and that a draft in hand is one the table accepts. `PipelineDelivers` proves both refinements of the
  composition at once, where each service sees of the other only its own log
  growing; TLC does not check it, as the ids of anomalies range over all
  naturals there, but does check each service's alone.
* **`RateLimiter_proofs`**: `SlidingWindow`, `RejectsOnlyOverLimit`,
  `RetryAfterBounded`. Of the requests admitted within a window, the one whose pipeline ran last found
  all others in the sorted set: none had been trimmed, because a request that could
  trim one carries a later stamp than the window allows. The invariant records that,
  with the expiry of the key.
* **`RagPipeline_proofs`**: `DiagnosisTypeCorrect`, `DiagnosisDelivers`,
  `DiagnosisOncePerAssignment`, `PendingHasReason`, `StoresAgree`, `CopiesBounded`,
  `ShownTraceable`. Offsets below the cursor were handled; the
  diagnoses of a message and those its batch in hand and the next fetch may still add never exceed
  `generation`; the refinement adds that the service never
  fetches behind its committed offset, and ignores what the knowledge base does meanwhile. Every message that was lost
  cost a fault. Of the incidents that are in ChromaDB and not listed, all but those
  in service cost a fault, and of those in service all but the awaited one did: the
  script posts only when it waits for nothing. Per file, what the current
  run has posted and what it has still to post never exceed one.
* **`TelemetryApi_proofs`**: `TelemetryTypeCorrect`, `AnswersMatchCopies`,
  `FreshAnswers`, `ConsistentPages`. A request that is publishing owns one of the attempts
  that has no copy yet, so copies, buffered messages and publishing requests together stay
  within attempts and faults. A row that a request did not select was written after
  its look in the cache; `longest` carries that over to the SET, and the expiry to the hit.
* **`Monitors_proofs`**: `MonitorsTypeCorrect`, `FileStaleness`, `ReportTruthful`. While
  nothing has failed, each snapshot is one of the versions, and once nobody has still to write,
  the last writer has left a version in the file. If requests did not overlap there is
  one worker at most, whose stage says how far the table, the file and Prometheus agree.
* **`AlertReceiver_proofs`**: `ReceiverTypeCorrect`, `OneTriagePerEvent`,
  `NoTriageForgotten`, `HistoryBounded`. The bound on rows says nothing of the
  notifications still in flight, each of which may insert one more. The invariant is a pair of
  accounts for each alert: rows born, notifications given up, and one row owed at
  most, are paid for by episodes and faults. A notification that was given up cost a fault and can
  insert a row, or resolve one that another then inserts again; those that are awaited
  exclude each other (`OneNotification`), so that they owe one row together. `FiringDue` and
  `ResolutionDue` name the cases in which it is owed.

Only model-checked: liveness (`EveryMessageSettled`, `EveryMessageHandled`,
`FiringIsRecorded`, `EveryRequestAnswered`), which needs ENABLED. Every invariant
and action property of a passing run is a theorem, and so are the three refinements.

## 5. Plan and what is not modelled

Done, in this order: the Ingestion Consumer with its abstraction, Anomaly Detection and the
rate limiter; the Diagnosis Service and its composition with Anomaly Detection; the Alert
Receiver's webhook; its monitors; the telemetry endpoints; the knowledge base, and its
composition with the Diagnosis Service; the proofs of all of them.

Left:

1. Two devices or metrics in one partition. A batch then interleaves their windows, which the
   code keeps apart by key; a bound on redelivered readings per window is what would be new.
2. `TelemetryApi` over the topic of `IngestionConsumer`, where a row would stand for a message, and
   the copies that a client's retry makes would meet those of redelivery.
3. `PATCH /anomalies/{id}/status` beside the listings that filter by status: the page and its
   total are two statements there as well, and rows leave the filter.

Not modelled: authentication and roles (stateless), the simulator (it only calls the API), the
generation of example incidents, the deployment beyond its restart policies, the wording of
prompts and summaries, Prometheus's built-in rules, the data classes and metrics of `shared/`
(validation appears as the `Malformed` and `Unreadable` payloads), the endpoints that are one SELECT
or one UPDATE (health, listings, `PATCH .../status`), and the monthly partitions of the schema.

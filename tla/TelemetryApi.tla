---------------------------- MODULE TelemetryApi ----------------------------
(***************************************************************************)
(* The telemetry endpoints of the API Gateway                              *)
(* (services/api_gateway/app/routers/telemetry.py) and the connection pool *)
(* they share (dependencies.py): POST publishes an event and waits for     *)
(* Kafka, GET answers from a cache in Redis or from PostgreSQL.            *)
(*                                                                         *)
(* get_db_connection is the first dependency of every handler: a request   *)
(* queues for a connection before it is authenticated or counted by the    *)
(* rate limiter, and keeps it until it is answered, POST included.         *)
(***************************************************************************)
EXTENDS Naturals, Sequences, FiniteSets, FiniteSetsExt

CONSTANTS
    Requests,    \* requests in the gateway at the same time
    Events,      \* events that clients send
    Query,       \* GET /telemetry, with one set of filters
    DeadLetters, \* GET /telemetry/dlq
    PoolSizes,   \* values of the pool's max_size to consider
    TTL,         \* ticks that a cached answer lives (ex=60)
    MaxSends,    \* bound: times that an event is sent
    MaxRows,     \* bound: rows
    MaxTime,     \* bound: ticks of the clock
    MaxFaults    \* bound: lost acknowledgements and crashes

Reads == {Query, DeadLetters}

ASSUME TelemetryApiAssumption ==
    /\ IsFiniteSet(Requests)
    /\ Query # DeadLetters /\ Reads \cap Events = {}
    /\ PoolSizes \subseteq Nat \ {0} /\ TTL \in Nat \ {0}
    /\ MaxSends \in Nat /\ MaxRows \in Nat /\ MaxTime \in Nat /\ MaxFaults \in Nat

VARIABLES
    now,
    poolSize,  \* never changes
    topic,     \* telemetry.raw: the copies of each event
    lingering, \* messages in the producer's buffer whose sender has given up
    rows,      \* the rows of each table, by the time they were written
    cache,     \* the cached answer to Query
    waiting,   \* the requests that queue for a connection
    stage,     \* how far each request is
    asks,      \* what it asks for: an event to ingest or a table to read
    page,      \* how many rows it has selected, and the total it has counted
    looked,    \* when it looked in the cache
    accepted,  \* history: the events answered 202
    attempts,  \* history: how often an event was handed to the producer
    longest,   \* history: the longest time from a look in the cache to a SET
    faults

requestVars == <<waiting, stage, asks, page, looked>>
kafkaVars   == <<topic, lingering>>
histVars    == <<accepted, attempts, longest>>
vars == <<now, poolSize, kafkaVars, rows, cache, requestVars, histVars, faults>>

Tables  == {"telemetry_events", "dead_letter_events"}
Page    == [selected : Nat, total : Nat]
Holding == {"admitted", "publishing", "selected", "counted"}
Stage   == Holding \cup {"idle", "waiting", "answer"}

-----------------------------------------------------------------------------
NoPage == [selected |-> 0, total |-> 0]

Init ==
    /\ now = 0 /\ poolSize \in PoolSizes
    /\ topic = [e \in Events |-> 0] /\ lingering = [e \in Events |-> 0]
    /\ rows = [t \in Tables |-> <<>>]
    /\ cache = [page |-> NoPage, expires |-> 0]
    /\ waiting = <<>>
    /\ stage = [r \in Requests |-> "idle"]
    /\ asks = [r \in Requests |-> Query]
    /\ page = [r \in Requests |-> NoPage]
    /\ looked = [r \in Requests |-> 0]
    /\ accepted = {} /\ attempts = [e \in Events |-> 0] /\ longest = 0
    /\ faults = 0

Fault == faults < MaxFaults /\ faults' = faults + 1

Move(r, from, to) ==
    /\ stage[r] = from
    /\ stage' = [stage EXCEPT ![r] = to]

(* The request is over, whatever its answer.                               *)
End(r) ==
    /\ stage' = [stage EXCEPT ![r] = "idle"]
    /\ asks' = [asks EXCEPT ![r] = Query]
    /\ page' = [page EXCEPT ![r] = NoPage]
    /\ looked' = [looked EXCEPT ![r] = 0]

(* The connections in use: a request keeps its own while it is served.     *)
Connections == {r \in Requests : stage[r] \in Holding}

-----------------------------------------------------------------------------
(* Dependencies *)

Arrive(r) ==
    /\ Move(r, "idle", "waiting")
    /\ waiting' = Append(waiting, r)
    /\ UNCHANGED <<now, poolSize, kafkaVars, rows, cache, asks, page, looked, histVars, faults>>

(* Mutant of Acquire: a connection for whoever asks, beyond the limit. *)
MutantAcquire(r) ==
    /\ waiting # <<>> /\ Head(waiting) = r
    /\ Move(r, "waiting", "admitted")
    /\ \E asked \in Events \cup Reads : asks' = [asks EXCEPT ![r] = asked]
    /\ waiting' = Tail(waiting)
    /\ UNCHANGED <<now, poolSize, kafkaVars, rows, cache, page, looked, histVars, faults>>

(* get_db_connection: the pool serves its waiters in turn. What a request  *)
(* asks for matters only from here.                                        *)
Acquire(r) ==
    /\ waiting # <<>> /\ Head(waiting) = r
    /\ Cardinality(Connections) < poolSize
    /\ Move(r, "waiting", "admitted")
    /\ \E asked \in Events \cup Reads : asks' = [asks EXCEPT ![r] = asked]
    /\ waiting' = Tail(waiting)
    /\ UNCHANGED <<now, poolSize, kafkaVars, rows, cache, page, looked, histVars, faults>>

(* No valid token, no such role, over the rate limit, an unknown device,   *)
(* or an error of PostgreSQL: the request ends without an effect.          *)
Refuse(r) ==
    /\ stage[r] \in {"admitted", "selected"}
    /\ End(r)
    /\ UNCHANGED <<now, poolSize, kafkaVars, rows, cache, waiting, histVars, faults>>

-----------------------------------------------------------------------------
(* ingest_telemetry *)

(* The device exists, in Redis or in PostgreSQL, and the event goes to the *)
(* producer.                                                               *)
Send(r) ==
    /\ asks[r] \in Events
    /\ attempts[asks[r]] < MaxSends
    /\ Move(r, "admitted", "publishing")
    /\ attempts' = [attempts EXCEPT ![asks[r]] = @ + 1]
    /\ UNCHANGED <<now, poolSize, kafkaVars, rows, cache, waiting, asks, page, looked, accepted, longest, faults>>

Published(r) ==
    /\ stage[r] = "publishing"
    /\ topic' = [topic EXCEPT ![asks[r]] = @ + 1]
    /\ accepted' = accepted \cup {asks[r]}
    /\ End(r)
    /\ UNCHANGED <<now, poolSize, lingering, rows, cache, waiting, attempts, longest, faults>>

(* Mutant of PublishTimesOut: the event is accepted on the strength of the *)
(* producer's buffer.                                                      *)
MutantTimeoutAccepted(r) ==
    /\ stage[r] = "publishing"
    /\ lingering' = [lingering EXCEPT ![asks[r]] = @ + 1]
    /\ accepted' = accepted \cup {asks[r]}
    /\ End(r)
    /\ UNCHANGED <<now, poolSize, topic, rows, cache, waiting, attempts, longest, faults>>

(* Mutant of PublishTimesOut: the handler waits for Kafka without a limit. *)
MutantNoTimeout(r) == FALSE /\ UNCHANGED vars

(* wait_for gives up, or the producer fails: the client gets a 503, but    *)
(* the message may stay in the producer's buffer.                          *)
PublishTimesOut(r) ==
    /\ stage[r] = "publishing"
    /\ \E left \in {0, 1} : lingering' = [lingering EXCEPT ![asks[r]] = @ + left]
    /\ End(r)
    /\ UNCHANGED <<now, poolSize, topic, rows, cache, waiting, histVars, faults>>

(* The producer delivers what nobody waits for, or drops it.               *)
FlushBuffer(e) ==
    /\ lingering[e] > 0
    /\ lingering' = [lingering EXCEPT ![e] = @ - 1]
    /\ \E delivered \in {0, 1} : topic' = [topic EXCEPT ![e] = @ + delivered]
    /\ UNCHANGED <<now, poolSize, rows, cache, requestVars, histVars, faults>>

(* Kafka appends a message, and the producer, which has not heard so,      *)
(* sends it again, whether its sender still waits or has given up.         *)
AckLost(e) ==
    /\ lingering[e] > 0 \/ \E r \in Requests : stage[r] = "publishing" /\ asks[r] = e
    /\ Fault
    /\ topic' = [topic EXCEPT ![e] = @ + 1]
    /\ UNCHANGED <<now, poolSize, lingering, rows, cache, requestVars, histVars>>

-----------------------------------------------------------------------------
(* query_telemetry and query_dead_letter_queue *)

TableOf(asked) == IF asked = Query THEN "telemetry_events" ELSE "dead_letter_events"

(* Rows are only ever added, so a snapshot is known by how many it has.    *)
CountRows(r) == Len(rows[TableOf(asks[r])])

CacheHit(r) ==
    /\ asks[r] = Query
    /\ now < cache.expires
    /\ Move(r, "admitted", "answer")
    /\ page' = [page EXCEPT ![r] = cache.page]
    /\ looked' = [looked EXCEPT ![r] = now]
    /\ UNCHANGED <<now, poolSize, kafkaVars, rows, cache, waiting, asks, histVars, faults>>

(* Nothing cached, Redis unreachable, or a request that uses no cache: the *)
(* SELECT of the rows.                                                     *)
SelectRows(r) ==
    /\ asks[r] \in Reads
    /\ Move(r, "admitted", "selected")
    /\ page' = [page EXCEPT ![r].selected = CountRows(r)]
    /\ looked' = [looked EXCEPT ![r] = now]
    /\ UNCHANGED <<now, poolSize, kafkaVars, rows, cache, waiting, asks, histVars, faults>>

(* Mutant of CountTotal: the COUNT of the other endpoint. *)
MutantCountTotal(r) ==
    /\ Move(r, "selected", "counted")
    /\ page' = [page EXCEPT ![r].total = Len(rows["telemetry_events"])]
    /\ UNCHANGED <<now, poolSize, kafkaVars, rows, cache, waiting, asks, looked, histVars, faults>>

(* The COUNT, with a snapshot of its own.                                  *)
CountTotal(r) ==
    /\ Move(r, "selected", "counted")
    /\ page' = [page EXCEPT ![r].total = CountRows(r)]
    /\ UNCHANGED <<now, poolSize, kafkaVars, rows, cache, waiting, asks, looked, histVars, faults>>

(* Mutant of FillCache: a SET without ex. *)
MutantFillCache(r) ==
    /\ asks[r] = Query
    /\ Move(r, "counted", "answer")
    /\ cache' = [page |-> page[r], expires |-> MaxTime + 1]
    /\ longest' = Max({longest, now - looked[r]})
    /\ UNCHANGED <<now, poolSize, kafkaVars, rows, waiting, asks, page, looked, accepted, attempts, faults>>

(* SET with ex=60: value and expiry together, whatever is cached by then.  *)
FillCache(r) ==
    /\ asks[r] = Query
    /\ Move(r, "counted", "answer")
    /\ cache' = [page |-> page[r], expires |-> now + TTL]
    /\ longest' = Max({longest, now - looked[r]})
    /\ UNCHANGED <<now, poolSize, kafkaVars, rows, waiting, asks, page, looked, accepted, attempts, faults>>

(* The dead letters are not cached, and a failing SET is ignored.          *)
SkipCache(r) ==
    /\ Move(r, "counted", "answer")
    /\ UNCHANGED <<now, poolSize, kafkaVars, rows, cache, waiting, asks, page, looked, histVars, faults>>

Respond(r) ==
    /\ stage[r] = "answer"
    /\ End(r)
    /\ UNCHANGED <<now, poolSize, kafkaVars, rows, cache, waiting, histVars, faults>>

-----------------------------------------------------------------------------
(* The ingestion consumer writes a row for a message, in either table.     *)
Ingest ==
    /\ \E e \in Events : topic[e] > 0
    /\ Len(rows["telemetry_events"]) + Len(rows["dead_letter_events"]) < MaxRows
    /\ \E t \in Tables : rows' = [rows EXCEPT ![t] = Append(@, now)]
    /\ UNCHANGED <<now, poolSize, kafkaVars, cache, requestVars, histVars, faults>>

Tick ==
    /\ now < MaxTime
    /\ now' = now + 1
    /\ UNCHANGED <<poolSize, kafkaVars, rows, cache, requestVars, histVars, faults>>

(* The gateway dies with its requests and the producer's buffer.           *)
Crash ==
    /\ \E r \in Requests : stage[r] # "idle"
    /\ Fault
    /\ waiting' = <<>>
    /\ stage' = [r \in Requests |-> "idle"]
    /\ asks' = [r \in Requests |-> Query]
    /\ page' = [r \in Requests |-> NoPage]
    /\ looked' = [r \in Requests |-> 0]
    /\ lingering' = [e \in Events |-> 0]
    /\ UNCHANGED <<now, poolSize, topic, rows, cache, histVars>>

Serve(r) ==
    \/ Acquire(r) \/ Refuse(r)
    \/ Send(r) \/ PublishTimesOut(r)
    \/ CacheHit(r) \/ SelectRows(r) \/ CountTotal(r)
    \/ FillCache(r) \/ SkipCache(r) \/ Respond(r)

Next ==
    \/ \E r \in Requests : Arrive(r) \/ Serve(r) \/ Published(r)
    \/ \E e \in Events : FlushBuffer(e) \/ AckLost(e)
    \/ Ingest \/ Tick \/ Crash

Spec == Init /\ [][Next]_vars

(* Redis and PostgreSQL answer, or fail within their time; Kafka need not. *)
FairSpec == Spec /\ \A r \in Requests : WF_vars(Serve(r))

-----------------------------------------------------------------------------
(* Properties *)

(* Every variable has its type, and the queue holds exactly the requests   *)
(* that wait for a connection.                                             *)
TypeOK ==
    /\ now \in 0..MaxTime /\ poolSize \in PoolSizes
    /\ topic \in [Events -> Nat]
    /\ lingering \in [Events -> Nat]
    /\ rows \in [Tables -> Seq(0..MaxTime)]
    /\ cache \in [page : Page, expires : Nat]
    /\ waiting \in Seq(Requests)
    /\ stage \in [Requests -> Stage]
    /\ asks \in [Requests -> Events \cup Reads]
    /\ page \in [Requests -> Page]
    /\ looked \in [Requests -> 0..MaxTime]
    /\ accepted \subseteq Events
    /\ attempts \in [Events -> Nat]
    /\ longest \in 0..MaxTime
    /\ faults \in 0..MaxFaults
    /\ \A r \in Requests :
          stage[r] = "waiting" <=> \E i \in 1..Len(waiting) : waiting[i] = r
    /\ Cardinality(Connections) <= poolSize

(* What clients are told and what Kafka holds: an event answered 202 is in *)
(* the topic, and a 503 may stand for a message that is delivered all the  *)
(* same, so that the client that obeys "Please retry" sends another: the   *)
(* copies of an event are bounded by the times it was sent, plus one for   *)
(* each acknowledgement that Kafka lost (telemetry.py, send_and_wait).     *)
CopiesMatchAnswers ==
    \A e \in Events :
        /\ e \in accepted => topic[e] > 0
        /\ topic[e] + lingering[e] <= attempts[e] + faults

(* Who asks at some time is shown every row that was stored TTL ticks      *)
(* before, plus the longest that any request took from its SELECT to its   *)
(* SET: a slow request may cache rows that are old already, over those of  *)
(* a newer one, but never for longer (telemetry.py, query_telemetry).      *)
AnswersAreFresh ==
    \A r \in Requests :
        stage[r] = "answer" /\ asks[r] = Query =>
            \A i \in 1..CountRows(r) :
                rows["telemetry_events"][i] + TTL + longest <= looked[r]
                    => i <= page[r].selected

(* A page never holds more rows than the total it is reported with.        *)
PageWithinTotal ==
    \A r \in Requests :
        stage[r] = "answer" => page[r].selected <= page[r].total

(* Every request is answered, also while Kafka is down and every           *)
(* connection of the pool is held by a POST that waits for it.             *)
EveryRequestAnswered == \A r \in Requests : stage[r] # "idle" ~> stage[r] = "idle"
=============================================================================

------------------------- MODULE TelemetryApi_proofs -------------------------
(***************************************************************************)
(* What the telemetry endpoints promise, for any number of requests,       *)
(* events and connections, any TTL and any number of faults.               *)
(*                                                                         *)
(* The argument: a request that is publishing owns one of the attempts, so *)
(* copies, buffered messages and publishing requests together stay within  *)
(* the attempts and faults; and a row that a request did not select was    *)
(* written after its look in the cache, so what it caches is no older than *)
(* the time it took.                                                       *)
(***************************************************************************)
EXTENDS TelemetryApi, FiniteSetTheorems, TLAPS

USE TelemetryApiAssumption

(* The parts of TypeOK: the types, the queue and the pool.                 *)
WorldOK ==
    /\ now \in 0..MaxTime /\ poolSize \in PoolSizes
    /\ topic \in [Events -> Nat]
    /\ lingering \in [Events -> Nat]
    /\ rows \in [Tables -> Seq(0..MaxTime)]
    /\ cache \in [page : Page, expires : Nat]
    /\ accepted \subseteq Events
    /\ attempts \in [Events -> Nat]
    /\ longest \in 0..MaxTime
    /\ faults \in 0..MaxFaults

RequestsOK ==
    /\ waiting \in Seq(Requests)
    /\ stage \in [Requests -> Stage]
    /\ asks \in [Requests -> Events \cup Reads]
    /\ page \in [Requests -> Page]
    /\ looked \in [Requests -> 0..MaxTime]

(* Only events are published, and nobody has looked in the cache later     *)
(* than now.                                                               *)
StagesOK ==
    \A r \in Requests :
        /\ stage[r] = "publishing" => asks[r] \in Events
        /\ looked[r] <= now

BasicOK == WorldOK /\ RequestsOK /\ StagesOK

(* No request queues twice.                                                *)
QueueOK ==
    /\ \A r \in Requests :
          stage[r] = "waiting" <=> \E i \in 1..Len(waiting) : waiting[i] = r
    /\ \A i, j \in 1..Len(waiting) : waiting[i] = waiting[j] => i = j

PoolOK == Cardinality(Connections) <= poolSize

(* The requests that wait for Kafka to take event e.                       *)
Publishing(e) == {r \in Requests : stage[r] = "publishing" /\ asks[r] = e}

(* Each of them owns an attempt that is neither in the topic nor buffered. *)
CopiesInv ==
    \A e \in Events :
        /\ e \in accepted => topic[e] > 0
        /\ topic[e] + lingering[e] + Cardinality(Publishing(e)) <= attempts[e] + faults

(* A page is consistent; what a request has not selected was written after *)
(* its look in the cache.                                                  *)
Stored == rows["telemetry_events"]

Unselected(r) == {i \in 1..Len(Stored) : ~(i <= page[r].selected)}

PageInv(r) ==
    /\ stage[r] = "selected" => page[r].selected <= CountRows(r)
    /\ stage[r] \in {"counted", "answer"} => page[r].selected <= page[r].total
    /\ stage[r] \in {"selected", "counted"} /\ asks[r] = Query =>
          \A i \in Unselected(r) : looked[r] <= Stored[i]
    /\ stage[r] = "answer" /\ asks[r] = Query =>
          \A i \in Unselected(r) : looked[r] < Stored[i] + TTL + longest

(* What the cache lacks was written too late to be owed before it expires. *)
CacheInv ==
    /\ cache.expires <= now + TTL
    /\ cache.page.selected <= cache.page.total
    /\ \A i \in 1..Len(Stored) :
          ~(i <= cache.page.selected) => cache.expires <= Stored[i] + TTL + longest

ReadsInv == CacheInv /\ \A r \in Requests : PageInv(r)

-----------------------------------------------------------------------------
(* The larger of two numbers.                                              *)
LEMMA LargerOfTwo ==
    ASSUME NEW m \in Int, NEW n \in Int
    PROVE  Max({m, n}) \in {m, n} /\ Max({m, n}) >= m /\ Max({m, n}) >= n
<1>1. \E x \in {m, n} : \A y \in {m, n} : x >= y
  <2>1. CASE m >= n
    BY <2>1
  <2>2. CASE n >= m
    BY <2>2
  <2>3. QED
    BY <2>1, <2>2
<1>2. QED
  BY <1>1 DEF Max

LEMMA NoPageType == NoPage \in Page
  BY DEF NoPage, Page

LEMMA RowsCounted == ASSUME BasicOK, NEW r \in Requests PROVE CountRows(r) \in Nat
  BY DEF BasicOK, WorldOK, CountRows, TableOf, Tables

(* What a step of request r does to the stages, and to its page and look   *)
(* when it ends.                                                           *)
Moved(r, from, to) ==
    /\ stage' \in [Requests -> Stage]
    /\ stage[r] = from /\ stage'[r] = to
    /\ \A q \in Requests \ {r} : stage'[q] = stage[q]

Ended(r) ==
    /\ stage' \in [Requests -> Stage] /\ stage'[r] = "idle"
    /\ asks' \in [Requests -> Events \cup Reads]
    /\ page' \in [Requests -> Page]
    /\ looked' \in [Requests -> 0..MaxTime]
    /\ \A q \in Requests : looked'[q] <= now
    /\ \A q \in Requests \ {r} :
          /\ stage'[q] = stage[q] /\ asks'[q] = asks[q]
          /\ page'[q] = page[q] /\ looked'[q] = looked[q]

LEMMA MoveEffect ==
    ASSUME BasicOK, NEW r \in Requests, NEW from, NEW to \in Stage, Move(r, from, to)
    PROVE  Moved(r, from, to)
  BY DEF BasicOK, RequestsOK, Move, Moved

LEMMA EndEffect == ASSUME BasicOK, NEW r \in Requests, End(r) PROVE Ended(r)
<1>1. "idle" \in Stage /\ Query \in Events \cup Reads /\ 0 \in 0..MaxTime
  BY DEF Stage, Reads
<1>2. QED
  BY <1>1, NoPageType DEF BasicOK, WorldOK, RequestsOK, StagesOK, End, Ended

(* The stages there are.                                                   *)
LEMMA Stages ==
    {"idle", "waiting", "admitted", "publishing", "selected", "counted", "answer"} = Stage
  BY DEF Stage, Holding

-----------------------------------------------------------------------------
(* Types *)

LEMMA InitBasic == Init => BasicOK
  BY NoPageType DEF Init, BasicOK, WorldOK, RequestsOK, StagesOK, Tables, Stage, Reads, Page

LEMMA BasicStep == BasicOK /\ [Next]_vars => BasicOK'
<1> SUFFICES ASSUME BasicOK, [Next]_vars PROVE BasicOK'
  OBVIOUS
<1> USE DEF BasicOK
<1>1. ASSUME NEW r \in Requests, Arrive(r) PROVE BasicOK'
  <2>1. Moved(r, "idle", "waiting")
    BY <1>1, MoveEffect, Stages DEF Arrive
  <2>2. WorldOK'
    BY <1>1 DEF WorldOK, Arrive, kafkaVars, histVars
  <2>3. RequestsOK'
    BY <1>1, <2>1 DEF Moved, RequestsOK, Arrive
  <2>4. StagesOK'
    BY <1>1, <2>1 DEF Moved, WorldOK, RequestsOK, StagesOK, Arrive
  <2>5. QED
    BY <2>2, <2>3, <2>4
<1>2. ASSUME NEW r \in Requests, Acquire(r) PROVE BasicOK'
  <2>1. Moved(r, "waiting", "admitted")
    BY <1>2, MoveEffect, Stages DEF Acquire
  <2>2. WorldOK'
    BY <1>2 DEF WorldOK, Acquire, kafkaVars, histVars
  <2>3. RequestsOK'
    <3>1. Tail(waiting) \in Seq(Requests)
      BY <1>2 DEF RequestsOK, Acquire
    <3>2. asks' \in [Requests -> Events \cup Reads]
      BY <1>2 DEF RequestsOK, Acquire
    <3>3. QED
      BY <1>2, <2>1, <3>1, <3>2 DEF Moved, RequestsOK, Acquire
  <2>4. StagesOK'
    BY <1>2, <2>1 DEF Moved, WorldOK, RequestsOK, StagesOK, Acquire
  <2>5. QED
    BY <2>2, <2>3, <2>4
<1>3. ASSUME NEW r \in Requests, Refuse(r) PROVE BasicOK'
  <2>1. Ended(r)
    BY <1>3, EndEffect DEF Refuse
  <2>2. WorldOK'
    BY <1>3 DEF WorldOK, Refuse, kafkaVars, histVars
  <2>3. RequestsOK'
    BY <1>3, <2>1 DEF Ended, RequestsOK, Refuse
  <2>4. StagesOK'
    BY <1>3, <2>1 DEF Ended, WorldOK, RequestsOK, StagesOK, Refuse
  <2>5. QED
    BY <2>2, <2>3, <2>4
<1>4. ASSUME NEW r \in Requests, Send(r) PROVE BasicOK'
  <2>1. Moved(r, "admitted", "publishing")
    BY <1>4, MoveEffect, Stages DEF Send
  <2>2. WorldOK'
    BY <1>4 DEF WorldOK, StagesOK, RequestsOK, Send, kafkaVars
  <2>3. RequestsOK'
    BY <1>4, <2>1 DEF Moved, RequestsOK, Send
  <2>4. StagesOK'
    BY <1>4, <2>1 DEF Moved, WorldOK, RequestsOK, StagesOK, Send
  <2>5. QED
    BY <2>2, <2>3, <2>4
<1>5. ASSUME NEW r \in Requests, Published(r) PROVE BasicOK'
  <2>1. Ended(r)
    BY <1>5, EndEffect DEF Published
  <2>2. WorldOK'
    BY <1>5 DEF WorldOK, StagesOK, RequestsOK, Published, kafkaVars, histVars
  <2>3. RequestsOK'
    BY <1>5, <2>1 DEF Ended, RequestsOK, Published
  <2>4. StagesOK'
    BY <1>5, <2>1 DEF Ended, WorldOK, RequestsOK, StagesOK, Published
  <2>5. QED
    BY <2>2, <2>3, <2>4
<1>6. ASSUME NEW r \in Requests, PublishTimesOut(r) PROVE BasicOK'
  <2>1. Ended(r)
    BY <1>6, EndEffect DEF PublishTimesOut
  <2>2. WorldOK'
    BY <1>6 DEF WorldOK, StagesOK, RequestsOK, PublishTimesOut, kafkaVars, histVars
  <2>3. RequestsOK'
    BY <1>6, <2>1 DEF Ended, RequestsOK, PublishTimesOut
  <2>4. StagesOK'
    BY <1>6, <2>1 DEF Ended, WorldOK, RequestsOK, StagesOK, PublishTimesOut
  <2>5. QED
    BY <2>2, <2>3, <2>4
<1>7. ASSUME NEW r \in Requests, CacheHit(r) PROVE BasicOK'
  <2>1. Moved(r, "admitted", "answer")
    BY <1>7, MoveEffect, Stages DEF CacheHit
  <2>2. WorldOK'
    BY <1>7 DEF WorldOK, CacheHit, kafkaVars, histVars
  <2>3. RequestsOK'
    <3>1. cache.page \in Page
      BY RowsCounted DEF RequestsOK, WorldOK, Page
    <3>2. QED
      BY <1>7, <2>1, <3>1 DEF Moved, WorldOK, RequestsOK, CacheHit
  <2>4. StagesOK'
    BY <1>7, <2>1 DEF Moved, WorldOK, RequestsOK, StagesOK, CacheHit
  <2>5. QED
    BY <2>2, <2>3, <2>4
<1>8. ASSUME NEW r \in Requests, SelectRows(r) PROVE BasicOK'
  <2>1. Moved(r, "admitted", "selected")
    BY <1>8, MoveEffect, Stages DEF SelectRows
  <2>2. WorldOK'
    BY <1>8 DEF WorldOK, SelectRows, kafkaVars, histVars
  <2>3. RequestsOK'
    <3>1. [page[r] EXCEPT !.selected = CountRows(r)] \in Page
      BY RowsCounted DEF RequestsOK, WorldOK, Page
    <3>2. QED
      BY <1>8, <2>1, <3>1 DEF Moved, WorldOK, RequestsOK, SelectRows
  <2>4. StagesOK'
    BY <1>8, <2>1 DEF Moved, WorldOK, RequestsOK, StagesOK, SelectRows
  <2>5. QED
    BY <2>2, <2>3, <2>4
<1>9. ASSUME NEW r \in Requests, CountTotal(r) PROVE BasicOK'
  <2>1. Moved(r, "selected", "counted")
    BY <1>9, MoveEffect, Stages DEF CountTotal
  <2>2. WorldOK'
    BY <1>9 DEF WorldOK, CountTotal, kafkaVars, histVars
  <2>3. RequestsOK'
    <3>1. [page[r] EXCEPT !.total = CountRows(r)] \in Page
      BY RowsCounted DEF RequestsOK, WorldOK, Page
    <3>2. QED
      BY <1>9, <2>1, <3>1 DEF Moved, WorldOK, RequestsOK, CountTotal
  <2>4. StagesOK'
    BY <1>9, <2>1 DEF Moved, WorldOK, RequestsOK, StagesOK, CountTotal
  <2>5. QED
    BY <2>2, <2>3, <2>4
<1>10. ASSUME NEW r \in Requests, FillCache(r) PROVE BasicOK'
  <2>1. Moved(r, "counted", "answer")
    BY <1>10, MoveEffect, Stages DEF FillCache
  <2>2. WorldOK'
    <3>1. Max({longest, now - looked[r]}) \in 0..MaxTime
      <4>1. longest \in 0..MaxTime /\ now - looked[r] \in 0..MaxTime
        BY DEF WorldOK, RequestsOK, StagesOK
      <4>2. longest \in Int /\ now - looked[r] \in Int
        BY <4>1
      <4>3. Max({longest, now - looked[r]}) \in {longest, now - looked[r]}
        BY <4>2, LargerOfTwo
      <4>4. QED
        BY <4>1, <4>3
    <3>2. cache' \in [page : Page, expires : Nat]
      BY <1>10 DEF WorldOK, RequestsOK, FillCache
    <3>3. QED
      BY <1>10, <3>1, <3>2 DEF WorldOK, FillCache, kafkaVars
  <2>3. RequestsOK'
    BY <1>10, <2>1 DEF Moved, RequestsOK, FillCache
  <2>4. StagesOK'
    BY <1>10, <2>1 DEF Moved, WorldOK, RequestsOK, StagesOK, FillCache
  <2>5. QED
    BY <2>2, <2>3, <2>4
<1>11. ASSUME NEW r \in Requests, SkipCache(r) PROVE BasicOK'
  <2>1. Moved(r, "counted", "answer")
    BY <1>11, MoveEffect, Stages DEF SkipCache
  <2>2. WorldOK'
    BY <1>11 DEF WorldOK, SkipCache, kafkaVars, histVars
  <2>3. RequestsOK'
    BY <1>11, <2>1 DEF Moved, RequestsOK, SkipCache
  <2>4. StagesOK'
    BY <1>11, <2>1 DEF Moved, WorldOK, RequestsOK, StagesOK, SkipCache
  <2>5. QED
    BY <2>2, <2>3, <2>4
<1>12. ASSUME NEW r \in Requests, Respond(r) PROVE BasicOK'
  <2>1. Ended(r)
    BY <1>12, EndEffect DEF Respond
  <2>2. WorldOK'
    BY <1>12 DEF WorldOK, Respond, kafkaVars, histVars
  <2>3. RequestsOK'
    BY <1>12, <2>1 DEF Ended, RequestsOK, Respond
  <2>4. StagesOK'
    BY <1>12, <2>1 DEF Ended, WorldOK, RequestsOK, StagesOK, Respond
  <2>5. QED
    BY <2>2, <2>3, <2>4
<1>13. ASSUME NEW e \in Events, AckLost(e) PROVE BasicOK'
  BY <1>13 DEF WorldOK, RequestsOK, StagesOK, AckLost, Fault, requestVars, histVars
<1>14. ASSUME NEW e \in Events, FlushBuffer(e) PROVE BasicOK'
  BY <1>14 DEF WorldOK, RequestsOK, StagesOK, FlushBuffer, requestVars, histVars
<1>15. CASE Ingest
  BY <1>15 DEF WorldOK, RequestsOK, StagesOK, Ingest, Tables, kafkaVars, requestVars, histVars
<1>16. CASE Tick
  BY <1>16 DEF WorldOK, RequestsOK, StagesOK, Tick, kafkaVars, requestVars, histVars
<1>17. CASE UNCHANGED vars
  BY <1>17 DEF WorldOK, RequestsOK, StagesOK, vars, kafkaVars, requestVars, histVars
<1>18. CASE Crash
  <2>1. WorldOK'
    BY <1>18 DEF WorldOK, Crash, Fault, histVars
  <2>2. RequestsOK'
    BY <1>18, Stages, NoPageType DEF WorldOK, RequestsOK, Crash, Reads
  <2>3. StagesOK'
    BY <1>18 DEF WorldOK, StagesOK, Crash
  <2>4. QED
    BY <2>1, <2>2, <2>3
<1>19. QED
  BY <1>1, <1>2, <1>3, <1>4, <1>5, <1>6, <1>7, <1>8, <1>9, <1>10, <1>11, <1>12, <1>13, <1>14, <1>15, <1>16, <1>17, <1>18 DEF Next, Serve

-----------------------------------------------------------------------------
(* The queue and the pool *)

(* A request that has a connection goes on, or gives it back.              *)
Served(r) ==
    /\ stage[r] \notin {"idle", "waiting"}
    /\ stage'[r] # "waiting" /\ (stage'[r] \in Holding => stage[r] \in Holding)
    /\ \A q \in Requests \ {r} : stage'[q] = stage[q]
    /\ UNCHANGED <<waiting, poolSize>>

LEMMA StageSteps ==
    ASSUME BasicOK, [Next]_vars
    PROVE  \/ \E r \in Requests : Arrive(r) \/ Acquire(r) \/ Served(r)
           \/ Crash
           \/ UNCHANGED <<stage, waiting, poolSize>>
<1>1. ASSUME NEW r \in Requests, Refuse(r) \/ Published(r) \/ PublishTimesOut(r) \/ Respond(r)
      PROVE  Served(r)
  <2>1. Ended(r) /\ stage[r] \notin {"idle", "waiting"}
    BY <1>1, EndEffect DEF Refuse, Published, PublishTimesOut, Respond
  <2>2. UNCHANGED <<waiting, poolSize>>
    BY <1>1 DEF Refuse, Published, PublishTimesOut, Respond
  <2>3. QED
    BY <2>1, <2>2 DEF Ended, Served, Holding
<1>2. ASSUME NEW r \in Requests, Send(r) \/ CacheHit(r) \/ SelectRows(r)
      PROVE  Served(r)
  <2>1. \E to \in {"publishing", "answer", "selected"} : Moved(r, "admitted", to)
    BY <1>2, MoveEffect, Stages DEF Send, CacheHit, SelectRows
  <2>2. UNCHANGED <<waiting, poolSize>>
    BY <1>2 DEF Send, CacheHit, SelectRows
  <2>3. QED
    BY <2>1, <2>2 DEF Moved, Served, Holding
<1>3. ASSUME NEW r \in Requests, CountTotal(r) \/ FillCache(r) \/ SkipCache(r)
      PROVE  Served(r)
  <2>1. Moved(r, "selected", "counted") \/ Moved(r, "counted", "answer")
    BY <1>3, MoveEffect, Stages DEF CountTotal, FillCache, SkipCache
  <2>2. UNCHANGED <<waiting, poolSize>>
    BY <1>3 DEF CountTotal, FillCache, SkipCache
  <2>3. QED
    BY <2>1, <2>2 DEF Moved, Served, Holding
<1>4. ASSUME (\E e \in Events : FlushBuffer(e) \/ AckLost(e)) \/ Ingest \/ Tick
             \/ UNCHANGED vars
      PROVE  UNCHANGED <<stage, waiting, poolSize>>
  BY <1>4 DEF AckLost, FlushBuffer, Ingest, Tick, vars, requestVars
<1>5. QED
  BY <1>1, <1>2, <1>3, <1>4 DEF Next, Serve

LEMMA QueueStep == BasicOK /\ QueueOK /\ [Next]_vars => QueueOK'
<1> SUFFICES ASSUME BasicOK, QueueOK, [Next]_vars PROVE QueueOK'
  OBVIOUS
<1>t. waiting \in Seq(Requests) /\ Len(waiting) \in Nat /\ \A i \in 1..Len(waiting) : waiting[i] \in Requests
  BY DEF BasicOK, RequestsOK
<1>1. ASSUME NEW r \in Requests, Arrive(r) PROVE QueueOK'
  <2>1. Moved(r, "idle", "waiting")
    BY <1>1, MoveEffect, Stages DEF Arrive
  <2>2. /\ Len(waiting') = Len(waiting) + 1 /\ waiting'[Len(waiting) + 1] = r
        /\ \A i \in 1..Len(waiting) : waiting'[i] = waiting[i]
    BY <1>1, <1>t DEF Arrive
  <2>3. \A i \in 1..Len(waiting) : waiting[i] # r
    BY <2>1 DEF Moved, QueueOK
  <2>4. \A i, j \in 1..Len(waiting') : waiting'[i] = waiting'[j] => i = j
    BY <2>2, <2>3, <1>t DEF QueueOK
  <2>5. \A q \in Requests : stage'[q] = "waiting" <=> \E i \in 1..Len(waiting') : waiting'[i] = q
    <3>1. ASSUME NEW q \in Requests \ {r}
          PROVE  stage'[q] = "waiting" <=> \E i \in 1..Len(waiting') : waiting'[i] = q
      BY <2>1, <2>2, <1>t DEF Moved, QueueOK
    <3>2. stage'[r] = "waiting" /\ Len(waiting) + 1 \in 1..Len(waiting')
      BY <2>1, <2>2, <1>t DEF Moved
    <3>3. QED
      BY <3>1, <3>2, <2>2
  <2>6. QED
    BY <2>4, <2>5 DEF QueueOK
<1>2. ASSUME NEW r \in Requests, Acquire(r) PROVE QueueOK'
  <2>1. Moved(r, "waiting", "admitted")
    BY <1>2, MoveEffect, Stages DEF Acquire
  <2>2. /\ Len(waiting') = Len(waiting) - 1 /\ Len(waiting) >= 1 /\ waiting[1] = r
        /\ \A i \in 1..Len(waiting') : waiting'[i] = waiting[i + 1]
    BY <1>2, <1>t DEF Acquire
  <2>3. \A i, j \in 1..Len(waiting') : waiting'[i] = waiting'[j] => i = j
    <3>1. SUFFICES ASSUME NEW i \in 1..Len(waiting'), NEW j \in 1..Len(waiting'),
                          waiting'[i] = waiting'[j]
                   PROVE  i = j
      OBVIOUS
    <3>2. i + 1 \in 1..Len(waiting) /\ j + 1 \in 1..Len(waiting)
      BY <1>t, <2>2
    <3>3. waiting[i + 1] = waiting[j + 1]
      BY <3>1, <2>2
    <3>4. i + 1 = j + 1
      BY <3>2, <3>3 DEF QueueOK
    <3>5. QED
      BY <1>t, <2>2, <3>4
  <2>4. ASSUME NEW q \in Requests \ {r}, stage'[q] = "waiting"
        PROVE  \E i \in 1..Len(waiting') : waiting'[i] = q
    <3>1. PICK k \in 1..Len(waiting) : waiting[k] = q
      BY <2>1, <2>4 DEF Moved, QueueOK
    <3>2. k # 1
      BY <3>1, <2>2
    <3>3. k - 1 \in 1..Len(waiting') /\ waiting'[k - 1] = q
      BY <3>1, <3>2, <2>2, <1>t
    <3>4. QED
      BY <3>3
  <2>5. ASSUME NEW i \in 1..Len(waiting')
        PROVE  waiting'[i] # r /\ stage'[waiting'[i]] = "waiting"
    <3>1. i + 1 \in 1..Len(waiting) /\ 1 \in 1..Len(waiting) /\ i + 1 # 1
      BY <1>t, <2>2
    <3>2. waiting[i + 1] # waiting[1] /\ stage[waiting[i + 1]] = "waiting"
      BY <3>1, <1>t DEF QueueOK
    <3>3. QED
      BY <3>1, <3>2, <1>t, <2>1, <2>2 DEF Moved
  <2>6. stage'[r] # "waiting"
    BY <2>1 DEF Moved
  <2>7. QED
    BY <2>3, <2>4, <2>5, <2>6 DEF QueueOK
<1>3. ASSUME NEW r \in Requests, Served(r) PROVE QueueOK'
  BY <1>3 DEF Served, QueueOK
<1>4. CASE Crash
  <2>1. waiting' = <<>> /\ \A q \in Requests : stage'[q] = "idle"
    BY <1>4 DEF Crash
  <2>2. QED
    BY <2>1 DEF QueueOK
<1>5. CASE UNCHANGED <<stage, waiting, poolSize>>
  BY <1>5 DEF QueueOK
<1>6. QED
  BY <1>1, <1>2, <1>3, <1>4, <1>5, StageSteps

LEMMA PoolStep == BasicOK /\ PoolOK /\ [Next]_vars => PoolOK'
<1> SUFFICES ASSUME BasicOK, PoolOK, [Next]_vars PROVE PoolOK'
  OBVIOUS
<1>f. /\ IsFiniteSet(Connections) /\ Cardinality(Connections) \in Nat
      /\ poolSize \in Nat
  BY FS_Subset, FS_CardinalityType DEF Connections, BasicOK, WorldOK
<1>1. ASSUME NEW r \in Requests, Acquire(r) PROVE PoolOK'
  <2>1. Moved(r, "waiting", "admitted")
    BY <1>1, MoveEffect, Stages DEF Acquire
  <2>2. Connections' = Connections \cup {r}
    BY <2>1 DEF Moved, Connections, Holding
  <2>3. r \notin Connections
    BY <2>1 DEF Moved, Connections, Holding
  <2>4. Cardinality(Connections \cup {r}) = Cardinality(Connections) + 1
    BY <1>f, <2>3, FS_AddElement
  <2>5. Cardinality(Connections) < poolSize /\ poolSize' = poolSize
    BY <1>1 DEF Acquire
  <2>6. QED
    BY <1>f, <2>2, <2>4, <2>5 DEF PoolOK
<1>2. ASSUME Connections' \subseteq Connections, poolSize' = poolSize PROVE PoolOK'
  <2>1. Cardinality(Connections') <= Cardinality(Connections) /\ Cardinality(Connections') \in Nat
    BY <1>f, <1>2, FS_Subset, FS_CardinalityType
  <2>2. QED
    BY <1>f, <1>2, <2>1 DEF PoolOK
<1>3. ASSUME NEW r \in Requests, Arrive(r) PROVE PoolOK'
  <2>1. Moved(r, "idle", "waiting") /\ poolSize' = poolSize
    BY <1>3, MoveEffect, Stages DEF Arrive
  <2>2. Connections' \subseteq Connections
    BY <2>1 DEF Moved, Connections, Holding
  <2>3. QED
    BY <1>2, <2>1, <2>2
<1>4. ASSUME NEW r \in Requests, Served(r) PROVE PoolOK'
  BY <1>2, <1>4 DEF Served, Connections
<1>5. CASE Crash
  BY <1>2, <1>5 DEF Crash, Connections, Holding
<1>6. CASE UNCHANGED <<stage, waiting, poolSize>>
  BY <1>2, <1>6 DEF Connections
<1>7. QED
  BY <1>1, <1>3, <1>4, <1>5, <1>6, StageSteps

-----------------------------------------------------------------------------
(* The copies of an event *)

LEMMA PublishingFinite ==
    ASSUME NEW e \in Events
    PROVE  IsFiniteSet(Publishing(e)) /\ Cardinality(Publishing(e)) \in Nat
  BY FS_Subset, FS_CardinalityType DEF Publishing

(* Nothing is published or handed to the producer.                         *)
SameCopies ==
    /\ UNCHANGED <<kafkaVars, accepted, attempts>>
    /\ faults <= faults' /\ faults' \in Nat
    /\ \A e \in Events : Publishing(e)' \subseteq Publishing(e)

(* Request r is no longer publishing.                                      *)
LEMMA PublishingEnds ==
    ASSUME BasicOK, NEW r \in Requests, Ended(r), stage[r] = "publishing", NEW e \in Events
    PROVE  /\ e # asks[r] => Publishing(e)' = Publishing(e)
           /\ e = asks[r] =>
                 /\ Cardinality(Publishing(e)') = Cardinality(Publishing(e)) - 1
                 /\ Cardinality(Publishing(e)') \in Nat
<1>1. Publishing(e)' = Publishing(e) \ {r}
  BY DEF Ended, Publishing
<1>2. r \in Publishing(e) <=> e = asks[r]
  BY DEF Publishing
<1>3. IsFiniteSet(Publishing(e) \ {r})
  BY PublishingFinite, FS_Subset
<1>4. QED
  BY <1>1, <1>2, <1>3, PublishingFinite, FS_RemoveElement, FS_CardinalityType

LEMMA CopiesStep == BasicOK /\ BasicOK' /\ CopiesInv /\ [Next]_vars => CopiesInv'
<1> SUFFICES ASSUME BasicOK, BasicOK', CopiesInv, [Next]_vars PROVE CopiesInv'
  OBVIOUS
<1>t. /\ faults \in Nat
      /\ \A e \in Events : topic[e] \in Nat /\ lingering[e] \in Nat /\ attempts[e] \in Nat
  BY DEF BasicOK, WorldOK
<1>p. \A e \in Events : Cardinality(Publishing(e)) \in Nat
  BY PublishingFinite
<1>1. ASSUME SameCopies PROVE CopiesInv'
  <2>1. \A e \in Events : /\ Cardinality(Publishing(e)') <= Cardinality(Publishing(e))
                          /\ Cardinality(Publishing(e)') \in Nat
    BY <1>1, PublishingFinite, FS_Subset, FS_CardinalityType DEF SameCopies
  <2>2. QED
    BY <1>1, <1>t, <1>p, <2>1 DEF SameCopies, CopiesInv, kafkaVars
<1>2. ASSUME NEW r \in Requests, Send(r) PROVE CopiesInv'
  <2>1. Moved(r, "admitted", "publishing")
    BY <1>2, MoveEffect, Stages DEF Send
  <2>2. /\ UNCHANGED <<topic, lingering, accepted, faults, asks>>
        /\ attempts' = [attempts EXCEPT ![asks[r]] = @ + 1]
    BY <1>2 DEF Send, kafkaVars
  <2>3. ASSUME NEW e \in Events, e # asks[r] PROVE Publishing(e)' = Publishing(e)
    BY <2>1, <2>2, <2>3 DEF Moved, Publishing
  <2>4. ASSUME NEW e \in Events, e = asks[r]
        PROVE  Cardinality(Publishing(e)') = Cardinality(Publishing(e)) + 1
    <3>1. Publishing(e)' = Publishing(e) \cup {r} /\ r \notin Publishing(e)
      BY <2>1, <2>2, <2>4 DEF Moved, Publishing
    <3>2. QED
      BY <3>1, PublishingFinite, FS_AddElement
  <2>5. ASSUME NEW e \in Events
        PROVE  attempts'[e] = IF e = asks[r] THEN attempts[e] + 1 ELSE attempts[e]
    BY <2>2 DEF BasicOK, WorldOK
  <2>6. QED
    BY <1>t, <1>p, <2>2, <2>3, <2>4, <2>5 DEF CopiesInv
<1>3. ASSUME NEW r \in Requests, Published(r) PROVE CopiesInv'
  <2>1. Ended(r) /\ stage[r] = "publishing"
    BY <1>3, EndEffect DEF Published
  <2>2. /\ UNCHANGED <<lingering, attempts, faults>>
        /\ accepted' = accepted \cup {asks[r]}
        /\ \A e \in Events : topic'[e] = IF e = asks[r] THEN topic[e] + 1 ELSE topic[e]
    BY <1>3 DEF Published, BasicOK, WorldOK
  <2>3. QED
    BY <1>t, <1>p, <2>1, <2>2, PublishingEnds DEF CopiesInv
<1>4. ASSUME NEW r \in Requests, PublishTimesOut(r) PROVE CopiesInv'
  <2>1. Ended(r) /\ stage[r] = "publishing"
    BY <1>4, EndEffect DEF PublishTimesOut
  <2>2. /\ UNCHANGED <<topic, attempts, faults, accepted>>
        /\ \A e \in Events :
              /\ e # asks[r] => lingering'[e] = lingering[e]
              /\ e = asks[r] => lingering'[e] \in {lingering[e], lingering[e] + 1}
    BY <1>4 DEF PublishTimesOut, BasicOK, WorldOK, histVars
  <2>3. QED
    BY <1>t, <1>p, <2>1, <2>2, PublishingEnds DEF CopiesInv
<1>5. ASSUME NEW e \in Events, FlushBuffer(e) PROVE CopiesInv'
  <2>1. \A k \in Events : Publishing(k)' = Publishing(k)
    BY <1>5 DEF FlushBuffer, requestVars, Publishing
  <2>2. /\ UNCHANGED <<attempts, faults, accepted>>
        /\ \A k \in Events \ {e} : lingering'[k] = lingering[k] /\ topic'[k] = topic[k]
        /\ lingering'[e] = lingering[e] - 1 /\ topic'[e] \in {topic[e], topic[e] + 1}
    BY <1>5 DEF FlushBuffer, BasicOK, WorldOK, histVars
  <2>3. QED
    BY <1>t, <1>p, <2>1, <2>2 DEF CopiesInv
<1>6. ASSUME NEW e \in Events, AckLost(e) PROVE CopiesInv'
  <2>1. \A k \in Events : Publishing(k)' = Publishing(k)
    BY <1>6 DEF AckLost, requestVars, Publishing
  <2>2. /\ UNCHANGED <<attempts, lingering, accepted>> /\ faults' = faults + 1
        /\ \A k \in Events : topic'[k] = IF k = e THEN topic[k] + 1 ELSE topic[k]
    BY <1>6 DEF AckLost, Fault, BasicOK, WorldOK, histVars
  <2>3. QED
    BY <1>t, <1>p, <2>1, <2>2 DEF CopiesInv
<1>7. CASE Crash
  <2>1. \A k \in Events : Publishing(k)' = {}
    BY <1>7 DEF Crash, Publishing
  <2>2. /\ UNCHANGED <<attempts, topic, accepted>> /\ faults' = faults + 1
        /\ \A k \in Events : lingering'[k] = 0
    BY <1>7 DEF Crash, Fault, histVars
  <2>3. \A k \in Events : Cardinality(Publishing(k)') = 0
    BY <2>1, FS_EmptySet
  <2>4. QED
    BY <1>t, <1>p, <2>2, <2>3 DEF CopiesInv
<1>8. ASSUME NEW r \in Requests,
             Arrive(r) \/ Acquire(r) \/ CacheHit(r) \/ SelectRows(r) \/ CountTotal(r)
             \/ FillCache(r) \/ SkipCache(r)
      PROVE  CopiesInv'
  <2>1. UNCHANGED <<kafkaVars, accepted, attempts, faults>>
    BY <1>8 DEF Arrive, Acquire, CacheHit, SelectRows, CountTotal, FillCache, SkipCache, histVars
  <2>2. \E from \in Stage, to \in Stage \ {"publishing"} : Moved(r, from, to)
    BY <1>8, MoveEffect, Stages
       DEF Arrive, Acquire, CacheHit, SelectRows, CountTotal, FillCache, SkipCache
  <2>3. \A q \in Requests \ {r} : asks'[q] = asks[q]
    BY <1>8 DEF Arrive, Acquire, CacheHit, SelectRows, CountTotal, FillCache, SkipCache,
                BasicOK, RequestsOK
  <2>4. QED
    BY <1>1, <1>t, <2>1, <2>2, <2>3 DEF Moved, SameCopies, Publishing
<1>9. ASSUME NEW r \in Requests, Refuse(r) \/ Respond(r) PROVE CopiesInv'
  <2>1. Ended(r) /\ UNCHANGED <<kafkaVars, accepted, attempts, faults>>
    BY <1>9, EndEffect DEF Refuse, Respond, histVars
  <2>2. QED
    BY <1>1, <1>t, <2>1 DEF Ended, SameCopies, Publishing
<1>10. CASE Ingest \/ Tick \/ UNCHANGED vars
  <2>1. UNCHANGED <<stage, asks, kafkaVars, accepted, attempts, faults>>
    BY <1>10 DEF Ingest, Tick, vars, requestVars, histVars
  <2>2. SameCopies
    BY <1>t, <2>1 DEF SameCopies, Publishing
  <2>3. QED
    BY <1>1, <2>2
<1>11. QED
  BY <1>2, <1>3, <1>4, <1>5, <1>6, <1>7, <1>8, <1>9, <1>10 DEF Next, Serve

-----------------------------------------------------------------------------
(* The pages and the cache *)

LEMMA ReadTypes ==
    ASSUME BasicOK
    PROVE  /\ now \in Nat /\ longest \in Nat /\ TTL \in Nat \ {0}
           /\ cache.expires \in Nat /\ cache.page \in Page
           /\ cache.page.selected \in Nat /\ cache.page.total \in Nat
           /\ Len(Stored) \in Nat /\ \A i \in 1..Len(Stored) : Stored[i] \in Nat
           /\ \A r \in Requests :
                 /\ page[r].selected \in Nat /\ page[r].total \in Nat
                 /\ looked[r] \in Nat /\ looked[r] <= now
                 /\ CountRows(r) \in Nat
<1>1. Stored \in Seq(0..MaxTime)
  BY DEF BasicOK, WorldOK, Stored, Tables
<1>2. Len(Stored) \in Nat /\ \A i \in 1..Len(Stored) : Stored[i] \in Nat
  BY <1>1
<1>3. QED
  BY <1>2, RowsCounted DEF BasicOK, WorldOK, RequestsOK, StagesOK, Page

(* Request q's reading goes on as it was.                                  *)
SameReading(q) ==
    stage'[q] = stage[q] /\ asks'[q] = asks[q] /\ page'[q] = page[q] /\ looked'[q] = looked[q]

NotReading == {"idle", "waiting", "admitted", "publishing"}

(* Who is not reading has no page to speak of, and who goes on reading     *)
(* keeps what held of its page, while the same rows are stored.            *)
LEMMA ReadingKept ==
    ASSUME BasicOK, BasicOK', NEW q \in Requests, PageInv(q), rows' = rows, longest <= longest',
           SameReading(q) \/ stage'[q] \in NotReading
    PROVE  PageInv(q)'
<1>1. CASE SameReading(q)
  <2>1. CountRows(q)' = CountRows(q) /\ Stored' = Stored /\ Unselected(q)' = Unselected(q)
    BY <1>1 DEF SameReading, CountRows, Stored, Unselected
  <2>2. ASSUME NEW i \in Unselected(q), looked[q] < Stored[i] + TTL + longest
        PROVE  looked[q] < Stored[i] + TTL + longest'
    <3>1. i \in 1..Len(Stored)
      BY DEF Unselected
    <3>2. Stored[i] \in Nat /\ looked[q] \in Nat /\ longest \in Nat /\ TTL \in Nat
      BY <3>1, ReadTypes
    <3>3. longest' \in Nat
      BY DEF BasicOK, WorldOK
    <3>4. QED
      BY <2>2, <3>2, <3>3
  <2>3. QED
    BY <1>1, <2>1, <2>2 DEF SameReading, PageInv
<1>2. CASE stage'[q] \in NotReading
  BY <1>2 DEF NotReading, PageInv
<1>3. QED
  BY <1>1, <1>2

(* No rows are written, nothing is cached, and no reading makes progress.  *)
Undisturbed ==
    /\ UNCHANGED <<rows, cache, longest>> /\ now <= now'
    /\ \A q \in Requests : SameReading(q) \/ stage'[q] \in NotReading

LEMMA UndisturbedReads ==
    ASSUME BasicOK, BasicOK', ReadsInv, Undisturbed
    PROVE  ReadsInv'
<1>1. \A q \in Requests : PageInv(q)'
  <2>1. longest <= longest'
    BY ReadTypes DEF Undisturbed
  <2>2. QED
    BY <2>1, ReadingKept DEF ReadsInv, Undisturbed
<1>2. CacheInv'
  <2>1. now' \in Nat /\ now <= now' /\ UNCHANGED <<cache, longest, Stored>>
    BY DEF BasicOK, WorldOK, Undisturbed, Stored
  <2>2. cache.expires <= now' + TTL
    BY <2>1, ReadTypes DEF ReadsInv, CacheInv
  <2>3. QED
    BY <2>1, <2>2 DEF ReadsInv, CacheInv
<1>3. QED
  BY <1>1, <1>2 DEF ReadsInv

(* Request r alone reads on.                                               *)
ReadsOn(r) ==
    /\ UNCHANGED <<now, rows>> /\ longest <= longest'
    /\ \A q \in Requests \ {r} : SameReading(q)

LEMMA OthersKept ==
    ASSUME BasicOK, BasicOK', ReadsInv, NEW r \in Requests, ReadsOn(r), CacheInv', PageInv(r)'
    PROVE  ReadsInv'
<1>1. ASSUME NEW q \in Requests \ {r} PROVE PageInv(q)'
  BY ReadingKept DEF ReadsInv, ReadsOn
<1>2. QED
  BY <1>1 DEF ReadsInv

(* A step that leaves the cache alone keeps what held of it.               *)
LEMMA CacheKept ==
    ASSUME ReadsInv, UNCHANGED <<now, rows, cache, longest>>
    PROVE  CacheInv'
  BY DEF ReadsInv, CacheInv, Stored

LEMMA ReadsStep == BasicOK /\ BasicOK' /\ ReadsInv /\ [Next]_vars => ReadsInv'
<1> SUFFICES ASSUME BasicOK, BasicOK', ReadsInv, [Next]_vars PROVE ReadsInv'
  OBVIOUS
<1>t. longest \in Nat /\ now \in Nat /\ longest' \in Nat
  BY ReadTypes DEF BasicOK, WorldOK
<1>c. \A q \in Requests : CountRows(q)' \in Nat
  BY DEF BasicOK, WorldOK, CountRows, TableOf, Tables
<1>1. ASSUME NEW r \in Requests, Arrive(r) \/ Acquire(r) \/ Send(r) PROVE ReadsInv'
  <2>1. Moved(r, "idle", "waiting") \/ Moved(r, "waiting", "admitted")
        \/ Moved(r, "admitted", "publishing")
    BY <1>1, MoveEffect, Stages DEF Arrive, Acquire, Send
  <2>2. /\ UNCHANGED <<rows, cache, longest, now, page, looked>>
        /\ \A q \in Requests \ {r} : asks'[q] = asks[q]
    BY <1>1 DEF Arrive, Acquire, Send, histVars, BasicOK, RequestsOK
  <2>3. Undisturbed
    BY <1>t, <2>1, <2>2 DEF Moved, Undisturbed, SameReading, NotReading
  <2>4. QED
    BY <2>3, UndisturbedReads
<1>2. ASSUME NEW r \in Requests,
             Refuse(r) \/ Published(r) \/ PublishTimesOut(r) \/ Respond(r)
      PROVE  ReadsInv'
  <2>1. Ended(r)
    BY <1>2, EndEffect DEF Refuse, Published, PublishTimesOut, Respond
  <2>2. UNCHANGED <<rows, cache, longest, now>>
    BY <1>2 DEF Refuse, Published, PublishTimesOut, Respond, histVars
  <2>3. Undisturbed
    BY <1>t, <2>1, <2>2 DEF Ended, Undisturbed, SameReading, NotReading
  <2>4. QED
    BY <2>3, UndisturbedReads
<1>3. ASSUME (\E e \in Events : FlushBuffer(e) \/ AckLost(e))
             \/ Tick \/ UNCHANGED vars
      PROVE  ReadsInv'
  <2>1. UNCHANGED <<rows, cache, longest, requestVars>> /\ now <= now'
    BY <1>t, <1>3 DEF AckLost, FlushBuffer, Tick, vars, histVars
  <2>2. Undisturbed
    BY <2>1 DEF requestVars, Undisturbed, SameReading
  <2>3. QED
    BY <2>2, UndisturbedReads
<1>4. CASE Crash
  <2>1. UNCHANGED <<rows, cache, longest, now>> /\ \A q \in Requests : stage'[q] = "idle"
    BY <1>4 DEF Crash, histVars
  <2>2. Undisturbed
    BY <1>t, <2>1 DEF Undisturbed, NotReading
  <2>3. QED
    BY <2>2, UndisturbedReads
<1>5. ASSUME NEW r \in Requests, CacheHit(r) PROVE ReadsInv'
  <2>1. Moved(r, "admitted", "answer")
    BY <1>5, MoveEffect, Stages DEF CacheHit
  <2>2. /\ UNCHANGED <<now, rows, cache, longest, asks>> /\ now < cache.expires
        /\ page'[r] = cache.page /\ looked'[r] = now
        /\ \A q \in Requests \ {r} : page'[q] = page[q] /\ looked'[q] = looked[q]
    BY <1>5 DEF CacheHit, histVars, BasicOK, RequestsOK
  <2>3. ReadsOn(r)
    BY <1>t, <2>1, <2>2 DEF Moved, ReadsOn, SameReading
  <2>4. PageInv(r)'
    <3>1. stage'[r] = "answer" /\ Stored' = Stored
      BY <2>1, <2>2 DEF Moved, Stored
    <3>2. ASSUME NEW i \in Unselected(r)'
          PROVE  looked'[r] < Stored'[i] + TTL + longest'
      <4>1. i \in 1..Len(Stored) /\ ~(i <= cache.page.selected)
        BY <2>2, <3>1 DEF Unselected
      <4>2. cache.expires <= Stored[i] + TTL + longest
        BY <4>1 DEF ReadsInv, CacheInv
      <4>3. QED
        BY <2>2, <3>1, <4>1, <4>2, ReadTypes
    <3>3. page'[r].selected <= page'[r].total
      BY <2>2 DEF ReadsInv, CacheInv
    <3>4. QED
      BY <3>1, <3>2, <3>3 DEF PageInv
  <2>5. QED
    BY <2>2, <2>3, <2>4, CacheKept, OthersKept
<1>6. ASSUME NEW r \in Requests, SelectRows(r) PROVE ReadsInv'
  <2>1. Moved(r, "admitted", "selected")
    BY <1>6, MoveEffect, Stages DEF SelectRows
  <2>2. /\ UNCHANGED <<now, rows, cache, longest, asks>>
        /\ page'[r].selected = CountRows(r)
        /\ \A q \in Requests \ {r} : page'[q] = page[q] /\ looked'[q] = looked[q]
    BY <1>6 DEF SelectRows, histVars, BasicOK, RequestsOK, Page
  <2>3. ReadsOn(r)
    BY <1>t, <2>1, <2>2 DEF Moved, ReadsOn, SameReading
  <2>4. CountRows(r)' = CountRows(r) /\ (asks'[r] = Query => CountRows(r) = Len(Stored'))
    BY <2>2 DEF CountRows, TableOf, Stored
  <2>5. asks'[r] = Query => Unselected(r)' = {}
    BY <2>2, <2>4 DEF Unselected
  <2>6. PageInv(r)'
    BY <2>1, <2>2, <2>4, <2>5, ReadTypes DEF Moved, PageInv
  <2>7. QED
    BY <2>2, <2>3, <2>6, CacheKept, OthersKept
<1>7. ASSUME NEW r \in Requests, CountTotal(r) PROVE ReadsInv'
  <2>1. Moved(r, "selected", "counted")
    BY <1>7, MoveEffect, Stages DEF CountTotal
  <2>2. /\ UNCHANGED <<now, rows, cache, longest, asks, looked>>
        /\ page'[r].selected = page[r].selected /\ page'[r].total = CountRows(r)
        /\ \A q \in Requests \ {r} : page'[q] = page[q]
    BY <1>7 DEF CountTotal, histVars, BasicOK, RequestsOK, Page
  <2>3. ReadsOn(r)
    BY <1>t, <2>1, <2>2 DEF Moved, ReadsOn, SameReading
  <2>4. Unselected(r)' = Unselected(r) /\ Stored' = Stored
    BY <2>2 DEF Unselected, Stored
  <2>5. PageInv(r)'
    BY <2>1, <2>2, <2>4 DEF Moved, ReadsInv, PageInv
  <2>6. QED
    BY <2>2, <2>3, <2>5, CacheKept, OthersKept
<1>8. ASSUME NEW r \in Requests, FillCache(r) \/ SkipCache(r) PROVE ReadsInv'
  <2>1. Moved(r, "counted", "answer")
    BY <1>8, MoveEffect, Stages DEF FillCache, SkipCache
  <2>2. UNCHANGED <<now, rows, asks, looked, page>>
    BY <1>8 DEF FillCache, SkipCache
  <2>3. /\ longest <= longest'
        /\ FillCache(r) => now - looked[r] <= longest'
    <3>1. longest \in Int /\ now - looked[r] \in Int
      BY ReadTypes
    <3>2. Max({longest, now - looked[r]}) >= longest /\ Max({longest, now - looked[r]}) >= now - looked[r]
      BY <3>1, LargerOfTwo
    <3>3. Max({longest, now - looked[r]}) \in Int
      BY <3>1, LargerOfTwo
    <3>4. ASSUME FillCache(r) PROVE longest <= longest' /\ now - looked[r] <= longest'
      BY <3>1, <3>2, <3>3, <3>4 DEF FillCache
    <3>5. ASSUME SkipCache(r) PROVE longest <= longest'
      BY <3>1, <3>5 DEF SkipCache, histVars
    <3>6. QED
      BY <1>8, <3>4, <3>5
  <2>4. ReadsOn(r)
    BY <2>1, <2>2, <2>3 DEF Moved, ReadsOn, SameReading
  <2>5. Unselected(r)' = Unselected(r) /\ Stored' = Stored
    BY <2>2 DEF Unselected, Stored
  <2>6. ASSUME asks[r] = Query, NEW i \in Unselected(r)
        PROVE  i \in 1..Len(Stored) /\ looked[r] <= Stored[i]
    BY <2>1, <2>6 DEF Moved, ReadsInv, PageInv, Unselected
  <2>7. PageInv(r)'
    <3>1. ASSUME asks[r] = Query, NEW i \in Unselected(r)
          PROVE  looked[r] < Stored[i] + TTL + longest'
      BY <1>t, <2>3, <2>6, <3>1, ReadTypes
    <3>2. page[r].selected <= page[r].total
      BY <2>1 DEF Moved, ReadsInv, PageInv
    <3>3. QED
      BY <2>1, <2>2, <2>5, <3>1, <3>2 DEF Moved, PageInv
  <2>8. CacheInv'
    <3>1. CASE SkipCache(r)
      BY <3>1, CacheKept DEF SkipCache, histVars
    <3>2. CASE FillCache(r)
      <4>1. cache'.expires = now + TTL /\ cache'.page = page[r] /\ asks[r] = Query
        BY <3>2 DEF FillCache
      <4>2. ASSUME NEW i \in 1..Len(Stored), ~(i <= page[r].selected)
            PROVE  now + TTL <= Stored[i] + TTL + longest'
        <5>1. looked[r] <= Stored[i]
          BY <2>6, <4>1, <4>2 DEF Unselected
        <5>2. QED
          BY <1>t, <2>3, <3>2, <4>2, <5>1, ReadTypes
      <4>3. page[r].selected <= page[r].total
        BY <2>1 DEF Moved, ReadsInv, PageInv
      <4>4. cache'.expires <= now' + TTL
        BY <2>2, <4>1, ReadTypes
      <4>5. QED
        BY <2>5, <4>1, <4>2, <4>3, <4>4 DEF CacheInv
    <3>3. QED
      BY <1>8, <3>1, <3>2
  <2>9. QED
    BY <2>4, <2>7, <2>8, OthersKept
<1>9. CASE Ingest
  <2>1. UNCHANGED <<now, cache, longest, requestVars>>
    BY <1>9 DEF Ingest, histVars
  <2>2. PICK t \in Tables : rows' = [rows EXCEPT ![t] = Append(@, now)]
    BY <1>9 DEF Ingest
  <2>3. \A u \in Tables : rows[u] \in Seq(0..MaxTime) /\ Len(rows[u]) \in Nat
    BY DEF BasicOK, WorldOK
  <2>4. \A u \in Tables : Len(rows'[u]) >= Len(rows[u])
    BY <2>2, <2>3 DEF BasicOK, WorldOK
  <2>5. ASSUME NEW i \in 1..Len(Stored')
        PROVE  Stored'[i] = now \/ (i \in 1..Len(Stored) /\ Stored'[i] = Stored[i])
    <3>1. "telemetry_events" \in Tables
      BY DEF Tables
    <3>2. Stored' = Stored \/ Stored' = Append(Stored, now)
      BY <2>2, <3>1 DEF Stored, BasicOK, WorldOK
    <3>3. Stored \in Seq(0..MaxTime)
      BY <2>3, <3>1 DEF Stored
    <3>4. QED
      BY <3>2, <3>3
  <2>6. CacheInv'
    <3>1. ASSUME NEW i \in 1..Len(Stored'), ~(i <= cache.page.selected)
          PROVE  cache.expires <= Stored'[i] + TTL + longest
      <4>1. CASE Stored'[i] = now
        BY <4>1, ReadTypes DEF ReadsInv, CacheInv
      <4>2. CASE i \in 1..Len(Stored) /\ Stored'[i] = Stored[i]
        BY <3>1, <4>2 DEF ReadsInv, CacheInv
      <4>3. QED
        BY <2>5, <4>1, <4>2
    <3>2. QED
      BY <2>1, <3>1 DEF ReadsInv, CacheInv
  <2>7. ASSUME NEW q \in Requests PROVE PageInv(q)'
    <3>1. SameReading(q)
      BY <2>1 DEF requestVars, SameReading
    <3>2. CountRows(q) <= CountRows(q)'
      BY <2>1, <2>4 DEF requestVars, CountRows, TableOf, Tables
    <3>3. ASSUME stage[q] = "selected" PROVE page[q].selected <= CountRows(q)'
      BY <1>c, <3>2, <3>3, ReadTypes DEF ReadsInv, PageInv
    <3>4. ASSUME NEW i \in Unselected(q)'
          PROVE  (i \in Unselected(q) /\ Stored'[i] = Stored[i]) \/ Stored'[i] = now
      BY <2>5, <3>1 DEF Unselected, SameReading
    <3>5. ASSUME stage[q] \in {"selected", "counted"}, asks[q] = Query,
                 NEW i \in Unselected(q)'
          PROVE  looked[q] <= Stored'[i]
      BY <3>4, <3>5, ReadTypes DEF ReadsInv, PageInv
    <3>6. ASSUME stage[q] = "answer", asks[q] = Query, NEW i \in Unselected(q)'
          PROVE  looked[q] < Stored'[i] + TTL + longest'
      <4>1. CASE Stored'[i] = now
        BY <2>1, <4>1, ReadTypes
      <4>2. CASE i \in Unselected(q) /\ Stored'[i] = Stored[i]
        BY <2>1, <3>6, <4>2 DEF ReadsInv, PageInv
      <4>3. QED
        BY <3>4, <4>1, <4>2
    <3>7. QED
      BY <3>1, <3>3, <3>5, <3>6 DEF SameReading, ReadsInv, PageInv
  <2>8. QED
    BY <2>6, <2>7 DEF ReadsInv
<1>10. QED
  BY <1>1, <1>2, <1>3, <1>4, <1>5, <1>6, <1>7, <1>8, <1>9 DEF Next, Serve

-----------------------------------------------------------------------------
(* The invariant and what follows from it *)

Inv == BasicOK /\ QueueOK /\ PoolOK /\ CopiesInv /\ ReadsInv

LEMMA InitInv == Init => Inv
<1> SUFFICES ASSUME Init PROVE Inv
  OBVIOUS
<1>1. BasicOK
  BY InitBasic
<1>2. waiting = <<>> /\ \A r \in Requests : stage[r] = "idle"
  BY DEF Init
<1>3. QueueOK
  BY <1>2 DEF QueueOK
<1>4. PoolOK
  <2>1. Connections = {}
    BY <1>2 DEF Connections, Holding
  <2>2. poolSize \in Nat
    BY <1>1 DEF BasicOK, WorldOK
  <2>3. QED
    BY <2>1, <2>2, FS_EmptySet DEF PoolOK
<1>5. CopiesInv
  <2>1. \A e \in Events : Publishing(e) = {}
    BY <1>2 DEF Publishing
  <2>2. \A e \in Events : Cardinality(Publishing(e)) = 0
    BY <2>1, FS_EmptySet
  <2>3. QED
    BY <2>2 DEF Init, CopiesInv
<1>6. ReadsInv
  <2>1. Len(Stored) = 0
    BY DEF Init, Stored, Tables
  <2>2. CacheInv
    BY <2>1 DEF Init, CacheInv, NoPage
  <2>3. QED
    BY <1>2, <2>2 DEF ReadsInv, PageInv
<1>7. QED
  BY <1>1, <1>3, <1>4, <1>5, <1>6 DEF Inv

LEMMA InvStep == Inv /\ [Next]_vars => Inv'
  BY BasicStep, QueueStep, PoolStep, CopiesStep, ReadsStep DEF Inv

LEMMA Invariance == Spec => []Inv
<1>1. QED
  BY InitInv, InvStep, PTL DEF Spec

(* Every reachable state is well typed, the queue holds exactly the        *)
(* requests that wait, and no more connections are in use than the pool    *)
(* has (dependencies.py, get_db_connection).                               *)
THEOREM TelemetryTypeCorrect == Spec => []TypeOK
<1>1. Inv => TypeOK
  BY DEF Inv, BasicOK, WorldOK, RequestsOK, QueueOK, PoolOK, TypeOK
<1>2. QED
  BY <1>1, Invariance, PTL

(* A 202 stands for a message in Kafka, and the copies of an event are     *)
(* bounded by its attempts and the lost acknowledgements, for any number   *)
(* of requests (telemetry.py, ingest_telemetry).                           *)
THEOREM AnswersMatchCopies == Spec => []CopiesMatchAnswers
<1>1. Inv => CopiesMatchAnswers
  <2> SUFFICES ASSUME Inv, NEW e \in Events
               PROVE  /\ e \in accepted => topic[e] > 0
                      /\ topic[e] + lingering[e] <= attempts[e] + faults
    BY DEF CopiesMatchAnswers
  <2>1. /\ topic[e] \in Nat /\ lingering[e] \in Nat /\ attempts[e] \in Nat /\ faults \in Nat
        /\ Cardinality(Publishing(e)) \in Nat
    BY PublishingFinite DEF Inv, BasicOK, WorldOK
  <2>2. QED
    BY <2>1 DEF Inv, CopiesInv
<1>2. QED
  BY <1>1, Invariance, PTL

(* An answer lacks no row that was stored TTL and the longest SELECT-to-   *)
(* SET time before its look in the cache (telemetry.py, query_telemetry).  *)
THEOREM FreshAnswers == Spec => []AnswersAreFresh
<1>1. Inv => AnswersAreFresh
  <2> SUFFICES ASSUME Inv, NEW r \in Requests, stage[r] = "answer", asks[r] = Query,
                      NEW i \in 1..CountRows(r), ~(i <= page[r].selected)
               PROVE  ~(rows["telemetry_events"][i] + TTL + longest <= looked[r])
    BY DEF AnswersAreFresh
  <2>1. CountRows(r) = Len(Stored)
    BY DEF CountRows, TableOf, Stored
  <2>2. i \in Unselected(r)
    BY <2>1 DEF Unselected
  <2>3. looked[r] < Stored[i] + TTL + longest
    BY <2>2 DEF Inv, ReadsInv, PageInv
  <2>4. Stored[i] \in Nat /\ longest \in Nat /\ looked[r] \in Nat
    BY <2>1, ReadTypes DEF Inv
  <2>5. QED
    BY <2>3, <2>4 DEF Stored
<1>2. QED
  BY <1>1, Invariance, PTL

(* No page is larger than its total, cached or not (telemetry.py).         *)
THEOREM ConsistentPages == Spec => []PageWithinTotal
<1>1. Inv => PageWithinTotal
  BY DEF Inv, ReadsInv, PageInv, PageWithinTotal
<1>2. QED
  BY <1>1, Invariance, PTL
=============================================================================

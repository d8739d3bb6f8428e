-------------------------- MODULE RagPipeline_proofs --------------------------
(***************************************************************************)
(* What the Diagnosis Service and the knowledge base promise together, for *)
(* any number of anomalies, messages, files, runs of the script and        *)
(* faults, and any replies of the model.                                   *)
(*                                                                         *)
(* The service: what lies before its cursor was handled, and of the        *)
(* assignments of the partition each message has as many left over as it   *)
(* may still be diagnosed.  The knowledge base: an incident that has       *)
(* chunks and no row is being ingested or has cost a fault, and of those   *)
(* being ingested all but the one the script waits for have cost one, too. *)
(***************************************************************************)
EXTENDS RagPipeline, FiniteSetTheorems, TLAPS

USE DiagnosisServiceAssumption, RepliesAssumption, RagPipelineAssumption

-----------------------------------------------------------------------------
(* Numbers and sets *)

(* The larger and the smaller of two numbers.                              *)
LEMMA LargerOfTwo ==
    ASSUME NEW m \in Int, NEW n \in Int
    PROVE  Max({m, n}) \in {m, n} /\ Max({m, n}) >= m /\ Max({m, n}) >= n
<1>1. \E x \in {m, n} : \A y \in {m, n} : x >= y
  <2>1. CASE m >= n
    BY <2>1
  <2>2. CASE n >= m
    BY <2>2
  <2>3. QED
    BY <2>1, <2>2
<1>2. QED
  BY <1>1 DEF Max

LEMMA SmallerOfTwo ==
    ASSUME NEW m \in Int, NEW n \in Int
    PROVE  Min({m, n}) \in {m, n} /\ Min({m, n}) <= m /\ Min({m, n}) <= n
<1>1. \E x \in {m, n} : \A y \in {m, n} : x <= y
  <2>1. CASE m <= n
    BY <2>1
  <2>2. CASE n <= m
    BY <2>2
  <2>3. QED
    BY <2>1, <2>2
<1>2. QED
  BY <1>1 DEF Min

(* A set that does not grow, and one that grows by at most one element.    *)
LEMMA DoesNotGrow ==
    ASSUME NEW S, NEW T, IsFiniteSet(S), T \subseteq S
    PROVE  /\ IsFiniteSet(T) /\ Cardinality(T) \in Nat /\ Cardinality(S) \in Nat
           /\ Cardinality(T) <= Cardinality(S)
  BY FS_Subset, FS_CardinalityType

LEMMA GrowsByOne ==
    ASSUME NEW S, NEW T, NEW x, IsFiniteSet(S), T \subseteq S \cup {x}
    PROVE  /\ IsFiniteSet(T) /\ Cardinality(T) \in Nat /\ Cardinality(S) \in Nat
           /\ Cardinality(T) <= Cardinality(S) + 1
<1>1. Cardinality(S) \in Nat
  BY FS_CardinalityType
<1>2. CASE x \in S
  <2>1. T \subseteq S
    BY <1>2
  <2>2. Cardinality(T) <= Cardinality(S) /\ Cardinality(T) \in Nat /\ IsFiniteSet(T)
    BY <2>1, DoesNotGrow
  <2>3. QED
    BY <1>1, <2>2
<1>3. CASE x \notin S
  <2>1. IsFiniteSet(S \cup {x}) /\ Cardinality(S \cup {x}) = Cardinality(S) + 1
    BY <1>3, FS_AddElement
  <2>2. QED
    BY <1>1, <2>1, DoesNotGrow
<1>4. QED
  BY <1>2, <1>3

-----------------------------------------------------------------------------
(* The knowledge base *)

Incidents == Knowledge!Incidents
InService == Knowledge!InService

(* The incidents with chunks and no row, and those being ingested.         *)
Unlisted == (collection \ listed) \cup InService

KnowledgeTypes ==
    /\ runs \in Nat /\ file \in 0..Files /\ awaited \in Nat /\ posts \in Nat
    /\ file = 0 => awaited = 0
    /\ source \in [Incidents -> Nat]
    /\ stage \in [Incidents -> Knowledge!Stage]
    /\ collection \subseteq Incidents
    /\ ingestFaults \in Nat

Awaiting == IF awaited \in InService THEN 1 ELSE 0

StoresInv ==
    /\ confirmed \subseteq listed /\ listed \subseteq collection
    /\ \A i \in Incidents : stage[i] = "inserting" => i \in collection
    /\ Cardinality(Unlisted) <= ingestFaults + Awaiting

(* A run posts each file once: file f was posted at most runs times, and   *)
(* one time less while this run has yet to post it.                        *)
Sent(f) == {i \in Incidents : source[i] = f}

Due(f) == IF file > 0 /\ (f > file \/ (f = file /\ awaited = 0)) THEN 1 ELSE 0

RunsInv == \A f \in 1..Files : Cardinality(Sent(f)) + Due(f) <= runs

KnowledgeInv == KnowledgeTypes /\ StoresInv /\ RunsInv

LEMMA IncidentsFinite == IsFiniteSet(Incidents) /\ Incidents \subseteq Nat \ {0}
<1>1. Files * MaxRuns \in Int
  OBVIOUS
<1>2. QED
  BY <1>1, FS_Interval DEF Incidents, Knowledge!Incidents

LEMMA UnlistedFinite ==
    KnowledgeTypes => IsFiniteSet(Unlisted) /\ Cardinality(Unlisted) \in Nat
<1>1. KnowledgeTypes => Unlisted \subseteq Incidents
  BY DEF KnowledgeTypes, Unlisted, InService, Knowledge!InService, Incidents
<1>2. QED
  BY <1>1, IncidentsFinite, DoesNotGrow

(* The script takes the next file, or goes on waiting.                     *)
ScriptMoves == Knowledge!NextFile \/ UNCHANGED <<runs, file, awaited>>

LEMMA ScriptMovesTypes ==
    ASSUME KnowledgeTypes, ScriptMoves
    PROVE  /\ runs' \in Nat /\ file' \in 0..Files /\ awaited' \in Nat
           /\ file' = 0 => awaited' = 0
  BY DEF KnowledgeTypes, ScriptMoves, Knowledge!NextFile

LEMMA KnowledgeTypesStep == KnowledgeTypes /\ Knowledge!Next => KnowledgeTypes'
<1> SUFFICES ASSUME KnowledgeTypes, Knowledge!Next PROVE KnowledgeTypes'
  OBVIOUS
<1> USE DEF Incidents, Knowledge!Fault
<1>s. {"unused", "embedding", "inserting", "done"} = Knowledge!Stage
  BY DEF Knowledge!Stage
<1>1. CASE Knowledge!StartScript
  BY <1>1 DEF KnowledgeTypes, Knowledge!StartScript, Knowledge!storeVars
<1>2. CASE Knowledge!Post
  <2>1. /\ UNCHANGED <<runs, file, collection, ingestFaults>> /\ file > 0
        /\ posts' = posts + 1 /\ awaited' = posts + 1
        /\ source' = [source EXCEPT ![posts + 1] = file]
        /\ stage' = [stage EXCEPT ![posts + 1] = "embedding"]
    BY <1>2 DEF Knowledge!Post, Knowledge!storeVars
  <2>2. file \in Nat /\ "embedding" \in Knowledge!Stage
    BY <1>s DEF KnowledgeTypes
  <2>3. source' \in [Incidents -> Nat] /\ stage' \in [Incidents -> Knowledge!Stage]
    BY <2>1, <2>2 DEF KnowledgeTypes
  <2>4. runs' \in Nat /\ file' \in 0..Files /\ awaited' \in Nat /\ posts' \in Nat /\ file' # 0
    BY <2>1, <2>2 DEF KnowledgeTypes
  <2>5. QED
    BY <2>1, <2>3, <2>4 DEF KnowledgeTypes
<1>3. CASE Knowledge!GiveUp
  <2>1. ScriptMoves
    BY <1>3 DEF Knowledge!GiveUp, ScriptMoves
  <2>2. QED
    BY <1>3, <2>1, ScriptMovesTypes DEF KnowledgeTypes, Knowledge!GiveUp, Knowledge!storeVars
<1>4. CASE Knowledge!Crash
  <2>1. ScriptMoves
    BY <1>4 DEF Knowledge!Crash, ScriptMoves, Knowledge!scriptVars
  <2>2. stage' \in [Incidents -> Knowledge!Stage]
    BY <1>s, <1>4 DEF KnowledgeTypes, Knowledge!Crash
  <2>3. collection' \subseteq Incidents
    BY <1>4 DEF KnowledgeTypes, Knowledge!Crash, Knowledge!InService
  <2>4. QED
    BY <1>4, <2>1, <2>2, <2>3, ScriptMovesTypes DEF KnowledgeTypes, Knowledge!Crash
<1>5. ASSUME NEW i \in Incidents, Knowledge!Upsert(i) PROVE KnowledgeTypes'
  BY <1>s, <1>5 DEF KnowledgeTypes, Knowledge!Upsert, Knowledge!scriptVars
<1>6. ASSUME NEW i \in Incidents,
             Knowledge!UpsertFails(i) \/ Knowledge!InsertRow(i) \/ Knowledge!InsertFails(i)
      PROVE  KnowledgeTypes'
  <2>1. ScriptMoves
    BY <1>6 DEF Knowledge!UpsertFails, Knowledge!InsertRow, Knowledge!InsertFails,
                Knowledge!Answered, ScriptMoves, Knowledge!scriptVars
  <2>2. stage' \in [Incidents -> Knowledge!Stage]
    BY <1>s, <1>6 DEF KnowledgeTypes, Knowledge!UpsertFails, Knowledge!InsertRow, Knowledge!InsertFails
  <2>3. /\ collection' \subseteq Incidents /\ ingestFaults' \in Nat
        /\ UNCHANGED <<posts, source>>
    BY <1>6 DEF KnowledgeTypes, Knowledge!UpsertFails, Knowledge!InsertRow, Knowledge!InsertFails
  <2>4. QED
    BY <2>1, <2>2, <2>3, ScriptMovesTypes DEF KnowledgeTypes
<1>7. QED
  BY <1>1, <1>2, <1>3, <1>4, <1>5, <1>6 DEF Knowledge!Next

(* A failure: whatever became of it, nothing was added to what is          *)
(* unlisted or in service, and it was counted.                             *)
LEMMA FailureCovered ==
    ASSUME KnowledgeTypes, StoresInv, ingestFaults' = ingestFaults + 1,
           Unlisted' \subseteq Unlisted
    PROVE  Cardinality(Unlisted') <= ingestFaults' + Awaiting'
<1>1. Cardinality(Unlisted') <= Cardinality(Unlisted) /\ Cardinality(Unlisted') \in Nat
  BY UnlistedFinite, DoesNotGrow
<1>2. Awaiting \in {0, 1} /\ Awaiting' \in {0, 1}
  BY DEF Awaiting
<1>3. QED
  BY <1>1, <1>2, UnlistedFinite DEF KnowledgeTypes, StoresInv

LEMMA StoresStep ==
    KnowledgeTypes /\ KnowledgeTypes' /\ StoresInv /\ Knowledge!Next => StoresInv'
<1> SUFFICES ASSUME KnowledgeTypes, KnowledgeTypes', StoresInv, Knowledge!Next PROVE StoresInv'
  OBVIOUS
<1>f. Cardinality(Unlisted) \in Nat /\ ingestFaults \in Nat /\ ingestFaults' \in Nat
  BY UnlistedFinite DEF KnowledgeTypes
<1>n. 0 \notin InService /\ InService \subseteq Incidents
  BY IncidentsFinite DEF InService, Knowledge!InService, Incidents
<1>1. CASE Knowledge!StartScript
  <2>1. UNCHANGED <<collection, listed, confirmed, stage, awaited, ingestFaults>>
    BY <1>1 DEF Knowledge!StartScript, Knowledge!storeVars
  <2>2. QED
    BY <2>1 DEF StoresInv, Unlisted, Awaiting, InService, Knowledge!InService
<1>2. CASE Knowledge!Post
  <2>1. /\ UNCHANGED <<collection, listed, confirmed, ingestFaults>>
        /\ awaited = 0 /\ awaited' = posts + 1
        /\ stage' = [stage EXCEPT ![posts + 1] = "embedding"]
    BY <1>2 DEF Knowledge!Post, Knowledge!storeVars
  <2>2. \A i \in Incidents : stage'[i] = "inserting" => i \in collection'
    BY <2>1 DEF KnowledgeTypes, StoresInv
  <2>3. CASE posts + 1 \in Incidents
    <3>1. InService' = InService \cup {awaited'}
      BY <2>1, <2>3 DEF KnowledgeTypes, InService, Knowledge!InService, Incidents
    <3>2. Unlisted' \subseteq Unlisted \cup {awaited'}
      BY <2>1, <3>1 DEF Unlisted
    <3>3. Cardinality(Unlisted') <= Cardinality(Unlisted) + 1 /\ Cardinality(Unlisted') \in Nat
      BY <3>2, UnlistedFinite, GrowsByOne
    <3>4. Awaiting = 0 /\ Awaiting' = 1
      BY <1>n, <2>1, <3>1 DEF Awaiting
    <3>5. QED
      BY <1>f, <2>1, <2>2, <3>3, <3>4 DEF StoresInv
  <2>4. CASE posts + 1 \notin Incidents
    <3>1. InService' = InService /\ awaited' \notin InService
      BY <1>n, <2>1, <2>4 DEF KnowledgeTypes, InService, Knowledge!InService, Incidents
    <3>2. Unlisted' = Unlisted /\ Awaiting = 0 /\ Awaiting' = 0
      BY <1>n, <2>1, <3>1 DEF Unlisted, Awaiting
    <3>3. QED
      BY <2>1, <2>2, <3>2 DEF StoresInv
  <2>5. QED
    BY <2>3, <2>4
<1>3. CASE Knowledge!GiveUp
  <2>1. UNCHANGED <<collection, listed, confirmed, stage>> /\ ingestFaults' = ingestFaults + 1
    BY <1>3 DEF Knowledge!GiveUp, Knowledge!Fault, Knowledge!storeVars
  <2>2. Unlisted' \subseteq Unlisted
    BY <2>1 DEF Unlisted, InService, Knowledge!InService
  <2>3. QED
    BY <2>1, <2>2, FailureCovered DEF StoresInv
<1>4. CASE Knowledge!Crash
  <2>1. /\ UNCHANGED <<listed, confirmed>> /\ ingestFaults' = ingestFaults + 1
        /\ \A i \in Incidents : stage'[i] \notin {"embedding", "inserting"}
        /\ collection \subseteq collection' /\ collection' \subseteq collection \cup InService
    BY <1>4 DEF Knowledge!Crash, Knowledge!Fault, InService, Knowledge!InService, Incidents
  <2>2. InService' = {}
    BY <2>1 DEF InService, Knowledge!InService, Incidents
  <2>3. Unlisted' \subseteq Unlisted
    BY <2>1, <2>2 DEF Unlisted
  <2>4. QED
    BY <2>1, <2>3, FailureCovered DEF StoresInv
<1>5. ASSUME NEW i \in Incidents, Knowledge!Upsert(i) PROVE StoresInv'
  <2>1. /\ UNCHANGED <<listed, confirmed, awaited, ingestFaults>>
        /\ collection' = collection \cup {i} /\ stage[i] = "embedding"
        /\ stage' = [stage EXCEPT ![i] = "inserting"]
    BY <1>5 DEF Knowledge!Upsert, Knowledge!scriptVars
  <2>2. InService' = InService /\ i \in InService
    BY <2>1 DEF KnowledgeTypes, InService, Knowledge!InService, Incidents
  <2>3. Unlisted' = Unlisted /\ Awaiting' = Awaiting
    BY <2>1, <2>2 DEF Unlisted, Awaiting
  <2>4. QED
    BY <2>1, <2>3 DEF KnowledgeTypes, StoresInv
<1>6. ASSUME NEW i \in Incidents, Knowledge!UpsertFails(i) \/ Knowledge!InsertFails(i)
      PROVE  StoresInv'
  <2>1. /\ UNCHANGED confirmed /\ ingestFaults' = ingestFaults + 1
        /\ stage' = [stage EXCEPT ![i] = "done"] /\ stage[i] \in {"embedding", "inserting"}
        /\ collection \subseteq collection' /\ collection' \subseteq collection \cup {i}
        /\ listed \subseteq listed' /\ listed' \subseteq listed \cup {i}
        /\ listed' = listed \/ stage[i] = "inserting"
    BY <1>6 DEF Knowledge!UpsertFails, Knowledge!InsertFails, Knowledge!Fault
  <2>2. InService' = InService \ {i} /\ i \in InService
    BY <2>1 DEF KnowledgeTypes, InService, Knowledge!InService, Incidents
  <2>3. Unlisted' \subseteq Unlisted
    BY <2>1, <2>2 DEF Unlisted
  <2>4. listed' \subseteq collection'
    BY <2>1 DEF StoresInv
  <2>5. \A k \in Incidents : stage'[k] = "inserting" => k \in collection'
    BY <2>1 DEF KnowledgeTypes, StoresInv
  <2>6. QED
    BY <2>1, <2>3, <2>4, <2>5, FailureCovered DEF StoresInv
<1>7. ASSUME NEW i \in Incidents, Knowledge!InsertRow(i) PROVE StoresInv'
  <2>1. /\ UNCHANGED <<collection, ingestFaults>>
        /\ stage' = [stage EXCEPT ![i] = "done"] /\ stage[i] = "inserting"
        /\ listed' = listed \cup {i} /\ confirmed' \subseteq confirmed \cup {i}
        /\ awaited' = awaited \/ awaited = i
    BY <1>7 DEF Knowledge!InsertRow, Knowledge!Answered, Knowledge!NextFile, Knowledge!scriptVars
  <2>2. InService' = InService \ {i} /\ i \in InService
    BY <2>1 DEF KnowledgeTypes, InService, Knowledge!InService, Incidents
  <2>3. Unlisted' = Unlisted \ {i} /\ i \in Unlisted
    BY <2>1, <2>2 DEF Unlisted
  <2>4. Cardinality(Unlisted') = Cardinality(Unlisted) - 1
    BY <2>3, UnlistedFinite, FS_RemoveElement
  <2>5. Awaiting \in {0, 1} /\ Awaiting' \in {0, 1} /\ Awaiting <= Awaiting' + 1
    BY DEF Awaiting
  <2>6. /\ confirmed' \subseteq listed' /\ listed' \subseteq collection'
        /\ \A k \in Incidents : stage'[k] = "inserting" => k \in collection'
    BY <2>1 DEF KnowledgeTypes, StoresInv
  <2>7. QED
    BY <1>f, <2>1, <2>4, <2>5, <2>6 DEF StoresInv
<1>8. QED
  BY <1>1, <1>2, <1>3, <1>4, <1>5, <1>6, <1>7 DEF Knowledge!Next, Incidents

LEMMA SentFinite ==
    ASSUME NEW f PROVE IsFiniteSet(Sent(f)) /\ Cardinality(Sent(f)) \in Nat
<1>1. Sent(f) \subseteq Incidents
  BY DEF Sent
<1>2. QED
  BY <1>1, IncidentsFinite, DoesNotGrow

LEMMA RunsStep ==
    KnowledgeTypes /\ KnowledgeTypes' /\ RunsInv /\ Knowledge!Next => RunsInv'
<1> SUFFICES ASSUME KnowledgeTypes, KnowledgeTypes', RunsInv, Knowledge!Next,
                    NEW f \in 1..Files
             PROVE  Cardinality(Sent(f)') + Due(f)' <= runs'
  BY DEF RunsInv
<1>t. /\ Cardinality(Sent(f)) \in Nat /\ Cardinality(Sent(f)) + Due(f) <= runs
      /\ Due(f) \in {0, 1} /\ Due(f)' \in {0, 1} /\ runs \in Nat /\ file \in Nat /\ f \in Nat
  BY SentFinite DEF RunsInv, Due, KnowledgeTypes
<1>1. CASE Knowledge!StartScript
  <2>1. file = 0 /\ runs' = runs + 1 /\ source' = source
    BY <1>1 DEF Knowledge!StartScript
  <2>2. QED
    BY <1>t, <2>1 DEF Due, Sent
<1>2. CASE Knowledge!Post
  <2>1. /\ file > 0 /\ awaited = 0 /\ UNCHANGED <<runs, file>>
        /\ awaited' = posts + 1 /\ source' = [source EXCEPT ![posts + 1] = file]
    BY <1>2 DEF Knowledge!Post
  <2>2. awaited' # 0
    BY <2>1 DEF KnowledgeTypes
  <2>3. CASE f = file
    <3>1. Sent(f)' \subseteq Sent(f) \cup {posts + 1}
      BY <2>1 DEF KnowledgeTypes, Sent
    <3>2. Cardinality(Sent(f)') <= Cardinality(Sent(f)) + 1 /\ Cardinality(Sent(f)') \in Nat
      BY <3>1, SentFinite, GrowsByOne
    <3>3. Due(f) = 1 /\ Due(f)' = 0
      BY <1>t, <2>1, <2>2, <2>3 DEF Due
    <3>4. QED
      BY <1>t, <2>1, <3>2, <3>3
  <2>4. CASE f # file
    <3>1. Sent(f)' \subseteq Sent(f)
      BY <2>1, <2>4 DEF KnowledgeTypes, Sent
    <3>2. Cardinality(Sent(f)') <= Cardinality(Sent(f)) /\ Cardinality(Sent(f)') \in Nat
      BY <3>1, SentFinite, DoesNotGrow
    <3>3. Due(f)' = Due(f)
      BY <1>t, <2>1, <2>4 DEF Due
    <3>4. QED
      BY <1>t, <2>1, <3>2, <3>3
  <2>5. QED
    BY <2>3, <2>4
<1>3. ASSUME UNCHANGED <<runs, source>>,
             UNCHANGED <<file, awaited>> \/ (awaited # 0 /\ Knowledge!NextFile)
      PROVE  Cardinality(Sent(f)') + Due(f)' <= runs'
  <2>1. Due(f)' <= Due(f)
    BY <1>t, <1>3 DEF Knowledge!NextFile, KnowledgeTypes, Due
  <2>2. Sent(f)' = Sent(f)
    BY <1>3 DEF Sent
  <2>3. QED
    BY <1>t, <1>3, <2>1, <2>2
<1>4. CASE Knowledge!GiveUp \/ Knowledge!Crash
  BY <1>3, <1>4 DEF Knowledge!GiveUp, Knowledge!Crash, Knowledge!NextFile, Knowledge!scriptVars,
                    KnowledgeTypes
<1>5. ASSUME NEW i \in Incidents,
             \/ Knowledge!Upsert(i) \/ Knowledge!UpsertFails(i)
             \/ Knowledge!InsertRow(i) \/ Knowledge!InsertFails(i)
      PROVE  Cardinality(Sent(f)') + Due(f)' <= runs'
  <2>1. UNCHANGED source /\ (UNCHANGED <<runs, file, awaited>> \/ Knowledge!Answered(i))
    BY <1>5 DEF Knowledge!Upsert, Knowledge!UpsertFails, Knowledge!InsertRow,
                Knowledge!InsertFails, Knowledge!scriptVars
  <2>2. i # 0
    BY IncidentsFinite
  <2>3. QED
    BY <1>3, <2>1, <2>2 DEF Knowledge!Answered, Knowledge!NextFile, Knowledge!scriptVars
<1>6. QED
  BY <1>1, <1>2, <1>4, <1>5 DEF Knowledge!Next, Incidents

LEMMA KnowledgeInit == Knowledge!Init => KnowledgeInv
<1> SUFFICES ASSUME Knowledge!Init PROVE KnowledgeInv
  OBVIOUS
<1>1. KnowledgeTypes
  BY DEF Knowledge!Init, KnowledgeTypes, Incidents, Knowledge!Stage
<1>2. StoresInv
  <2>1. Unlisted = {} /\ Awaiting \in {0, 1}
    BY DEF Knowledge!Init, Unlisted, Awaiting, InService, Knowledge!InService
  <2>2. Cardinality(Unlisted) = 0
    BY <2>1, FS_EmptySet
  <2>3. QED
    BY <2>1, <2>2 DEF Knowledge!Init, StoresInv, Incidents
<1>3. RunsInv
  <2>1. ASSUME NEW f \in 1..Files PROVE Cardinality(Sent(f)) + Due(f) <= runs
    <3>1. Sent(f) = {}
      BY DEF Knowledge!Init, Sent, Incidents
    <3>2. Cardinality(Sent(f)) = 0 /\ Due(f) = 0
      BY <3>1, FS_EmptySet DEF Knowledge!Init, Due
    <3>3. QED
      BY <3>2 DEF Knowledge!Init
  <2>2. QED
    BY <2>1 DEF RunsInv
<1>4. QED
  BY <1>1, <1>2, <1>3 DEF KnowledgeInv

LEMMA KnowledgeInvStep == KnowledgeInv /\ Knowledge!Next => KnowledgeInv'
  BY KnowledgeTypesStep, StoresStep, RunsStep DEF KnowledgeInv

(* The Diagnosis Service only reads the collection.                        *)
LEMMA KnowledgeInvKept == KnowledgeInv /\ UNCHANGED <<knowledgeVars, collection>> => KnowledgeInv'
  BY DEF KnowledgeInv, KnowledgeTypes, StoresInv, RunsInv, Unlisted, Awaiting, InService,
         Knowledge!InService, Sent, Due, knowledgeVars

-----------------------------------------------------------------------------
(* The Diagnosis Service *)

(* The parts of TypeOK, strengthened: after a batch the service goes on    *)
(* fetching at its end, or at the committed offset if it was assigned the  *)
(* partition again meanwhile; and a draft fits the CHECK of the table.     *)
InputOK ==
    /\ published \in Seq(Anomalies \cup {Unreadable})
    /\ stored \subseteq Anomalies
    /\ IsFiniteSet(collection)

PlaceOK ==
    /\ committed \in 0..Len(published)
    /\ pc \in {"down", "exited", "poll", "batch", "persist"}
    /\ member \in {"none", "member", "evicted"}
    /\ pc \in {"down", "exited"} => member = "none"
    /\ position \in 0..Len(published) /\ end \in 0..Len(published)
    /\ cursor \in 0..end
    /\ pc = "persist" => cursor < end /\ Message \in Anomalies
    /\ pc \in {"batch", "persist"} => position \in {end, committed} /\ member # "none"

DraftOK ==
    /\ draft \in [misfit : SUBSET Fields, confidence : 0..10, shown : SUBSET collection]
    /\ Cardinality(draft.shown) <= TopK

RowsOK ==
    /\ IsFiniteSet(diagnoses)
    /\ \A d \in diagnoses :
          /\ d.id \in 0..(nextId - 1) /\ d.anomaly \in stored /\ d.at \in handled
          /\ d.shown \subseteq collection /\ Cardinality(d.shown) <= TopK
    /\ rejected \subseteq Anomalies
    /\ nextId \in Nat /\ generation \in Nat /\ faults \in Nat
    /\ handled \subseteq 0..(Len(published) - 1) /\ unusable \subseteq handled

ServiceTypes == InputOK /\ PlaceOK /\ DraftOK /\ RowsOK

(* What is committed, or lies before the cursor or the position, was       *)
(* handled.                                                                *)
HandledInv ==
    /\ \A o \in 0..(committed - 1) : o \in handled
    /\ pc \in {"batch", "persist"} => \A o \in 0..(cursor - 1) : o \in handled
    /\ pc \notin {"batch", "persist"} => \A o \in 0..(position - 1) : o \in handled

(* What a message has so far, the row it may still get from the batch in   *)
(* hand, and the one it may get once it is fetched again, need an          *)
(* assignment of the partition each.                                       *)
RowsAt(o) == {d \in diagnoses : d.at = o}

AtMostOnce(b) == IF b THEN 1 ELSE 0

ToFetch(o)    == AtMostOnce(member # "none" /\ position <= o)
ToDiagnose(o) == AtMostOnce(pc \in {"batch", "persist"} /\ cursor <= o /\ o < end)

Expected(o) == ToFetch(o) + ToDiagnose(o)

RepeatsInv == \A o \in Nat : Cardinality(RowsAt(o)) + Expected(o) <= generation

(* The messages that were announced without a row, or were handled and     *)
(* left no diagnosis although the reply was of use: each cost a fault.     *)
Lost ==
    {o \in 0..(Len(published) - 1) :
        /\ published[o + 1] \in Anomalies
        /\ published[o + 1] \in stored =>
              o \in handled \ unusable /\ \A d \in diagnoses : d.anomaly # published[o + 1]}

PendingInv == Cardinality(Lost) <= faults

ServiceInv == ServiceTypes /\ HandledInv /\ RepeatsInv /\ PendingInv

LEMMA ConfidenceClamped == ASSUME NEW c \in Int PROVE ClampConfidence(c) \in 0..10
<1>1. Min({10, c}) \in Int /\ Min({10, c}) <= 10
  <2>1. 10 \in Int
    OBVIOUS
  <2>2. Min({10, c}) \in {10, c} /\ Min({10, c}) <= 10
    BY <2>1, SmallerOfTwo
  <2>3. QED
    BY <2>2
<1>2. Max({0, Min({10, c})}) \in {0, Min({10, c})} /\ Max({0, Min({10, c})}) >= 0
  <2>1. 0 \in Int /\ Min({10, c}) \in Int
    BY <1>1
  <2>2. QED
    BY <2>1, LargerOfTwo
<1>3. QED
  BY <1>1, <1>2 DEF ClampConfidence

LEMMA ReplyParsed ==
    ASSUME NEW reply \in Replies
    PROVE  ParseReply(reply).misfit \in SUBSET Fields /\ ParseReply(reply).confidence \in 0..10
<1>1. reply.misfit \in SUBSET Fields /\ ClampConfidence(reply.confidence) \in 0..10
  BY ConfidenceClamped DEF Reply
<1>2. QED
  BY <1>1 DEF ParseReply

LEMMA NoDraftOK ==
    /\ NoDraft \in [misfit : SUBSET Fields, confidence : 0..10, shown : SUBSET collection]
    /\ Cardinality(NoDraft.shown) <= TopK
  BY FS_EmptySet DEF NoDraft

LEMMA PlaceStep == InputOK /\ PlaceOK /\ Next => InputOK' /\ PlaceOK'
<1> SUFFICES ASSUME InputOK, PlaceOK, Next PROVE InputOK' /\ PlaceOK'
  OBVIOUS
<1> USE DEF InputOK, PlaceOK, groupVars
<1>1. ASSUME NEW a \in Anomalies \cup {Unreadable}, Announce(a) PROVE InputOK' /\ PlaceOK'
  <2>1. /\ published' = Append(published, a) /\ stored' \subseteq Anomalies
        /\ UNCHANGED <<collection, committed, member, pc, position, cursor, end>>
    BY <1>1 DEF Announce, serviceVars
  <2>2. /\ published' \in Seq(Anomalies \cup {Unreadable})
        /\ Len(published') = Len(published) + 1 /\ Len(published) \in Nat
    BY <2>1
  <2>3. pc = "persist" => Message' = Message
    BY <2>1, <2>2 DEF Message
  <2>4. QED
    BY <2>1, <2>2, <2>3
<1>t. Len(published) \in Nat
  OBVIOUS
<1>2. CASE Start
  BY <1>2 DEF Start, inputVars
<1>3. ASSUME Leave("down") \/ Leave("exited"), committed' \in {committed, position}
      PROVE  InputOK' /\ PlaceOK'
  BY <1>t, <1>3 DEF Leave, inputVars
<1>4. CASE Crash \/ LoopEnds
  BY <1>3, <1>4 DEF Crash, LoopEnds
<1>5. CASE Poll
  <2>1. /\ UNCHANGED <<inputVars, committed, member>> /\ pc' = "batch" /\ cursor' = position
        /\ position' = end' /\ member # "none"
    BY <1>5 DEF Poll
  <2>2. end' \in 0..Len(published) /\ position <= end'
    BY <1>t, <1>5 DEF Poll
  <2>3. QED
    BY <2>1, <2>2 DEF inputVars
<1>6. CASE PollEmpty
  BY <1>6 DEF PollEmpty, vars, inputVars, serviceVars, Message
<1>7. CASE Commit
  BY <1>7 DEF Commit, inputVars
<1>8. CASE CommitFails
  BY <1>3, <1>8 DEF CommitFails
<1>9. ASSUME Return, cursor < end, pc \in {"batch", "persist"} PROVE InputOK' /\ PlaceOK'
  BY <1>t, <1>9 DEF Return, inputVars
<1>10. CASE SkipUnreadable \/ GenerateFails \/ Persist
  BY <1>9, <1>10 DEF SkipUnreadable, GenerateFails, Persist
<1>11. CASE Generate
  <2>1. CASE Return
    BY <1>9, <1>11, <2>1 DEF Generate
  <2>2. CASE ~Return
    <3>1. /\ pc = "batch" /\ pc' = "persist" /\ cursor < end /\ Message # Unreadable
          /\ UNCHANGED <<inputVars, committed, member, position, cursor, end>>
      BY <1>11, <2>2 DEF Generate
    <3>2. Message \in Anomalies
      BY <1>t, <3>1 DEF Message
    <3>3. Message' = Message
      BY <3>1 DEF Message, inputVars
    <3>4. QED
      BY <3>1, <3>2, <3>3 DEF inputVars
  <2>3. QED
    BY <2>1, <2>2
<1>12. CASE Rebalance
  <2>1. /\ UNCHANGED <<inputVars, committed, pc, cursor, end>> /\ pc \notin {"down", "exited"}
        /\ member' = "member" /\ position' = committed
    BY <1>12 DEF Rebalance, Alive, StartOffset
  <2>2. QED
    BY <2>1 DEF inputVars, Message
<1>13. CASE Evict
  <2>1. /\ UNCHANGED <<inputVars, committed, pc, position, cursor, end>>
        /\ member = "member" /\ member' = "evicted"
    BY <1>13 DEF Evict, serviceVars
  <2>2. QED
    BY <2>1 DEF inputVars, Message
<1>14. QED
  BY <1>1, <1>2, <1>4, <1>5, <1>6, <1>7, <1>8, <1>10, <1>11, <1>12, <1>13 DEF Next, Service, ProcessMessage

LEMMA CollectionRead == Next => collection' = collection
  BY DEF Next, Service, ProcessMessage, Announce, Start, Crash, LoopEnds, Leave, Rebalance, Evict,
         Poll, PollEmpty, Commit, CommitFails, SkipUnreadable, Generate, GenerateFails, Persist, Return, vars, inputVars

LEMMA DraftStep == InputOK /\ DraftOK /\ Next => DraftOK'
<1> SUFFICES ASSUME InputOK, DraftOK, Next PROVE DraftOK'
  OBVIOUS
<1>1. collection' = collection
  BY CollectionRead
<1>2. CASE draft' \in {draft, NoDraft}
  BY <1>1, <1>2, NoDraftOK DEF DraftOK
<1>3. CASE Generate
  <2>1. CASE Return
    BY <1>2, <2>1 DEF Return
  <2>2. CASE ~Return
    <3>1. PICK reply \in Replies, shown \in Retrieved :
             draft' = [misfit |-> ParseReply(reply).misfit,
                       confidence |-> ParseReply(reply).confidence, shown |-> shown]
      BY <1>3, <2>2 DEF Generate
    <3>2. shown \in SUBSET collection /\ Cardinality(shown) <= TopK
      BY DEF Retrieved
    <3>3. ParseReply(reply).misfit \in SUBSET Fields /\ ParseReply(reply).confidence \in 0..10
      BY ReplyParsed
    <3>4. QED
      BY <1>1, <3>1, <3>2, <3>3 DEF DraftOK
  <2>3. QED
    BY <2>1, <2>2
<1>4. CASE ~Generate
  <2>1. draft' \in {draft, NoDraft}
    BY <1>4 DEF Next, Service, ProcessMessage, Announce, Start, Crash, LoopEnds, Leave,
                Rebalance, Evict, Poll, PollEmpty, Commit, CommitFails, SkipUnreadable,
                GenerateFails, Persist, Return, vars, serviceVars
  <2>2. QED
    BY <1>2, <2>1
<1>5. QED
  BY <1>3, <1>4

(* What a step does besides moving within the group and the batch:         *)
(* nothing, an announced message, or the end of process_anomaly_message.   *)
Quiet ==
    /\ UNCHANGED <<published, stored, diagnoses, rejected, nextId, unusable, handled>>
    /\ generation' \in {generation, generation + 1} /\ (UNCHANGED faults \/ faults' = faults + 1)

LEMMA QuietSteps ==
    ASSUME InputOK, RowsOK, Next
    PROVE  \/ Quiet
           \/ \E a \in Anomalies \cup {Unreadable} : Announce(a)
           \/ SkipUnreadable \/ (Generate /\ Return) \/ GenerateFails \/ Persist
<1> USE DEF groupVars
<1>1. ASSUME \/ Start \/ Crash \/ LoopEnds \/ Rebalance \/ Evict
             \/ Poll \/ PollEmpty \/ Commit \/ CommitFails
      PROVE  Quiet
  BY <1>1 DEF Start, Crash, LoopEnds, Rebalance, Evict, Poll, PollEmpty, Commit, CommitFails, Leave,
              Fault, Quiet, inputVars, storeVars, vars
<1>2. Generate /\ ~Return => Quiet
  BY DEF Generate, Quiet, inputVars, storeVars
<1>3. QED
  BY <1>1, <1>2 DEF Next, Service, ProcessMessage

LEMMA RowsStep == InputOK /\ PlaceOK /\ DraftOK /\ RowsOK /\ Next => RowsOK'
<1> SUFFICES ASSUME InputOK, PlaceOK, DraftOK, RowsOK, Next PROVE RowsOK'
  OBVIOUS
<1> USE DEF groupVars
<1>c. collection' = collection /\ Len(published) \in Nat
  BY CollectionRead DEF InputOK
<1>1. CASE Quiet
  BY <1>1, <1>c DEF Quiet, RowsOK
<1>3. ASSUME NEW a \in Anomalies \cup {Unreadable}, Announce(a) PROVE RowsOK'
  <2>1. /\ UNCHANGED <<diagnoses, rejected, nextId, unusable, handled, generation>>
        /\ Len(published') = Len(published) + 1 /\ stored \subseteq stored' /\ faults' \in Nat
    BY <1>3, <1>c DEF Announce, Fault, storeVars, InputOK, RowsOK
  <2>2. QED
    BY <1>c, <2>1 DEF RowsOK
<1>r. ASSUME Return, cursor < end
      PROVE  /\ handled' = handled \cup {cursor} /\ cursor \in 0..(Len(published) - 1)
             /\ UNCHANGED <<published, stored, generation>>
  BY <1>r, <1>c DEF Return, PlaceOK, inputVars
<1>4. CASE SkipUnreadable \/ (Generate /\ Return) \/ GenerateFails
  <2>1. /\ Return /\ cursor < end /\ UNCHANGED storeVars /\ faults' \in Nat
        /\ unusable' \subseteq unusable \cup {cursor}
    BY <1>4 DEF SkipUnreadable, Generate, GenerateFails, Fault, RowsOK
  <2>2. QED
    BY <1>c, <1>r, <2>1 DEF RowsOK, storeVars
<1>5. CASE Persist
  <2>1. Return /\ cursor < end /\ faults' \in Nat /\ unusable' \subseteq unusable \cup {cursor}
    BY <1>5 DEF Persist, PlaceOK, Fault, RowsOK
  <2>2. CASE UNCHANGED <<diagnoses, nextId>>
    <3>1. rejected' \subseteq Anomalies
      BY <1>5, <1>c DEF Persist, PlaceOK, RowsOK, InsertDiagnosis, storeVars
    <3>2. QED
      BY <1>c, <1>r, <2>1, <2>2, <3>1 DEF RowsOK
  <2>3. CASE InsertDiagnosis /\ Message \in stored
    <3>1. diagnoses' = diagnoses \cup {Diagnosis} /\ nextId' = nextId + 1 /\ UNCHANGED rejected
      BY <2>3 DEF InsertDiagnosis
    <3>2. IsFiniteSet(diagnoses')
      BY <3>1, FS_AddElement DEF RowsOK
    <3>3. /\ Diagnosis.id = nextId /\ Diagnosis.anomaly = Message /\ Diagnosis.at = cursor
          /\ Diagnosis.shown = draft.shown
      BY DEF Diagnosis
    <3>4. draft.shown \subseteq collection /\ Cardinality(draft.shown) <= TopK
      BY DEF DraftOK
    <3>5. \A d \in diagnoses' :
             /\ d.id \in 0..(nextId' - 1) /\ d.anomaly \in stored /\ d.at \in handled \cup {cursor}
             /\ d.shown \subseteq collection /\ Cardinality(d.shown) <= TopK
      BY <2>3, <3>1, <3>3, <3>4 DEF RowsOK
    <3>6. /\ handled' = handled \cup {cursor} /\ UNCHANGED <<stored, published, generation>>
          /\ handled' \subseteq 0..(Len(published) - 1) /\ unusable' \subseteq handled'
      BY <1>r, <2>1 DEF RowsOK
    <3>7. rejected' \subseteq Anomalies /\ nextId' \in Nat /\ generation' \in Nat
      BY <3>1, <3>6 DEF RowsOK
    <3>8. QED
      BY <1>c, <2>1, <3>2, <3>5, <3>6, <3>7 DEF RowsOK
  <2>4. QED
    BY <1>5, <2>2, <2>3 DEF Persist, storeVars
<1>6. QED
  BY <1>1, <1>3, <1>4, <1>5, QuietSteps

LEMMA TypesStep == ServiceTypes /\ Next => ServiceTypes'
  BY PlaceStep, DraftStep, RowsStep DEF ServiceTypes

LEMMA HandledStep == ServiceTypes /\ HandledInv /\ Next => HandledInv'
<1> SUFFICES ASSUME ServiceTypes, HandledInv, Next PROVE HandledInv'
  OBVIOUS
<1> USE DEF HandledInv
<1>t. committed \in Nat /\ position \in Nat /\ cursor \in Nat /\ end \in Nat
  BY DEF ServiceTypes, PlaceOK, InputOK
<1>1. ASSUME NEW a \in Anomalies \cup {Unreadable}, Announce(a) PROVE HandledInv'
  BY <1>1 DEF Announce, serviceVars
<1>2. CASE Start
  BY <1>2 DEF Start
<1>3. ASSUME Leave("down") \/ Leave("exited"), \A o \in 0..(committed' - 1) : o \in handled
      PROVE  HandledInv'
  <2>1. pc' \in {"down", "exited"} /\ position' = 0 /\ handled' = handled
    BY <1>3 DEF Leave
  <2>2. 0..(position' - 1) = {}
    BY <2>1
  <2>3. QED
    BY <1>3, <2>1, <2>2
<1>4. CASE Crash \/ LoopEnds
  BY <1>3, <1>4 DEF Crash, LoopEnds
<1>b. ASSUME pc = "batch", cursor = end PROVE \A o \in 0..(position - 1) : o \in handled
  <2>1. position \in {cursor, committed}
    BY <1>b DEF ServiceTypes, PlaceOK
  <2>2. QED
    BY <1>b, <2>1
<1>5. CASE Poll
  BY <1>5 DEF Poll
<1>6. CASE PollEmpty
  BY <1>6 DEF PollEmpty, vars, serviceVars
<1>7. CASE Commit
  BY <1>b, <1>7 DEF Commit
<1>8. CASE CommitFails
  <2>1. \A o \in 0..(committed' - 1) : o \in handled
    BY <1>b, <1>8 DEF CommitFails
  <2>2. QED
    BY <1>3, <1>8, <2>1 DEF CommitFails
<1>9. ASSUME Return, pc \in {"batch", "persist"} PROVE HandledInv'
  BY <1>t, <1>9 DEF Return
<1>10. CASE SkipUnreadable \/ GenerateFails \/ Persist
  BY <1>9, <1>10 DEF SkipUnreadable, GenerateFails, Persist
<1>11. CASE Generate
  BY <1>9, <1>11 DEF Generate
<1>12. CASE Rebalance
  BY <1>12 DEF Rebalance, StartOffset
<1>13. CASE Evict
  BY <1>13 DEF Evict, serviceVars
<1>14. QED
  BY <1>1, <1>2, <1>4, <1>5, <1>6, <1>7, <1>8, <1>10, <1>11, <1>12, <1>13 DEF Next, Service, ProcessMessage

LEMMA RowsAtFinite ==
    ASSUME RowsOK, NEW o PROVE IsFiniteSet(RowsAt(o)) /\ Cardinality(RowsAt(o)) \in Nat
<1>1. RowsAt(o) \subseteq diagnoses
  BY DEF RowsAt
<1>2. QED
  BY <1>1, DoesNotGrow DEF RowsOK

LEMMA ExpectedType == \A o : ToFetch(o) \in 0..1 /\ ToDiagnose(o) \in 0..1 /\ Expected(o) \in 0..2
  BY DEF ToFetch, ToDiagnose, Expected, AtMostOnce

LEMMA RepeatsStep == ServiceTypes /\ ServiceTypes' /\ RepeatsInv /\ Next => RepeatsInv'
<1> SUFFICES ASSUME ServiceTypes, ServiceTypes', RepeatsInv, Next, NEW o \in Nat
             PROVE  Cardinality(RowsAt(o)') + Expected(o)' <= generation'
  BY DEF RepeatsInv
<1> USE DEF groupVars
<1>e. /\ ToFetch(o) \in 0..1 /\ ToDiagnose(o) \in 0..1 /\ Expected(o) = ToFetch(o) + ToDiagnose(o)
      /\ ToFetch(o)' \in 0..1 /\ ToDiagnose(o)' \in 0..1
      /\ Expected(o)' = ToFetch(o)' + ToDiagnose(o)'
  BY DEF ToFetch, ToDiagnose, Expected, AtMostOnce
<1>t. /\ Cardinality(RowsAt(o)) \in Nat /\ generation \in Nat
      /\ Cardinality(RowsAt(o)) + Expected(o) <= generation
  BY RowsAtFinite DEF RepeatsInv, ServiceTypes, RowsOK
<1>p. cursor \in Nat /\ position \in Nat /\ end \in Nat
  BY DEF ServiceTypes, PlaceOK, InputOK
<1>1. ASSUME UNCHANGED <<diagnoses, generation>>, Expected(o)' <= Expected(o)
      PROVE  Cardinality(RowsAt(o)') + Expected(o)' <= generation'
  <2>1. RowsAt(o)' = RowsAt(o)
    BY <1>1 DEF RowsAt
  <2>2. QED
    BY <1>1, <1>e, <1>t, <2>1
<1>2. CASE Start
  <2>1. /\ UNCHANGED <<diagnoses, generation, member, position>>
        /\ pc \in {"down", "exited"} /\ pc' = "poll"
    BY <1>2 DEF Start, storeVars
  <2>2. QED
    BY <1>1, <2>1 DEF Expected, ToFetch, ToDiagnose, AtMostOnce
<1>3. ASSUME NEW a \in Anomalies \cup {Unreadable}, Announce(a)
      PROVE  Cardinality(RowsAt(o)') + Expected(o)' <= generation'
  <2>1. UNCHANGED <<diagnoses, generation, member, pc, cursor, end, position>>
    BY <1>3 DEF Announce, serviceVars, storeVars
  <2>2. QED
    BY <1>1, <1>e, <2>1 DEF Expected, ToFetch, ToDiagnose, AtMostOnce
<1>4. CASE Crash \/ LoopEnds \/ CommitFails
  <2>1. UNCHANGED <<diagnoses, generation>> /\ pc' \in {"down", "exited"} /\ member' = "none"
    BY <1>4 DEF Crash, LoopEnds, CommitFails, Leave, storeVars
  <2>2. QED
    BY <1>1, <2>1 DEF Expected, ToFetch, ToDiagnose, AtMostOnce
<1>5. CASE Rebalance
  <2>1. generation' = generation + 1 /\ UNCHANGED <<diagnoses, pc, cursor, end>>
    BY <1>5 DEF Rebalance, storeVars
  <2>2. RowsAt(o)' = RowsAt(o) /\ ToDiagnose(o)' = ToDiagnose(o)
    BY <2>1 DEF RowsAt, ToDiagnose, AtMostOnce
  <2>3. QED
    BY <1>e, <1>t, <2>1, <2>2
<1>6. CASE Evict
  <2>1. /\ UNCHANGED <<diagnoses, generation, pc, position, cursor, end>>
        /\ member = "member" /\ member' = "evicted"
    BY <1>6 DEF Evict, serviceVars, storeVars
  <2>2. QED
    BY <1>1, <1>e, <2>1 DEF Expected, ToFetch, ToDiagnose, AtMostOnce
<1>7. CASE Poll
  <2>1. /\ UNCHANGED <<diagnoses, generation, member>> /\ pc = "poll" /\ pc' = "batch"
        /\ cursor' = position /\ position' = end' /\ member # "none"
    BY <1>7 DEF Poll, storeVars
  <2>2. end' \in Int /\ position < end'
    BY <1>p, <1>7 DEF Poll, ServiceTypes, InputOK
  <2>3. QED
    BY <1>1, <1>p, <2>1, <2>2 DEF Expected, ToFetch, ToDiagnose, AtMostOnce
<1>8. CASE PollEmpty
  <2>1. UNCHANGED <<diagnoses, generation, member, pc, cursor, end, position>>
    BY <1>8 DEF PollEmpty, vars, serviceVars, storeVars
  <2>2. QED
    BY <1>1, <1>e, <2>1 DEF Expected, ToFetch, ToDiagnose, AtMostOnce
<1>9. CASE Commit
  <2>1. UNCHANGED <<diagnoses, generation, member, position>> /\ pc = "batch" /\ pc' = "poll"
    BY <1>9 DEF Commit, storeVars
  <2>2. QED
    BY <1>1, <2>1 DEF Expected, ToFetch, ToDiagnose, AtMostOnce
<1>r. ASSUME Return, pc \in {"batch", "persist"}, cursor < end
      PROVE  /\ generation' = generation /\ Expected(o)' <= Expected(o)
             /\ o = cursor => Expected(o)' = Expected(o) - 1
  <2>1. /\ UNCHANGED <<generation, member, position, end>>
        /\ pc' = "batch" /\ cursor' = cursor + 1
    BY <1>r DEF Return
  <2>2. ToFetch(o)' = ToFetch(o)
    BY <2>1 DEF ToFetch, AtMostOnce
  <2>3. /\ ToDiagnose(o)' <= ToDiagnose(o)
        /\ o = cursor => ToDiagnose(o) = 1 /\ ToDiagnose(o)' = 0
    BY <1>p, <1>r, <2>1 DEF ToDiagnose, AtMostOnce
  <2>4. QED
    BY <1>e, <2>1, <2>2, <2>3
<1>10. CASE SkipUnreadable \/ GenerateFails \/ (Generate /\ Return)
  <2>1. diagnoses' = diagnoses /\ Return /\ pc = "batch" /\ cursor < end
    BY <1>10 DEF SkipUnreadable, GenerateFails, Generate, storeVars
  <2>2. QED
    BY <1>1, <1>r, <2>1
<1>11. CASE Generate /\ ~Return
  <2>1. /\ UNCHANGED <<diagnoses, generation, member, position, cursor, end>>
        /\ pc = "batch" /\ pc' = "persist"
    BY <1>11 DEF Generate, storeVars
  <2>2. QED
    BY <1>1, <1>e, <2>1 DEF Expected, ToFetch, ToDiagnose, AtMostOnce
<1>12. CASE Persist
  <2>1. Return /\ pc \in {"batch", "persist"} /\ cursor < end
    BY <1>12 DEF Persist, ServiceTypes, PlaceOK
  <2>2. CASE diagnoses' = diagnoses
    BY <1>1, <1>r, <2>1, <2>2
  <2>3. CASE diagnoses' = diagnoses \cup {Diagnosis}
    <3>1. Diagnosis.at = cursor
      BY DEF Diagnosis
    <3>2. CASE o = cursor
      <4>1. RowsAt(o)' \subseteq RowsAt(o) \cup {Diagnosis}
        BY <2>3 DEF RowsAt
      <4>2. Cardinality(RowsAt(o)') <= Cardinality(RowsAt(o)) + 1 /\ Cardinality(RowsAt(o)') \in Nat
        BY <4>1, RowsAtFinite, GrowsByOne DEF ServiceTypes
      <4>3. QED
        BY <1>e, <1>t, <1>r, <2>1, <3>2, <4>2
    <3>3. CASE o # cursor
      <4>1. RowsAt(o)' = RowsAt(o)
        BY <2>3, <3>1, <3>3 DEF RowsAt
      <4>2. QED
        BY <1>e, <1>t, <1>r, <2>1, <4>1
    <3>4. QED
      BY <3>2, <3>3
  <2>4. QED
    BY <1>12, <2>2, <2>3 DEF Persist, InsertDiagnosis, storeVars
<1>13. QED
  BY <1>2, <1>3, <1>4, <1>5, <1>6, <1>7, <1>8, <1>9, <1>10, <1>11, <1>12 DEF Next, Service, ProcessMessage

LEMMA LostFinite == InputOK => IsFiniteSet(Lost) /\ Cardinality(Lost) \in Nat
<1>1. InputOK => Len(published) - 1 \in Int
  BY DEF InputOK
<1>2. InputOK => IsFiniteSet(0..(Len(published) - 1))
  BY <1>1, FS_Interval
<1>3. Lost \subseteq 0..(Len(published) - 1)
  BY DEF Lost
<1>4. QED
  BY <1>2, <1>3, DoesNotGrow

LEMMA PendingStep == ServiceTypes /\ ServiceTypes' /\ PendingInv /\ Next => PendingInv'
<1> SUFFICES ASSUME ServiceTypes, ServiceTypes', PendingInv, Next PROVE PendingInv'
  OBVIOUS
<1>t. /\ IsFiniteSet(Lost) /\ Cardinality(Lost) \in Nat /\ faults \in Nat /\ faults' \in Nat
      /\ Cardinality(Lost) <= faults /\ Len(published) \in Nat
  BY LostFinite DEF ServiceTypes, RowsOK, InputOK, PendingInv
<1>1. ASSUME Lost' \subseteq Lost, faults' = faults \/ faults' = faults + 1 PROVE PendingInv'
  <2>1. Cardinality(Lost') <= Cardinality(Lost) /\ Cardinality(Lost') \in Nat
    BY <1>1, <1>t, DoesNotGrow
  <2>2. QED
    BY <1>1, <1>t, <2>1 DEF PendingInv
<1>2. ASSUME NEW x, Lost' \subseteq Lost \cup {x}, faults' = faults + 1 PROVE PendingInv'
  <2>1. Cardinality(Lost') <= Cardinality(Lost) + 1 /\ Cardinality(Lost') \in Nat
    BY <1>2, <1>t, GrowsByOne
  <2>2. QED
    BY <1>2, <1>t, <2>1 DEF PendingInv
<1>3. CASE Quiet
  BY <1>1, <1>3 DEF Quiet, Lost
<1>5. ASSUME NEW a \in Anomalies \cup {Unreadable}, Announce(a) PROVE PendingInv'
  <2>1. /\ UNCHANGED <<diagnoses, unusable, handled>>
        /\ Len(published') = Len(published) + 1 /\ published'[Len(published) + 1] = a
        /\ \A o \in 0..(Len(published) - 1) : published'[o + 1] = published[o + 1]
        /\ stored \subseteq stored'
        /\ (faults' = faults /\ (a \in Anomalies => a \in stored')) \/ faults' = faults + 1
    BY <1>5, <1>t DEF Announce, Fault, storeVars, ServiceTypes, InputOK
  <2>2. Len(published) \notin handled
    BY <1>t DEF ServiceTypes, RowsOK
  <2>3. Lost' \subseteq Lost \cup {Len(published)}
    BY <1>t, <2>1 DEF Lost
  <2>4. CASE faults' = faults
    <3>1. Len(published) \notin Lost'
      BY <1>t, <2>1, <2>2, <2>4 DEF Lost
    <3>2. QED
      BY <1>1, <2>3, <2>4, <3>1
  <2>5. QED
    BY <1>2, <2>1, <2>3, <2>4
<1>r. ASSUME Return, cursor < end
      PROVE  /\ handled' = handled \cup {cursor} /\ UNCHANGED <<published, stored>>
             /\ cursor \in 0..(Len(published) - 1) /\ published[cursor + 1] = Message
  BY <1>r, <1>t DEF Return, ServiceTypes, PlaceOK, inputVars, Message
<1>6. CASE SkipUnreadable
  <2>1. /\ Return /\ cursor < end /\ Message = Unreadable
        /\ UNCHANGED <<diagnoses, unusable, faults>>
    BY <1>6 DEF SkipUnreadable, storeVars
  <2>2. Lost' \subseteq Lost
    BY <1>r, <2>1 DEF Lost
  <2>3. QED
    BY <1>1, <2>1, <2>2
<1>7. CASE Generate /\ Return
  <2>1. Return /\ cursor < end /\ UNCHANGED <<diagnoses, faults>> /\ unusable' = unusable \cup {cursor}
    BY <1>7 DEF Generate, Return, storeVars
  <2>2. Lost' \subseteq Lost
    BY <1>r, <2>1 DEF Lost
  <2>3. QED
    BY <1>1, <2>1, <2>2
<1>8. CASE GenerateFails
  <2>1. Return /\ cursor < end /\ UNCHANGED <<diagnoses, unusable>> /\ faults' = faults + 1
    BY <1>8 DEF GenerateFails, Fault, storeVars
  <2>2. Lost' \subseteq Lost \cup {cursor}
    BY <1>r, <2>1 DEF Lost
  <2>3. QED
    BY <1>2, <2>1, <2>2
<1>9. CASE Persist
  <2>1. /\ Return /\ cursor < end
        /\ unusable \subseteq unusable' /\ diagnoses \subseteq diagnoses'
    BY <1>9 DEF Persist, ServiceTypes, PlaceOK, InsertDiagnosis, storeVars
  <2>2. Lost' \subseteq Lost \cup {cursor}
    BY <1>r, <2>1 DEF Lost
  <2>3. CASE faults' = faults + 1
    BY <1>2, <2>2, <2>3
  <2>4. CASE faults' # faults + 1
    <3>1. /\ faults' = faults
          /\ \/ DraftIsAccepted /\ Message \in stored /\ InsertDiagnosis
             \/ DraftIsAccepted /\ Message \notin stored
             \/ ~DraftIsAccepted /\ unusable' = IF "summary" \in draft.misfit
                                                THEN unusable \cup {cursor} ELSE unusable
      BY <1>9, <2>4 DEF Persist, Fault
    <3>2. draft.confidence \in 0..10
      BY DEF ServiceTypes, DraftOK
    <3>3. CASE InsertDiagnosis
      <4>1. Diagnosis \in diagnoses' /\ Diagnosis.anomaly = Message
        BY <3>3 DEF InsertDiagnosis, Diagnosis
      <4>2. Message \in stored' => cursor \notin Lost'
        BY <1>r, <2>1, <4>1 DEF Lost
      <4>3. Message \notin stored' => (cursor \in Lost' => cursor \in Lost)
        BY <1>r, <2>1 DEF Lost
      <4>4. QED
        BY <1>1, <2>2, <3>1, <4>2, <4>3
    <3>4. CASE Message \notin stored
      <4>1. cursor \in Lost' => cursor \in Lost
        BY <1>r, <2>1, <3>4 DEF Lost
      <4>2. QED
        BY <1>1, <2>2, <3>1, <4>1
    <3>5. CASE ~DraftIsAccepted
      <4>1. "summary" \in draft.misfit
        BY <3>2, <3>5 DEF DraftIsAccepted
      <4>2. cursor \in unusable'
        BY <3>1, <3>5, <4>1
      <4>3. cursor \in Lost' => cursor \in Lost
        BY <1>r, <2>1, <4>2 DEF Lost
      <4>4. QED
        BY <1>1, <2>2, <3>1, <4>3
    <3>6. QED
      BY <3>1, <3>3, <3>4, <3>5
  <2>5. QED
    BY <2>3, <2>4
<1>10. QED
  BY <1>3, <1>5, <1>6, <1>7, <1>8, <1>9, QuietSteps DEF ServiceTypes

-----------------------------------------------------------------------------
(* Both together *)

ServiceStateVars == <<published, stored, committed, groupVars, serviceVars, storeVars, unusable,
                      handled, faults>>

(* The service does not care which incidents are added.                    *)
LEMMA ServiceInvKept ==
    ServiceInv /\ UNCHANGED ServiceStateVars /\ collection \subseteq collection'
       /\ IsFiniteSet(collection') => ServiceInv'
<1> SUFFICES ASSUME ServiceInv, UNCHANGED ServiceStateVars, collection \subseteq collection',
                    IsFiniteSet(collection')
             PROVE  ServiceInv'
  OBVIOUS
<1> USE DEF ServiceInv, ServiceTypes, ServiceStateVars, groupVars, serviceVars, storeVars
<1>1. InputOK'
  BY DEF InputOK
<1>2. PlaceOK'
  BY DEF PlaceOK, Message
<1>3. DraftOK'
  BY DEF DraftOK
<1>4. RowsOK'
  BY DEF RowsOK
<1>5. HandledInv'
  BY DEF HandledInv
<1>6. RepeatsInv'
  BY DEF RepeatsInv, RowsAt, Expected, ToFetch, ToDiagnose, AtMostOnce
<1>7. PendingInv'
  BY DEF PendingInv, Lost
<1>8. QED
  BY <1>1, <1>2, <1>3, <1>4, <1>5, <1>6, <1>7

LEMMA ServiceInit == Init => ServiceInv
<1> SUFFICES ASSUME Init PROVE ServiceInv
  OBVIOUS
<1>1. IsFiniteSet({}) /\ Cardinality({}) = 0
  BY FS_EmptySet
<1>2. ServiceTypes
  BY <1>1, NoDraftOK DEF Init, ServiceTypes, InputOK, PlaceOK, DraftOK, RowsOK
<1>3. HandledInv
  BY DEF Init, HandledInv
<1>4. RepeatsInv
  <2>1. \A o \in Nat : RowsAt(o) = {} /\ Expected(o) = 0
    BY DEF Init, RowsAt, Expected, ToFetch, ToDiagnose, AtMostOnce
  <2>2. \A o \in Nat : Cardinality(RowsAt(o)) = 0
    BY <1>1, <2>1
  <2>3. QED
    BY <2>1, <2>2 DEF Init, RepeatsInv
<1>5. PendingInv
  <2>1. Lost = {}
    BY DEF Init, Lost
  <2>2. QED
    BY <1>1, <2>1 DEF Init, PendingInv
<1>6. QED
  BY <1>2, <1>3, <1>4, <1>5 DEF ServiceInv

LEMMA ServiceInvStep == ServiceInv /\ Next => ServiceInv'
  BY TypesStep, HandledStep, RepeatsStep, PendingStep DEF ServiceInv

(* No incident loses its chunks.                                           *)
LEMMA CollectionGrows == Knowledge!Next => collection \subseteq collection'
  BY DEF Knowledge!Next, Knowledge!StartScript, Knowledge!Post, Knowledge!GiveUp, Knowledge!Crash,
         Knowledge!Upsert, Knowledge!UpsertFails, Knowledge!InsertRow, Knowledge!InsertFails,
         Knowledge!storeVars

LEMMA RagInvariance == RagSpec => [](ServiceInv /\ KnowledgeInv)
<1>1. RagInit => ServiceInv /\ KnowledgeInv
  BY ServiceInit, KnowledgeInit DEF RagInit
<1>2. ServiceInv /\ KnowledgeInv /\ [DiagnosisStep \/ KnowledgeStep]_ragVars
         => (ServiceInv /\ KnowledgeInv)'
  <2> SUFFICES ASSUME ServiceInv, KnowledgeInv, [DiagnosisStep \/ KnowledgeStep]_ragVars
               PROVE  ServiceInv' /\ KnowledgeInv'
    OBVIOUS
  <2>1. CASE DiagnosisStep
    <3>1. Next /\ UNCHANGED <<knowledgeVars, collection>>
      BY <2>1, CollectionRead DEF DiagnosisStep
    <3>2. QED
      BY <3>1, ServiceInvStep, KnowledgeInvKept
  <2>2. CASE KnowledgeStep
    <3>1. Knowledge!Next /\ UNCHANGED ServiceStateVars
      BY <2>2 DEF KnowledgeStep, ServiceStateVars
    <3>2. KnowledgeInv'
      BY <3>1, KnowledgeInvStep
    <3>3. IsFiniteSet(collection')
      BY <3>2, IncidentsFinite, FS_Subset DEF KnowledgeInv, KnowledgeTypes
    <3>4. QED
      BY <3>1, <3>2, <3>3, CollectionGrows, ServiceInvKept
  <2>3. CASE UNCHANGED ragVars
    <3>1. UNCHANGED <<knowledgeVars, collection>> /\ UNCHANGED ServiceStateVars
      BY <2>3 DEF ragVars, vars, inputVars, ServiceStateVars
    <3>2. IsFiniteSet(collection')
      BY <3>1 DEF ServiceInv, ServiceTypes, InputOK
    <3>3. QED
      BY <3>1, <3>2, KnowledgeInvKept, ServiceInvKept
  <2>4. QED
    BY <2>1, <2>2, <2>3
<1>3. QED
  BY <1>1, <1>2, PTL DEF RagSpec

(* Every reachable state of the Diagnosis Service is well typed, its rows  *)
(* refer to anomalies that have one, and a prompt has shown at most TopK   *)
(* incidents, of the collection (diagnosis_service/app/main.py).           *)
THEOREM DiagnosisTypeCorrect == RagSpec => []TypeOK
<1>1. ServiceInv => TypeOK
  BY DEF ServiceInv, ServiceTypes, InputOK, PlaceOK, DraftOK, RowsOK, TypeOK, Alive
<1>2. QED
  BY <1>1, RagInvariance, PTL

(* At least once: a committed anomaly has been handled, whatever crashed   *)
(* or failed before (diagnosis_service/app/main.py, run_consumer).         *)
THEOREM DiagnosisAtLeastOnce == RagSpec => []CommittedIsHandled
<1>1. ServiceInv => CommittedIsHandled
  BY DEF ServiceInv, HandledInv, CommittedIsHandled
<1>2. QED
  BY <1>1, RagInvariance, PTL

-----------------------------------------------------------------------------
(* The refinement: what a step means for the log, for what is handled and  *)
(* for what is committed.                                                  *)

(* The service never fetches behind its committed offset.                  *)
NotBehind == member # "none" => committed <= position

LEMMA NotBehindStep == ServiceTypes /\ NotBehind /\ Next => NotBehind'
<1> SUFFICES ASSUME ServiceTypes, NotBehind, Next PROVE NotBehind'
  OBVIOUS
<1>1. committed \in Nat /\ position \in Nat
  BY DEF ServiceTypes, PlaceOK, InputOK
<1>2. CASE Poll
  <2>1. committed' = committed /\ member # "none" /\ position' = end'
    BY <1>2 DEF Poll
  <2>2. end' \in Int /\ position < end'
    BY <1>1, <1>2 DEF Poll, ServiceTypes, InputOK
  <2>3. QED
    BY <1>1, <2>1, <2>2 DEF NotBehind
<1>3. CASE Rebalance \/ Commit \/ Crash \/ LoopEnds \/ CommitFails
  BY <1>1, <1>3 DEF Rebalance, StartOffset, Commit, Crash, LoopEnds, CommitFails, Leave, NotBehind
<1>4. CASE ~ (Poll \/ Rebalance \/ Commit \/ Crash \/ LoopEnds \/ CommitFails)
  <2>1. committed' = committed /\ position' = position /\ (member' # "none" => member # "none")
    BY <1>4 DEF Next, Service, ProcessMessage, Announce, Start, Evict, PollEmpty, SkipUnreadable,
                Generate, GenerateFails, Persist, Return, groupVars, serviceVars, vars
  <2>2. QED
    BY <2>1 DEF NotBehind
<1>5. QED
  BY <1>2, <1>3, <1>4

LEMMA DiagnosisSimulation ==
    ASSUME ServiceTypes, HandledInv, NotBehind, Next
    PROVE  [Delivery!Next]_(Delivery!vars)
<1>1. ASSUME NEW a \in Anomalies \cup {Unreadable}, Announce(a) PROVE Delivery!Next
  <2>1. Delivery!Append1(0, a)
    BY <1>1 DEF Announce, Delivery!Append1
  <2>2. QED
    BY <2>1 DEF Delivery!Next
<1>2. ASSUME Return, pc \in {"batch", "persist"}, cursor < end PROVE Delivery!Next
  <2>1. cursor \in 0..(Len(published) - 1) /\ cursor < Len(published)
    BY <1>2 DEF ServiceTypes, InputOK, PlaceOK
  <2>2. 0..(cursor - 1) \subseteq handled
    BY <1>2, Zenon DEF HandledInv
  <2>3. Delivery!Settle(0, cursor)
    BY <1>2, <2>1, <2>2 DEF Return, inputVars, Delivery!Settle
  <2>4. QED
    BY <2>1, <2>3 DEF Delivery!Next
<1>3. ASSUME Commit \/ CommitFails PROVE Delivery!Next
  <2>1. /\ pc = "batch" /\ cursor = end /\ committed' \in {committed, position}
        /\ UNCHANGED <<published, handled>>
    BY <1>3 DEF Commit, CommitFails, Leave, inputVars
  <2>2. /\ position \in {end, committed} /\ committed <= position
        /\ committed \in Nat /\ position \in Nat
    BY <2>1 DEF ServiceTypes, InputOK, PlaceOK, NotBehind
  <2>3. committed' >= committed
    BY <2>1, <2>2
  <2>4. 0..(committed' - 1) \subseteq handled
    <3>1. CASE committed' = committed
      BY <3>1, Zenon DEF HandledInv
    <3>2. CASE committed' = cursor
      BY <2>1, <3>2, Zenon DEF HandledInv
    <3>3. QED
      BY <2>1, <2>2, <3>1, <3>2
  <2>5. Delivery!Acknowledge
    BY <2>1, <2>3, <2>4 DEF Delivery!Acknowledge
  <2>6. QED
    BY <2>5 DEF Delivery!Next
<1>4. ASSUME UNCHANGED <<published, handled, committed>> PROVE UNCHANGED Delivery!vars
  BY <1>4 DEF Delivery!vars
<1>5. ASSUME ProcessMessage
      PROVE  \/ Return /\ pc \in {"batch", "persist"} /\ cursor < end
             \/ UNCHANGED <<published, handled, committed>>
  BY <1>5 DEF ProcessMessage, SkipUnreadable, Generate, GenerateFails, Persist, inputVars, ServiceTypes,
              PlaceOK
<1>6. ASSUME Start \/ Crash \/ LoopEnds \/ Rebalance \/ Evict \/ Poll \/ PollEmpty
      PROVE  UNCHANGED <<published, handled, committed>>
  BY <1>6 DEF Start, Crash, LoopEnds, Leave, Rebalance, Evict, Poll, PollEmpty, inputVars, vars
<1>7. QED
  BY <1>1, <1>2, <1>3, <1>4, <1>5, <1>6 DEF Next, Service

(* Batches of calls of the model, evictions, crashes, failed commits and   *)
(* repeats are a way to deliver each anomaly at least once and in order,   *)
(* whatever the knowledge base does meanwhile                              *)
(* (diagnosis_service/app/main.py, run_consumer).                          *)
THEOREM DiagnosisDelivers == RagSpec => ImplementsDelivery
<1>1. RagInit => Delivery!Init /\ NotBehind
  BY DEF RagInit, Init, Delivery!Init, NotBehind
<1>2. ASSUME UNCHANGED ServiceStateVars PROVE UNCHANGED Delivery!vars /\ (NotBehind => NotBehind')
  BY <1>2 DEF ServiceStateVars, groupVars, serviceVars, Delivery!vars, NotBehind
<1>3. ServiceInv /\ NotBehind /\ [DiagnosisStep \/ KnowledgeStep]_ragVars
         => NotBehind' /\ [Delivery!Next]_(Delivery!vars)
  <2>1. DiagnosisStep \/ UNCHANGED ServiceStateVars \/ ~ [DiagnosisStep \/ KnowledgeStep]_ragVars
    BY DEF KnowledgeStep, ragVars, vars, inputVars, ServiceStateVars
  <2>2. QED
    BY <1>2, <2>1, NotBehindStep, DiagnosisSimulation DEF DiagnosisStep, ServiceInv
<1>4. QED
  BY <1>1, <1>3, RagInvariance, PTL DEF RagSpec, ImplementsDelivery, Delivery!Spec

(* A message is diagnosed at most once per assignment of the partition:    *)
(* no other step makes process_anomaly_message run for it again            *)
(* (diagnosis_service/app/main.py, run_consumer).                          *)
THEOREM DiagnosisOncePerAssignment == RagSpec => []DiagnosesBoundedByAssignments
<1>1. ServiceInv => DiagnosesBoundedByAssignments
  <2> SUFFICES ASSUME ServiceInv, NEW d \in diagnoses
               PROVE  Cardinality({e \in diagnoses : e.at = d.at}) <= generation
    BY DEF DiagnosesBoundedByAssignments
  <2>1. d.at \in Nat
    <3>1. d.at \in handled /\ handled \subseteq 0..(Len(published) - 1)
      BY DEF ServiceInv, ServiceTypes, RowsOK
    <3>2. Len(published) \in Nat
      BY DEF ServiceInv, ServiceTypes, InputOK
    <3>3. d.at \in 0..(Len(published) - 1)
      BY <3>1
    <3>4. QED
      BY <3>2, <3>3
  <2>2. /\ Cardinality(RowsAt(d.at)) \in Nat /\ generation \in Nat /\ Expected(d.at) \in 0..2
        /\ Cardinality(RowsAt(d.at)) + Expected(d.at) <= generation
    BY <2>1, RowsAtFinite, ExpectedType DEF ServiceInv, ServiceTypes, RowsOK, RepeatsInv
  <2>3. QED
    BY <2>2 DEF RowsAt
<1>2. QED
  BY <1>1, RagInvariance, PTL

(* "pending" after an anomaly was handled stands for a useless reply or a  *)
(* failed call, for any replies (rag_pipeline.py).                         *)
THEOREM PendingHasReason == RagSpec => []PendingIsExplained
<1>1. ServiceInv => PendingIsExplained
  <2> SUFFICES ASSUME ServiceInv PROVE PendingIsExplained
    OBVIOUS
  <2> DEFINE Pending == {o \in handled \ unusable :
                            published[o + 1] \in stored /\ Answer(published[o + 1]) = "pending"}
  <2>1. ASSUME NEW o \in handled \ unusable, Answer(published[o + 1]) = "pending"
        PROVE  \A d \in diagnoses : d.anomaly # published[o + 1]
    BY <2>1 DEF Answer
  <2>2. Pending \subseteq Lost
    BY <2>1 DEF ServiceInv, ServiceTypes, RowsOK, InputOK, Lost
  <2>3. Cardinality(Pending) <= Cardinality(Lost) /\ Cardinality(Pending) \in Nat
    BY <2>2, LostFinite, DoesNotGrow DEF ServiceInv, ServiceTypes
  <2>4. Cardinality(Pending) <= faults
    BY <2>3, LostFinite DEF ServiceInv, ServiceTypes, RowsOK, PendingInv
  <2>5. QED
    BY <2>4 DEF PendingIsExplained
<1>2. QED
  BY <1>1, RagInvariance, PTL

(* A 201 stands for a listed incident, and a listed incident for one that  *)
(* can be retrieved (knowledge.py, ingest_incident).                       *)
THEOREM StoresAgree == RagSpec => []ConfirmedIsRetrievable
<1>1. KnowledgeInv => ConfirmedIsRetrievable
  BY DEF KnowledgeInv, StoresInv, ConfirmedIsRetrievable, Knowledge!ConfirmedIsRetrievable
<1>2. QED
  BY <1>1, RagInvariance, PTL

(* Each run of the script adds a file once at most                         *)
(* (scripts/ingest_incidents.py).                                          *)
THEOREM CopiesBounded == RagSpec => []CopiesBoundedByRuns
<1>1. KnowledgeInv => CopiesBoundedByRuns
  <2> DEFINE Copies(f) == {i \in collection : source[i] = f}
  <2>1. ASSUME KnowledgeInv, NEW f \in 1..Files PROVE Cardinality(Copies(f)) <= runs
    <3>1. Copies(f) \subseteq Sent(f)
      BY <2>1 DEF KnowledgeInv, KnowledgeTypes, Sent
    <3>2. Cardinality(Copies(f)) <= Cardinality(Sent(f)) /\ Cardinality(Copies(f)) \in Nat
      BY <3>1, SentFinite, DoesNotGrow
    <3>3. /\ Cardinality(Sent(f)) + Due(f) <= runs /\ Due(f) \in {0, 1} /\ runs \in Nat
          /\ Cardinality(Sent(f)) \in Nat
      BY <2>1, SentFinite DEF KnowledgeInv, KnowledgeTypes, RunsInv, Due
    <3>4. QED
      BY <3>2, <3>3
  <2>2. \A S : Knowledge!Cardinality(S) = Cardinality(S)
    BY DEF Cardinality, Knowledge!Cardinality
  <2>3. QED
    BY <2>1, <2>2 DEF CopiesBoundedByRuns, Knowledge!CopiesBoundedByRuns
<1>2. QED
  BY <1>1, RagInvariance, PTL

(* The incidents that the prompts of the diagnoses have shown are listed,  *)
(* being ingested, or the remains of a failure (rag_pipeline.py with       *)
(* knowledge.py).                                                          *)
THEOREM ShownTraceable == RagSpec => []ShownIsListed
<1>1. ServiceInv /\ KnowledgeInv => ShownIsListed
  <2> SUFFICES ASSUME ServiceInv, KnowledgeInv PROVE ShownIsListed
    OBVIOUS
  <2> DEFINE Shown  == UNION {d.shown : d \in diagnoses}
             Strays == Shown \ (listed \cup InService)
  <2>1. Shown \subseteq collection
    BY DEF ServiceInv, ServiceTypes, RowsOK
  <2>2. /\ IsFiniteSet(Unlisted) /\ Cardinality(Unlisted) \in Nat /\ ingestFaults \in Nat
        /\ Cardinality(Unlisted) <= ingestFaults + Awaiting
    BY UnlistedFinite DEF KnowledgeInv, KnowledgeTypes, StoresInv
  <2>3. Strays \subseteq Unlisted \ InService
    BY <2>1 DEF Unlisted
  <2>4. CASE awaited \in InService
    <3>1. Strays \subseteq Unlisted \ {awaited} /\ awaited \in Unlisted
      BY <2>3, <2>4 DEF Unlisted
    <3>2. /\ IsFiniteSet(Unlisted \ {awaited})
          /\ Cardinality(Unlisted \ {awaited}) = Cardinality(Unlisted) - 1
      BY <2>2, <3>1, FS_RemoveElement
    <3>3. Cardinality(Strays) <= Cardinality(Unlisted) - 1 /\ Cardinality(Strays) \in Nat
      BY <3>1, <3>2, DoesNotGrow
    <3>4. QED
      BY <2>2, <2>4, <3>3 DEF Awaiting, ShownIsListed, InService
  <2>5. CASE awaited \notin InService
    <3>1. Cardinality(Strays) <= Cardinality(Unlisted) /\ Cardinality(Strays) \in Nat
      BY <2>2, <2>3, DoesNotGrow
    <3>2. QED
      BY <2>2, <2>5, <3>1 DEF Awaiting, ShownIsListed, InService
  <2>6. QED
    BY <2>4, <2>5
<1>2. QED
  BY <1>1, RagInvariance, PTL
=============================================================================

--------------------------- MODULE KnowledgeBase ---------------------------
(***************************************************************************)
(* The knowledge base of incidents: scripts/ingest_incidents.py posts the  *)
(* files of data/incidents one after the other, and the API Gateway        *)
(* (routers/knowledge.py, knowledge.py) gives each post a fresh            *)
(* incident_id, upserts its chunks into ChromaDB in a thread and then      *)
(* inserts its row into incidents_knowledge.                               *)
(*                                                                         *)
(* There is no key by which two posts of a file could be recognised, and   *)
(* nothing undoes the chunks when the row fails.  A script that has given  *)
(* up on a post goes on with the next file; the gateway goes on too.       *)
(***************************************************************************)
EXTENDS Naturals, FiniteSets

CONSTANTS
    Files,    \* number of incident files
    MaxRuns,  \* bound: runs of the script
    MaxFaults \* bound: failures, timeouts and crashes

VARIABLES
    runs,       \* runs of the script that were started
    file,       \* the file the script posts next, 0 when it does not run
    awaited,    \* the incident_id whose answer it waits for, 0 for none
    posts,      \* how many posts there were, each its own incident_id
    source,     \* the file of each post
    stage,      \* where ingest_incident is with each post
    collection, \* the incident_ids with chunks in ChromaDB
    listed,     \* the incident_ids with a row in incidents_knowledge
    confirmed,  \* history: the incident_ids answered 201
    faults

scriptVars == <<runs, file, awaited>>
storeVars  == <<collection, listed>>
vars == <<scriptVars, posts, source, stage, storeVars, confirmed, faults>>

Incidents == 1..(Files * MaxRuns)
Stage == {"unused", "embedding", "inserting", "done"}

-----------------------------------------------------------------------------
Init ==
    /\ runs = 0 /\ file = 0 /\ awaited = 0 /\ posts = 0
    /\ source = [i \in Incidents |-> 0]
    /\ stage = [i \in Incidents |-> "unused"]
    /\ collection = {} /\ listed = {} /\ confirmed = {} /\ faults = 0

Fault == faults < MaxFaults /\ faults' = faults + 1

-----------------------------------------------------------------------------
(* The script *)

StartScript ==
    /\ file = 0 /\ runs < MaxRuns /\ Files > 0
    /\ runs' = runs + 1
    /\ file' = 1
    /\ UNCHANGED <<awaited, posts, source, stage, storeVars, confirmed, faults>>

Post ==
    /\ file > 0 /\ awaited = 0
    /\ posts' = posts + 1
    /\ awaited' = posts'
    /\ source' = [source EXCEPT ![posts'] = file]
    /\ stage' = [stage EXCEPT ![posts'] = "embedding"]
    /\ UNCHANGED <<runs, file, storeVars, confirmed, faults>>

(* Whatever the answer, the script counts it and takes the next file; after *)
(* the last it ends.                                                       *)
NextFile ==
    /\ awaited' = 0
    /\ file' = IF file = Files THEN 0 ELSE file + 1
    /\ UNCHANGED runs

(* Mutant of GiveUp: the script posts the file again. *)
MutantGiveUp ==
    /\ awaited > 0 /\ posts < Files * MaxRuns
    /\ Fault
    /\ posts' = posts + 1
    /\ awaited' = posts'
    /\ source' = [source EXCEPT ![posts'] = file]
    /\ stage' = [stage EXCEPT ![posts'] = "embedding"]
    /\ UNCHANGED <<runs, file, storeVars, confirmed>>

(* The client's 60 s are over, while the gateway is still at work.         *)
GiveUp ==
    /\ awaited > 0
    /\ Fault /\ NextFile
    /\ UNCHANGED <<posts, source, stage, storeVars, confirmed>>

(* The answer to a post reaches the script, unless it has given up.        *)
Answered(i) == IF awaited = i THEN NextFile ELSE UNCHANGED scriptVars

-----------------------------------------------------------------------------
(* ingest_incident, called by ingest_incident_document *)

(* _sync_chunk_embed_upsert returns. *)
Upsert(i) ==
    /\ stage[i] = "embedding"
    /\ collection' = collection \cup {i}
    /\ stage' = [stage EXCEPT ![i] = "inserting"]
    /\ UNCHANGED <<scriptVars, posts, source, listed, confirmed, faults>>

(* Bedrock fails, or ChromaDB does, in the upsert or only in the count     *)
(* that follows it: 500.                                                   *)
UpsertFails(i) ==
    /\ stage[i] = "embedding"
    /\ Fault
    /\ \E upserted \in SUBSET {i} : collection' = collection \cup upserted
    /\ stage' = [stage EXCEPT ![i] = "done"]
    /\ Answered(i)
    /\ UNCHANGED <<posts, source, listed, confirmed>>

(* Mutant of InsertRow: ON CONFLICT (title) DO NOTHING. *)
MutantInsertRow(i) ==
    /\ stage[i] = "inserting"
    /\ listed' = IF \E k \in listed : source[k] = source[i] THEN listed ELSE listed \cup {i}
    /\ stage' = [stage EXCEPT ![i] = "done"]
    /\ confirmed' = IF awaited = i THEN confirmed \cup {i} ELSE confirmed
    /\ Answered(i)
    /\ UNCHANGED <<posts, source, collection, faults>>

InsertRow(i) ==
    /\ stage[i] = "inserting"
    /\ listed' = listed \cup {i}
    /\ stage' = [stage EXCEPT ![i] = "done"]
    /\ confirmed' = IF awaited = i THEN confirmed \cup {i} ELSE confirmed
    /\ Answered(i)
    /\ UNCHANGED <<posts, source, collection, faults>>

(* Mutant of InsertFails: the failure is logged and answered 201. *)
MutantInsertFails(i) ==
    /\ stage[i] = "inserting"
    /\ Fault
    /\ \E inserted \in SUBSET {i} : listed' = listed \cup inserted
    /\ stage' = [stage EXCEPT ![i] = "done"]
    /\ confirmed' = IF awaited = i THEN confirmed \cup {i} ELSE confirmed
    /\ Answered(i)
    /\ UNCHANGED <<posts, source, collection>>

(* PostgreSQL fails, before or after the INSERT took effect: 500.          *)
InsertFails(i) ==
    /\ stage[i] = "inserting"
    /\ Fault
    /\ \E inserted \in SUBSET {i} : listed' = listed \cup inserted
    /\ stage' = [stage EXCEPT ![i] = "done"]
    /\ Answered(i)
    /\ UNCHANGED <<posts, source, collection, confirmed>>

(* The gateway dies with its posts; the thread's upsert may be on its way. *)
InService == {i \in Incidents : stage[i] \in {"embedding", "inserting"}}

Crash ==
    /\ InService # {}
    /\ Fault
    /\ stage' = [i \in Incidents |-> IF i \in InService THEN "done" ELSE stage[i]]
    /\ \E upserted \in SUBSET InService : collection' = collection \cup upserted
    /\ IF awaited > 0 THEN NextFile ELSE UNCHANGED scriptVars
    /\ UNCHANGED <<posts, source, listed, confirmed>>

-----------------------------------------------------------------------------
Next ==
    \/ StartScript \/ Post \/ GiveUp \/ Crash
    \/ \E i \in Incidents :
          Upsert(i) \/ UpsertFails(i) \/ InsertRow(i) \/ InsertFails(i)

Spec == Init /\ [][Next]_vars

-----------------------------------------------------------------------------
(* Properties *)

(* A 201 means that the incident is listed, and what is listed can be      *)
(* retrieved, however other posts fail or overtake it: its chunks were in  *)
(* ChromaDB before its row, and its row before the answer (knowledge.py,   *)
(* ingest_incident; routers/knowledge.py, ingest_incident_document).       *)
ConfirmedIsRetrievable == confirmed \subseteq listed /\ listed \subseteq collection

(* A file is in the knowledge base at most once per run of the script,     *)
(* whatever times out: no caller posts a file again by itself              *)
(* (ingest_incidents.py, main).                                            *)
CopiesBoundedByRuns ==
    \A f \in 1..Files : Cardinality({i \in collection : source[i] = f}) <= runs
=============================================================================

---------------------------- MODULE RagPipeline ----------------------------
(***************************************************************************)
(* The Diagnosis Service and the knowledge base it retrieves from.  They   *)
(* share the collection of ChromaDB: the gateway writes the chunks of an   *)
(* incident before its row, and a diagnosis can rest on them in between.   *)
(***************************************************************************)
EXTENDS DiagnosisService

CONSTANTS Files, MaxRuns, MaxIngestFaults

ASSUME RagPipelineAssumption ==
    Files \in Nat /\ MaxRuns \in Nat /\ MaxIngestFaults \in Nat

VARIABLES runs, file, awaited, posts, source, stage, listed, confirmed, ingestFaults

knowledgeVars == <<runs, file, awaited, posts, source, stage, listed, confirmed, ingestFaults>>

Knowledge == INSTANCE KnowledgeBase WITH MaxFaults <- MaxIngestFaults, faults <- ingestFaults

RagInit == Init /\ Knowledge!Init

(* The Diagnosis Service acts, or Anomaly Detection.                       *)
DiagnosisStep == Next /\ UNCHANGED knowledgeVars

(* The script or the API Gateway acts.                                     *)
KnowledgeStep ==
    /\ Knowledge!Next
    /\ UNCHANGED <<published, stored, committed, groupVars, serviceVars, storeVars, unusable,
                   handled, faults>>

ragVars == <<vars, knowledgeVars>>

RagSpec == RagInit /\ [][DiagnosisStep \/ KnowledgeStep]_ragVars /\ Fairness

-----------------------------------------------------------------------------
ConfirmedIsRetrievable == Knowledge!ConfirmedIsRetrievable
CopiesBoundedByRuns    == Knowledge!CopiesBoundedByRuns

(* An incident that a diagnosis was generated from is in the list of       *)
(* incidents, unless its row is about to be inserted or a failure has kept *)
(* it out: what a prompt has shown and nobody can look up is no more than  *)
(* what has failed, and nothing is so for ever because of a race           *)
(* (rag_pipeline.py, retrieve_similar_incidents; knowledge.py,             *)
(* ingest_incident).                                                       *)
ShownIsListed ==
    LET Shown == UNION {d.shown : d \in diagnoses} IN
    Cardinality(Shown \ (listed \cup Knowledge!InService)) <= ingestFaults
=============================================================================

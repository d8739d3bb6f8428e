-------------------------- MODULE AnomalyPipeline --------------------------
(***************************************************************************)
(* Anomaly Detection and the Diagnosis Service together.  They share the   *)
(* topic anomalies.detected and the table anomalies, and nothing else: the *)
(* row and the message of an anomaly are written by two calls, and the     *)
(* Diagnosis Service can act between them and their failures.              *)
(***************************************************************************)
EXTENDS AnomalyDetection

CONSTANTS DiagnosisMaxRecords, Unreadable

ASSUME AnomalyPipelineAssumption ==
    DiagnosisMaxRecords \in Nat \ {0} /\ Unreadable \notin Nat

VARIABLES
    dCommitted, dPc, dPosition, dCursor, dEnd, draft, unusable,
    diagnoses, rejected, dNextId, handled, dMember, dGeneration

diagnosisVars ==
    <<dCommitted, dPc, dPosition, dCursor, dEnd, draft, unusable, diagnoses, rejected, dNextId,
      handled, dMember, dGeneration>>

(* What the Diagnosis Service sees of Anomaly Detection. *)
Announced == [k \in DOMAIN published |-> published[k].id]
StoredIds == {a.id : a \in anomalies}

(* Here the model's reply is always useful, and the knowledge base empty.  *)
UsefulReply == [form |-> "object", has |-> {"summary", "confidence", "lists"}, misfit |-> {}, confidence |-> 5]

Diagnosing == INSTANCE DiagnosisService WITH
    Anomalies <- Nat, MaxRecords <- DiagnosisMaxRecords,
    Replies <- {UsefulReply}, TopK <- 0, collection <- {}, RestartsAfterExit <- TRUE,
    published <- Announced, stored <- StoredIds,
    committed <- dCommitted, pc <- dPc, position <- dPosition, cursor <- dCursor, end <- dEnd,
    nextId <- dNextId, member <- dMember, generation <- dGeneration

PipelineInit ==
    /\ Init
    /\ dCommitted = 0 /\ dPc = "down" /\ dPosition = 0 /\ dCursor = 0 /\ dEnd = 0
    /\ draft = Diagnosing!NoDraft /\ unusable = {}
    /\ diagnoses = {} /\ rejected = {} /\ dNextId = 0 /\ handled = {}
    /\ dMember = "none" /\ dGeneration = 0

(* Anomaly Detection, its producers or its Redis act. *)
DetectionStep == Next /\ UNCHANGED diagnosisVars

(* The Diagnosis Service acts. *)
DiagnosisStep ==
    /\ UNCHANGED <<enriched, committed, groupVars, windowVars, storeVars, serviceVars, examined>>
    /\ Diagnosing!Service

PipelineNext == DetectionStep \/ DiagnosisStep

pipelineVars == <<vars, diagnosisVars>>

PipelineSpec == PipelineInit /\ [][PipelineNext]_pipelineVars

-----------------------------------------------------------------------------
(* The foreign key of diagnoses (init.sql:98) never races the INSERT of    *)
(* the anomaly: it rejects a diagnosis only if the anomaly has no row and  *)
(* never gets one.                                                         *)
ForeignKeyNeverRaces == rejected \cap StoredIds = {}

(* Redelivery multiplies along the pipeline, and no further: one event is  *)
(* diagnosed at most once per assignment of its partition to Anomaly       *)
(* Detection and of the anomalies' to the Diagnosis Service, restarts and  *)
(* evictions in the middle of a batch included.                            *)
EventOf(d) == published[d.at + 1].at

DiagnosesPerEvent ==
    \A d \in diagnoses :
        Cardinality({e \in diagnoses : EventOf(e) = EventOf(d)}) <= generation * dGeneration

(* Anomaly Detection announces an anomaly the way Announce of              *)
(* DiagnosisService assumes: by one more message, and of the rows that the *)
(* Diagnosis Service may ask for, that of this anomaly alone appears with  *)
(* it, or none does, ever.                                                 *)
MessageIds == {published[k].id : k \in DOMAIN published}
KnownRows    == StoredIds \cap MessageIds

AnnouncesAsAssumed ==
    [][\E a \in MessageIds' :
          /\ Announced' = Append(Announced, a)
          /\ KnownRows' \in {KnownRows, KnownRows \cup {a}}]_<<Announced, KnownRows>>

(* Nothing is lost along the pipeline without a failure: an anomaly that   *)
(* Anomaly Detection has found and no longer holds has its row, its        *)
(* message and, once the message has been handled, its diagnosis, but for  *)
(* as many as there were failures and crashes of the two services together *)
(* (anomaly_detection and diagnosis_service, main.py).                     *)
Held(id) == pc \in {"record", "publish"} /\ found.id = id

Complete(id) ==
    /\ id \in StoredIds
    /\ \E k \in DOMAIN published :
          /\ published[k].id = id
          /\ k - 1 \in handled => \E d \in diagnoses : d.anomaly = id

LossesAreFailures ==
    Cardinality({id \in 1..(nextId - 1) : ~Held(id) /\ ~Complete(id)}) <= faults
=============================================================================

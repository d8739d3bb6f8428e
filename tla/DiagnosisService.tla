-------------------------- MODULE DiagnosisService --------------------------
(***************************************************************************)
(* The Diagnosis Service (services/diagnosis_service/app): it reads        *)
(* anomalies.detected in batches, runs the RAG pipeline on each anomaly    *)
(* and inserts the diagnosis.  Context, retrieval and generation only read *)
(* and end together or with one exception: they are one step, Generate.    *)
(*                                                                         *)
(* "published" and "stored" belong to Anomaly Detection, and Announce is   *)
(* all this module assumes of it; "collection" belongs to the knowledge    *)
(* base.                                                                   *)
(***************************************************************************)
EXTENDS Integers, Sequences, FiniteSets, FiniteSetsExt

CONSTANTS
    Anomalies,  \* the anomaly_ids
    Unreadable, \* a payload that AnomalyDetectedMessage rejects
    Replies,    \* what the model may reply
    TopK,       \* retrieval_top_k
    MaxRecords, \* getmany's max_records
    MaxLog,     \* bound: messages in the topic
    RestartsAfterExit, \* does the supervisor restart a process that exits with 0?
    MaxFaults   \* bound: failures, crashes, evictions and signals

ASSUME DiagnosisServiceAssumption ==
    /\ MaxRecords \in Nat \ {0} /\ TopK \in Nat
    /\ MaxLog \in Nat /\ MaxFaults \in Nat
    /\ RestartsAfterExit \in BOOLEAN
    /\ Unreadable \notin Anomalies

(* The reply: JSON or prose, an object or another value; of the object,    *)
(* which fields there are, which of them have not the type the prompt asks *)
(* for, and the confidence in tenths.                                      *)
Fields == {"summary", "confidence", "lists"}
Reply  == [form : {"object", "value", "prose"}, has : SUBSET Fields, misfit : SUBSET Fields,
           confidence : Int]

ASSUME RepliesAssumption ==
    Replies \subseteq Reply /\ \A reply \in Replies : reply.misfit \subseteq reply.has

VARIABLES
    published,  \* the partition of anomalies.detected
    stored,     \* the anomaly_ids with a row in anomalies
    collection, \* the incidents with chunks in ChromaDB
    committed,  \* the group's committed offset
    member,     \* does the broker take commits of the service, once it has joined?
    generation, \* how many times the partition has been assigned to it
    pc,         \* where the service is in run_consumer / process_anomaly_message
    position,   \* the next offset it fetches
    cursor,     \* the offset it processes next ...
    end,        \* ... in the batch that ends before this offset
    draft,      \* the diagnosis it is about to persist
    diagnoses,  \* rows of the diagnoses table
    rejected,   \* the anomalies whose diagnosis the foreign key has rejected
    nextId,     \* the next fresh diagnosis_id
    unusable,   \* history: the offsets whose reply was of no use
    handled,    \* the offsets for which process_anomaly_message has returned
    faults

inputVars   == <<published, stored, collection>>
groupVars   == <<member, generation>>
serviceVars == <<pc, position, cursor, end, draft>>
storeVars   == <<diagnoses, rejected, nextId>>
vars == <<inputVars, committed, groupVars, serviceVars, storeVars, unusable, handled, faults>>

-----------------------------------------------------------------------------
NoDraft == [misfit |-> {}, confidence |-> 0, shown |-> {}]

Init ==
    /\ published = <<>> /\ stored = {} /\ collection = {}
    /\ committed = 0 /\ member = "none" /\ generation = 0
    /\ pc = "down" /\ position = 0 /\ cursor = 0 /\ end = 0 /\ draft = NoDraft
    /\ diagnoses = {} /\ rejected = {} /\ nextId = 0
    /\ unusable = {} /\ handled = {} /\ faults = 0

Fault == faults < MaxFaults /\ faults' = faults + 1

(* Anomaly Detection publishes an anomaly after its INSERT, which may have *)
(* failed.                                                                 *)
Announce(a) ==
    /\ Len(published) < MaxLog
    /\ published' = Append(published, a)
    /\ \/ stored' = stored \cup ({a} \cap Anomalies) /\ UNCHANGED faults
       \/ Fault /\ UNCHANGED stored
    /\ UNCHANGED <<collection, committed, groupVars, serviceVars, storeVars, unusable, handled>>

(* Mutant of StartOffset: auto_offset_reset = latest on every assignment.  *)
MutantStartOffset == Len(published)

(* Where the service begins to fetch when it is assigned the partition.    *)
StartOffset == committed

Alive == pc \notin {"down", "exited"}

(* The client joins the group in the background and is assigned the        *)
(* partition: at the start, and again after an eviction, in the middle of  *)
(* a batch too, which the loop goes on with.                               *)
Rebalance ==
    /\ Alive /\ member # "member"
    /\ member' = "member"
    /\ generation' = generation + 1
    /\ position' = StartOffset
    /\ UNCHANGED <<inputVars, committed, storeVars, pc, cursor, end, draft, unusable, handled,
                   faults>>

(* Heartbeats missed, or a batch of calls to the LLM that takes longer     *)
(* than max_poll_interval_ms: the broker takes the partition away.  The    *)
(* client does not know it yet.                                            *)
Evict ==
    /\ member = "member"
    /\ Fault
    /\ member' = "evicted"
    /\ UNCHANGED <<inputVars, committed, generation, serviceVars, storeVars, unusable, handled>>

(* Mutant of Start: only an abnormal end is restarted. *)
MutantStartAfterCrash ==
    /\ pc = "down"
    /\ pc' = "poll"
    /\ UNCHANGED <<inputVars, committed, groupVars, storeVars, position, cursor, end, draft,
                   unusable, handled, faults>>

Start ==
    /\ pc = "down" \/ (pc = "exited" /\ RestartsAfterExit)
    /\ pc' = "poll"
    /\ UNCHANGED <<inputVars, committed, groupVars, storeVars, position, cursor, end, draft,
                   unusable, handled, faults>>

(* All volatile state goes with the process. *)
Leave(stage) ==
    /\ pc' = stage /\ member' = "none"
    /\ position' = 0 /\ cursor' = 0 /\ end' = 0 /\ draft' = NoDraft
    /\ UNCHANGED <<inputVars, generation, unusable, handled>>

Crash ==
    /\ Alive
    /\ Fault /\ Leave("down")
    /\ UNCHANGED <<committed, storeVars>>

(* getmany raises, or a signal has ended the loop: run_consumer logs it,   *)
(* stops the clients and returns, and the process exits with status 0.     *)
LoopEnds ==
    /\ pc = "poll"
    /\ Fault /\ Leave("exited")
    /\ UNCHANGED <<committed, storeVars>>

(* Mutant of Poll: the next offset to fetch is one too far. *)
MutantPoll ==
    /\ pc = "poll" /\ member # "none"
    /\ \E fetched \in 1..MaxRecords :
          /\ position + fetched <= Len(published)
          /\ end' = position + fetched
    /\ pc' = "batch"
    /\ cursor' = position
    /\ position' = end' + 1
    /\ UNCHANGED <<inputVars, committed, groupVars, storeVars, draft, unusable, handled, faults>>

Poll ==
    /\ pc = "poll" /\ member # "none"
    /\ \E fetched \in 1..MaxRecords :
          /\ position + fetched <= Len(published)
          /\ end' = position + fetched
    /\ pc' = "batch"
    /\ cursor' = position
    /\ position' = end'
    /\ UNCHANGED <<inputVars, committed, groupVars, storeVars, draft, unusable, handled, faults>>

(* getmany times out with an empty batch. *)
PollEmpty ==
    /\ pc = "poll"
    /\ UNCHANGED vars

Commit ==
    /\ pc = "batch" /\ cursor = end
    /\ member = "member"
    /\ committed' = position
    /\ pc' = "poll"
    /\ UNCHANGED <<inputVars, groupVars, storeVars, position, cursor, end, draft, unusable,
                   handled, faults>>

(* The broker rejects the commit of a member it has evicted, or the call   *)
(* fails with or without having been applied: as in LoopEnds.              *)
CommitFails ==
    /\ pc = "batch" /\ cursor = end
    /\ \/ member = "evicted" /\ UNCHANGED <<committed, faults>>
       \/ member = "member" /\ Fault /\ committed' \in {committed, position}
    /\ Leave("exited")
    /\ UNCHANGED storeVars

-----------------------------------------------------------------------------
(* process_anomaly_message. *)

(* process_anomaly_message returns and the loop takes the next message.    *)
Return ==
    /\ pc' = "batch"
    /\ cursor' = cursor + 1
    /\ draft' = NoDraft
    /\ handled' = handled \cup {cursor}
    /\ UNCHANGED <<inputVars, committed, groupVars, position, end>>

Message == published[cursor + 1]

SkipUnreadable ==
    /\ pc = "batch" /\ cursor < end
    /\ Message = Unreadable
    /\ Return
    /\ UNCHANGED <<storeVars, unusable, faults>>

(* Mutant of ClampConfidence: what the model says. *)
MutantClampConfidence(confidence) == confidence

ClampConfidence(confidence) == Max({0, Min({10, confidence})})

(* _parse_diagnosis_response: prose becomes a diagnosis that says so, and  *)
(* what an object lacks is filled in.  What the lists hold is not checked, *)
(* and the list of retrieved_incident_ids is one of them: it is what the   *)
(* model claims.                                                           *)
ParseReply(reply) ==
    IF reply.form = "prose"
    THEN [misfit |-> {}, confidence |-> 1]
    ELSE [misfit |-> reply.misfit \ {"confidence"},
          confidence |-> IF "confidence" \in reply.has \ reply.misfit
                         THEN ClampConfidence(reply.confidence) ELSE 1]

(* The incidents that the prompt shows: those of the TopK nearest chunks,  *)
(* which may belong to fewer incidents than there are chunks.              *)
Retrieved ==
    {shown \in SUBSET collection :
        Cardinality(shown) <= TopK /\ (shown = {} => collection = {} \/ TopK = 0)}

(* A reply that is JSON and no object makes _parse_diagnosis_response      *)
(* raise: no diagnosis.                                                    *)
Generate ==
    /\ pc = "batch" /\ cursor < end
    /\ Message # Unreadable
    /\ \/ \E reply \in Replies, shown \in Retrieved :
             /\ reply.form # "value"
             /\ draft' = [misfit |-> ParseReply(reply).misfit,
                          confidence |-> ParseReply(reply).confidence, shown |-> shown]
             /\ pc' = "persist"
             /\ UNCHANGED <<inputVars, committed, groupVars, position, cursor, end, unusable,
                            handled>>
       \/ /\ \E reply \in Replies : reply.form = "value"
          /\ unusable' = unusable \cup {cursor}
          /\ Return
    /\ UNCHANGED <<storeVars, faults>>

(* PostgreSQL, ChromaDB or Bedrock raises: logged, counted, not retried.   *)
GenerateFails ==
    /\ pc = "batch" /\ cursor < end
    /\ Message # Unreadable
    /\ Fault
    /\ Return
    /\ UNCHANGED <<storeVars, unusable>>

(* The row; "at" and "shown" are history: the message it answers, and the  *)
(* incidents it was generated from.                                        *)
Diagnosis == [id |-> nextId, anomaly |-> Message, at |-> cursor,
              servable |-> "lists" \notin draft.misfit, shown |-> draft.shown]

InsertDiagnosis ==
    /\ diagnoses' = diagnoses \cup {Diagnosis}
    /\ nextId' = nextId + 1
    /\ UNCHANGED rejected

(* Mutant of Persist: a rejected diagnosis is generated again. *)
MutantPersist ==
    /\ pc = "persist"
    /\ InsertDiagnosis
    /\ \/ Return /\ UNCHANGED <<unusable, faults>>
       \/ /\ Fault /\ pc' = "batch" /\ draft' = NoDraft
          /\ UNCHANGED <<inputVars, committed, groupVars, position, cursor, end, unusable,
                         handled>>

(* asyncpg takes only a string for the summary, and the CHECK only a       *)
(* confidence from 0 to 1.                                                 *)
DraftIsAccepted == "summary" \notin draft.misfit /\ draft.confidence \in 0..10

(* The INSERT, which the foreign key rejects for an unknown anomaly; any   *)
(* failure of it is logged and the diagnosis dropped.                      *)
Persist ==
    /\ pc = "persist"
    /\ \/ /\ DraftIsAccepted /\ Message \in stored
          /\ InsertDiagnosis
          /\ UNCHANGED <<unusable, faults>>
       \/ /\ DraftIsAccepted /\ Message \notin stored
          /\ rejected' = rejected \cup {Message}
          /\ UNCHANGED <<diagnoses, nextId, unusable, faults>>
       \/ /\ ~DraftIsAccepted
          /\ unusable' = IF "summary" \in draft.misfit THEN unusable \cup {cursor} ELSE unusable
          /\ UNCHANGED <<storeVars, faults>>
       \/ /\ Fault
          /\ (DraftIsAccepted /\ Message \in stored /\ InsertDiagnosis) \/ UNCHANGED storeVars
          /\ UNCHANGED unusable
    /\ Return

-----------------------------------------------------------------------------
(* GET /anomalies/{id}/diagnosis of the API Gateway, for an anomaly with a *)
(* row: the latest diagnosis, which DiagnosisResponse may refuse.          *)
Answer(a) ==
    LET rowsOf == {d \in diagnoses : d.anomaly = a} IN
    IF rowsOf = {} THEN "pending"
    ELSE IF \E d \in rowsOf : d.servable /\ \A e \in rowsOf : e.id <= d.id THEN "diagnosis"
    ELSE "error"

-----------------------------------------------------------------------------
ProcessMessage == SkipUnreadable \/ Generate \/ GenerateFails \/ Persist

Service ==
    \/ Start \/ Crash \/ LoopEnds \/ Rebalance \/ Evict
    \/ Poll \/ PollEmpty \/ ProcessMessage \/ Commit \/ CommitFails

Next ==
    \/ \E a \in Anomalies \cup {Unreadable} : Announce(a)
    \/ Service

Spec == Init /\ [][Next]_vars

(* The supervisor restarts what it restarts at all, the client rejoins the *)
(* group, the event loop runs and every call returns or raises.            *)
Fairness ==
    /\ WF_vars(Start) /\ WF_vars(Rebalance) /\ WF_vars(Poll)
    /\ WF_vars(ProcessMessage) /\ WF_vars(Commit \/ CommitFails)

FairSpec == Spec /\ Fairness

-----------------------------------------------------------------------------
(* Every variable holds a value the program can hold.                      *)
TypeOK ==
    /\ published \in Seq(Anomalies \cup {Unreadable})
    /\ stored \subseteq Anomalies
    /\ committed \in 0..Len(published)
    /\ pc \in {"down", "exited", "poll", "batch", "persist"}
    /\ member \in {"none", "member", "evicted"}
    /\ ~Alive => member = "none"
    /\ pc \in {"batch", "persist"} => member # "none"
    /\ position \in 0..Len(published) /\ end \in 0..Len(published)
    /\ cursor \in 0..end
    /\ pc = "persist" => cursor < end /\ Message \in Anomalies
    /\ draft \in [misfit : SUBSET Fields, confidence : Int, shown : SUBSET collection]
    /\ \A d \in diagnoses :
          /\ d.id \in 0..(nextId - 1) /\ d.anomaly \in stored /\ d.at \in handled
          /\ d.shown \subseteq collection /\ Cardinality(d.shown) <= TopK
    /\ rejected \subseteq Anomalies
    /\ nextId \in Nat /\ generation \in Nat /\ faults \in Nat
    /\ handled \subseteq Nat /\ unusable \subseteq handled

(* At-least-once: a committed anomaly has been handled.                    *)
CommittedIsHandled == \A o \in 0..(committed - 1) : o \in handled

(* The service implements AtLeastOnceDelivery on its partition: an anomaly *)
(* is settled when process_anomaly_message has returned for it, with a     *)
(* diagnosis or without, and acknowledged when the batch is committed      *)
(* (consumer.py, run_consumer).                                            *)
Delivery == INSTANCE AtLeastOnceDelivery WITH
    Partitions <- {0}, Messages <- Anomalies \cup {Unreadable},
    log <- [p \in {0} |-> published], settled <- [p \in {0} |-> handled],
    acked <- [p \in {0} |-> committed]

ImplementsDelivery == Delivery!Spec

(* A message is diagnosed at most once per assignment of the partition:    *)
(* GET .../diagnosis, which shows the latest row, can change its answer    *)
(* only by a redelivery from the committed offset, after a restart or      *)
(* after an eviction in the middle of a batch (main.py, run_consumer).     *)
DiagnosesBoundedByAssignments ==
    \A d \in diagnoses : Cardinality({e \in diagnoses : e.at = d.at}) <= generation

(* GET .../diagnosis answers "pending" for an anomaly that has been        *)
(* handled only if the model's reply was of no use or a call failed:       *)
(* prose, missing fields and a confidence out of range never lose a        *)
(* diagnosis (rag_pipeline.py, _parse_diagnosis_response).                 *)
PendingIsExplained ==
    Cardinality({o \in handled \ unusable :
                    published[o + 1] \in stored /\ Answer(published[o + 1]) = "pending"}) <= faults

(* Whatever fails or crashes, every published anomaly is handled, if the   *)
(* supervisor restarts the process after every exit.                       *)
EveryMessageHandled ==
    \A o \in 0..(MaxLog - 1) : (Len(published) > o) ~> (o \in handled)
=============================================================================

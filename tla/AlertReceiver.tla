--------------------------- MODULE AlertReceiver ---------------------------
(***************************************************************************)
(* The Alert Receiver (services/alert_receiver/app): the webhook that      *)
(* Alertmanager posts to, the table alert_events, the Prometheus gauges    *)
(* and the background triage of critical alerts.                           *)
(*                                                                         *)
(* Alertmanager is external.  It posts the state of the alerts of a group, *)
(* repeats what fires, and posts a resolution to whoever acknowledged the  *)
(* firing alert.  It has one notification per alert on its way, unless it  *)
(* gave up waiting: the handler then runs on beside the next one.          *)
(*                                                                         *)
(* Failed calls, crashes and timeouts are counted in "faults".             *)
(***************************************************************************)
EXTENDS Naturals, Sequences, FiniteSets, FiniteSetsExt

CONSTANTS
    Alerts,      \* the fingerprints
    Critical,    \* those of severity critical
    Labels,      \* the values of the label pipeline (severity is treated alike)
    LabelOf,     \* LabelOf[a]: the label of alert a
    ResetLabels, \* the labels that _sync_firing_gauges sets to 0 first
    Handlers,    \* the webhook requests that can be in flight at once
    MaxEpisodes, \* bound: how often each alert starts to fire
    MaxGauge,    \* bound: a gauge that drifts counts no further
    MaxFaults    \* bound: failed calls, crashes and timeouts

ASSUME AlertReceiverAssumption ==
    /\ IsFiniteSet(Handlers) /\ Critical \subseteq Alerts
    /\ LabelOf \in [Alerts -> Labels]
    /\ ResetLabels \subseteq Labels
    /\ MaxEpisodes \in Nat /\ MaxFaults \in Nat
    /\ MaxGauge \in Nat

VARIABLES
    (* Alertmanager. *)
    firing,   \* firing[a]: a is firing
    told,     \* told[a]: the last state of a that the receiver acknowledged
    episodes, \* episodes[a]: how often a has started to fire
    (* PostgreSQL. *)
    events,   \* rows of alert_events, in the order of their INSERTs
    (* The process of the receiver. *)
    up,
    stage,    \* stage[h]: where the handler h is in receive_alerts
    sent,     \* sent[h]: the payload: the state of each alert in it
    todo,     \* todo[h]: the alerts of the payload not yet processed
    late,     \* late[h]: the alert about to be inserted as resolved
    shot,     \* shot[h]: the firing events that h has read
    waiting,  \* waiting[h]: Alertmanager still waits for the answer
    total,    \* ALERTS_CURRENTLY_FIRING
    gauge,    \* gauge[l]: ALERTS_FIRING_BY_PIPELINE
    triaging, \* the triage tasks: their events and how far they are
    (* The tier of the alerts, and what became of their triage. *)
    platform, \* the alerts of the platform: never changes
    dropped,  \* history: the events whose triage PostgreSQL or a crash cost
    faults

managerVars == <<firing, told, episodes>>
handlerVars == <<stage, sent, todo, late, shot, waiting>>
gaugeVars   == <<total, gauge>>
triageVars  == <<triaging, platform, dropped>>
vars == <<managerVars, events, up, handlerVars, gaugeVars, triageVars, faults>>

(* The alerts of a webhook, and whether each is firing.                    *)
Payload   == UNION {[alerts -> BOOLEAN] : alerts \in SUBSET Alerts}
NoPayload == [a \in {} |-> FALSE]

-----------------------------------------------------------------------------
Init ==
    /\ firing = [a \in Alerts |-> FALSE]
    /\ told = [a \in Alerts |-> FALSE]
    /\ episodes = [a \in Alerts |-> 0]
    /\ events = <<>>
    /\ up = FALSE
    /\ stage = [h \in Handlers |-> "idle"]
    /\ sent = [h \in Handlers |-> NoPayload]
    /\ todo = [h \in Handlers |-> {}]
    /\ late = [h \in Handlers |-> {}]
    /\ shot = [h \in Handlers |-> {}]
    /\ waiting = [h \in Handlers |-> FALSE]
    /\ total = 0 /\ gauge = [l \in Labels |-> 0]
    /\ triaging = {} /\ platform \in SUBSET Alerts /\ dropped = {}
    /\ faults = 0

Fault == faults < MaxFaults /\ faults' = faults + 1

(* SELECT ... WHERE status = 'firing'. *)
FiringEvents == {k \in DOMAIN events : events[k].status = "firing"}

EventOf(a) == {k \in FiringEvents : events[k].alert = a}

-----------------------------------------------------------------------------
(* Prometheus and Alertmanager. *)

Fire(a) ==
    /\ ~firing[a] /\ episodes[a] < MaxEpisodes
    /\ firing' = [firing EXCEPT ![a] = TRUE]
    /\ episodes' = [episodes EXCEPT ![a] = @ + 1]
    /\ UNCHANGED <<told, events, up, handlerVars, gaugeVars, triageVars, faults>>

Resolve(a) ==
    /\ firing[a]
    /\ firing' = [firing EXCEPT ![a] = FALSE]
    /\ UNCHANGED <<told, episodes, events, up, handlerVars, gaugeVars, triageVars, faults>>

(* A payload holds alerts that fire, again or still, and alerts whose      *)
(* firing was acknowledged and that fire no more.                          *)
Notify(h, alerts) ==
    /\ up /\ stage[h] = "idle"
    /\ alerts # {} /\ \A a \in alerts : firing[a] \/ told[a]
    /\ \A other \in Handlers : waiting[other] => DOMAIN sent[other] \cap alerts = {}
    /\ stage' = [stage EXCEPT ![h] = "alerts"]
    /\ sent' = [sent EXCEPT ![h] = [a \in alerts |-> firing[a]]]
    /\ todo' = [todo EXCEPT ![h] = alerts]
    /\ waiting' = [waiting EXCEPT ![h] = TRUE]
    /\ UNCHANGED <<managerVars, events, up, late, shot, gaugeVars, triageVars, faults>>

(* Alertmanager's request times out; uvicorn lets the handler run on.      *)
GiveUp(h) ==
    /\ waiting[h]
    /\ Fault
    /\ waiting' = [waiting EXCEPT ![h] = FALSE]
    /\ UNCHANGED <<managerVars, events, up, stage, sent, todo, late, shot, gaugeVars,
                   triageVars>>

-----------------------------------------------------------------------------
(* upsert_alert_event. *)

New(a, status) ==
    [alert |-> a, status |-> status, born |-> status, triages |-> 0, summary |-> FALSE]

(* Mutant of IsNew: the conflict target leaves out WHERE status = 'firing'. *)
MutantIsNew(a) == \A k \in DOMAIN events : events[k].alert # a

(* The INSERT meets no conflict in the partial unique index (xmax = 0).    *)
IsNew(a) == EventOf(a) = {}

(* Mutant of Upserted: no unique index. *)
MutantUpserted(a) == Append(events, New(a, "firing"))

(* INSERT ... ON CONFLICT (fingerprint) WHERE status = 'firing' DO UPDATE. *)
Upserted(a) == IF IsNew(a) THEN Append(events, New(a, "firing")) ELSE events

(* UPDATE ... SET status = 'resolved' ... WHERE status = 'firing'.         *)
Resolved(a) ==
    [k \in DOMAIN events |->
        IF k \in EventOf(a) THEN [events[k] EXCEPT !.status = "resolved"] ELSE events[k]]

-----------------------------------------------------------------------------
(* receive_alerts. *)

Processed(h, a) ==
    /\ stage' = [stage EXCEPT ![h] = "alerts"]
    /\ todo' = [todo EXCEPT ![h] = @ \ {a}]
    /\ late' = [late EXCEPT ![h] = {}]
    /\ UNCHANGED <<managerVars, up, sent, shot, waiting, gaugeVars, platform>>

(* generate_triage begins with the recent diagnoses of any anomaly, or, for *)
(* an alert of the platform, with the LLM.                                 *)
Task(k, a) ==
    [event |-> k, at |-> IF a \in platform THEN "llm" ELSE "diagnoses"]

(* Mutant of StartTriage: is_new is not asked for. *)
MutantStartTriage(a) ==
    IF a \in Critical
    THEN LET k == CHOOSE k \in DOMAIN Upserted(a) :
                    Upserted(a)[k].alert = a /\ Upserted(a)[k].status = "firing"
         IN  /\ events' = [Upserted(a) EXCEPT ![k].triages = @ + 1]
             /\ triaging' = triaging \cup {Task(k, a)}
    ELSE events' = Upserted(a) /\ UNCHANGED triaging

(* A new critical event starts a triage task of its own.                   *)
StartTriage(a) ==
    IF a \in Critical /\ IsNew(a)
    THEN LET k == Len(Upserted(a))
         IN  /\ events' = [Upserted(a) EXCEPT ![k].triages = @ + 1]
             /\ triaging' = triaging \cup {Task(k, a)}
    ELSE events' = Upserted(a) /\ UNCHANGED triaging

ProcessFiring(h) ==
    /\ stage[h] = "alerts"
    /\ \E a \in todo[h] :
          /\ sent[h][a]
          /\ StartTriage(a)
          /\ Processed(h, a)
    /\ UNCHANGED <<dropped, faults>>

(* The UPDATE finds the firing event ... *)
ProcessResolved(h) ==
    /\ stage[h] = "alerts"
    /\ \E a \in todo[h] :
          /\ ~sent[h][a] /\ EventOf(a) # {}
          /\ events' = Resolved(a)
          /\ Processed(h, a)
    /\ UNCHANGED <<triaging, dropped, faults>>

(* ... or none, and an INSERT follows. *)
MissResolved(h) ==
    /\ stage[h] = "alerts"
    /\ \E a \in todo[h] :
          /\ ~sent[h][a] /\ EventOf(a) = {}
          /\ late' = [late EXCEPT ![h] = {a}]
    /\ stage' = [stage EXCEPT ![h] = "insert"]
    /\ UNCHANGED <<managerVars, events, up, sent, todo, shot, waiting, gaugeVars, triageVars,
                   faults>>

InsertResolved(h) ==
    /\ stage[h] = "insert"
    /\ \E a \in late[h] :
          /\ events' = Append(events, New(a, "resolved"))
          /\ Processed(h, a)
    /\ UNCHANGED <<triaging, dropped, faults>>

(* An error of PostgreSQL, with or without the statement applied, is       *)
(* logged and counted, and the loop goes on to the next alert.             *)
ProcessFails(h) ==
    /\ Fault
    /\ \/ /\ stage[h] = "alerts"
          /\ \E a \in todo[h] :
                /\ \/ UNCHANGED events
                   \/ sent[h][a] /\ events' = Upserted(a)
                   \/ ~sent[h][a] /\ events' = Resolved(a)
                /\ Processed(h, a)
       \/ /\ stage[h] = "insert"
          /\ \E a \in late[h] :
                /\ events' \in {events, Append(events, New(a, "resolved"))}
                /\ Processed(h, a)
    /\ dropped' = dropped \cup (DOMAIN events' \ DOMAIN events)
    /\ UNCHANGED triaging

(* _sync_firing_gauges: the SELECT ... *)
ReadFiring(h) ==
    /\ stage[h] = "alerts" /\ todo[h] = {}
    /\ shot' = [shot EXCEPT ![h] = FiringEvents]
    /\ stage' = [stage EXCEPT ![h] = "gauges"]
    /\ UNCHANGED <<managerVars, events, up, sent, todo, late, waiting, gaugeVars, triageVars,
                   faults>>

Count(read, l) == Cardinality({k \in read : LabelOf[events[k].alert] = l})

(* Mutant of SetGauges: inc() instead of set(). *)
MutantSetGauges(read) ==
    /\ total' = total + Cardinality(read)
    /\ gauge' = [l \in Labels |-> Count(read, l)]

(* ... and what it found: only the labels in ResetLabels are reset before  *)
(* the count is added.                                                     *)
SetGauges(read) ==
    /\ total' = Cardinality(read)
    /\ gauge' = [l \in Labels |->
          LET before == IF l \in ResetLabels THEN 0 ELSE gauge[l]
          IN  Min({before + Count(read, l), MaxGauge})]

(* The answer is 202 whatever failed. *)
Respond(h) ==
    /\ told' = IF waiting[h] THEN [a \in Alerts |->
                    IF a \in DOMAIN sent[h] THEN sent[h][a] ELSE told[a]] ELSE told
    /\ stage' = [stage EXCEPT ![h] = "idle"]
    /\ sent' = [sent EXCEPT ![h] = NoPayload]
    /\ shot' = [shot EXCEPT ![h] = {}]
    /\ waiting' = [waiting EXCEPT ![h] = FALSE]
    /\ UNCHANGED <<firing, episodes, events, up, todo, late, triageVars>>

SyncGauges(h) ==
    /\ stage[h] = "gauges"
    /\ SetGauges(shot[h])
    /\ Respond(h)
    /\ UNCHANGED faults

(* The SELECT fails: the gauges stay as they are.                          *)
SyncFails(h) ==
    /\ stage[h] = "alerts" /\ todo[h] = {}
    /\ Fault
    /\ Respond(h)
    /\ UNCHANGED gaugeVars

-----------------------------------------------------------------------------
(* generate_triage, a task in the background.                              *)

Advance(task, at) ==
    /\ triaging' = (triaging \ {task}) \cup {[task EXCEPT !.at = at]}
    /\ UNCHANGED <<managerVars, events, up, handlerVars, gaugeVars, platform, dropped, faults>>

(* The task is over. *)
EndTask(task) ==
    /\ triaging' = triaging \ {task}
    /\ UNCHANGED <<managerVars, up, handlerVars, gaugeVars, platform>>

(* _triage_from_existing_diagnoses: a summary of them, or none.            *)
ReadDiagnoses(task) ==
    /\ task.at = "diagnoses"
    /\ Advance(task, "save") \/ Advance(task, "llm")

(* Mutant of AskLlm: its failure ends the task. *)
MutantAskLlm(task) ==
    /\ task.at = "llm"
    /\ \/ Advance(task, "save")
       \/ EndTask(task) /\ UNCHANGED <<events, dropped, faults>>

(* _triage_via_llm_or_fallback: what the LLM says, or, if it fails or none *)
(* is configured, the template of the alert.                               *)
AskLlm(task) ==
    /\ task.at = "llm"
    /\ Advance(task, "save")

SaveTriage(task) ==
    /\ task.at = "save"
    /\ events' = [events EXCEPT ![task.event].summary = TRUE]
    /\ EndTask(task)
    /\ UNCHANGED <<dropped, faults>>

(* PostgreSQL fails, which is logged, or the task, to which nobody holds a *)
(* reference (main.py:157), is collected at an await: nobody tries again.  *)
TriageFails(task) ==
    /\ Fault
    /\ \/ UNCHANGED events
       \/ task.at = "save" /\ events' = [events EXCEPT ![task.event].summary = TRUE]
    /\ EndTask(task)
    /\ dropped' = dropped \cup {task.event}

Triage(task) ==
    ReadDiagnoses(task) \/ AskLlm(task) \/ SaveTriage(task) \/ TriageFails(task)

(* The process dies with its handlers, tasks and gauges ... *)
Crash ==
    /\ up
    /\ Fault
    /\ up' = FALSE
    /\ stage' = [h \in Handlers |-> "idle"]
    /\ sent' = [h \in Handlers |-> NoPayload]
    /\ todo' = [h \in Handlers |-> {}]
    /\ late' = [h \in Handlers |-> {}]
    /\ shot' = [h \in Handlers |-> {}]
    /\ waiting' = [h \in Handlers |-> FALSE]
    /\ total' = 0 /\ gauge' = [l \in Labels |-> 0]
    /\ triaging' = {}
    /\ dropped' = dropped \cup {task.event : task \in triaging}
    /\ UNCHANGED <<managerVars, events, platform>>

(* ... and starts with the gauges of the table, if it can read it. *)
Start ==
    /\ ~up
    /\ up' = TRUE
    /\ \/ SetGauges(FiringEvents) /\ UNCHANGED faults
       \/ Fault /\ UNCHANGED gaugeVars
    /\ UNCHANGED <<managerVars, events, handlerVars, triageVars>>

-----------------------------------------------------------------------------
Handle(h) ==
    \/ ProcessFiring(h) \/ ProcessResolved(h) \/ MissResolved(h) \/ InsertResolved(h)
    \/ ProcessFails(h) \/ ReadFiring(h) \/ SyncGauges(h) \/ SyncFails(h)

Next ==
    \/ \E a \in Alerts : Fire(a) \/ Resolve(a)
    \/ \E h \in Handlers :
          \/ \E alerts \in SUBSET Alerts : Notify(h, alerts)
          \/ GiveUp(h) \/ Handle(h)
    \/ \E task \in triaging : Triage(task)
    \/ Crash \/ Start

Spec == Init /\ [][Next]_vars

(* The event loop runs each handler and task, the supervisor restarts the  *)
(* process, and Alertmanager repeats a firing alert and retries a          *)
(* resolution, however often its earlier notifications come in between.    *)
Fairness ==
    /\ WF_vars(Start)
    /\ \A h \in Handlers : WF_vars(Handle(h))
    /\ \A a \in Alerts :
          SF_vars(\E h \in Handlers, alerts \in SUBSET Alerts :
                    a \in alerts /\ Notify(h, alerts))

FairSpec == Spec /\ Fairness

-----------------------------------------------------------------------------
States == {"firing", "resolved"}
Event  == [alert : Alerts, status : States, born : States, triages : Nat, summary : BOOLEAN]

(* Every variable holds a value the program can hold.                      *)
TypeOK ==
    /\ firing \in [Alerts -> BOOLEAN] /\ told \in [Alerts -> BOOLEAN]
    /\ episodes \in [Alerts -> Nat]
    /\ events \in Seq(Event)
    /\ up \in BOOLEAN
    /\ stage \in [Handlers -> {"idle", "alerts", "insert", "gauges"}]
    /\ sent \in [Handlers -> Payload] /\ shot \in [Handlers -> SUBSET DOMAIN events]
    /\ todo \in [Handlers -> SUBSET Alerts] /\ late \in [Handlers -> SUBSET Alerts]
    /\ \A h \in Handlers : todo[h] \subseteq DOMAIN sent[h] /\ late[h] \subseteq todo[h]
    /\ waiting \in [Handlers -> BOOLEAN]
    /\ total \in 0..Len(events) /\ gauge \in [Labels -> 0..MaxGauge]
    /\ triaging \subseteq
          [event : DOMAIN events, at : {"diagnoses", "llm", "save"}]
    /\ platform \subseteq Alerts /\ dropped \subseteq DOMAIN events
    /\ faults \in 0..MaxFaults

(* An event is triaged at most once, and only if it was born firing,       *)
(* however many repeated or concurrent notifications mention its alert:    *)
(* the triage of an event is a paid call of the LLM.                       *)
TriagedOnce ==
    \A k \in DOMAIN events :
        events[k].triages <= (IF events[k].born = "firing" THEN 1 ELSE 0)

(* Every event of a critical alert that was born firing has its triage, or *)
(* has a task at work on it, or lost it to PostgreSQL or a crash: no       *)
(* repeated, late or concurrent webhook and no failure of the LLM leaves   *)
(* it without (triage.py: diagnoses, LLM, template; main.py, is_new).      *)
TriagedUnlessDropped ==
    \A k \in DOMAIN events :
        events[k].alert \in Critical /\ events[k].born = "firing" =>
            \/ events[k].summary
            \/ k \in dropped
            \/ \E task \in triaging : task.event = k

Born(a, status) == {k \in DOMAIN events : events[k].alert = a /\ events[k].born = status}

(* The history is that of the alert: as many firing events as it had       *)
(* episodes, plus at most one for each fault, and a resolution without its *)
(* firing event takes a fault.                                             *)
HistoryFollowsEpisodes ==
    \A a \in Alerts :
        /\ Cardinality(Born(a, "firing")) <= episodes[a] + faults
        /\ Cardinality(Born(a, "resolved")) <= faults

(* An alert that goes on firing has a firing event in the end, whatever    *)
(* failed, crashed or arrived late before.                                 *)
FiringIsRecorded ==
    \A a \in Alerts : firing[a] ~> (~firing[a] \/ EventOf(a) # {})

(* alerting.md:326: a webhook that PostgreSQL fails is answered 500 and    *)
(* retried, so that the resolution of an alert whose firing was            *)
(* acknowledged is recorded in the end.                                    *)
ResolutionIsRecorded ==
    \A a \in Alerts :
        (told[a] /\ ~firing[a]) ~> (firing[a] \/ EventOf(a) = {})
=============================================================================

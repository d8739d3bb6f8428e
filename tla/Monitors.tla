------------------------------ MODULE Monitors ------------------------------
(***************************************************************************)
(* The monitor CRUD API of the Alert Receiver                              *)
(* (services/alert_receiver/app/monitors.py): the table monitors, the      *)
(* rules file generated from it, and Prometheus, which loads that file.    *)
(*                                                                         *)
(* A change and the rewriting of the file are separate awaits, and nothing *)
(* orders the requests: each writes the rows it read itself.  Opening the  *)
(* file truncates it; the event loop does nothing else until it is closed, *)
(* but Prometheus, another process, may read it then.                      *)
(***************************************************************************)
EXTENDS Naturals, FiniteSets

CONSTANTS
    Handlers,   \* requests served at the same time
    Lifespan,   \* the startup code, which rewrites the file as well
    Ids,        \* ids of monitors
    Exprs,      \* PromQL expressions ...
    Invalid,    \* ... and those that Prometheus rejects
    MaxChanges, \* bound: changes of the table
    MaxFaults   \* bound: failures and crashes

ASSUME MonitorsAssumption ==
    /\ Lifespan \notin Handlers
    /\ Invalid \subseteq Exprs
    /\ MaxChanges \in Nat /\ MaxFaults \in Nat

VARIABLES
    table,       \* rows of the table monitors
    file,        \* custom_rules.yml: its rules, and whether it is whole
    prometheus,  \* the custom rules in force, and whether Prometheus is up
    late,        \* a POST /-/reload whose sender has given up is on its way
    phase,       \* "down", "starting" or "serving"
    stage,       \* how far each worker is in its request
    snapshot,    \* the rules it has read and not yet written
    versions,    \* history: the rules the table has asked for since the last
                 \* quiet moment; none once something has failed
    alone,       \* history: no two requests overlapped since then
    changes,
    faults

workerVars == <<stage, snapshot>>
histVars   == <<versions, alone, changes>>
vars == <<table, file, prometheus, late, phase, workerVars, histVars, faults>>

Workers == Handlers \cup {Lifespan}
Row     == [id : Ids, expr : Exprs, enabled : BOOLEAN]
Rule    == [id : Ids, expr : Exprs]
Stage   == {"idle", "changed", "read", "writing", "posting", "reloaded", "not_reloaded"}

-----------------------------------------------------------------------------
(* The rules document that _sync_rules_file builds of the rows.            *)
Rules(rows) == {[id |-> row.id, expr |-> row.expr] : row \in {r \in rows : r.enabled}}

Loadable(rules) == \A rule \in rules : rule.expr \notin Invalid

Init ==
    /\ table = {}
    /\ file = [rules |-> {}, whole |-> TRUE]
    /\ prometheus = [rules |-> {}, up |-> TRUE]
    /\ late = FALSE
    /\ phase = "down"
    /\ stage = [w \in Workers |-> "idle"]
    /\ snapshot = [w \in Workers |-> {}]
    /\ versions = {} /\ alone = FALSE /\ changes = 0
    /\ faults = 0

Quiet   == \A w \in Workers : stage[w] = "idle"
Running == \A w \in Workers : stage[w] # "writing"

Fault == faults < MaxFaults /\ faults' = faults + 1

Move(w, from, to) ==
    /\ stage[w] = from
    /\ stage' = [stage EXCEPT ![w] = to]

(* Mutant of Abandon: the process goes on after a failed startup. *)
MutantAbandon(w) ==
    /\ Fault
    /\ stage' = [stage EXCEPT ![w] = "idle"]
    /\ snapshot' = [snapshot EXCEPT ![w] = {}]
    /\ versions' = {} /\ UNCHANGED <<phase, alone, changes>>

(* A failed request: FastAPI answers 500; a failed startup ends the        *)
(* process.                                                                *)
Abandon(w) ==
    /\ Fault
    /\ stage' = [stage EXCEPT ![w] = "idle"]
    /\ snapshot' = [snapshot EXCEPT ![w] = {}]
    /\ phase' = IF w = Lifespan THEN "down" ELSE phase
    /\ versions' = {} /\ UNCHANGED <<alone, changes>>

-----------------------------------------------------------------------------
(* A request changes the table; with the answer to the change it goes on   *)
(* to _sync_rules_file, or, if the connection breaks, to a 500.            *)
Change(h, rows) ==
    /\ phase = "serving" /\ Running
    /\ stage[h] = "idle"
    /\ changes < MaxChanges /\ changes' = changes + 1
    /\ table' = rows
    /\ \/ /\ Move(h, "idle", "changed")
          /\ versions' = IF Quiet THEN {Rules(rows)}
                         ELSE IF versions = {} THEN {} ELSE versions \cup {Rules(rows)}
          /\ alone' = Quiet
          /\ UNCHANGED faults
       \/ Fault /\ versions' = {} /\ UNCHANGED <<stage, alone>>
    /\ UNCHANGED <<file, prometheus, late, phase, snapshot>>

CreateMonitor(h) ==
    \E row \in Row :
        /\ \A other \in table : other.id # row.id
        /\ Change(h, table \cup {row})

(* update_monitor: any fields; without a row it answers 404 and without    *)
(* fields it only reads.                                                   *)
UpdateMonitor(h) ==
    \E old \in table, new \in Row :
        /\ new.id = old.id
        /\ Change(h, (table \ {old}) \cup {new})

DeleteMonitor(h) ==
    \E row \in table : Change(h, table \ {row})

-----------------------------------------------------------------------------
(* _sync_rules_file *)

(* Mutant of ReadEnabled: the filter "enabled = true" is forgotten. *)
MutantReadEnabled(w) ==
    /\ Running
    /\ Move(w, "changed", "read")
    /\ snapshot' = [snapshot EXCEPT ![w] = {[id |-> r.id, expr |-> r.expr] : r \in table}]
    /\ UNCHANGED <<table, file, prometheus, late, phase, histVars, faults>>

ReadEnabled(w) ==
    /\ Running
    /\ Move(w, "changed", "read")
    /\ snapshot' = [snapshot EXCEPT ![w] = Rules(table)]
    /\ UNCHANGED <<table, file, prometheus, late, phase, histVars, faults>>

ReadFails(w) ==
    /\ Running
    /\ stage[w] = "changed"
    /\ Abandon(w)
    /\ UNCHANGED <<table, file, prometheus, late>>

(* Mutant of OpenFile: a request leaves the file to another that is under  *)
(* way.                                                                    *)
MutantOpenFile(w) ==
    /\ Running
    /\ Move(w, "read", "posting")
    /\ snapshot' = [snapshot EXCEPT ![w] = {}]
    /\ UNCHANGED <<table, file, prometheus, late, phase, histVars, faults>>

OpenFile(w) ==
    /\ Running
    /\ Move(w, "read", "writing")
    /\ file' = [rules |-> snapshot[w], whole |-> FALSE]
    /\ snapshot' = [snapshot EXCEPT ![w] = {}]
    /\ UNCHANGED <<table, prometheus, late, phase, histVars, faults>>

CloseFile(w) ==
    /\ Move(w, "writing", "posting")
    /\ file' = [file EXCEPT !.whole = TRUE]
    /\ UNCHANGED <<table, prometheus, late, phase, snapshot, histVars, faults>>

WriteFails(w) ==
    /\ stage[w] = "writing"
    /\ Abandon(w)
    /\ UNCHANGED <<table, file, prometheus, late>>

(* Prometheus loads the file as it then is; half a file is any part of it, *)
(* or no YAML at all.                                                      *)
LoadAccepted ==
    /\ prometheus.up
    /\ \E seen \in SUBSET file.rules :
          /\ file.whole => seen = file.rules
          /\ Loadable(seen)
          /\ prometheus' = [prometheus EXCEPT !.rules = seen]

(* One rule with an invalid expression makes it reject them all.           *)
LoadRejected ==
    /\ prometheus.up
    /\ file.whole => ~Loadable(file.rules)
    /\ UNCHANGED prometheus

Reload(w) ==
    /\ \/ LoadAccepted /\ Move(w, "posting", "reloaded")
       \/ LoadRejected /\ Move(w, "posting", "not_reloaded")
    /\ UNCHANGED <<table, file, late, phase, snapshot, histVars, faults>>

(* No connection, or no answer within five seconds: reload_ok is False,    *)
(* and the POST may still reach Prometheus.                                *)
ReloadFails(w) ==
    /\ Running
    /\ Move(w, "posting", "not_reloaded")
    /\ late' \in {late, TRUE}
    /\ UNCHANGED <<table, file, prometheus, phase, snapshot, histVars, faults>>

(* The answer; update_monitor reads the row once more for it.              *)
Answer(w) ==
    /\ Running
    /\ stage[w] \in {"reloaded", "not_reloaded"}
    /\ stage' = [stage EXCEPT ![w] = "idle"]
    /\ phase' = IF w = Lifespan THEN "serving" ELSE phase
    /\ UNCHANGED <<table, file, prometheus, late, snapshot, histVars, faults>>

-----------------------------------------------------------------------------
(* Prometheus, and the life of the process *)

LateReload ==
    /\ late
    /\ late' = FALSE
    /\ LoadAccepted \/ LoadRejected
    /\ UNCHANGED <<table, file, phase, workerVars, histVars, faults>>

(* Prometheus restarts: it does not come up with rules it rejects.         *)
PrometheusStarts ==
    /\ \/ /\ Loadable(file.rules)
          /\ prometheus' = [rules |-> file.rules, up |-> TRUE]
       \/ /\ file.whole => ~Loadable(file.rules)
          /\ prometheus' = [rules |-> {}, up |-> FALSE]
    /\ late' = FALSE
    /\ UNCHANGED <<table, file, phase, workerVars, histVars, faults>>

Start ==
    /\ phase = "down"
    /\ phase' = "starting"
    /\ stage' = [stage EXCEPT ![Lifespan] = "changed"]
    /\ versions' = {Rules(table)} /\ alone' = TRUE /\ UNCHANGED changes
    /\ UNCHANGED <<table, file, prometheus, late, snapshot, faults>>

Stop ==
    /\ phase = "serving" /\ Quiet
    /\ phase' = "down"
    /\ UNCHANGED <<table, file, prometheus, late, workerVars, histVars, faults>>

Crash ==
    /\ phase # "down"
    /\ Fault
    /\ phase' = "down"
    /\ stage' = [w \in Workers |-> "idle"]
    /\ snapshot' = [w \in Workers |-> {}]
    /\ late' \in {late, late \/ \E w \in Workers : stage[w] = "posting"}
    /\ versions' = {}
    /\ UNCHANGED <<table, file, prometheus, alone, changes>>

Next ==
    \/ \E h \in Handlers : CreateMonitor(h) \/ UpdateMonitor(h) \/ DeleteMonitor(h)
    \/ \E w \in Workers :
          \/ ReadEnabled(w) \/ OpenFile(w) \/ CloseFile(w) \/ Reload(w) \/ Answer(w)
          \/ ReadFails(w) \/ WriteFails(w) \/ ReloadFails(w)
    \/ LateReload \/ PrometheusStarts \/ Start \/ Stop \/ Crash

Spec == Init /\ [][Next]_vars

-----------------------------------------------------------------------------
(* Properties *)

(* Every variable has its type, and only the startup code runs before the  *)
(* service accepts requests.                                               *)
TypeOK ==
    /\ table \subseteq Row
    /\ file \in [rules : SUBSET Rule, whole : BOOLEAN]
    /\ prometheus \in [rules : SUBSET Rule, up : BOOLEAN]
    /\ late \in BOOLEAN
    /\ phase \in {"down", "starting", "serving"}
    /\ stage \in [Workers -> Stage]
    /\ snapshot \in [Workers -> SUBSET Rule]
    /\ versions \subseteq SUBSET Rule /\ alone \in BOOLEAN
    /\ changes \in 0..MaxChanges
    /\ faults \in 0..MaxFaults
    /\ stage[Lifespan] # "idle" <=> phase = "starting"
    /\ phase # "serving" => \A h \in Handlers : stage[h] = "idle"

AtRest == \A w \in Workers : stage[w] \in {"idle", "reloaded", "not_reloaded"}

(* Requests that overlap may leave an older snapshot in the file, but once *)
(* they are through, and none of them failed, it is a whole one and no     *)
(* older than the first of them: earlier crashes, failed writes and stale  *)
(* files leave no trace.  A request that ran alone leaves exactly the      *)
(* enabled monitors, and so does the startup code (_sync_rules_file).      *)
StalenessBounded ==
    versions # {} /\ AtRest =>
        /\ file.whole /\ file.rules \in versions
        /\ alone => file.rules = Rules(table)

(* If a request that ran alone reports prometheus_reload.success, its      *)
(* change is in force, unless Prometheus has gone down since.              *)
ReportedIsInForce ==
    \A w \in Workers :
        versions # {} /\ alone /\ stage[w] = "reloaded" /\ prometheus.up =>
            prometheus.rules = Rules(table)
=============================================================================

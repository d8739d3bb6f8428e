--------------------------- MODULE Monitors_proofs ---------------------------
(***************************************************************************)
(* How stale the rules file can be, for any number of requests, monitors   *)
(* and failures.                                                           *)
(*                                                                         *)
(* The argument: what a worker has read is one of the versions, and while  *)
(* no worker has still to write, the last one that wrote has left its      *)
(* snapshot, one of the versions, in the file.                             *)
(***************************************************************************)
EXTENDS Monitors, TLAPS

USE MonitorsAssumption

(* What has been read is a version, and the table is the newest of them.   *)
SnapshotsInv ==
    versions # {} =>
        /\ Rules(table) \in versions
        /\ \A w \in Workers : stage[w] = "read" => snapshot[w] \in versions

(* Once nobody has still to write, the file is a version.                  *)
Written == \A w \in Workers : stage[w] \notin {"changed", "read"}

FileInv ==
    versions # {} /\ Written =>
        /\ file.rules \in versions
        /\ file.whole \/ \E w \in Workers : stage[w] = "writing"

(* A worker that runs alone has only one version to write.                 *)
AloneInv ==
    versions # {} /\ alone =>
        /\ versions = {Rules(table)}
        /\ \A v, w \in Workers : stage[v] # "idle" /\ stage[w] # "idle" => v = w

MonitorsInv == TypeOK /\ SnapshotsInv /\ FileInv /\ AloneInv /\ ReportedIsInForce

-----------------------------------------------------------------------------
(* The rules document of any rows is a set of rules.                       *)
LEMMA RulesType == ASSUME NEW rows \in SUBSET Row PROVE Rules(rows) \in SUBSET Rule
  BY DEF Rules, Row, Rule

LEMMA InitMonitorsInv == Init => MonitorsInv
<1> SUFFICES ASSUME Init PROVE MonitorsInv
  OBVIOUS
<1>1. stage \in [Workers -> Stage] /\ snapshot \in [Workers -> SUBSET Rule]
  BY DEF Init, Stage
<1>2. file \in [rules : SUBSET Rule, whole : BOOLEAN]
  BY DEF Init
<1>3. prometheus \in [rules : SUBSET Rule, up : BOOLEAN]
  BY DEF Init
<1>4. TypeOK
  <2>1. stage[Lifespan] = "idle" /\ \A h \in Handlers : stage[h] = "idle"
    BY DEF Init, Workers
  <2>2. 0 \in 0..MaxChanges /\ 0 \in 0..MaxFaults
    OBVIOUS
  <2>3. table \subseteq Row /\ versions \subseteq SUBSET Rule
    BY DEF Init
  <2>4. QED
    BY <1>1, <1>2, <1>3, <2>1, <2>2, <2>3 DEF Init, TypeOK
<1>5. QED
  BY <1>4 DEF Init, MonitorsInv, SnapshotsInv, FileInv, AloneInv, ReportedIsInForce

(* The three requests change the table through Change.                     *)
LEMMA RequestChanges ==
    ASSUME TypeOK, NEW h \in Handlers, CreateMonitor(h) \/ UpdateMonitor(h) \/ DeleteMonitor(h)
    PROVE  \E rows \in SUBSET Row : Change(h, rows)
<1>1. table \in SUBSET Row
  BY DEF TypeOK
<1>2. CASE CreateMonitor(h)
  <2>1. PICK row \in Row : Change(h, table \cup {row})
    BY <1>2 DEF CreateMonitor
  <2>2. QED
    BY <1>1, <2>1
<1>3. CASE UpdateMonitor(h)
  <2>1. PICK old \in table, new \in Row : Change(h, (table \ {old}) \cup {new})
    BY <1>3 DEF UpdateMonitor
  <2>2. QED
    BY <1>1, <2>1
<1>4. CASE DeleteMonitor(h)
  <2>1. PICK row \in table : Change(h, table \ {row})
    BY <1>4 DEF DeleteMonitor
  <2>2. QED
    BY <1>1, <2>1
<1>5. QED
  BY <1>2, <1>3, <1>4

-----------------------------------------------------------------------------
(* Type correctness *)

LEMMA ChangeKeepsType ==
    ASSUME TypeOK, NEW h \in Handlers, NEW rows \in SUBSET Row, Change(h, rows)
    PROVE  TypeOK'
<1>1. Rules(rows) \in SUBSET Rule
  BY RulesType
<1>2. h \in Workers /\ h # Lifespan /\ phase = "serving" /\ phase' = phase
  BY DEF Change, Workers
<1>3. stage' \in [Workers -> Stage] /\ stage'[Lifespan] = stage[Lifespan]
  BY <1>2 DEF TypeOK, Change, Move, Stage, Workers
<1>4. versions' \subseteq SUBSET Rule
  BY <1>1 DEF TypeOK, Change
<1>5. alone' \in BOOLEAN
  BY DEF TypeOK, Change, Quiet
<1>6. changes' \in 0..MaxChanges /\ faults' \in 0..MaxFaults
  BY DEF TypeOK, Change, Fault
<1>7. QED
  BY <1>2, <1>3, <1>4, <1>5, <1>6 DEF TypeOK, Change

LEMMA AbandonKeepsType ==
    ASSUME TypeOK, NEW w \in Workers, stage[w] # "idle", Abandon(w),
           UNCHANGED <<table, file, prometheus, late>>
    PROVE  TypeOK'
<1>1. stage' \in [Workers -> Stage] /\ snapshot' \in [Workers -> SUBSET Rule]
  BY DEF TypeOK, Abandon, Stage
<1>2. faults' \in 0..MaxFaults
  BY DEF TypeOK, Abandon, Fault
<1>3. phase' \in {"down", "starting", "serving"}
  BY DEF TypeOK, Abandon
<1>4. stage'[Lifespan] # "idle" <=> phase' = "starting"
  BY DEF TypeOK, Abandon, Workers
<1>5. phase' # "serving" => \A h \in Handlers : stage'[h] = "idle"
  BY DEF TypeOK, Abandon, Workers
<1>6. QED
  BY <1>1, <1>2, <1>3, <1>4, <1>5 DEF TypeOK, Abandon

(* A worker that stays at work disturbs neither the phase nor the others.  *)
LEMMA MoveKeepsStages ==
    ASSUME TypeOK, NEW w \in Workers, NEW from \in Stage \ {"idle"}, NEW to \in Stage \ {"idle"},
           Move(w, from, to), UNCHANGED phase
    PROVE  /\ stage' \in [Workers -> Stage]
           /\ stage'[Lifespan] # "idle" <=> phase' = "starting"
           /\ phase' # "serving" => \A h \in Handlers : stage'[h] = "idle"
  BY DEF TypeOK, Move, Workers

LEMMA WorkKeepsType ==
    ASSUME TypeOK, NEW w \in Workers,
           ReadEnabled(w) \/ OpenFile(w) \/ CloseFile(w) \/ Reload(w) \/ ReloadFails(w)
    PROVE  TypeOK'
<1>1. CASE ReadEnabled(w)
  <2>1. Rules(table) \in SUBSET Rule
    BY RulesType DEF TypeOK
  <2>2. snapshot' \in [Workers -> SUBSET Rule]
    BY <1>1, <2>1 DEF TypeOK, ReadEnabled
  <2>3. QED
    BY <1>1, <2>2, MoveKeepsStages DEF TypeOK, ReadEnabled, histVars, Stage
<1>2. CASE OpenFile(w)
  <2>1. snapshot' \in [Workers -> SUBSET Rule] /\ file' \in [rules : SUBSET Rule, whole : BOOLEAN]
    BY <1>2 DEF TypeOK, OpenFile
  <2>2. QED
    BY <1>2, <2>1, MoveKeepsStages DEF TypeOK, OpenFile, histVars, Stage
<1>3. CASE CloseFile(w)
  <2>1. file' \in [rules : SUBSET Rule, whole : BOOLEAN]
    BY <1>3 DEF TypeOK, CloseFile
  <2>2. QED
    BY <1>3, <2>1, MoveKeepsStages DEF TypeOK, CloseFile, histVars, Stage
<1>4. CASE Reload(w)
  <2>1. prometheus' \in [rules : SUBSET Rule, up : BOOLEAN]
    BY <1>4 DEF TypeOK, Reload, LoadAccepted, LoadRejected
  <2>2. Move(w, "posting", "reloaded") \/ Move(w, "posting", "not_reloaded")
    BY <1>4 DEF Reload
  <2>3. phase' = phase
    BY <1>4 DEF Reload
  <2>4. /\ stage' \in [Workers -> Stage]
        /\ stage'[Lifespan] # "idle" <=> phase' = "starting"
        /\ phase' # "serving" => \A h \in Handlers : stage'[h] = "idle"
    BY <2>2, <2>3, MoveKeepsStages DEF Stage
  <2>5. QED
    BY <1>4, <2>1, <2>4 DEF TypeOK, Reload, histVars
<1>5. CASE ReloadFails(w)
  BY <1>5, MoveKeepsStages DEF TypeOK, ReloadFails, histVars, Stage
<1>6. QED
  BY <1>1, <1>2, <1>3, <1>4, <1>5

LEMMA NextKeepsType == TypeOK /\ [Next]_vars => TypeOK'
<1> SUFFICES ASSUME TypeOK, [Next]_vars PROVE TypeOK'
  OBVIOUS
<1>1. CASE \E h \in Handlers : CreateMonitor(h) \/ UpdateMonitor(h) \/ DeleteMonitor(h)
  BY <1>1, RequestChanges, ChangeKeepsType
<1>2. ASSUME NEW w \in Workers,
             ReadEnabled(w) \/ OpenFile(w) \/ CloseFile(w) \/ Reload(w) \/ ReloadFails(w)
      PROVE  TypeOK'
  BY <1>2, WorkKeepsType
<1>3. ASSUME NEW w \in Workers, ReadFails(w) \/ WriteFails(w)
      PROVE  TypeOK'
  BY <1>3, AbandonKeepsType DEF ReadFails, WriteFails
<1>4. ASSUME NEW w \in Workers, Answer(w)
      PROVE  TypeOK'
  <2>1. stage' \in [Workers -> Stage]
    BY <1>4 DEF TypeOK, Answer, Stage
  <2>2. phase' \in {"down", "starting", "serving"}
    BY <1>4 DEF TypeOK, Answer
  <2>3. stage'[Lifespan] # "idle" <=> phase' = "starting"
    BY <1>4 DEF TypeOK, Answer, Workers
  <2>4. phase' # "serving" => \A h \in Handlers : stage'[h] = "idle"
    BY <1>4 DEF TypeOK, Answer, Workers
  <2>5. QED
    BY <1>4, <2>1, <2>2, <2>3, <2>4 DEF TypeOK, Answer, histVars
<1>5. CASE LateReload
  <2>1. prometheus' \in [rules : SUBSET Rule, up : BOOLEAN]
    BY <1>5 DEF TypeOK, LateReload, LoadAccepted, LoadRejected
  <2>2. QED
    BY <1>5, <2>1 DEF TypeOK, LateReload, workerVars, histVars
<1>6. CASE PrometheusStarts
  <2>1. file.rules \in SUBSET Rule
    BY DEF TypeOK
  <2>2. prometheus' = [rules |-> file.rules, up |-> TRUE] \/ prometheus' = [rules |-> {}, up |-> FALSE]
    BY <1>6 DEF PrometheusStarts
  <2>3. prometheus' \in [rules : SUBSET Rule, up : BOOLEAN]
    <3>1. {} \in SUBSET Rule
      OBVIOUS
    <3>2. [rules |-> {}, up |-> FALSE] \in [rules : SUBSET Rule, up : BOOLEAN]
      BY <3>1
    <3>3. [rules |-> file.rules, up |-> TRUE] \in [rules : SUBSET Rule, up : BOOLEAN]
      BY <2>1
    <3>4. QED
      BY <2>2, <3>2, <3>3
  <2>4. QED
    BY <1>6, <2>3 DEF TypeOK, PrometheusStarts, workerVars, histVars
<1>7. CASE Start
  <2>1. Rules(table) \in SUBSET Rule
    BY RulesType DEF TypeOK
  <2>2. QED
    BY <1>7, <2>1 DEF TypeOK, Start, Stage, Workers
<1>8. CASE Stop
  BY <1>8 DEF TypeOK, Stop, Quiet, Workers, workerVars, histVars
<1>9. CASE Crash
  <2>1. faults' \in 0..MaxFaults
    BY <1>9 DEF TypeOK, Crash, Fault
  <2>2. QED
    BY <1>9, <2>1 DEF TypeOK, Crash, Stage, Workers
<1>10. CASE UNCHANGED vars
  BY <1>10 DEF TypeOK, vars, workerVars, histVars
<1>11. QED
  BY <1>1, <1>2, <1>3, <1>4, <1>5, <1>6, <1>7, <1>8, <1>9, <1>10 DEF Next

(* Every reachable state of the monitor API is well typed.                 *)
THEOREM MonitorsTypeCorrect == Spec => []TypeOK
<1>1. Init => TypeOK
  BY InitMonitorsInv DEF MonitorsInv
<1>2. QED
  BY <1>1, NextKeepsType, PTL DEF Spec

-----------------------------------------------------------------------------
(* Staleness *)

LEMMA ChangeKeepsVersions ==
    ASSUME MonitorsInv, NEW h \in Handlers, NEW rows \in SUBSET Row, Change(h, rows), TypeOK'
    PROVE  MonitorsInv'
<1>1. h \in Workers
  BY DEF Workers
<1>2. table' = rows /\ snapshot' = snapshot /\ file' = file /\ prometheus' = prometheus
  BY DEF Change
<1>3. CASE versions' = {}
  BY <1>3 DEF MonitorsInv, SnapshotsInv, FileInv, AloneInv, ReportedIsInForce
<1>4. CASE versions' # {}
  <2>1. stage' = [stage EXCEPT ![h] = "changed"] /\ alone' = Quiet
    BY <1>4 DEF Change, Move
  <2>2. stage'[h] = "changed" /\ \A w \in Workers : w # h => stage'[w] = stage[w]
    BY <1>1, <2>1 DEF MonitorsInv, TypeOK
  <2>3. Rules(rows) \in versions' /\ (~Quiet => versions # {} /\ versions \subseteq versions')
    BY <1>4 DEF Change
  <2>4. Rules(table') = Rules(rows)
    BY <1>2
  <2>5. SnapshotsInv'
    BY <1>2, <2>2, <2>3, <2>4 DEF MonitorsInv, SnapshotsInv, Quiet
  <2>6. FileInv'
    BY <1>1, <2>2 DEF FileInv, Written
  <2>7. AloneInv'
    <3>1. ASSUME Quiet PROVE versions' = {Rules(table')}
      BY <1>4, <2>4, <3>1 DEF Change
    <3>2. QED
      BY <2>1, <2>2, <3>1 DEF AloneInv, Quiet
  <2>8. ReportedIsInForce'
    BY <2>1, <2>2 DEF ReportedIsInForce, Quiet
  <2>9. QED
    BY <2>5, <2>6, <2>7, <2>8 DEF MonitorsInv
<1>5. QED
  BY <1>3, <1>4

(* A worker that only moves on, from one stage at work to another, keeps   *)
(* AloneInv.                                                               *)
LEMMA WorkKeepsAlone ==
    ASSUME MonitorsInv, NEW w \in Workers, stage[w] # "idle",
           \A v \in Workers : v # w => stage'[v] = stage[v],
           UNCHANGED <<table, versions, alone>>
    PROVE  AloneInv'
  BY DEF MonitorsInv, AloneInv

LEMMA WorkKeepsVersions ==
    ASSUME MonitorsInv, NEW w \in Workers, TypeOK',
           ReadEnabled(w) \/ OpenFile(w) \/ CloseFile(w) \/ Reload(w) \/ ReloadFails(w) \/ Answer(w)
    PROVE  MonitorsInv'
<1>1. /\ stage[w] # "idle"
      /\ \A v \in Workers : v # w => stage'[v] = stage[v]
      /\ UNCHANGED <<table, versions, alone>>
  BY DEF MonitorsInv, TypeOK, ReadEnabled, OpenFile, CloseFile, Reload, ReloadFails, Answer, Move, histVars
<1>2. AloneInv' /\ Rules(table') = Rules(table)
  BY <1>1, WorkKeepsAlone
<1>3. CASE ReadEnabled(w)
  <2>1. stage'[w] = "read" /\ snapshot' = [snapshot EXCEPT ![w] = Rules(table)]
    BY <1>3 DEF MonitorsInv, TypeOK, ReadEnabled, Move
  <2>2. snapshot'[w] = Rules(table) /\ \A v \in Workers : v # w => snapshot'[v] = snapshot[v]
    BY <2>1 DEF MonitorsInv, TypeOK
  <2>3. SnapshotsInv'
    BY <1>1, <1>2, <2>2 DEF MonitorsInv, SnapshotsInv
  <2>4. FileInv'
    BY <2>1 DEF FileInv, Written
  <2>5. ReportedIsInForce'
    BY <1>1, <1>2, <1>3, <2>1 DEF MonitorsInv, ReportedIsInForce, ReadEnabled
  <2>6. QED
    BY <1>2, <2>3, <2>4, <2>5 DEF MonitorsInv
<1>4. CASE OpenFile(w)
  <2>1. /\ stage[w] = "read" /\ stage'[w] = "writing"
        /\ file' = [rules |-> snapshot[w], whole |-> FALSE]
        /\ prometheus' = prometheus
    BY <1>4 DEF MonitorsInv, TypeOK, OpenFile, Move
  <2>2. \A v \in Workers : v # w => snapshot'[v] = snapshot[v]
    BY <1>4 DEF MonitorsInv, TypeOK, OpenFile
  <2>3. SnapshotsInv'
    BY <1>1, <1>2, <2>1, <2>2 DEF MonitorsInv, SnapshotsInv
  <2>4. FileInv'
    BY <1>1, <2>1 DEF MonitorsInv, SnapshotsInv, FileInv
  <2>5. ReportedIsInForce'
    BY <1>1, <1>2, <2>1 DEF MonitorsInv, ReportedIsInForce
  <2>6. QED
    BY <1>2, <2>3, <2>4, <2>5 DEF MonitorsInv
<1>5. CASE CloseFile(w)
  <2>1. /\ stage[w] = "writing" /\ stage'[w] = "posting" /\ snapshot' = snapshot
        /\ file'.rules = file.rules /\ file'.whole
        /\ prometheus' = prometheus
    BY <1>5 DEF MonitorsInv, TypeOK, CloseFile, Move
  <2>2. SnapshotsInv'
    BY <1>1, <1>2, <2>1 DEF MonitorsInv, SnapshotsInv
  <2>3. FileInv'
    BY <1>1, <2>1 DEF MonitorsInv, FileInv, Written
  <2>4. ReportedIsInForce'
    BY <1>1, <1>2, <2>1 DEF MonitorsInv, ReportedIsInForce
  <2>5. QED
    BY <1>2, <2>2, <2>3, <2>4 DEF MonitorsInv
<1>6. CASE Reload(w)
  <2>1. /\ stage[w] = "posting" /\ stage'[w] \in {"reloaded", "not_reloaded"}
        /\ snapshot' = snapshot /\ file' = file
    BY <1>6 DEF MonitorsInv, TypeOK, Reload, Move
  <2>2. SnapshotsInv'
    BY <1>1, <1>2, <2>1 DEF MonitorsInv, SnapshotsInv
  <2>3. FileInv'
    BY <1>1, <2>1 DEF MonitorsInv, FileInv, Written
  <2>4. ASSUME versions # {}, alone, stage'[w] = "reloaded" PROVE prometheus'.rules = Rules(table)
    <3>1. \A v \in Workers : v # w => stage[v] = "idle"
      BY <1>1, <2>4 DEF MonitorsInv, AloneInv
    <3>2. file.whole /\ file.rules = Rules(table)
      BY <2>1, <2>4, <3>1 DEF MonitorsInv, FileInv, AloneInv, Written
    <3>3. LoadAccepted
      BY <1>6, <2>4 DEF MonitorsInv, TypeOK, Reload, Move
    <3>4. QED
      BY <3>2, <3>3 DEF MonitorsInv, TypeOK, LoadAccepted
  <2>5. ReportedIsInForce'
    <3>1. ASSUME NEW v \in Workers, versions # {}, alone, stage'[v] = "reloaded" PROVE v = w
      BY <1>1, <2>1, <3>1 DEF MonitorsInv, AloneInv
    <3>2. QED
      BY <1>1, <1>2, <2>4, <3>1 DEF ReportedIsInForce
  <2>6. QED
    BY <1>2, <2>2, <2>3, <2>5 DEF MonitorsInv
<1>7. CASE ReloadFails(w) \/ Answer(w)
  <2>1. /\ stage[w] \in {"posting", "reloaded", "not_reloaded"} /\ stage'[w] \in {"idle", "not_reloaded"}
        /\ snapshot' = snapshot /\ file' = file /\ prometheus' = prometheus
    BY <1>7 DEF MonitorsInv, TypeOK, ReloadFails, Answer, Move
  <2>2. SnapshotsInv'
    BY <1>1, <1>2, <2>1 DEF MonitorsInv, SnapshotsInv
  <2>3. FileInv'
    BY <1>1, <2>1 DEF MonitorsInv, FileInv, Written
  <2>4. ReportedIsInForce'
    BY <1>1, <1>2, <2>1 DEF MonitorsInv, ReportedIsInForce
  <2>5. QED
    BY <1>2, <2>2, <2>3, <2>4 DEF MonitorsInv
<1>8. QED
  BY <1>3, <1>4, <1>5, <1>6, <1>7

(* Prometheus loads the file once more, or restarts.                       *)
LEMMA PrometheusKeepsVersions ==
    ASSUME MonitorsInv, LateReload \/ PrometheusStarts, TypeOK'
    PROVE  MonitorsInv'
<1>1. UNCHANGED <<table, file, stage, snapshot, versions, alone>>
  BY DEF LateReload, PrometheusStarts, workerVars, histVars
<1>2. SnapshotsInv' /\ FileInv' /\ AloneInv'
  BY <1>1 DEF MonitorsInv, SnapshotsInv, FileInv, AloneInv, Written
<1>3. ASSUME NEW w \in Workers, versions # {}, alone, stage[w] = "reloaded", prometheus'.up
      PROVE  prometheus'.rules = Rules(table)
  <2>1. \A v \in Workers : v # w => stage[v] = "idle"
    BY <1>3 DEF MonitorsInv, AloneInv
  <2>2. file.whole /\ file.rules = Rules(table)
    BY <1>3, <2>1 DEF MonitorsInv, FileInv, AloneInv, Written
  <2>3. CASE LateReload
    <3>1. prometheus.rules = Rules(table) \/ LoadAccepted
      BY <1>3, <2>3 DEF MonitorsInv, ReportedIsInForce, LateReload, LoadRejected
    <3>2. QED
      BY <1>3, <2>2, <2>3, <3>1 DEF MonitorsInv, TypeOK, ReportedIsInForce, LateReload, LoadAccepted,
         LoadRejected
  <2>4. CASE PrometheusStarts
    <3>1. prometheus' = [rules |-> file.rules, up |-> TRUE] \/ prometheus' = [rules |-> {}, up |-> FALSE]
      BY <2>4 DEF PrometheusStarts
    <3>2. QED
      BY <1>3, <2>2, <3>1
  <2>5. QED
    BY <2>3, <2>4
<1>4. ReportedIsInForce'
  BY <1>1, <1>3 DEF ReportedIsInForce
<1>5. QED
  BY <1>2, <1>4 DEF MonitorsInv

LEMMA NextKeepsMonitorsInv == MonitorsInv /\ [Next]_vars => MonitorsInv'
<1> SUFFICES ASSUME MonitorsInv, [Next]_vars PROVE MonitorsInv'
  OBVIOUS
<1>1. TypeOK'
  BY NextKeepsType DEF MonitorsInv
<1>2. ASSUME versions' = {} PROVE MonitorsInv'
  BY <1>1, <1>2 DEF MonitorsInv, SnapshotsInv, FileInv, AloneInv, ReportedIsInForce
<1>3. CASE \E h \in Handlers : CreateMonitor(h) \/ UpdateMonitor(h) \/ DeleteMonitor(h)
  BY <1>1, <1>3, RequestChanges, ChangeKeepsVersions DEF MonitorsInv
<1>4. CASE \E w \in Workers : \/ ReadEnabled(w) \/ OpenFile(w) \/ CloseFile(w)
                              \/ Reload(w) \/ ReloadFails(w) \/ Answer(w)
  BY <1>1, <1>4, WorkKeepsVersions
<1>5. CASE \E w \in Workers : ReadFails(w) \/ WriteFails(w)
  BY <1>2, <1>5 DEF ReadFails, WriteFails, Abandon
<1>6. CASE LateReload \/ PrometheusStarts
  BY <1>1, <1>6, PrometheusKeepsVersions
<1>7. CASE Start
  <2>1. stage' = [stage EXCEPT ![Lifespan] = "changed"] /\ versions' = {Rules(table)} /\ table' = table
    BY <1>7 DEF Start
  <2>2. \A w \in Workers : stage[w] = "idle"
    BY <1>7 DEF Start, MonitorsInv, TypeOK, Workers
  <2>3. stage'[Lifespan] = "changed" /\ \A w \in Workers : w # Lifespan => stage'[w] = "idle"
    BY <2>1, <2>2 DEF MonitorsInv, TypeOK, Workers
  <2>4. Lifespan \in Workers
    BY DEF Workers
  <2>5. QED
    BY <1>1, <2>1, <2>3, <2>4 DEF MonitorsInv, SnapshotsInv, FileInv, AloneInv, ReportedIsInForce, Written
<1>8. CASE Stop \/ UNCHANGED vars
  <2>1. UNCHANGED <<table, file, prometheus, stage, snapshot, versions, alone>>
    BY <1>8 DEF Stop, vars, workerVars, histVars
  <2>2. QED
    BY <1>1, <2>1 DEF MonitorsInv, SnapshotsInv, FileInv, AloneInv, ReportedIsInForce, Written
<1>9. CASE Crash
  BY <1>2, <1>9 DEF Crash
<1>10. QED
  BY <1>3, <1>4, <1>5, <1>6, <1>7, <1>8, <1>9 DEF Next

LEMMA MonitorsInvStaleness == MonitorsInv => StalenessBounded
<1> SUFFICES ASSUME MonitorsInv, versions # {}, AtRest
             PROVE  file.whole /\ file.rules \in versions /\ (alone => file.rules = Rules(table))
  BY DEF StalenessBounded
<1>1. Written /\ ~\E w \in Workers : stage[w] = "writing"
  BY DEF AtRest, Written
<1>2. QED
  BY <1>1 DEF MonitorsInv, FileInv, AloneInv

(* Once overlapping requests are through, none of them having failed, the  *)
(* rules file is no older than the first of them, and exact after a        *)
(* request that ran alone.                                                 *)
THEOREM FileStaleness == Spec => []StalenessBounded
<1>1. Spec => []MonitorsInv
  BY InitMonitorsInv, NextKeepsMonitorsInv, PTL DEF Spec
<1>2. QED
  BY <1>1, MonitorsInvStaleness, PTL

(* A reload that a request running alone reports as successful has put its *)
(* change in force.                                                        *)
THEOREM ReportTruthful == Spec => []ReportedIsInForce
<1>1. Spec => []MonitorsInv
  BY InitMonitorsInv, NextKeepsMonitorsInv, PTL DEF Spec
<1>2. MonitorsInv => ReportedIsInForce
  BY DEF MonitorsInv
<1>3. QED
  BY <1>1, <1>2, PTL
=============================================================================

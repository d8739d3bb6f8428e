------------------------- MODULE AlertReceiver_proofs -------------------------
(***************************************************************************)
(* Triages and the history of alerts, for any number of alerts, webhooks   *)
(* and failures.                                                           *)
(*                                                                         *)
(* The argument for the history is one of accounts.  A notification that   *)
(* Alertmanager has given up has cost a fault, and can insert one row, or  *)
(* resolve one that another notification has then to insert again.  The    *)
(* notifications it waits for exclude each other, so that they owe each    *)
(* alert one row at most.  Rows that were inserted, notifications that     *)
(* were given up and rows owed never exceed what episodes and faults allow.*)
(***************************************************************************)
EXTENDS AlertReceiver, FiniteSetTheorems, TLAPS

USE AlertReceiverAssumption

(* Where a handler is fits what it has in hand.                            *)
HandlersOK ==
    \A h \in Handlers :
        /\ stage[h] = "idle" => sent[h] = NoPayload /\ ~waiting[h]
        /\ stage[h] \in {"idle", "gauges"} => todo[h] = {}
        /\ stage[h] # "insert" => late[h] = {}
        /\ \A a \in late[h] : ~sent[h][a] /\ late[h] = {a}

(* Alertmanager waits for one answer about an alert.                       *)
OneNotification ==
    \A g, h \in Handlers :
        waiting[g] /\ waiting[h] /\ DOMAIN sent[g] \cap DOMAIN sent[h] # {} => g = h

Abandoned(a) == {h \in Handlers : ~waiting[h] /\ a \in todo[h]}

(* The awaited notifications of a's state that are not yet processed, and  *)
(* those that are.                                                         *)
Pending(a, state) == {h \in Handlers : waiting[h] /\ a \in todo[h] /\ sent[h][a] = state}
Settled(a, state) ==
    {h \in Handlers : waiting[h] /\ a \in DOMAIN sent[h] \ todo[h] /\ sent[h][a] = state}
Missed(a) == {h \in Handlers : waiting[h] /\ a \in late[h]}

(* No further fault is needed for another firing event of a ...            *)
FiringDue(a) ==
    \/ firing[a] /\ EventOf(a) = {}
    \/ firing[a] /\ Pending(a, FALSE) # {}
    \/ EventOf(a) = {} /\ Pending(a, TRUE) # {}

(* ... or for a resolution without one.                                    *)
ResolutionDue(a) ==
    \/ EventOf(a) = {} /\ told[a] /\ Settled(a, FALSE) = {}
    \/ EventOf(a) = {} /\ Settled(a, TRUE) # {}
    \/ EventOf(a) = {} /\ Pending(a, FALSE) # {}
    \/ Missed(a) # {}

Unit(due) == IF due THEN 1 ELSE 0

FiringAccount(a) ==
    Cardinality(Born(a, "firing")) + Cardinality(Abandoned(a)) + Unit(FiringDue(a))
        <= episodes[a] + faults

ResolutionAccount(a) ==
    Cardinality(Born(a, "resolved")) + Cardinality(Abandoned(a)) + Unit(ResolutionDue(a))
        <= faults

Accounts == \A a \in Alerts : FiringAccount(a) /\ ResolutionAccount(a)

BasicInv == TypeOK /\ HandlersOK /\ OneNotification
-----------------------------------------------------------------------------
(* Sets of events and of handlers *)

(* A set of events is no larger than the table.                            *)
LEMMA EventSet ==
    ASSUME NEW n \in Nat, NEW S \in SUBSET (1..n)
    PROVE  IsFiniteSet(S) /\ Cardinality(S) \in 0..n
<1>1. IsFiniteSet(1..n) /\ Cardinality(1..n) = n
  BY FS_Interval
<1>2. IsFiniteSet(S) /\ Cardinality(S) <= n
  BY <1>1, FS_Subset
<1>3. QED
  BY <1>2, FS_CardinalityType

(* The rows of a status or of an alert are events.                         *)
LEMMA EventSets ==
    ASSUME TypeOK, NEW a, NEW s
    PROVE  /\ Len(events) \in Nat /\ DOMAIN events = 1..Len(events)
           /\ FiringEvents \in SUBSET (1..Len(events))
           /\ Born(a, s) \in SUBSET (1..Len(events))
           /\ IsFiniteSet(Born(a, s)) /\ Cardinality(Born(a, s)) \in Nat
           /\ Cardinality(FiringEvents) \in 0..Len(events)
<1>1. Len(events) \in Nat /\ DOMAIN events = 1..Len(events)
  BY DEF TypeOK
<1>2. FiringEvents \in SUBSET (1..Len(events)) /\ Born(a, s) \in SUBSET (1..Len(events))
  BY <1>1 DEF FiringEvents, Born
<1>3. QED
  BY <1>1, <1>2, EventSet

(* The webhooks in flight are finitely many, those given up among them.    *)
LEMMA HandlerSet ==
    ASSUME NEW S \in SUBSET Handlers
    PROVE  IsFiniteSet(S) /\ Cardinality(S) \in Nat
  BY FS_Subset, FS_CardinalityType

-----------------------------------------------------------------------------
(* What a step does to the rows *)

(* The rows that were there keep what is told apart by the history.        *)
SameRow(k) ==
    /\ events'[k].alert = events[k].alert
    /\ events'[k].status = events[k].status
    /\ events'[k].born = events[k].born

SameRows == DOMAIN events' = DOMAIN events /\ \A k \in DOMAIN events : SameRow(k)

(* A row of alert a is inserted.                                           *)
Grown(a, status) ==
    /\ Len(events') = Len(events) + 1
    /\ \A k \in DOMAIN events : SameRow(k)
    /\ events'[Len(events) + 1].alert = a
    /\ events'[Len(events) + 1].status = status
    /\ events'[Len(events) + 1].born = status

(* The firing row of alert a is resolved.                                  *)
Closed(a) ==
    /\ DOMAIN events' = DOMAIN events
    /\ \A k \in DOMAIN events :
          /\ events'[k].alert = events[k].alert /\ events'[k].born = events[k].born
          /\ events'[k].status = IF k \in EventOf(a) THEN "resolved" ELSE events[k].status

(* Nothing else changes the sets of rows.                                  *)
LEMMA SameRowSets ==
    ASSUME SameRows, NEW a
    PROVE  EventOf(a)' = EventOf(a) /\ \A s \in States : Born(a, s)' = Born(a, s)
  BY DEF SameRows, SameRow, EventOf, FiringEvents, Born

(* An INSERT adds to one set, and perhaps to the firing events of a.       *)
LEMMA GrownRowSets ==
    ASSUME events \in Seq(Event), events' \in Seq(Event),
           NEW a, NEW status \in States, Grown(a, status)
    PROVE  /\ \A b : b # a => EventOf(b)' = EventOf(b)
           /\ \A b, s : b # a \/ s # status => Born(b, s)' = Born(b, s)
           /\ Born(a, status)' = Born(a, status) \cup {Len(events) + 1}
           /\ Len(events) + 1 \notin Born(a, status)
           /\ status = "firing" => EventOf(a)' # {}
           /\ status = "resolved" => EventOf(a)' = EventOf(a)
<1>1. /\ Len(events) \in Nat /\ DOMAIN events = 1..Len(events)
      /\ DOMAIN events' = 1..(Len(events) + 1)
  BY DEF Grown
<1>2. DOMAIN events' = DOMAIN events \cup {Len(events) + 1} /\ Len(events) + 1 \notin DOMAIN events
  BY <1>1
<1>3. QED
  BY <1>2 DEF Grown, SameRow, EventOf, FiringEvents, Born, States

(* An UPDATE to "resolved" leaves the sets of born rows alone.             *)
LEMMA ClosedRowSets ==
    ASSUME NEW a, Closed(a)
    PROVE  /\ \A b : b # a => EventOf(b)' = EventOf(b)
           /\ \A b, s : Born(b, s)' = Born(b, s)
           /\ EventOf(a)' = {}
  BY DEF Closed, EventOf, FiringEvents, Born

-----------------------------------------------------------------------------
(* The accounts of one alert *)

(* What the accounts of b are made of, but for the rows that were inserted *)
(* and the notifications given up.                                         *)
SameDebts(b) ==
    /\ firing'[b] = firing[b] /\ told'[b] = told[b] /\ episodes'[b] = episodes[b]
    /\ EventOf(b)' = EventOf(b)
    /\ \A s \in BOOLEAN : Pending(b, s)' = Pending(b, s) /\ Settled(b, s)' = Settled(b, s)
    /\ Missed(b)' = Missed(b)

(* The step neither spends nor owes anything for b.                        *)
Untouched(b) ==
    /\ SameDebts(b)
    /\ \A s \in States : Born(b, s)' = Born(b, s)
    /\ Abandoned(b)' = Abandoned(b)

Account(b) == FiringAccount(b) /\ ResolutionAccount(b)

(* A step that does not touch b keeps its accounts, whatever faults occur. *)
LEMMA UntouchedAccount ==
    ASSUME TypeOK, TypeOK', NEW b \in Alerts, Account(b), Untouched(b), faults <= faults'
    PROVE  Account(b)'
<1>1. FiringDue(b)' = FiringDue(b) /\ ResolutionDue(b)' = ResolutionDue(b)
  BY DEF Untouched, SameDebts, FiringDue, ResolutionDue
<1>2. /\ Born(b, "firing")' = Born(b, "firing") /\ Born(b, "resolved")' = Born(b, "resolved")
      /\ Abandoned(b)' = Abandoned(b) /\ episodes'[b] = episodes[b]
  BY DEF Untouched, SameDebts, States
<1>3. /\ Cardinality(Born(b, "firing")) \in Nat /\ Cardinality(Born(b, "resolved")) \in Nat
      /\ Cardinality(Abandoned(b)) \in Nat
  BY EventSets, HandlerSet DEF Abandoned
<1>4. episodes[b] \in Nat /\ faults \in Nat /\ faults' \in Nat
  BY DEF TypeOK
<1>5. Unit(FiringDue(b))' = Unit(FiringDue(b)) /\ Unit(ResolutionDue(b))' = Unit(ResolutionDue(b))
  BY <1>1 DEF Unit
<1>6. Unit(FiringDue(b)) \in {0, 1} /\ Unit(ResolutionDue(b)) \in {0, 1}
  BY DEF Unit
<1>7. FiringAccount(b)'
  BY <1>2, <1>3, <1>4, <1>5, <1>6 DEF Account, FiringAccount
<1>8. ResolutionAccount(b)'
  BY <1>2, <1>3, <1>4, <1>5, <1>6 DEF Account, ResolutionAccount
<1>9. QED
  BY <1>7, <1>8 DEF Account

(* The accounts of b in numbers: rows born, notifications given up, and a  *)
(* row owed.                                                               *)
LEMMA Numbers ==
    ASSUME TypeOK, NEW b \in Alerts
    PROVE  /\ Cardinality(Born(b, "firing")) \in Nat /\ Cardinality(Born(b, "resolved")) \in Nat
           /\ Cardinality(Abandoned(b)) \in Nat
           /\ IsFiniteSet(Born(b, "firing")) /\ IsFiniteSet(Born(b, "resolved"))
           /\ IsFiniteSet(Abandoned(b))
           /\ Unit(FiringDue(b)) \in {0, 1} /\ Unit(ResolutionDue(b)) \in {0, 1}
           /\ episodes[b] \in Nat /\ faults \in Nat
<1>1. Abandoned(b) \in SUBSET Handlers
  BY DEF Abandoned
<1>2. Unit(FiringDue(b)) \in {0, 1} /\ Unit(ResolutionDue(b)) \in {0, 1}
  BY DEF Unit
<1>3. episodes[b] \in Nat /\ faults \in Nat
  BY DEF TypeOK
<1>4. QED
  BY <1>1, <1>2, <1>3, EventSets, HandlerSet

-----------------------------------------------------------------------------
(* One alert of a webhook is processed *)

(* A handler that Alertmanager waits for is the only one about its alerts. *)
LEMMA Alone ==
    ASSUME TypeOK, HandlersOK, OneNotification, NEW h \in Handlers, NEW a \in todo[h], waiting[h]
    PROVE  /\ \A s : Pending(a, s) = IF sent[h][a] = s THEN {h} ELSE {}
           /\ \A s : Settled(a, s) = {}
           /\ Missed(a) \subseteq {h}
           /\ h \notin Abandoned(a)
<1>1. \A g \in Handlers : waiting[g] /\ a \in DOMAIN sent[g] => g = h
  BY DEF TypeOK, OneNotification
<1>2. \A g \in Handlers : todo[g] \subseteq DOMAIN sent[g] /\ late[g] \subseteq todo[g]
  BY DEF TypeOK
<1>3. QED
  BY <1>1, <1>2 DEF Pending, Settled, Missed, Abandoned

(* Once processed, an alert of a webhook that is awaited is settled; one   *)
(* that was given up owes nothing more.                                    *)
LEMMA ProcessedSets ==
    ASSUME TypeOK, HandlersOK, OneNotification,
           NEW h \in Handlers, NEW a \in todo[h], Processed(h, a),
           late[h] \subseteq {a}
    PROVE  /\ \A b \in Alerts \ {a} :
                 /\ Abandoned(b)' = Abandoned(b) /\ Missed(b)' = Missed(b)
                 /\ \A s : Pending(b, s)' = Pending(b, s) /\ Settled(b, s)' = Settled(b, s)
           /\ waiting[h] =>
                 /\ Abandoned(a)' = Abandoned(a) /\ Missed(a)' = {}
                 /\ \A s : /\ Pending(a, s)' = {}
                           /\ Settled(a, s)' = IF sent[h][a] = s THEN {h} ELSE {}
           /\ ~waiting[h] =>
                 /\ h \in Abandoned(a) /\ Abandoned(a)' = Abandoned(a) \ {h}
                 /\ Missed(a)' = Missed(a)
                 /\ \A s : Pending(a, s)' = Pending(a, s) /\ Settled(a, s)' = Settled(a, s)
<1>1. /\ \A g \in Handlers \ {h} : todo'[g] = todo[g] /\ late'[g] = late[g]
      /\ todo'[h] = todo[h] \ {a} /\ late'[h] = {}
      /\ waiting' = waiting /\ sent' = sent
  BY DEF Processed, TypeOK
<1>2. a \in DOMAIN sent[h]
  BY DEF TypeOK
<1>3. ASSUME NEW b \in Alerts \ {a}
      PROVE  /\ Abandoned(b)' = Abandoned(b) /\ Missed(b)' = Missed(b)
             /\ \A s : Pending(b, s)' = Pending(b, s) /\ Settled(b, s)' = Settled(b, s)
  BY <1>1 DEF Abandoned, Missed, Pending, Settled
<1>4. CASE waiting[h]
  <2>1. \A g \in Handlers \ {h} : ~(waiting[g] /\ a \in DOMAIN sent[g])
    BY <1>2, <1>4 DEF OneNotification
  <2>2. \A g \in Handlers : todo[g] \subseteq DOMAIN sent[g] /\ late[g] \subseteq todo[g]
    BY DEF TypeOK
  <2>3. QED
    BY <1>1, <1>2, <1>3, <1>4, <2>1, <2>2 DEF Abandoned, Missed, Pending, Settled
<1>5. CASE ~waiting[h]
  BY <1>1, <1>3, <1>5 DEF Abandoned, Missed, Pending, Settled
<1>6. QED
  BY <1>4, <1>5

(* What a processed alert may do to its rows.                              *)
Effect(h, a) ==
    \/ sent[h][a] /\ EventOf(a) = {} /\ Grown(a, "firing")
    \/ sent[h][a] /\ EventOf(a) # {} /\ SameRows
    \/ ~sent[h][a] /\ Closed(a)
    \/ ~sent[h][a] /\ a \in late[h] /\ Grown(a, "resolved")
    \/ faults' = faults + 1 /\ SameRows

(* The rows that the effect adds, and the firing event it leaves.          *)
LEMMA EffectSets ==
    ASSUME TypeOK, TypeOK', NEW h \in Handlers, NEW a \in todo[h], Effect(h, a)
    PROVE  /\ \A b \in Alerts \ {a} :
                 EventOf(b)' = EventOf(b) /\ \A s \in States : Born(b, s)' = Born(b, s)
           /\ sent[h][a] /\ EventOf(a) = {} /\ Grown(a, "firing") =>
                 /\ EventOf(a)' # {} /\ Born(a, "resolved")' = Born(a, "resolved")
                 /\ Cardinality(Born(a, "firing")') = Cardinality(Born(a, "firing")) + 1
           /\ ~sent[h][a] /\ a \in late[h] /\ Grown(a, "resolved") =>
                 /\ EventOf(a)' = EventOf(a) /\ Born(a, "firing")' = Born(a, "firing")
                 /\ Cardinality(Born(a, "resolved")') = Cardinality(Born(a, "resolved")) + 1
           /\ SameRows => EventOf(a)' = EventOf(a) /\ \A s \in States : Born(a, s)' = Born(a, s)
           /\ Closed(a) => EventOf(a)' = {} /\ \A s \in States : Born(a, s)' = Born(a, s)
<1>1. events \in Seq(Event) /\ events' \in Seq(Event) /\ {"firing", "resolved"} = States
  BY DEF TypeOK, States
<1>2. \A s \in States : IsFiniteSet(Born(a, s)) /\ Len(events) + 1 \notin Born(a, s)
  BY EventSets
<1>3. \A s \in States : Cardinality(Born(a, s) \cup {Len(events) + 1}) = Cardinality(Born(a, s)) + 1
  BY <1>2, FS_AddElement
<1>4. ASSUME NEW s \in States, Grown(a, s)
      PROVE  /\ \A b : b # a => EventOf(b)' = EventOf(b)
             /\ \A b, t : b # a \/ t # s => Born(b, t)' = Born(b, t)
             /\ Cardinality(Born(a, s)') = Cardinality(Born(a, s)) + 1
             /\ s = "firing" => EventOf(a)' # {}
             /\ s = "resolved" => EventOf(a)' = EventOf(a)
  BY <1>1, <1>3, <1>4, GrownRowSets
<1>5. \A b \in Alerts \ {a} :
         EventOf(b)' = EventOf(b) /\ \A s \in States : Born(b, s)' = Born(b, s)
  BY <1>1, <1>4, SameRowSets, ClosedRowSets DEF Effect
<1>6. QED
  BY <1>1, <1>4, <1>5, SameRowSets, ClosedRowSets

(* The effect on the accounts, if Alertmanager waits for the webhook ...   *)
LEMMA AwaitedDebts ==
    ASSUME BasicInv, TypeOK', NEW h \in Handlers, NEW a \in todo[h], Processed(h, a),
           late[h] \subseteq {a}, Effect(h, a), waiting[h]
    PROVE  /\ sent[h][a] /\ EventOf(a) = {} /\ Grown(a, "firing") =>
                 FiringDue(a) /\ ~FiringDue(a)' /\ ~ResolutionDue(a)'
           /\ sent[h][a] /\ EventOf(a) # {} /\ SameRows => ~FiringDue(a)' /\ ~ResolutionDue(a)'
           /\ ~sent[h][a] /\ Closed(a) => (FiringDue(a)' => FiringDue(a)) /\ ~ResolutionDue(a)'
           /\ ~sent[h][a] /\ a \in late[h] /\ Grown(a, "resolved") =>
                 (FiringDue(a)' => FiringDue(a)) /\ ResolutionDue(a) /\ ~ResolutionDue(a)'
           /\ SameRows => (FiringDue(a)' => FiringDue(a))
<1>1. TypeOK /\ HandlersOK /\ OneNotification
  BY DEF BasicInv
<1>2. sent[h][a] \in BOOLEAN /\ a \in Alerts
  BY <1>1 DEF TypeOK, Payload
<1>3. \A s : Pending(a, s) = IF sent[h][a] = s THEN {h} ELSE {}
  BY <1>1, Alone
<1>4. /\ Missed(a)' = {}
      /\ \A s : Pending(a, s)' = {} /\ Settled(a, s)' = IF sent[h][a] = s THEN {h} ELSE {}
  BY <1>1, ProcessedSets
<1>5. firing' = firing /\ told' = told
  BY DEF Processed, managerVars
<1>6. a \in late[h] => Missed(a) # {}
  BY DEF Missed
<1>7. CASE sent[h][a]
  <2>1. FiringDue(a) <=> EventOf(a) = {}
    BY <1>2, <1>3, <1>7 DEF FiringDue
  <2>2. FiringDue(a)' <=> firing[a] /\ EventOf(a)' = {}
    BY <1>4, <1>5 DEF FiringDue
  <2>3. ResolutionDue(a)' => EventOf(a)' = {}
    BY <1>4 DEF ResolutionDue
  <2>4. QED
    BY <1>1, <1>7, <2>1, <2>2, <2>3, EffectSets
<1>8. CASE ~sent[h][a]
  <2>1. sent[h][a] = FALSE
    BY <1>2, <1>8
  <2>2. FiringDue(a) <=> firing[a]
    BY <1>3, <2>1 DEF FiringDue
  <2>3. FiringDue(a)' => firing[a]
    BY <1>4, <1>5 DEF FiringDue
  <2>4. ~ResolutionDue(a)'
    BY <1>4, <2>1 DEF ResolutionDue
  <2>5. a \in late[h] => ResolutionDue(a)
    BY <1>6 DEF ResolutionDue
  <2>6. QED
    BY <1>8, <2>2, <2>3, <2>4, <2>5
<1>9. QED
  BY <1>7, <1>8

(* ... and if it has given up.                                             *)
LEMMA AbandonedDebts ==
    ASSUME BasicInv, TypeOK', NEW h \in Handlers, NEW a \in todo[h], Processed(h, a),
           late[h] \subseteq {a}, Effect(h, a), ~waiting[h]
    PROVE  /\ Cardinality(Abandoned(a)') = Cardinality(Abandoned(a)) - 1
           /\ EventOf(a)' # {} \/ EventOf(a)' = EventOf(a) =>
                 (FiringDue(a)' => FiringDue(a)) /\ (ResolutionDue(a)' => ResolutionDue(a))
<1>1. TypeOK /\ HandlersOK /\ OneNotification
  BY DEF BasicInv
<1>2. /\ h \in Abandoned(a) /\ Abandoned(a)' = Abandoned(a) \ {h}
      /\ Missed(a)' = Missed(a)
      /\ \A s : Pending(a, s)' = Pending(a, s) /\ Settled(a, s)' = Settled(a, s)
  BY <1>1, ProcessedSets
<1>3. IsFiniteSet(Abandoned(a))
  BY HandlerSet DEF Abandoned
<1>4. firing' = firing /\ told' = told
  BY DEF Processed, managerVars
<1>5. Cardinality(Abandoned(a)') = Cardinality(Abandoned(a)) - 1
  BY <1>2, <1>3, FS_RemoveElement
<1>6. QED
  BY <1>2, <1>4, <1>5 DEF FiringDue, ResolutionDue

(* In every case what is born was owed, or given up, or costs a fault.     *)
LEMMA ProcessedAccount ==
    ASSUME BasicInv, TypeOK', NEW h \in Handlers, NEW a \in todo[h], Processed(h, a),
           late[h] \subseteq {a}, Effect(h, a), Account(a), faults <= faults'
    PROVE  Account(a)'
<1> DEFINE bornF == Cardinality(Born(a, "firing"))
           bornR == Cardinality(Born(a, "resolved"))
           left == Cardinality(Abandoned(a))
           dueF == Unit(FiringDue(a))
           dueR == Unit(ResolutionDue(a))
<1>1. TypeOK /\ HandlersOK /\ OneNotification /\ a \in Alerts
  BY DEF BasicInv, TypeOK, Payload
<1>2. bornF \in Nat /\ bornR \in Nat /\ left \in Nat /\ episodes[a] \in Nat /\ faults \in Nat
  BY <1>1, Numbers
<1>3. faults' \in Nat /\ episodes' = episodes
  BY DEF TypeOK, Processed, managerVars
<1>4. dueF \in {0, 1} /\ dueR \in {0, 1} /\ dueF' \in {0, 1} /\ dueR' \in {0, 1}
  BY DEF Unit
<1>5. bornF + left + dueF <= episodes[a] + faults /\ bornR + left + dueR <= faults
  BY DEF Account, FiringAccount, ResolutionAccount
<1> SUFFICES /\ bornF' + left' + dueF' <= episodes[a] + faults'
             /\ bornR' + left' + dueR' <= faults'
  BY <1>3 DEF Account, FiringAccount, ResolutionAccount
<1>6. SameRows \/ Closed(a) => bornF' = bornF /\ bornR' = bornR
  BY <1>1, EffectSets DEF States
<1>7. CASE waiting[h]
  <2>1. left' = left
    BY <1>1, <1>7, ProcessedSets
  <2>2. CASE sent[h][a] /\ EventOf(a) = {} /\ Grown(a, "firing")
    <3>1. dueF = 1 /\ dueF' = 0 /\ dueR' = 0
      BY <1>7, <2>2, AwaitedDebts DEF Unit
    <3>2. bornF' = bornF + 1 /\ bornR' = bornR
      BY <1>1, <2>2, EffectSets
    <3>3. QED
      BY <1>2, <1>3, <1>4, <1>5, <2>1, <3>1, <3>2
  <2>3. CASE sent[h][a] /\ EventOf(a) # {} /\ SameRows
    <3>1. dueF' = 0 /\ dueR' = 0
      BY <1>7, <2>3, AwaitedDebts DEF Unit
    <3>2. QED
      BY <1>2, <1>3, <1>4, <1>5, <1>6, <2>1, <2>3, <3>1
  <2>4. CASE ~sent[h][a] /\ Closed(a)
    <3>1. dueF' <= dueF /\ dueR' = 0
      BY <1>7, <2>4, AwaitedDebts DEF Unit
    <3>2. QED
      BY <1>2, <1>3, <1>4, <1>5, <1>6, <2>1, <2>4, <3>1
  <2>5. CASE ~sent[h][a] /\ a \in late[h] /\ Grown(a, "resolved")
    <3>1. dueF' <= dueF /\ dueR = 1 /\ dueR' = 0
      BY <1>7, <2>5, AwaitedDebts DEF Unit
    <3>2. bornF' = bornF /\ bornR' = bornR + 1
      BY <1>1, <2>5, EffectSets
    <3>3. QED
      BY <1>2, <1>3, <1>4, <1>5, <2>1, <3>1, <3>2
  <2>6. CASE faults' = faults + 1 /\ SameRows
    <3>1. dueF' <= dueF
      BY <1>7, <2>6, AwaitedDebts DEF Unit
    <3>2. QED
      BY <1>2, <1>3, <1>4, <1>5, <1>6, <2>1, <2>6, <3>1
  <2>7. QED
    BY <2>2, <2>3, <2>4, <2>5, <2>6 DEF Effect
<1>8. CASE ~waiting[h]
  <2>1. left' = left - 1
    BY <1>8, AbandonedDebts
  <2>2. EventOf(a)' # {} \/ EventOf(a)' = EventOf(a) => dueF' <= dueF /\ dueR' <= dueR
    BY <1>8, AbandonedDebts DEF Unit
  <2>3. CASE Closed(a) \/ SameRows
    BY <1>2, <1>3, <1>4, <1>5, <1>6, <2>1, <2>3
  <2>4. CASE sent[h][a] /\ EventOf(a) = {} /\ Grown(a, "firing")
    <3>1. EventOf(a)' # {} /\ bornF' = bornF + 1 /\ bornR' = bornR
      BY <1>1, <2>4, EffectSets
    <3>2. QED
      BY <1>2, <1>3, <1>4, <1>5, <2>1, <2>2, <3>1
  <2>5. CASE ~sent[h][a] /\ a \in late[h] /\ Grown(a, "resolved")
    <3>1. EventOf(a)' = EventOf(a) /\ bornF' = bornF /\ bornR' = bornR + 1
      BY <1>1, <2>5, EffectSets
    <3>2. QED
      BY <1>2, <1>3, <1>4, <1>5, <2>1, <2>2, <3>1
  <2>6. QED
    BY <2>3, <2>4, <2>5 DEF Effect
<1>9. QED
  BY <1>7, <1>8

(* The other alerts notice nothing.                                        *)
LEMMA ProcessedOthers ==
    ASSUME BasicInv, TypeOK', NEW h \in Handlers, NEW a \in todo[h], Processed(h, a),
           late[h] \subseteq {a}, Effect(h, a), NEW b \in Alerts \ {a}
    PROVE  Untouched(b)
<1>1. TypeOK /\ HandlersOK /\ OneNotification
  BY DEF BasicInv
<1>2. firing' = firing /\ told' = told /\ episodes' = episodes
  BY DEF Processed, managerVars
<1>3. EventOf(b)' = EventOf(b) /\ \A s \in States : Born(b, s)' = Born(b, s)
  BY <1>1, EffectSets
<1>4. /\ Abandoned(b)' = Abandoned(b) /\ Missed(b)' = Missed(b)
      /\ \A s : Pending(b, s)' = Pending(b, s) /\ Settled(b, s)' = Settled(b, s)
  BY <1>1, ProcessedSets
<1>5. QED
  BY <1>2, <1>3, <1>4 DEF Untouched, SameDebts

(* Together: processing an alert keeps the accounts.                       *)
LEMMA ProcessedAccounts ==
    ASSUME BasicInv, TypeOK', Accounts, NEW h \in Handlers, NEW a \in todo[h], Processed(h, a),
           late[h] \subseteq {a}, Effect(h, a), faults <= faults'
    PROVE  Accounts'
<1>1. Account(a)'
  BY ProcessedAccount DEF Accounts, Account, BasicInv, TypeOK, Payload
<1>2. ASSUME NEW b \in Alerts \ {a} PROVE Account(b)'
  <2>1. Untouched(b)
    BY ProcessedOthers
  <2>2. QED
    BY <2>1, UntouchedAccount DEF Accounts, Account, BasicInv
<1>3. QED
  BY <1>1, <1>2 DEF Accounts, Account

-----------------------------------------------------------------------------
(* The statements of upsert_alert_event *)

(* Inserting a row.                                                        *)
LEMMA InsertedRow ==
    ASSUME events \in Seq(Event), NEW a \in Alerts, NEW status \in States
    PROVE  LET inserted == Append(events, New(a, status))
           IN  /\ inserted \in Seq(Event) /\ Len(inserted) = Len(events) + 1
               /\ DOMAIN inserted = DOMAIN events \cup {Len(events) + 1}
               /\ \A k \in DOMAIN events : inserted[k] = events[k]
               /\ inserted[Len(events) + 1] = New(a, status)
<1>1. New(a, status) \in Event
  BY DEF New, Event, States
<1>2. QED
  BY <1>1

(* The firing event of an alert is inserted, or found.                     *)
LEMMA UpsertedRows ==
    ASSUME events \in Seq(Event), NEW a \in Alerts
    PROVE  /\ Upserted(a) \in Seq(Event) /\ DOMAIN events \subseteq DOMAIN Upserted(a)
           /\ IsNew(a) => /\ DOMAIN Upserted(a) = DOMAIN events \cup {Len(events) + 1}
                          /\ Len(Upserted(a)) = Len(events) + 1
                          /\ Len(events) + 1 \notin DOMAIN events
                          /\ Upserted(a)[Len(events) + 1] = New(a, "firing")
           /\ ~IsNew(a) => Upserted(a) = events
           /\ \A k \in DOMAIN events : Upserted(a)[k] = events[k]
<1>1. "firing" \in States
  BY DEF States
<1>2. QED
  BY <1>1, InsertedRow DEF Upserted

(* A field of one row changes.                                             *)
LEMMA ChangedRow ==
    ASSUME NEW rows \in Seq(Event), NEW k \in DOMAIN rows, NEW row \in Event
    PROVE  /\ [rows EXCEPT ![k] = row] \in Seq(Event)
           /\ DOMAIN [rows EXCEPT ![k] = row] = DOMAIN rows
           /\ Len([rows EXCEPT ![k] = row]) = Len(rows)
           /\ [rows EXCEPT ![k] = row][k] = row
           /\ \A i \in DOMAIN rows \ {k} : [rows EXCEPT ![k] = row][i] = rows[i]
  OBVIOUS

(* The new critical event is noted as triaged, once.                       *)
LEMMA StartTriageRows ==
    ASSUME TypeOK, NEW a \in Alerts, StartTriage(a)
    PROVE  /\ events' \in Seq(Event) /\ DOMAIN events \subseteq DOMAIN events'
           /\ \A k \in DOMAIN events : events'[k] = events[k]
           /\ ~IsNew(a) => events' = events /\ triaging' = triaging
           /\ IsNew(a) =>
                 /\ Len(events') = Len(events) + 1
                 /\ DOMAIN events' = DOMAIN events \cup {Len(events) + 1}
                 /\ events'[Len(events) + 1].alert = a
                 /\ events'[Len(events) + 1].status = "firing"
                 /\ events'[Len(events) + 1].born = "firing"
                 /\ events'[Len(events) + 1].triages <= 1
           /\ IsNew(a) /\ a \in Critical =>
                 triaging' = triaging \cup {Task(Len(events) + 1, a)}
           /\ a \notin Critical => triaging' = triaging
<1>1. events \in Seq(Event) /\ Len(events) \in Nat
  BY DEF TypeOK
<1>2. CASE a \in Critical /\ IsNew(a)
  <2> DEFINE k == Len(Upserted(a))
             row == [New(a, "firing") EXCEPT !.triages = 1]
  <2>1. k = Len(events) + 1 /\ k \in DOMAIN Upserted(a) /\ Upserted(a)[k] = New(a, "firing")
    BY <1>1, <1>2, UpsertedRows
  <2>2. row \in Event /\ [Upserted(a)[k] EXCEPT !.triages = @ + 1] = row
    <3>1. New(a, "firing") \in Event /\ New(a, "firing").triages + 1 = 1
      BY DEF New, Event, States
    <3>2. row \in Event
      BY <3>1 DEF Event
    <3>3. QED
      BY <2>1, <3>1, <3>2
  <2>3. events' = [Upserted(a) EXCEPT ![k] = row] /\ triaging' = triaging \cup {Task(k, a)}
    BY <1>2, <2>2 DEF StartTriage
  <2>4. /\ events' \in Seq(Event) /\ DOMAIN events' = DOMAIN Upserted(a)
        /\ Len(events') = Len(Upserted(a)) /\ events'[k] = row
        /\ \A i \in DOMAIN Upserted(a) \ {k} : events'[i] = Upserted(a)[i]
    BY <1>1, <2>1, <2>2, <2>3, UpsertedRows, ChangedRow
  <2>5. /\ row.alert = a /\ row.status = "firing" /\ row.born = "firing" /\ row.triages <= 1
    <3>1. New(a, "firing") \in Event
      BY DEF New, Event, States
    <3>2. New(a, "firing").alert = a /\ New(a, "firing").status = "firing" /\ New(a, "firing").born = "firing"
      BY DEF New
    <3>3. QED
      BY <3>1, <3>2 DEF Event
  <2> HIDE DEF row
  <2>6. QED
    BY <1>1, <1>2, <2>1, <2>3, <2>4, <2>5, UpsertedRows
<1>3. CASE ~(a \in Critical /\ IsNew(a))
  <2>1. events' = Upserted(a) /\ triaging' = triaging
    BY <1>3 DEF StartTriage
  <2>2. CASE IsNew(a)
    <3>1. /\ New(a, "firing").alert = a /\ New(a, "firing").status = "firing"
          /\ New(a, "firing").born = "firing" /\ New(a, "firing").triages <= 1
      BY DEF New
    <3>2. a \notin Critical
      BY <1>3, <2>2
    <3>3. QED
      BY <1>1, <2>1, <2>2, <3>1, <3>2, UpsertedRows
  <2>3. CASE ~IsNew(a)
    BY <1>1, <2>1, <2>3, UpsertedRows
  <2>4. QED
    BY <2>2, <2>3
<1>4. QED
  BY <1>2, <1>3

(* Resolving the firing event of an alert.                                 *)
LEMMA ResolvedRows ==
    ASSUME events \in Seq(Event), NEW a
    PROVE  /\ Resolved(a) \in Seq(Event) /\ DOMAIN Resolved(a) = DOMAIN events
           /\ Len(Resolved(a)) = Len(events)
           /\ \A k \in DOMAIN events :
                 /\ Resolved(a)[k].alert = events[k].alert
                 /\ Resolved(a)[k].born = events[k].born
                 /\ Resolved(a)[k].triages = events[k].triages
                 /\ Resolved(a)[k].summary = events[k].summary
                 /\ Resolved(a)[k].status =
                       IF k \in EventOf(a) THEN "resolved" ELSE events[k].status
<1>1. \A k \in DOMAIN events : events[k] \in Event
  OBVIOUS
<1>2. \A k \in DOMAIN events : [events[k] EXCEPT !.status = "resolved"] \in Event
  BY <1>1 DEF Event, States
<1>3. Len(events) \in Nat /\ DOMAIN events = 1..Len(events)
  OBVIOUS
<1>4. Resolved(a) \in [1..Len(events) -> Event]
  BY <1>1, <1>2, <1>3 DEF Resolved
<1>5. Resolved(a) \in Seq(Event) /\ Len(Resolved(a)) = Len(events)
  BY <1>3, <1>4
<1>6. QED
  BY <1>1, <1>5 DEF Resolved, Event

-----------------------------------------------------------------------------
(* Types *)

(* The parts of TypeOK: Alertmanager, the handlers, and what refers to     *)
(* rows.                                                                   *)
ManagerOK ==
    /\ firing \in [Alerts -> BOOLEAN] /\ told \in [Alerts -> BOOLEAN]
    /\ episodes \in [Alerts -> Nat]
    /\ platform \subseteq Alerts /\ faults \in 0..MaxFaults

WebhooksOK ==
    /\ up \in BOOLEAN
    /\ stage \in [Handlers -> {"idle", "alerts", "insert", "gauges"}]
    /\ sent \in [Handlers -> Payload]
    /\ todo \in [Handlers -> SUBSET Alerts] /\ late \in [Handlers -> SUBSET Alerts]
    /\ \A h \in Handlers : todo[h] \subseteq DOMAIN sent[h] /\ late[h] \subseteq todo[h]
    /\ waiting \in [Handlers -> BOOLEAN]

Tasks(rows) == [event : DOMAIN rows, at : {"diagnoses", "llm", "save"}]

RowsOK ==
    /\ events \in Seq(Event)
    /\ shot \in [Handlers -> SUBSET DOMAIN events]
    /\ total \in 0..Len(events) /\ gauge \in [Labels -> 0..MaxGauge]
    /\ triaging \subseteq Tasks(events) /\ dropped \subseteq DOMAIN events

(* The type invariant in parts, now ...                                    *)
LEMMA TypeParts == TypeOK <=> ManagerOK /\ WebhooksOK /\ RowsOK
  BY DEF TypeOK, ManagerOK, WebhooksOK, RowsOK, Tasks

(* ... and after a step.                                                   *)
LEMMA PrimedTypeParts == TypeOK' <=> ManagerOK' /\ WebhooksOK' /\ RowsOK'
  BY DEF TypeOK, ManagerOK, WebhooksOK, RowsOK, Tasks

(* The table only grows, and what refers to its rows stays valid.          *)
LEMMA RowsGrow ==
    ASSUME RowsOK, events' \in Seq(Event), DOMAIN events \subseteq DOMAIN events',
           UNCHANGED <<shot, gaugeVars>>,
           triaging' \subseteq Tasks(events'), dropped' \subseteq DOMAIN events'
    PROVE  RowsOK'
<1>1. Len(events) \in Nat /\ Len(events') \in Nat
  BY DEF RowsOK
<1>2. Len(events) <= Len(events')
  <2>1. DOMAIN events = 1..Len(events) /\ DOMAIN events' = 1..Len(events')
    BY DEF RowsOK
  <2>2. Len(events) \in 1..Len(events) \/ Len(events) = 0
    BY <1>1
  <2>3. QED
    BY <1>1, <2>1, <2>2
<1>3. total' \in 0..Len(events')
  BY <1>1, <1>2 DEF RowsOK, gaugeVars
<1>4. shot' \in [Handlers -> SUBSET DOMAIN events']
  BY DEF RowsOK
<1>5. QED
  BY <1>3, <1>4 DEF RowsOK, gaugeVars

(* The smaller of two numbers.                                             *)
LEMMA SmallerOfTwo ==
    ASSUME NEW m \in Nat, NEW n \in Nat
    PROVE  Min({m, n}) \in 0..n
<1>1. \E x \in {m, n} : \A y \in {m, n} : x <= y
  <2>1. CASE m <= n
    BY <2>1
  <2>2. CASE n <= m
    BY <2>2
  <2>3. QED
    BY <2>1, <2>2
<1>2. Min({m, n}) \in {m, n} /\ Min({m, n}) <= n
  BY <1>1 DEF Min
<1>3. QED
  BY <1>2

(* The gauges count events of the table.                                   *)
LEMMA GaugesCount ==
    ASSUME RowsOK, NEW read \in SUBSET DOMAIN events, SetGauges(read)
    PROVE  total' \in 0..Len(events) /\ gauge' \in [Labels -> 0..MaxGauge]
<1>1. Len(events) \in Nat /\ DOMAIN events = 1..Len(events)
  BY DEF RowsOK
<1>2. total' \in 0..Len(events)
  BY <1>1, EventSet DEF SetGauges
<1>3. ASSUME NEW l \in Labels
      PROVE  Min({(IF l \in ResetLabels THEN 0 ELSE gauge[l]) + Count(read, l), MaxGauge}) \in 0..MaxGauge
  <2>1. {k \in read : LabelOf[events[k].alert] = l} \in SUBSET (1..Len(events))
    BY <1>1
  <2>2. Count(read, l) \in Nat
    BY <1>1, <2>1, EventSet DEF Count
  <2>3. (IF l \in ResetLabels THEN 0 ELSE gauge[l]) + Count(read, l) \in Nat
    BY <2>2 DEF RowsOK
  <2>4. QED
    BY <2>3, SmallerOfTwo
<1>4. gauge' \in [Labels -> 0..MaxGauge]
  BY <1>3 DEF SetGauges
<1>5. QED
  BY <1>2, <1>4

(* Each way to process an alert has one of the effects above.              *)
ProcessOne(h) == ProcessFiring(h) \/ ProcessResolved(h) \/ InsertResolved(h) \/ ProcessFails(h)

(* Every step that processes an alert has one of the effects above.        *)
LEMMA ProcessEffect ==
    ASSUME BasicInv, NEW h \in Handlers, ProcessOne(h)
    PROVE  \E a \in todo[h] :
              /\ Processed(h, a) /\ late[h] \subseteq {a} /\ Effect(h, a)
              /\ faults' \in 0..MaxFaults /\ faults <= faults'
              /\ events' \in Seq(Event) /\ DOMAIN events \subseteq DOMAIN events'
              /\ triaging' \subseteq Tasks(events') /\ dropped' \subseteq DOMAIN events'
<1>1. TypeOK /\ HandlersOK /\ RowsOK /\ ManagerOK /\ WebhooksOK
  BY TypeParts DEF BasicInv
<1>2. /\ events \in Seq(Event) /\ Len(events) \in Nat /\ DOMAIN events = 1..Len(events)
      /\ triaging \subseteq Tasks(events) /\ dropped \subseteq DOMAIN events
      /\ faults \in 0..MaxFaults /\ MaxFaults \in Nat
  BY <1>1 DEF RowsOK, ManagerOK
<1>3. \A a \in todo[h] : a \in Alerts
  BY <1>1 DEF WebhooksOK
<1>4. ASSUME NEW a \in todo[h], IsNew(a), events' = Upserted(a) PROVE Grown(a, "firing")
  <2>1. /\ New(a, "firing").alert = a /\ New(a, "firing").status = "firing"
        /\ New(a, "firing").born = "firing"
    BY DEF New
  <2>2. QED
    BY <1>2, <1>3, <1>4, <2>1, UpsertedRows DEF Grown, SameRow
<1>5. ASSUME NEW a \in todo[h], events' = Append(events, New(a, "resolved"))
      PROVE  /\ Grown(a, "resolved") /\ events' \in Seq(Event)
             /\ DOMAIN events \subseteq DOMAIN events'
  <2>1. /\ New(a, "resolved").alert = a /\ New(a, "resolved").status = "resolved"
        /\ New(a, "resolved").born = "resolved" /\ "resolved" \in States
    BY DEF New, States
  <2>2. QED
    BY <1>2, <1>3, <1>5, <2>1, InsertedRow DEF Grown, SameRow
<1>6. ASSUME NEW a \in todo[h], events' = Resolved(a)
      PROVE  Closed(a) /\ events' \in Seq(Event) /\ DOMAIN events' = DOMAIN events
  BY <1>2, <1>6, ResolvedRows DEF Closed
<1>7. ASSUME events' = events PROVE SameRows
  BY <1>7 DEF SameRows, SameRow
<1>8. \A rows : DOMAIN events \subseteq DOMAIN rows => Tasks(events) \subseteq Tasks(rows)
  BY DEF Tasks
<1>9. CASE ProcessFiring(h)
  <2>1. PICK a \in todo[h] : sent[h][a] /\ StartTriage(a) /\ Processed(h, a)
    BY <1>9 DEF ProcessFiring
  <2>2. late[h] = {} /\ dropped' = dropped /\ faults' = faults
    BY <1>1, <1>9 DEF ProcessFiring, HandlersOK
  <2>3. /\ events' \in Seq(Event) /\ DOMAIN events \subseteq DOMAIN events'
        /\ \A k \in DOMAIN events : events'[k] = events[k]
    BY <1>1, <1>3, <2>1, StartTriageRows
  <2>4. triaging' \subseteq Tasks(events')
    <3>1. \/ triaging' = triaging
          \/ IsNew(a) /\ triaging' = triaging \cup {Task(Len(events) + 1, a)}
      <4>1. CASE IsNew(a) /\ a \in Critical
        BY <1>1, <1>3, <2>1, <4>1, StartTriageRows
      <4>2. CASE ~(a \in Critical /\ IsNew(a))
        BY <2>1, <4>2 DEF StartTriage
      <4>3. QED
        BY <4>1, <4>2
    <3>2. IsNew(a) => Len(events) + 1 \in DOMAIN events'
      BY <1>1, <1>3, <2>1, StartTriageRows
    <3>3. IsNew(a) => Task(Len(events) + 1, a) \in Tasks(events')
      BY <3>2 DEF Task, Tasks
    <3>4. QED
      BY <1>2, <1>8, <2>3, <3>1, <3>3
  <2>5. Effect(h, a)
    <3>1. CASE IsNew(a)
      <4>1. Grown(a, "firing")
        BY <1>1, <1>3, <2>1, <3>1, StartTriageRows DEF Grown, SameRow
      <4>2. QED
        BY <2>1, <3>1, <4>1 DEF Effect, IsNew
    <3>2. CASE ~IsNew(a)
      BY <1>1, <1>3, <1>7, <2>1, <3>2, StartTriageRows DEF Effect, IsNew
    <3>3. QED
      BY <3>1, <3>2
  <2>6. QED
    BY <1>2, <2>1, <2>2, <2>3, <2>4, <2>5
<1>10. CASE ProcessResolved(h)
  <2>1. PICK a \in todo[h] : ~sent[h][a] /\ events' = Resolved(a) /\ Processed(h, a)
    BY <1>10 DEF ProcessResolved
  <2>2. late[h] = {} /\ dropped' = dropped /\ triaging' = triaging /\ faults' = faults
    BY <1>1, <1>10 DEF ProcessResolved, HandlersOK
  <2>3. QED
    BY <1>2, <1>6, <1>8, <2>1, <2>2 DEF Effect
<1>11. CASE InsertResolved(h)
  <2>1. PICK a \in late[h] : events' = Append(events, New(a, "resolved")) /\ Processed(h, a)
    BY <1>11 DEF InsertResolved
  <2>2. a \in todo[h] /\ ~sent[h][a] /\ late[h] = {a}
    BY <1>1, <2>1 DEF HandlersOK, WebhooksOK
  <2>3. dropped' = dropped /\ triaging' = triaging /\ faults' = faults
    BY <1>11 DEF InsertResolved
  <2>4. Grown(a, "resolved") /\ events' \in Seq(Event) /\ DOMAIN events \subseteq DOMAIN events'
    BY <1>5, <2>1, <2>2
  <2>5. Effect(h, a)
    BY <2>2, <2>4 DEF Effect
  <2>6. triaging' \subseteq Tasks(events') /\ dropped' \subseteq DOMAIN events'
    BY <1>2, <1>8, <2>3, <2>4
  <2>7. faults' \in 0..MaxFaults /\ faults <= faults'
    BY <1>2, <2>3
  <2>8. a \in todo[h] /\ Processed(h, a) /\ late[h] \subseteq {a}
    BY <2>1, <2>2
  <2>9. QED
    BY <2>4, <2>5, <2>6, <2>7, <2>8
<1>12. CASE ProcessFails(h)
  <2>1. /\ faults' = faults + 1 /\ faults' \in 0..MaxFaults
        /\ dropped' = dropped \cup (DOMAIN events' \ DOMAIN events) /\ triaging' = triaging
    BY <1>2, <1>12 DEF ProcessFails, Fault
  <2>2. \E a \in todo[h] :
           /\ Processed(h, a) /\ late[h] \subseteq {a} /\ Effect(h, a)
           /\ events' \in Seq(Event) /\ DOMAIN events \subseteq DOMAIN events'
    <3>1. CASE stage[h] = "alerts"
      <4>1. PICK a \in todo[h] : /\ Processed(h, a)
                                 /\ \/ UNCHANGED events
                                    \/ sent[h][a] /\ events' = Upserted(a)
                                    \/ ~sent[h][a] /\ events' = Resolved(a)
        BY <1>12, <3>1 DEF ProcessFails
      <4>2. late[h] = {}
        BY <1>1, <3>1 DEF HandlersOK
      <4>3. CASE UNCHANGED events
        BY <1>2, <1>7, <2>1, <4>1, <4>2, <4>3 DEF Effect
      <4>4. CASE sent[h][a] /\ events' = Upserted(a)
        <5>1. events' \in Seq(Event) /\ DOMAIN events \subseteq DOMAIN events'
          BY <1>2, <1>3, <4>4, UpsertedRows
        <5>2. Effect(h, a)
          <6>1. CASE IsNew(a)
            BY <1>4, <4>4, <6>1 DEF Effect, IsNew
          <6>2. CASE ~IsNew(a)
            BY <1>2, <1>3, <1>7, <2>1, <4>4, <6>2, UpsertedRows DEF Effect
          <6>3. QED
            BY <6>1, <6>2
        <5>3. QED
          BY <4>1, <4>2, <5>1, <5>2
      <4>5. CASE ~sent[h][a] /\ events' = Resolved(a)
        BY <1>6, <4>1, <4>2, <4>5 DEF Effect
      <4>6. QED
        BY <4>1, <4>3, <4>4, <4>5
    <3>2. CASE stage[h] = "insert"
      <4>1. PICK a \in late[h] : /\ Processed(h, a)
                                 /\ events' \in {events, Append(events, New(a, "resolved"))}
        BY <1>12, <3>2 DEF ProcessFails
      <4>2. a \in todo[h] /\ ~sent[h][a] /\ late[h] = {a}
        BY <1>1, <4>1 DEF HandlersOK, WebhooksOK
      <4>3. QED
        BY <1>2, <1>5, <1>7, <2>1, <4>1, <4>2 DEF Effect
    <3>3. QED
      BY <1>12, <3>1, <3>2 DEF ProcessFails
  <2>3. QED
    BY <1>2, <1>8, <2>1, <2>2
<1>13. QED
  BY <1>9, <1>10, <1>11, <1>12 DEF ProcessOne

(* What webhooks carry are payloads.                                       *)
LEMMA Payloads ==
    ASSUME ManagerOK, NEW alerts \in SUBSET Alerts
    PROVE  [a \in alerts |-> firing[a]] \in Payload /\ NoPayload \in Payload
<1>1. [a \in alerts |-> firing[a]] \in [alerts -> BOOLEAN]
  BY DEF ManagerOK
<1>2. NoPayload \in [{} -> BOOLEAN] /\ {} \in SUBSET Alerts
  BY DEF NoPayload
<1>3. QED
  BY <1>1, <1>2 DEF Payload

(* The answer to a webhook: Alertmanager takes its payload for delivered.  *)
LEMMA RespondTypes ==
    ASSUME BasicInv, NEW h \in Handlers, Respond(h), todo[h] = {}
    PROVE  WebhooksOK' /\ told' \in [Alerts -> BOOLEAN]
<1>1. TypeOK /\ ManagerOK /\ WebhooksOK /\ HandlersOK
  BY TypeParts DEF BasicInv
<1>2. NoPayload \in Payload
  BY <1>1, Payloads
<1>3. told' \in [Alerts -> BOOLEAN]
  <2>1. \A a \in DOMAIN sent[h] : sent[h][a] \in BOOLEAN
    BY <1>1 DEF WebhooksOK, Payload
  <2>2. QED
    BY <1>1, <2>1 DEF Respond, ManagerOK
<1>4. /\ stage' \in [Handlers -> {"idle", "alerts", "insert", "gauges"}]
      /\ sent' \in [Handlers -> Payload] /\ waiting' \in [Handlers -> BOOLEAN]
      /\ UNCHANGED <<up, todo, late>>
  BY <1>1, <1>2 DEF Respond, WebhooksOK
<1>5. \A g \in Handlers : todo'[g] \subseteq DOMAIN sent'[g] /\ late'[g] \subseteq todo'[g]
  BY <1>1, <1>4 DEF Respond, WebhooksOK
<1>6. QED
  BY <1>1, <1>3, <1>4, <1>5 DEF WebhooksOK

(* What processing an alert does to the handler.                           *)
LEMMA ProcessedTypes ==
    ASSUME WebhooksOK, NEW h \in Handlers, NEW a \in todo[h], Processed(h, a)
    PROVE  WebhooksOK'
<1>1. /\ stage' \in [Handlers -> {"idle", "alerts", "insert", "gauges"}]
      /\ todo' \in [Handlers -> SUBSET Alerts] /\ late' \in [Handlers -> SUBSET Alerts]
      /\ UNCHANGED <<up, sent, waiting>>
  BY DEF Processed, WebhooksOK
<1>2. \A g \in Handlers : todo'[g] \subseteq DOMAIN sent'[g] /\ late'[g] \subseteq todo'[g]
  BY DEF Processed, WebhooksOK
<1>3. QED
  BY <1>1, <1>2 DEF WebhooksOK

(* A triage task fills in its row, and goes with it.                       *)
LEMMA TriageEffect ==
    ASSUME TypeOK, NEW task \in triaging, Triage(task)
    PROVE  /\ events' \in Seq(Event) /\ DOMAIN events' = DOMAIN events
           /\ \A k \in DOMAIN events :
                 /\ SameRow(k) /\ events'[k].triages = events[k].triages
                 /\ events[k].summary => events'[k].summary
           /\ triaging' \subseteq Tasks(events') /\ dropped \subseteq dropped'
           /\ dropped' \subseteq DOMAIN events' /\ faults' \in 0..MaxFaults /\ faults <= faults'
           /\ UNCHANGED <<managerVars, up, handlerVars, gaugeVars, platform>>
           /\ \A t \in triaging \ {task} : t \in triaging'
           /\ \/ \E t \in triaging' : t.event = task.event
              \/ events'[task.event].summary
              \/ task.event \in dropped'
<1>1. /\ events \in Seq(Event) /\ triaging \subseteq Tasks(events)
      /\ dropped \subseteq DOMAIN events /\ faults \in 0..MaxFaults
      /\ task.event \in DOMAIN events /\ task \in Tasks(events)
  BY TypeParts DEF RowsOK, ManagerOK, Tasks
<1>2. ASSUME UNCHANGED events
      PROVE  \A k \in DOMAIN events :
                /\ SameRow(k) /\ events'[k].triages = events[k].triages
                /\ events[k].summary => events'[k].summary
  BY <1>2 DEF SameRow
<1>3. ASSUME events' = [events EXCEPT ![task.event].summary = TRUE]
      PROVE  /\ events' \in Seq(Event) /\ DOMAIN events' = DOMAIN events
             /\ \A k \in DOMAIN events :
                   /\ SameRow(k) /\ events'[k].triages = events[k].triages
                   /\ events[k].summary => events'[k].summary
             /\ events'[task.event].summary
  <2>1. \A k \in DOMAIN events : events[k] \in Event
    BY <1>1
  <2> DEFINE row == [events[task.event] EXCEPT !.summary = TRUE]
  <2>2. /\ row \in Event /\ row.alert = events[task.event].alert
        /\ row.status = events[task.event].status /\ row.born = events[task.event].born
        /\ row.triages = events[task.event].triages /\ row.summary = TRUE
    BY <1>1, <2>1 DEF Event
  <2>3. events' = [events EXCEPT ![task.event] = row]
    BY <1>3
  <2> HIDE DEF row
  <2>4. /\ events' \in Seq(Event) /\ DOMAIN events' = DOMAIN events
        /\ events'[task.event] = row
        /\ \A k \in DOMAIN events \ {task.event} : events'[k] = events[k]
    BY <1>1, <2>2, <2>3, ChangedRow
  <2>5. QED
    BY <1>1, <2>2, <2>4 DEF SameRow
<1>4. ASSUME NEW at \in {"llm", "save"}, Advance(task, at)
      PROVE  /\ triaging' \subseteq Tasks(events)
             /\ \A t \in triaging \ {task} : t \in triaging'
             /\ \E t \in triaging' : t.event = task.event
             /\ UNCHANGED <<events, dropped, faults, managerVars, up, handlerVars, gaugeVars, platform>>
  <2>1. [task EXCEPT !.at = at] \in Tasks(events) /\ [task EXCEPT !.at = at].event = task.event
    BY <1>1 DEF Tasks
  <2>2. triaging' = (triaging \ {task}) \cup {[task EXCEPT !.at = at]}
    BY <1>4 DEF Advance
  <2>3. QED
    BY <1>1, <1>4, <2>1, <2>2 DEF Advance
<1>5. CASE ReadDiagnoses(task) \/ AskLlm(task)
  <2>1. \E at \in {"llm", "save"} : Advance(task, at)
    BY <1>5 DEF ReadDiagnoses, AskLlm
  <2>2. QED
    BY <1>1, <1>2, <1>4, <2>1
<1>6. CASE SaveTriage(task)
  <2>1. /\ events' = [events EXCEPT ![task.event].summary = TRUE] /\ triaging' = triaging \ {task}
        /\ UNCHANGED <<dropped, faults, managerVars, up, handlerVars, gaugeVars, platform>>
    BY <1>6 DEF SaveTriage, EndTask
  <2>2. QED
    BY <1>1, <1>3, <2>1 DEF Tasks
<1>7. CASE TriageFails(task)
  <2>1. /\ triaging' = triaging \ {task} /\ dropped' = dropped \cup {task.event}
        /\ faults' = faults + 1 /\ faults < MaxFaults
        /\ UNCHANGED <<managerVars, up, handlerVars, gaugeVars, platform>>
        /\ UNCHANGED events \/ events' = [events EXCEPT ![task.event].summary = TRUE]
    BY <1>7 DEF TriageFails, EndTask, Fault
  <2>2. faults' \in 0..MaxFaults /\ faults <= faults'
    BY <1>1, <2>1
  <2>3. QED
    BY <1>1, <1>2, <1>3, <2>1, <2>2 DEF Tasks
<1>8. QED
  BY <1>5, <1>6, <1>7 DEF Triage

-----------------------------------------------------------------------------
(* Types and handlers, step by step *)

(* Every step keeps the types.                                             *)
LEMMA TypesKept == ASSUME BasicInv, [Next]_vars PROVE TypeOK'
<1>1. TypeOK /\ ManagerOK /\ WebhooksOK /\ RowsOK /\ HandlersOK
  BY TypeParts DEF BasicInv
<1>2. SUFFICES ManagerOK' /\ WebhooksOK' /\ RowsOK'
  BY PrimedTypeParts
<1>3. MaxFaults \in Nat /\ (Fault => faults' \in 0..MaxFaults)
  BY <1>1 DEF Fault, ManagerOK
<1>4. ASSUME UNCHANGED <<events, shot, gaugeVars, triaging, dropped>> PROVE RowsOK'
  BY <1>1, <1>4 DEF RowsOK, gaugeVars, Tasks
<1>5. ASSUME UNCHANGED <<up, stage, sent, todo, late, waiting>> PROVE WebhooksOK'
  BY <1>1, <1>5 DEF WebhooksOK
<1>6. ASSUME UNCHANGED <<managerVars, platform>>, faults' \in 0..MaxFaults PROVE ManagerOK'
  BY <1>1, <1>6 DEF ManagerOK, managerVars
<1>7. ASSUME NEW a \in Alerts, Fire(a) \/ Resolve(a) PROVE ManagerOK' /\ WebhooksOK' /\ RowsOK'
  <2>1. ManagerOK'
    <3>1. /\ firing' \in [Alerts -> BOOLEAN] /\ episodes' \in [Alerts -> Nat]
          /\ UNCHANGED <<told, platform, faults>>
      <4>1. CASE Fire(a)
        <5>1. /\ firing' = [firing EXCEPT ![a] = TRUE]
              /\ episodes' = [episodes EXCEPT ![a] = episodes[a] + 1]
              /\ UNCHANGED <<told, platform, faults>>
          BY <4>1 DEF Fire, triageVars
        <5>2. firing' \in [Alerts -> BOOLEAN]
          BY <1>1, <5>1 DEF ManagerOK
        <5>3. episodes' \in [Alerts -> Nat]
          BY <1>1, <5>1 DEF ManagerOK
        <5>4. QED
          BY <5>1, <5>2, <5>3
      <4>2. CASE Resolve(a)
        BY <1>1, <4>2 DEF Resolve, ManagerOK, triageVars
      <4>3. QED
        BY <1>7, <4>1, <4>2
    <3>2. QED
      BY <1>1, <3>1 DEF ManagerOK
  <2>2. UNCHANGED <<events, up, handlerVars, gaugeVars, triageVars>>
    BY <1>7 DEF Fire, Resolve
  <2>3. QED
    BY <1>4, <1>5, <2>1, <2>2 DEF handlerVars, triageVars
<1>8. ASSUME NEW h \in Handlers, NEW alerts \in SUBSET Alerts, Notify(h, alerts)
      PROVE  ManagerOK' /\ WebhooksOK' /\ RowsOK'
  <2>1. [a \in alerts |-> firing[a]] \in Payload
    BY <1>1, Payloads
  <2>2. /\ stage' \in [Handlers -> {"idle", "alerts", "insert", "gauges"}]
        /\ sent' \in [Handlers -> Payload] /\ waiting' \in [Handlers -> BOOLEAN]
        /\ todo' \in [Handlers -> SUBSET Alerts] /\ UNCHANGED <<up, late>>
    BY <1>1, <1>8, <2>1 DEF Notify, WebhooksOK
  <2>3. late[h] = {}
    BY <1>1, <1>8 DEF Notify, HandlersOK
  <2>4. \A g \in Handlers : todo'[g] \subseteq DOMAIN sent'[g] /\ late'[g] \subseteq todo'[g]
    BY <1>1, <1>8, <2>3 DEF Notify, WebhooksOK
  <2>5. WebhooksOK'
    BY <1>1, <2>2, <2>4 DEF WebhooksOK
  <2>6. UNCHANGED <<managerVars, events, shot, gaugeVars, triageVars, faults>>
    BY <1>8 DEF Notify
  <2>7. QED
    BY <1>1, <1>4, <1>6, <2>5, <2>6 DEF triageVars, ManagerOK
<1>9. ASSUME NEW h \in Handlers, GiveUp(h) PROVE ManagerOK' /\ WebhooksOK' /\ RowsOK'
  <2>1. UNCHANGED <<managerVars, events, up, stage, sent, todo, late, shot, gaugeVars, triageVars>>
    BY <1>9 DEF GiveUp
  <2>2. WebhooksOK'
    BY <1>1, <1>9, <2>1 DEF GiveUp, WebhooksOK
  <2>3. QED
    BY <1>3, <1>4, <1>6, <1>9, <2>1, <2>2 DEF triageVars, GiveUp
<1>10. ASSUME NEW h \in Handlers, ProcessOne(h) PROVE ManagerOK' /\ WebhooksOK' /\ RowsOK'
  <2>1. PICK a \in todo[h] :
           /\ Processed(h, a) /\ faults' \in 0..MaxFaults
           /\ events' \in Seq(Event) /\ DOMAIN events \subseteq DOMAIN events'
           /\ triaging' \subseteq Tasks(events') /\ dropped' \subseteq DOMAIN events'
    BY <1>10, ProcessEffect
  <2>2. WebhooksOK'
    BY <1>1, <2>1, ProcessedTypes
  <2>3. UNCHANGED <<managerVars, shot, gaugeVars, platform>>
    BY <2>1 DEF Processed
  <2>4. QED
    BY <1>1, <1>6, <2>1, <2>2, <2>3, RowsGrow
<1>11. ASSUME NEW h \in Handlers, MissResolved(h) PROVE ManagerOK' /\ WebhooksOK' /\ RowsOK'
  <2>1. /\ UNCHANGED <<managerVars, events, up, sent, todo, shot, waiting, gaugeVars, triageVars,
                       faults>>
        /\ \E a \in todo[h] : late' = [late EXCEPT ![h] = {a}]
        /\ stage' = [stage EXCEPT ![h] = "insert"]
    BY <1>11 DEF MissResolved
  <2>2. WebhooksOK'
    BY <1>1, <2>1 DEF WebhooksOK
  <2>3. QED
    BY <1>1, <1>4, <1>6, <2>1, <2>2 DEF triageVars, ManagerOK
<1>12. ASSUME NEW h \in Handlers, ReadFiring(h) PROVE ManagerOK' /\ WebhooksOK' /\ RowsOK'
  <2>1. /\ UNCHANGED <<managerVars, events, up, sent, todo, late, waiting, gaugeVars, triageVars,
                       faults>>
        /\ stage' = [stage EXCEPT ![h] = "gauges"]
        /\ shot' = [shot EXCEPT ![h] = FiringEvents]
    BY <1>12 DEF ReadFiring
  <2>2. FiringEvents \in SUBSET DOMAIN events
    BY DEF FiringEvents
  <2>3. WebhooksOK'
    BY <1>1, <2>1 DEF WebhooksOK
  <2>4. RowsOK'
    BY <1>1, <2>1, <2>2 DEF RowsOK, gaugeVars, triageVars, Tasks
  <2>5. QED
    BY <1>1, <1>6, <2>1, <2>3, <2>4 DEF triageVars, ManagerOK
<1>13. ASSUME NEW h \in Handlers, SyncGauges(h) \/ SyncFails(h)
       PROVE  ManagerOK' /\ WebhooksOK' /\ RowsOK'
  <2>1. Respond(h) /\ faults' \in 0..MaxFaults
    BY <1>1, <1>3, <1>13 DEF SyncGauges, SyncFails, ManagerOK
  <2>2. todo[h] = {}
    BY <1>1, <1>13 DEF SyncGauges, SyncFails, HandlersOK
  <2>3. WebhooksOK' /\ told' \in [Alerts -> BOOLEAN]
    BY <2>1, <2>2, RespondTypes
  <2>4. ManagerOK'
    BY <1>1, <2>1, <2>3 DEF Respond, ManagerOK, triageVars
  <2>5. shot' \in [Handlers -> SUBSET DOMAIN events] /\ UNCHANGED <<events, triaging, dropped>>
    BY <1>1, <2>1 DEF Respond, RowsOK, triageVars
  <2>6. total' \in 0..Len(events) /\ gauge' \in [Labels -> 0..MaxGauge]
    <3>1. CASE SyncGauges(h)
      BY <1>1, <3>1, GaugesCount DEF SyncGauges, RowsOK
    <3>2. CASE SyncFails(h)
      BY <1>1, <3>2 DEF SyncFails, gaugeVars, RowsOK
    <3>3. QED
      BY <1>13, <3>1, <3>2
  <2>7. QED
    BY <1>1, <2>3, <2>4, <2>5, <2>6 DEF RowsOK, Tasks
<1>14. ASSUME NEW task \in triaging, Triage(task) PROVE ManagerOK' /\ WebhooksOK' /\ RowsOK'
  <2>1. /\ events' \in Seq(Event) /\ DOMAIN events' = DOMAIN events
        /\ triaging' \subseteq Tasks(events') /\ dropped' \subseteq DOMAIN events'
        /\ faults' \in 0..MaxFaults
        /\ UNCHANGED <<managerVars, up, handlerVars, gaugeVars, platform>>
    BY <1>1, <1>14, TriageEffect
  <2>2. QED
    BY <1>1, <1>5, <1>6, <2>1, RowsGrow DEF handlerVars
<1>15. CASE Crash
  <2>1. NoPayload \in Payload
    BY <1>1, Payloads
  <2>2. ManagerOK'
    BY <1>3, <1>6, <1>15 DEF Crash
  <2>3. WebhooksOK'
    BY <1>15, <2>1 DEF Crash, WebhooksOK, NoPayload
  <2>4. dropped' \subseteq DOMAIN events
    BY <1>1, <1>15 DEF Crash, RowsOK, Tasks
  <2>5. Len(events) \in Nat
    BY <1>1 DEF RowsOK
  <2>6. RowsOK'
    BY <1>1, <1>15, <2>4, <2>5 DEF Crash, RowsOK, Tasks
  <2>7. QED
    BY <2>2, <2>3, <2>6
<1>16. CASE Start
  <2>1. ManagerOK'
    BY <1>1, <1>3, <1>6, <1>16 DEF Start, ManagerOK, triageVars
  <2>2. WebhooksOK'
    BY <1>1, <1>16 DEF Start, WebhooksOK, handlerVars
  <2>3. FiringEvents \in SUBSET DOMAIN events
    BY DEF FiringEvents
  <2>4. total' \in 0..Len(events) /\ gauge' \in [Labels -> 0..MaxGauge]
    BY <1>1, <1>16, <2>3, GaugesCount DEF Start, gaugeVars, RowsOK
  <2>5. RowsOK'
    BY <1>1, <1>16, <2>4 DEF Start, RowsOK, handlerVars, triageVars, Tasks
  <2>6. QED
    BY <2>1, <2>2, <2>5
<1>17. CASE UNCHANGED vars
  BY <1>1, <1>4, <1>5, <1>6, <1>17 DEF vars, handlerVars, triageVars, ManagerOK
<1>18. QED
  BY <1>2, <1>7, <1>8, <1>9, <1>10, <1>11, <1>12, <1>13, <1>14, <1>15, <1>16, <1>17
     DEF Next, Handle, ProcessOne

(* Handlers and notifications keep to their protocol.                      *)
LEMMA HandlersKept == ASSUME BasicInv, [Next]_vars PROVE HandlersOK' /\ OneNotification'
<1>1. TypeOK /\ ManagerOK /\ WebhooksOK /\ HandlersOK /\ OneNotification
  BY TypeParts DEF BasicInv
<1>2. ASSUME UNCHANGED <<stage, sent, todo, late, waiting>> PROVE HandlersOK' /\ OneNotification'
  BY <1>1, <1>2 DEF HandlersOK, OneNotification
<1>3. ASSUME NEW h \in Handlers, NEW alerts \in SUBSET Alerts, Notify(h, alerts)
      PROVE  HandlersOK' /\ OneNotification'
  <2>1. /\ stage' = [stage EXCEPT ![h] = "alerts"] /\ todo' = [todo EXCEPT ![h] = alerts]
        /\ sent' = [sent EXCEPT ![h] = [a \in alerts |-> firing[a]]]
        /\ waiting' = [waiting EXCEPT ![h] = TRUE] /\ late' = late /\ stage[h] = "idle"
    BY <1>3 DEF Notify
  <2>2. HandlersOK'
    BY <1>1, <2>1 DEF HandlersOK, WebhooksOK
  <2>3. \A g \in Handlers \ {h} : waiting[g] => DOMAIN sent[g] \cap alerts = {}
    BY <1>3 DEF Notify
  <2>4. OneNotification'
    BY <1>1, <2>1, <2>3 DEF OneNotification, WebhooksOK
  <2>5. QED
    BY <2>2, <2>4
<1>4. ASSUME NEW h \in Handlers, GiveUp(h) PROVE HandlersOK' /\ OneNotification'
  BY <1>1, <1>4 DEF GiveUp, HandlersOK, OneNotification, WebhooksOK
<1>5. ASSUME NEW h \in Handlers, ProcessOne(h) PROVE HandlersOK' /\ OneNotification'
  <2>1. PICK a \in todo[h] : Processed(h, a)
    BY <1>5, ProcessEffect
  <2>2. QED
    BY <1>1, <2>1 DEF Processed, HandlersOK, OneNotification, WebhooksOK
<1>6. ASSUME NEW h \in Handlers, MissResolved(h) PROVE HandlersOK' /\ OneNotification'
  <2>1. /\ UNCHANGED <<sent, todo, waiting>> /\ stage[h] = "alerts"
        /\ \E a \in todo[h] : ~sent[h][a] /\ late' = [late EXCEPT ![h] = {a}]
        /\ stage' = [stage EXCEPT ![h] = "insert"]
    BY <1>6 DEF MissResolved
  <2>2. QED
    BY <1>1, <2>1 DEF HandlersOK, OneNotification, WebhooksOK
<1>7. ASSUME NEW h \in Handlers, ReadFiring(h) PROVE HandlersOK' /\ OneNotification'
  BY <1>1, <1>7 DEF ReadFiring, HandlersOK, OneNotification, WebhooksOK
<1>8. ASSUME NEW h \in Handlers, SyncGauges(h) \/ SyncFails(h)
      PROVE  HandlersOK' /\ OneNotification'
  <2>1. Respond(h) /\ todo[h] = {} /\ late[h] = {}
    BY <1>1, <1>8 DEF SyncGauges, SyncFails, HandlersOK
  <2>2. QED
    BY <1>1, <2>1 DEF Respond, HandlersOK, OneNotification, WebhooksOK
<1>9. CASE Crash
  BY <1>1, <1>9 DEF Crash, HandlersOK, OneNotification
<1>10. ASSUME NEW task \in triaging, Triage(task) PROVE HandlersOK' /\ OneNotification'
  BY <1>1, <1>2, <1>10, TriageEffect DEF handlerVars
<1>11. CASE Start \/ UNCHANGED vars \/ \E a \in Alerts : Fire(a) \/ Resolve(a)
  BY <1>2, <1>11 DEF Start, vars, Fire, Resolve, handlerVars
<1>12. QED
  BY <1>3, <1>4, <1>5, <1>6, <1>7, <1>8, <1>9, <1>10, <1>11 DEF Next, Handle, ProcessOne

-----------------------------------------------------------------------------
(* The accounts, step by step *)

(* Without a new row: notifications given up and rows owed are paid for by *)
(* episodes and faults.                                                    *)
LEMMA Balance ==
    ASSUME TypeOK, TypeOK', NEW b \in Alerts, Account(b),
           \A s \in States : Born(b, s)' = Born(b, s),
           Cardinality(Abandoned(b)') + Unit(FiringDue(b)') + episodes[b] + faults
              <= Cardinality(Abandoned(b)) + Unit(FiringDue(b)) + episodes'[b] + faults',
           Cardinality(Abandoned(b)') + Unit(ResolutionDue(b)') + faults
              <= Cardinality(Abandoned(b)) + Unit(ResolutionDue(b)) + faults'
    PROVE  Account(b)'
<1>1. /\ Cardinality(Born(b, "firing")) \in Nat /\ Cardinality(Born(b, "resolved")) \in Nat
      /\ Cardinality(Abandoned(b)) \in Nat /\ Unit(FiringDue(b)) \in {0, 1}
      /\ Unit(ResolutionDue(b)) \in {0, 1} /\ episodes[b] \in Nat /\ faults \in Nat
  BY Numbers
<1>2. /\ Cardinality(Abandoned(b)') \in Nat /\ Unit(FiringDue(b)') \in {0, 1}
      /\ Unit(ResolutionDue(b)') \in {0, 1}
  BY HandlerSet DEF Abandoned, Unit
<1>3. episodes'[b] \in Nat /\ faults' \in Nat
  BY DEF TypeOK
<1>4. Born(b, "firing")' = Born(b, "firing") /\ Born(b, "resolved")' = Born(b, "resolved")
  BY DEF States
<1>5. FiringAccount(b)'
  <2>1. Cardinality(Born(b, "firing")) + Cardinality(Abandoned(b)) + Unit(FiringDue(b))
           <= episodes[b] + faults
    BY DEF Account, FiringAccount
  <2>2. Cardinality(Born(b, "firing")) + Cardinality(Abandoned(b)') + Unit(FiringDue(b)')
           <= episodes'[b] + faults'
    BY <1>1, <1>2, <1>3, <2>1
  <2>3. QED
    BY <1>4, <2>2 DEF FiringAccount, Unit
<1>6. ResolutionAccount(b)'
  <2>1. Cardinality(Born(b, "resolved")) + Cardinality(Abandoned(b)) + Unit(ResolutionDue(b))
           <= faults
    BY DEF Account, ResolutionAccount
  <2>2. Cardinality(Born(b, "resolved")) + Cardinality(Abandoned(b)') + Unit(ResolutionDue(b)')
           <= faults'
    BY <1>1, <1>2, <1>3, <2>1
  <2>3. QED
    BY <1>4, <2>2 DEF ResolutionAccount, Unit
<1>7. QED
  BY <1>5, <1>6 DEF Account

(* A special case: no notification more is given up, and no row more owed. *)
LEMMA NoNewDebt ==
    ASSUME TypeOK, TypeOK', NEW b \in Alerts, Account(b),
           \A s \in States : Born(b, s)' = Born(b, s),
           Abandoned(b)' = Abandoned(b), FiringDue(b)' => FiringDue(b),
           ResolutionDue(b)' => ResolutionDue(b),
           episodes'[b] = episodes[b], faults <= faults'
    PROVE  Account(b)'
<1>1. /\ Cardinality(Abandoned(b)) \in Nat /\ Unit(FiringDue(b)) \in {0, 1}
      /\ Unit(ResolutionDue(b)) \in {0, 1} /\ episodes[b] \in Nat /\ faults \in Nat
  BY Numbers
<1>2. faults' \in Nat
  BY DEF TypeOK
<1>3. Unit(FiringDue(b)') <= Unit(FiringDue(b)) /\ Unit(ResolutionDue(b)') <= Unit(ResolutionDue(b))
  BY DEF Unit
<1>4. Unit(FiringDue(b)') \in {0, 1} /\ Unit(ResolutionDue(b)') \in {0, 1}
  BY DEF Unit
<1>5. QED
  BY <1>1, <1>2, <1>3, <1>4, Balance

(* The sets of handlers depend on what they hold alone.                    *)
LEMMA SameHandlerSets ==
    ASSUME UNCHANGED <<sent, todo, late, waiting>>, NEW b
    PROVE  /\ Abandoned(b)' = Abandoned(b) /\ Missed(b)' = Missed(b)
           /\ \A s : Pending(b, s)' = Pending(b, s) /\ Settled(b, s)' = Settled(b, s)
  BY DEF Abandoned, Missed, Pending, Settled

(* The sets of rows depend on the table alone.                             *)
LEMMA UnchangedRowSets ==
    ASSUME UNCHANGED events, NEW b
    PROVE  EventOf(b)' = EventOf(b) /\ \A s \in States : Born(b, s)' = Born(b, s)
  BY SameRowSets DEF SameRows, SameRow

(* An alert starts to fire, or stops.                                      *)
LEMMA FireAccounts ==
    ASSUME BasicInv, TypeOK', Accounts, NEW a \in Alerts, Fire(a) \/ Resolve(a)
    PROVE  Accounts'
<1>1. TypeOK
  BY DEF BasicInv
<1>2. UNCHANGED <<told, events, sent, todo, late, waiting, faults>> /\ faults \in Nat
  BY <1>1 DEF Fire, Resolve, handlerVars, TypeOK
<1>3. \A b \in Alerts : Account(b)
  BY DEF Accounts, Account
<1>4. ASSUME NEW b \in Alerts
      PROVE  Account(b)'
  <2>1. /\ Abandoned(b)' = Abandoned(b) /\ Missed(b)' = Missed(b)
        /\ \A s : Pending(b, s)' = Pending(b, s) /\ Settled(b, s)' = Settled(b, s)
        /\ EventOf(b)' = EventOf(b) /\ \A s \in States : Born(b, s)' = Born(b, s)
    <3>1. UNCHANGED <<sent, todo, late, waiting>> /\ UNCHANGED events
      BY <1>2
    <3>2. QED
      BY <3>1, SameHandlerSets, UnchangedRowSets
  <2>2. ResolutionDue(b)' <=> ResolutionDue(b)
    <3>1. told'[b] = told[b]
      BY <1>2
    <3>2. QED
      BY <2>1, <3>1 DEF ResolutionDue
  <2>3. CASE episodes'[b] = episodes[b] /\ (firing'[b] => firing[b])
    <3>1. FiringDue(b)' => FiringDue(b)
      BY <2>1, <2>3 DEF FiringDue
    <3>2. QED
      BY <1>1, <1>2, <1>3, <2>1, <2>2, <2>3, <3>1, NoNewDebt
  <2>4. CASE episodes'[b] = episodes[b] + 1
    <3>1. /\ Cardinality(Abandoned(b)) \in Nat /\ Unit(FiringDue(b)) \in {0, 1}
          /\ episodes[b] \in Nat /\ Unit(ResolutionDue(b)) \in {0, 1}
      BY <1>1, Numbers
    <3>2. Unit(FiringDue(b)') \in {0, 1} /\ Unit(ResolutionDue(b)') = Unit(ResolutionDue(b))
      BY <2>2 DEF Unit
    <3>3. QED
      BY <1>1, <1>2, <1>3, <2>1, <2>4, <3>1, <3>2, Balance
  <2>5. QED
    <3>1. CASE Fire(a)
      BY <1>1, <2>3, <2>4, <3>1 DEF Fire, TypeOK
    <3>2. CASE Resolve(a)
      BY <1>1, <2>3, <3>2 DEF Resolve, TypeOK
    <3>3. QED
      BY <3>1, <3>2
<1>5. QED
  BY <1>4 DEF Accounts, Account

(* A notification is posted: it owes no more than Alertmanager did.        *)
LEMMA NotifyAccounts ==
    ASSUME BasicInv, TypeOK', Accounts, NEW h \in Handlers, NEW alerts \in SUBSET Alerts,
           Notify(h, alerts)
    PROVE  Accounts'
<1>1. TypeOK /\ HandlersOK /\ OneNotification /\ WebhooksOK
  BY TypeParts DEF BasicInv
<1>2. /\ todo' = [todo EXCEPT ![h] = alerts] /\ waiting' = [waiting EXCEPT ![h] = TRUE]
      /\ sent' = [sent EXCEPT ![h] = [a \in alerts |-> firing[a]]]
      /\ UNCHANGED <<firing, told, episodes, events, late, faults>>
      /\ \A a \in alerts : firing[a] \/ told[a]
      /\ \A g \in Handlers : waiting[g] => DOMAIN sent[g] \cap alerts = {}
      /\ stage[h] = "idle"
  BY DEF Notify, managerVars
<1>3. todo[h] = {} /\ ~waiting[h] /\ late[h] = {}
  BY <1>1, <1>2 DEF HandlersOK
<1>4. /\ \A g \in Handlers \ {h} :
            todo'[g] = todo[g] /\ waiting'[g] = waiting[g] /\ sent'[g] = sent[g]
      /\ todo'[h] = alerts /\ waiting'[h] /\ DOMAIN sent'[h] = alerts
      /\ \A a \in alerts : sent'[h][a] = firing[a]
  BY <1>1, <1>2 DEF WebhooksOK
<1>5. ASSUME NEW b \in Alerts
      PROVE  Account(b)'
  <2>1. EventOf(b)' = EventOf(b) /\ \A s \in States : Born(b, s)' = Born(b, s)
    BY <1>2, UnchangedRowSets
  <2>2. Abandoned(b)' = Abandoned(b) /\ Missed(b)' = Missed(b)
    BY <1>2, <1>3, <1>4 DEF Abandoned, Missed
  <2>3. \A s : Settled(b, s)' = Settled(b, s)
    BY <1>3, <1>4 DEF Settled
  <2>4. \A s : Pending(b, s)' = Pending(b, s) \cup (IF b \in alerts /\ firing[b] = s THEN {h} ELSE {})
    BY <1>3, <1>4 DEF Pending
  <2>5. b \in alerts => \A s : Settled(b, s) = {}
    BY <1>2 DEF Settled
  <2>6. /\ firing[b] \in BOOLEAN /\ firing'[b] = firing[b] /\ told'[b] = told[b]
        /\ firing[b] => Pending(b, FALSE)' = Pending(b, FALSE)
        /\ ~firing[b] => Pending(b, TRUE)' = Pending(b, TRUE)
        /\ b \notin alerts => \A s : Pending(b, s)' = Pending(b, s)
    <3>1. firing[b] \in BOOLEAN /\ firing'[b] = firing[b] /\ told'[b] = told[b]
      BY <1>1, <1>2 DEF TypeOK
    <3>2. (firing[b] => firing[b] # FALSE) /\ (~firing[b] => firing[b] # TRUE)
      BY <3>1
    <3>3. QED
      BY <2>4, <3>1, <3>2
  <2>7. (FiringDue(b)' => FiringDue(b)) /\ (ResolutionDue(b)' => ResolutionDue(b))
    <3>1. FiringDue(b)' => FiringDue(b)
      <4>1. CASE firing[b]
        BY <2>1, <2>6, <4>1 DEF FiringDue
      <4>2. CASE ~firing[b]
        BY <2>1, <2>6, <4>2 DEF FiringDue
      <4>3. QED
        BY <4>1, <4>2
    <3>2. ResolutionDue(b)' => ResolutionDue(b)
      <4>1. CASE firing[b] \/ b \notin alerts
        BY <2>1, <2>2, <2>3, <2>6, <4>1 DEF ResolutionDue
      <4>2. CASE ~firing[b] /\ b \in alerts
        <5>1. told[b] /\ Settled(b, FALSE) = {} /\ Settled(b, TRUE) = {}
          BY <1>2, <2>5, <4>2
        <5>2. QED
          BY <2>1, <2>2, <2>3, <2>6, <5>1 DEF ResolutionDue
      <4>3. QED
        BY <4>1, <4>2
    <3>3. QED
      BY <3>1, <3>2
  <2>8. faults' = faults /\ faults \in Nat /\ episodes'[b] = episodes[b]
    BY <1>1, <1>2 DEF TypeOK
  <2>9. QED
    BY <1>1, <2>1, <2>2, <2>7, <2>8, NoNewDebt DEF Accounts, Account
<1>6. QED
  BY <1>5 DEF Accounts, Account

(* Alertmanager gives up: the notification is on its own from then on.     *)
LEMMA GiveUpAccounts ==
    ASSUME BasicInv, TypeOK', Accounts, NEW h \in Handlers, GiveUp(h)
    PROVE  Accounts'
<1>1. TypeOK /\ HandlersOK /\ OneNotification /\ WebhooksOK
  BY TypeParts DEF BasicInv
<1>2. /\ UNCHANGED <<firing, told, episodes, events, sent, todo, late>>
      /\ waiting[h] /\ waiting' = [waiting EXCEPT ![h] = FALSE] /\ faults' = faults + 1
  BY DEF GiveUp, managerVars, Fault
<1>3. ~waiting'[h] /\ \A g \in Handlers \ {h} : waiting'[g] = waiting[g]
  BY <1>1, <1>2 DEF WebhooksOK
<1>4. ASSUME NEW b \in Alerts
      PROVE  Account(b)'
  <2>1. EventOf(b)' = EventOf(b) /\ \A s \in States : Born(b, s)' = Born(b, s)
    BY <1>2, UnchangedRowSets
  <2>2. /\ Missed(b)' \subseteq Missed(b)
        /\ \A s : Pending(b, s)' \subseteq Pending(b, s) /\ Settled(b, s)' \subseteq Settled(b, s)
    BY <1>2, <1>3 DEF Missed, Pending, Settled
  <2>3. firing'[b] = firing[b] /\ told'[b] = told[b] /\ episodes'[b] = episodes[b]
    BY <1>2
  <2>4. FiringDue(b)' => FiringDue(b)
    <3>1. (Pending(b, FALSE)' # {} => Pending(b, FALSE) # {})
          /\ (Pending(b, TRUE)' # {} => Pending(b, TRUE) # {})
      BY <2>2
    <3>2. QED
      BY <2>1, <2>3, <3>1 DEF FiringDue
  <2>5. /\ Cardinality(Abandoned(b)) \in Nat /\ Unit(FiringDue(b)) \in {0, 1}
        /\ Unit(ResolutionDue(b)) \in {0, 1} /\ episodes[b] \in Nat /\ faults \in Nat
        /\ IsFiniteSet(Abandoned(b))
    BY <1>1, Numbers
  <2>6. /\ Unit(FiringDue(b)') <= Unit(FiringDue(b)) /\ Unit(FiringDue(b)') \in {0, 1}
        /\ Unit(ResolutionDue(b)') \in {0, 1}
    BY <2>4 DEF Unit
  <2>7. CASE b \in todo[h]
    <3>1. Abandoned(b)' = Abandoned(b) \cup {h} /\ h \notin Abandoned(b)
      BY <1>2, <1>3, <2>7 DEF Abandoned
    <3>2. Cardinality(Abandoned(b)') = Cardinality(Abandoned(b)) + 1
      BY <2>5, <3>1, FS_AddElement
    <3>3. \A s : Settled(b, s)' = Settled(b, s)
      BY <1>2, <1>3, <2>7 DEF Settled
    <3>4. ResolutionDue(b)' => ResolutionDue(b)
      <4>1. (Pending(b, FALSE)' # {} => Pending(b, FALSE) # {}) /\ (Missed(b)' # {} => Missed(b) # {})
        BY <2>2
      <4>2. QED
        BY <2>1, <2>3, <3>3, <4>1 DEF ResolutionDue
    <3>5. Unit(ResolutionDue(b)') <= Unit(ResolutionDue(b))
      BY <3>4 DEF Unit
    <3>6. QED
      BY <1>1, <1>2, <2>1, <2>3, <2>5, <2>6, <3>2, <3>5, Balance DEF Accounts, Account
  <2>8. CASE b \notin todo[h]
    <3>1. Abandoned(b)' = Abandoned(b)
      BY <1>2, <1>3, <2>8 DEF Abandoned
    <3>2. QED
      BY <1>1, <1>2, <2>1, <2>3, <2>5, <2>6, <3>1, Balance DEF Accounts, Account
  <2>9. QED
    BY <2>7, <2>8
<1>5. QED
  BY <1>4 DEF Accounts, Account

(* The answer: what was settled is now what Alertmanager believes.         *)
LEMMA RespondAccounts ==
    ASSUME BasicInv, TypeOK', Accounts, NEW h \in Handlers, Respond(h), todo[h] = {},
           faults <= faults'
    PROVE  Accounts'
<1>1. TypeOK /\ HandlersOK /\ OneNotification /\ WebhooksOK /\ ManagerOK
  BY TypeParts DEF BasicInv
<1>2. /\ UNCHANGED <<firing, episodes, events, todo, late>>
      /\ sent' = [sent EXCEPT ![h] = NoPayload] /\ waiting' = [waiting EXCEPT ![h] = FALSE]
      /\ told' = IF waiting[h] THEN [a \in Alerts |->
                      IF a \in DOMAIN sent[h] THEN sent[h][a] ELSE told[a]] ELSE told
  BY DEF Respond
<1>3. /\ ~waiting'[h] /\ late[h] = {}
      /\ \A g \in Handlers \ {h} : waiting'[g] = waiting[g] /\ sent'[g] = sent[g]
  BY <1>1, <1>2 DEF WebhooksOK
<1>4. ASSUME NEW b \in Alerts
      PROVE  Account(b)'
  <2>1. EventOf(b)' = EventOf(b) /\ \A s \in States : Born(b, s)' = Born(b, s)
    BY <1>2, UnchangedRowSets
  <2>2. /\ Abandoned(b)' = Abandoned(b) /\ Missed(b)' = Missed(b)
        /\ \A s : Pending(b, s)' = Pending(b, s)
    BY <1>2, <1>3 DEF Abandoned, Missed, Pending
  <2>3. \A s : Settled(b, s)' = Settled(b, s) \ {h}
    BY <1>2, <1>3 DEF Settled
  <2>4. firing'[b] = firing[b] /\ episodes'[b] = episodes[b]
    BY <1>2
  <2>5. FiringDue(b)' => FiringDue(b)
    BY <2>1, <2>2, <2>4 DEF FiringDue
  <2>6. ResolutionDue(b)' => ResolutionDue(b)
    <3>1. CASE waiting[h] /\ b \in DOMAIN sent[h]
      <4>1. told'[b] = sent[h][b] /\ sent[h][b] \in BOOLEAN
        BY <1>1, <1>2, <3>1 DEF WebhooksOK, Payload
      <4>2. CASE sent[h][b]
        <5>1. sent[h][b] = TRUE
          BY <4>1, <4>2
        <5>2. h \in Settled(b, TRUE)
          BY <3>1, <5>1 DEF Settled
        <5>3. QED
          BY <2>1, <2>2, <5>2 DEF ResolutionDue
      <4>3. CASE ~sent[h][b]
        <5>1. ~told'[b]
          BY <4>1, <4>3
        <5>2. QED
          BY <2>1, <2>2, <2>3, <5>1 DEF ResolutionDue
      <4>4. QED
        BY <4>2, <4>3
    <3>2. CASE ~(waiting[h] /\ b \in DOMAIN sent[h])
      <4>1. \A s : Settled(b, s)' = Settled(b, s)
        BY <2>3, <3>2 DEF Settled
      <4>2. told'[b] = told[b]
        BY <1>1, <1>2, <3>2 DEF ManagerOK
      <4>3. QED
        BY <2>1, <2>2, <4>1, <4>2 DEF ResolutionDue
    <3>3. QED
      BY <3>1, <3>2
  <2>7. QED
    BY <1>1, <2>1, <2>2, <2>4, <2>5, <2>6, NoNewDebt DEF Accounts, Account
<1>5. QED
  BY <1>4 DEF Accounts, Account

(* A resolution finds no firing event: the row was owed before the INSERT. *)
LEMMA MissAccounts ==
    ASSUME BasicInv, TypeOK', Accounts, NEW h \in Handlers, MissResolved(h)
    PROVE  Accounts'
<1>1. TypeOK /\ HandlersOK /\ OneNotification /\ WebhooksOK
  BY TypeParts DEF BasicInv
<1>2. PICK a \in todo[h] : ~sent[h][a] /\ EventOf(a) = {} /\ late' = [late EXCEPT ![h] = {a}]
  BY DEF MissResolved
<1>3. UNCHANGED <<firing, told, episodes, events, sent, todo, waiting, faults>> /\ late[h] = {}
  BY <1>1 DEF MissResolved, managerVars, HandlersOK
<1>4. late'[h] = {a} /\ \A g \in Handlers \ {h} : late'[g] = late[g]
  BY <1>1, <1>2 DEF WebhooksOK
<1>5. ASSUME NEW b \in Alerts
      PROVE  Account(b)'
  <2>1. EventOf(b)' = EventOf(b) /\ \A s \in States : Born(b, s)' = Born(b, s)
    BY <1>3, UnchangedRowSets
  <2>2. /\ Abandoned(b)' = Abandoned(b)
        /\ \A s : Pending(b, s)' = Pending(b, s) /\ Settled(b, s)' = Settled(b, s)
    BY <1>3 DEF Abandoned, Pending, Settled
  <2>3. /\ firing'[b] = firing[b] /\ told'[b] = told[b] /\ episodes'[b] = episodes[b]
        /\ faults' = faults /\ faults \in Nat
    BY <1>1, <1>3 DEF TypeOK
  <2>4. FiringDue(b)' => FiringDue(b)
    BY <2>1, <2>2, <2>3 DEF FiringDue
  <2>5. ResolutionDue(b)' => ResolutionDue(b)
    <3>1. CASE waiting[h] /\ b = a
      <4>1. sent[h][a] = FALSE
        BY <1>1, <1>2 DEF WebhooksOK, Payload
      <4>2. h \in Pending(b, FALSE)
        BY <3>1, <4>1 DEF Pending
      <4>3. QED
        BY <1>2, <3>1, <4>2 DEF ResolutionDue
    <3>2. CASE ~(waiting[h] /\ b = a)
      <4>1. Missed(b)' = Missed(b)
        BY <1>3, <1>4, <3>2 DEF Missed
      <4>2. QED
        BY <2>1, <2>2, <2>3, <4>1 DEF ResolutionDue
    <3>3. QED
      BY <3>1, <3>2
  <2>6. QED
    BY <1>1, <2>1, <2>2, <2>3, <2>4, <2>5, NoNewDebt DEF Accounts, Account
<1>6. QED
  BY <1>5 DEF Accounts, Account

(* A crash forgets every webhook, for one fault.                           *)
LEMMA CrashAccounts ==
    ASSUME BasicInv, TypeOK', Accounts, Crash
    PROVE  Accounts'
<1>1. TypeOK
  BY DEF BasicInv
<1>2. /\ UNCHANGED <<firing, told, episodes, events>> /\ faults' = faults + 1
      /\ \A g \in Handlers : todo'[g] = {} /\ ~waiting'[g]
  BY DEF Crash, managerVars, Fault
<1>3. ASSUME NEW b \in Alerts
      PROVE  Account(b)'
  <2>1. EventOf(b)' = EventOf(b) /\ \A s \in States : Born(b, s)' = Born(b, s)
    BY <1>2, UnchangedRowSets
  <2>2. Abandoned(b)' = {} /\ \A s : Pending(b, s)' = {}
    BY <1>2 DEF Abandoned, Pending
  <2>3. Cardinality(Abandoned(b)') = 0
    BY <2>2, FS_EmptySet
  <2>4. firing'[b] = firing[b] /\ episodes'[b] = episodes[b]
    BY <1>2
  <2>5. FiringDue(b)' => FiringDue(b)
    BY <2>1, <2>2, <2>4 DEF FiringDue
  <2>6. /\ Cardinality(Abandoned(b)) \in Nat /\ Unit(FiringDue(b)) \in {0, 1}
        /\ Unit(ResolutionDue(b)) \in {0, 1} /\ episodes[b] \in Nat /\ faults \in Nat
    BY <1>1, Numbers
  <2>7. /\ Unit(FiringDue(b)') <= Unit(FiringDue(b)) /\ Unit(FiringDue(b)') \in {0, 1}
        /\ Unit(ResolutionDue(b)') \in {0, 1}
    BY <2>5 DEF Unit
  <2>8. QED
    BY <1>1, <1>2, <2>1, <2>3, <2>4, <2>6, <2>7, Balance DEF Accounts, Account
<1>4. QED
  BY <1>3 DEF Accounts, Account

(* Every step keeps the accounts.                                          *)
LEMMA AccountsKept == ASSUME BasicInv, TypeOK', Accounts, [Next]_vars PROVE Accounts'
<1>1. TypeOK /\ HandlersOK
  BY DEF BasicInv
<1>2. faults \in Nat
  BY <1>1 DEF TypeOK
<1>3. ASSUME UNCHANGED <<firing, told, episodes>>, UNCHANGED <<sent, todo, late, waiting>>,
             SameRows, faults <= faults'
      PROVE  Accounts'
  <2>1. ASSUME NEW b \in Alerts PROVE Account(b)'
    <3>1. EventOf(b)' = EventOf(b) /\ \A s \in States : Born(b, s)' = Born(b, s)
      BY <1>3, SameRowSets
    <3>2. /\ Abandoned(b)' = Abandoned(b) /\ Missed(b)' = Missed(b)
          /\ \A s : Pending(b, s)' = Pending(b, s) /\ Settled(b, s)' = Settled(b, s)
      BY <1>3, SameHandlerSets
    <3>3. Untouched(b)
      BY <1>3, <3>1, <3>2 DEF Untouched, SameDebts
    <3>4. QED
      BY <1>1, <1>3, <3>3, UntouchedAccount DEF Accounts, Account
  <2>2. QED
    BY <2>1 DEF Accounts, Account
<1>4. UNCHANGED events => SameRows
  BY DEF SameRows, SameRow
<1>5. ASSUME NEW h \in Handlers, ProcessOne(h) PROVE Accounts'
  <2>1. PICK a \in todo[h] :
           Processed(h, a) /\ late[h] \subseteq {a} /\ Effect(h, a) /\ faults <= faults'
    BY <1>5, ProcessEffect
  <2>2. QED
    BY <2>1, ProcessedAccounts
<1>6. ASSUME NEW h \in Handlers, ReadFiring(h) PROVE Accounts'
  BY <1>2, <1>3, <1>4, <1>6 DEF ReadFiring, managerVars
<1>7. ASSUME NEW h \in Handlers, SyncGauges(h) \/ SyncFails(h) PROVE Accounts'
  <2>1. Respond(h) /\ todo[h] = {} /\ faults <= faults'
    BY <1>1, <1>2, <1>7 DEF SyncGauges, SyncFails, HandlersOK, Fault
  <2>2. QED
    BY <2>1, RespondAccounts
<1>8. ASSUME NEW task \in triaging, Triage(task) PROVE Accounts'
  <2>1. /\ SameRows /\ faults <= faults' /\ UNCHANGED <<managerVars, handlerVars>>
    BY <1>1, <1>8, TriageEffect DEF SameRows
  <2>2. QED
    BY <1>3, <2>1 DEF managerVars, handlerVars
<1>9. CASE Start
  <2>1. UNCHANGED <<managerVars, events, handlerVars>> /\ faults <= faults'
    BY <1>2, <1>9 DEF Start, Fault
  <2>2. QED
    BY <1>3, <1>4, <2>1 DEF managerVars, handlerVars
<1>10. CASE UNCHANGED vars
  BY <1>2, <1>3, <1>4, <1>10 DEF vars, managerVars, handlerVars
<1>11. QED
  BY <1>5, <1>6, <1>7, <1>8, <1>9, <1>10, FireAccounts, NotifyAccounts, GiveUpAccounts,
     MissAccounts, CrashAccounts DEF Next, Handle, ProcessOne

-----------------------------------------------------------------------------
(* Triages *)

SameTriage(k) ==
    /\ events'[k].alert = events[k].alert /\ events'[k].born = events[k].born
    /\ events'[k].triages = events[k].triages
    /\ events[k].summary => events'[k].summary

Triaged(k) ==
    /\ events'[k].triages <= (IF events'[k].born = "firing" THEN 1 ELSE 0)
    /\ events'[k].alert \in Critical /\ events'[k].born = "firing" =>
          k \in dropped' \/ \E task \in triaging' : task.event = k

(* Processing an alert leaves the rows as they are, and sees to the triage *)
(* of a new one, unless the statement failed.                              *)
LEMMA ProcessTriages ==
    ASSUME BasicInv, NEW h \in Handlers, ProcessOne(h)
    PROVE  /\ \A k \in DOMAIN events : SameTriage(k)
           /\ \A k \in DOMAIN events' \ DOMAIN events : Triaged(k)
           /\ triaging \subseteq triaging' /\ dropped \subseteq dropped'
<1>1. TypeOK /\ WebhooksOK /\ events \in Seq(Event)
  BY TypeParts DEF BasicInv, RowsOK
<1>2. \A a \in todo[h] : a \in Alerts /\ late[h] \subseteq todo[h]
  BY <1>1 DEF WebhooksOK
<1>3. ASSUME NEW rows \in Seq(Event), \A k \in DOMAIN events : rows[k] = events[k], events' = rows
      PROVE  \A k \in DOMAIN events : SameTriage(k)
  BY <1>3 DEF SameTriage
<1>4. ASSUME NEW a \in todo[h], NEW status \in States,
             events' = Append(events, New(a, status)),
             status = "firing" => dropped' = dropped \cup (DOMAIN events' \ DOMAIN events)
      PROVE  /\ \A k \in DOMAIN events : SameTriage(k)
             /\ \A k \in DOMAIN events' \ DOMAIN events : Triaged(k)
  <2>1. /\ DOMAIN events' = DOMAIN events \cup {Len(events) + 1}
        /\ \A k \in DOMAIN events : events'[k] = events[k]
        /\ events'[Len(events) + 1] = New(a, status)
    BY <1>1, <1>2, <1>4, InsertedRow
  <2>2. New(a, status).triages = 0 /\ New(a, status).born = status
    BY DEF New
  <2>3. ASSUME NEW k \in DOMAIN events' \ DOMAIN events PROVE Triaged(k)
    <3>1. k = Len(events) + 1
      BY <2>1
    <3>2. events'[k].triages = 0 /\ events'[k].born = status
      BY <2>1, <2>2, <3>1
    <3>3. status = "firing" => k \in dropped'
      BY <1>4, <2>3
    <3>4. QED
      BY <3>2, <3>3 DEF Triaged
  <2>4. QED
    BY <2>1, <2>3 DEF SameTriage
<1>5. ASSUME NEW a, events' = Resolved(a)
      PROVE  DOMAIN events' = DOMAIN events /\ \A k \in DOMAIN events : SameTriage(k)
  BY <1>1, <1>5, ResolvedRows DEF SameTriage
<1>6. UNCHANGED events => \A k \in DOMAIN events : SameTriage(k)
  BY DEF SameTriage
<1>7. CASE ProcessFiring(h)
  <2>1. PICK a \in todo[h] : StartTriage(a)
    BY <1>7 DEF ProcessFiring
  <2>2. dropped' = dropped
    BY <1>7 DEF ProcessFiring
  <2>3. triaging \subseteq triaging'
    BY <2>1 DEF StartTriage
  <2>4. \A k \in DOMAIN events : SameTriage(k)
    BY <1>1, <1>2, <2>1, StartTriageRows DEF SameTriage
  <2>5. ASSUME NEW k \in DOMAIN events' \ DOMAIN events PROVE Triaged(k)
    <3>1. IsNew(a)
      BY <1>1, <1>2, <2>1, <2>5, StartTriageRows
    <3>2. /\ k = Len(events) + 1 /\ events'[k].born = "firing" /\ events'[k].triages <= 1
          /\ events'[k].alert = a
      BY <1>1, <1>2, <2>1, <2>5, <3>1, StartTriageRows
    <3>3. a \in Critical => Task(k, a) \in triaging'
      BY <1>1, <1>2, <2>1, <3>1, <3>2, StartTriageRows
    <3>4. Task(k, a).event = k
      BY DEF Task
    <3>5. QED
      BY <3>2, <3>3, <3>4 DEF Triaged
  <2>6. QED
    BY <2>2, <2>3, <2>4, <2>5
<1>8. CASE ProcessResolved(h)
  <2>1. PICK a \in todo[h] : events' = Resolved(a)
    BY <1>8 DEF ProcessResolved
  <2>2. triaging' = triaging /\ dropped' = dropped
    BY <1>8 DEF ProcessResolved
  <2>3. QED
    BY <1>5, <2>1, <2>2
<1>9. CASE InsertResolved(h)
  <2>1. PICK a \in late[h] : events' = Append(events, New(a, "resolved"))
    BY <1>9 DEF InsertResolved
  <2>2. triaging' = triaging /\ dropped' = dropped
    BY <1>9 DEF InsertResolved
  <2>3. a \in todo[h] /\ "resolved" \in States /\ "resolved" # "firing"
    BY <1>1, <2>1 DEF WebhooksOK, States
  <2>4. QED
    BY <1>4, <2>1, <2>2, <2>3
<1>10. CASE ProcessFails(h)
  <2>1. triaging' = triaging /\ dropped' = dropped \cup (DOMAIN events' \ DOMAIN events)
    BY <1>10 DEF ProcessFails
  <2>2. \/ UNCHANGED events
        \/ \E a \in todo[h] : events' = Resolved(a)
        \/ \E a \in todo[h], s \in States : events' = Append(events, New(a, s))
    <3>1. "firing" \in States /\ "resolved" \in States
      BY DEF States
    <3>2. CASE stage[h] = "alerts"
      <4>1. \E a \in todo[h] : UNCHANGED events \/ events' = Upserted(a) \/ events' = Resolved(a)
        BY <1>10, <3>2 DEF ProcessFails
      <4>2. QED
        BY <3>1, <4>1 DEF Upserted
    <3>3. CASE stage[h] = "insert"
      <4>1. \E a \in late[h] : events' \in {events, Append(events, New(a, "resolved"))}
        BY <1>10, <3>3 DEF ProcessFails
      <4>2. late[h] \subseteq todo[h]
        BY <1>1 DEF WebhooksOK
      <4>3. QED
        BY <3>1, <4>1, <4>2
    <3>4. QED
      BY <1>10, <3>2, <3>3 DEF ProcessFails
  <2>3. CASE UNCHANGED events
    BY <1>6, <2>1, <2>3
  <2>4. CASE \E a \in todo[h] : events' = Resolved(a)
    BY <1>5, <2>1, <2>4
  <2>5. CASE \E a \in todo[h], s \in States : events' = Append(events, New(a, s))
    BY <1>4, <2>1, <2>5
  <2>6. QED
    BY <2>2, <2>3, <2>4, <2>5
<1>11. QED
  BY <1>7, <1>8, <1>9, <1>10 DEF ProcessOne

(* No step triages an event again, or forgets one.                         *)
LEMMA TriagesKept ==
    ASSUME BasicInv, TriagedOnce, TriagedUnlessDropped, [Next]_vars
    PROVE  TriagedOnce' /\ TriagedUnlessDropped'
<1>1. TypeOK
  BY DEF BasicInv
<1>2. ASSUME UNCHANGED events, dropped \subseteq dropped',
             \A task \in triaging : task \in triaging' \/ task.event \in dropped'
      PROVE  TriagedOnce' /\ TriagedUnlessDropped'
  BY <1>2 DEF TriagedOnce, TriagedUnlessDropped
<1>3. ASSUME NEW h \in Handlers, ProcessOne(h) PROVE TriagedOnce' /\ TriagedUnlessDropped'
  <2>1. /\ \A k \in DOMAIN events : SameTriage(k)
        /\ \A k \in DOMAIN events' \ DOMAIN events : Triaged(k)
        /\ triaging \subseteq triaging' /\ dropped \subseteq dropped'
    BY <1>3, ProcessTriages
  <2>2. TriagedOnce'
    BY <2>1 DEF SameTriage, Triaged, TriagedOnce
  <2>3. TriagedUnlessDropped'
    BY <2>1 DEF SameTriage, Triaged, TriagedUnlessDropped
  <2>4. QED
    BY <2>2, <2>3
<1>4. ASSUME NEW task \in triaging, Triage(task) PROVE TriagedOnce' /\ TriagedUnlessDropped'
  <2>1. /\ DOMAIN events' = DOMAIN events
        /\ \A k \in DOMAIN events : SameTriage(k)
        /\ \A t \in triaging \ {task} : t \in triaging'
        /\ dropped \subseteq dropped'
        /\ \/ \E t \in triaging' : t.event = task.event
           \/ events'[task.event].summary
           \/ task.event \in dropped'
    BY <1>1, <1>4, TriageEffect DEF SameTriage, SameRow
  <2>2. TriagedOnce'
    BY <2>1 DEF SameTriage, TriagedOnce
  <2>3. TriagedUnlessDropped'
    BY <2>1 DEF SameTriage, TriagedUnlessDropped
  <2>4. QED
    BY <2>2, <2>3
<1>5. CASE Crash
  BY <1>2, <1>5 DEF Crash
<1>6. ASSUME NEW h \in Handlers,
             \/ GiveUp(h) \/ MissResolved(h) \/ ReadFiring(h) \/ SyncGauges(h) \/ SyncFails(h)
             \/ \E alerts \in SUBSET Alerts : Notify(h, alerts)
      PROVE  TriagedOnce' /\ TriagedUnlessDropped'
  <2>1. UNCHANGED <<events, triageVars>>
    BY <1>6 DEF GiveUp, MissResolved, ReadFiring, SyncGauges, SyncFails, Respond, Notify
  <2>2. QED
    BY <1>2, <2>1 DEF triageVars
<1>7. CASE Start \/ UNCHANGED vars \/ \E a \in Alerts : Fire(a) \/ Resolve(a)
  BY <1>2, <1>7 DEF Start, vars, Fire, Resolve, triageVars
<1>8. QED
  BY <1>3, <1>4, <1>5, <1>6, <1>7 DEF Next, Handle, ProcessOne

-----------------------------------------------------------------------------
(* The theorems *)

ReceiverInv == BasicInv /\ Accounts /\ TriagedOnce /\ TriagedUnlessDropped

(* All of it holds before the first alert.                                 *)
LEMMA ReceiverInit == ASSUME Init PROVE ReceiverInv
<1>1. events = <<>> /\ events \in Seq(Event) /\ Len(events) = 0 /\ DOMAIN events = {}
  BY DEF Init
<1>2. NoPayload \in [{} -> BOOLEAN] /\ NoPayload \in Payload /\ DOMAIN NoPayload = {}
  <2>1. NoPayload \in [{} -> BOOLEAN] /\ {} \in SUBSET Alerts
    BY DEF NoPayload
  <2>2. QED
    BY <2>1 DEF Payload
<1>3. TypeOK
  <2>1. ManagerOK
    BY DEF Init, ManagerOK
  <2>2. WebhooksOK
    BY <1>2 DEF Init, WebhooksOK
  <2>3. RowsOK
    BY <1>1 DEF Init, RowsOK
  <2>4. QED
    BY <2>1, <2>2, <2>3, TypeParts
<1>4. HandlersOK /\ OneNotification
  BY DEF Init, HandlersOK, OneNotification
<1>5. ASSUME NEW a \in Alerts PROVE FiringAccount(a) /\ ResolutionAccount(a)
  <2>1. Born(a, "firing") = {} /\ Born(a, "resolved") = {} /\ Abandoned(a) = {}
    BY <1>1 DEF Init, Born, Abandoned
  <2>2. /\ Cardinality(Born(a, "firing")) = 0 /\ Cardinality(Born(a, "resolved")) = 0
        /\ Cardinality(Abandoned(a)) = 0
    BY <2>1, FS_EmptySet
  <2>3. ~FiringDue(a)
    <3>1. Pending(a, FALSE) = {} /\ Pending(a, TRUE) = {} /\ ~firing[a]
      BY DEF Init, Pending
    <3>2. QED
      BY <3>1 DEF FiringDue
  <2>4. ~ResolutionDue(a)
    <3>1. /\ Pending(a, FALSE) = {} /\ Settled(a, TRUE) = {} /\ Missed(a) = {} /\ ~told[a]
      BY DEF Init, Pending, Settled, Missed
    <3>2. QED
      BY <3>1 DEF ResolutionDue
  <2>5. episodes[a] = 0 /\ faults = 0
    BY DEF Init
  <2>6. QED
    BY <2>2, <2>3, <2>4, <2>5 DEF FiringAccount, ResolutionAccount, Unit
<1>6. TriagedOnce /\ TriagedUnlessDropped
  BY <1>1 DEF TriagedOnce, TriagedUnlessDropped
<1>7. QED
  BY <1>3, <1>4, <1>5, <1>6 DEF ReceiverInv, BasicInv, Accounts

(* The inductive invariant is inductive ...                                *)
LEMMA ReceiverKept == ASSUME ReceiverInv, [Next]_vars PROVE ReceiverInv'
<1>1. TypeOK' /\ HandlersOK' /\ OneNotification'
  BY TypesKept, HandlersKept DEF ReceiverInv
<1>2. Accounts'
  BY <1>1, AccountsKept DEF ReceiverInv
<1>3. TriagedOnce' /\ TriagedUnlessDropped'
  BY TriagesKept DEF ReceiverInv
<1>4. QED
  BY <1>1, <1>2, <1>3 DEF ReceiverInv, BasicInv

(* ... and holds in every reachable state.                                 *)
LEMMA ReceiverInvariant == Spec => []ReceiverInv
<1>1. Init => ReceiverInv
  BY ReceiverInit
<1>2. ReceiverInv /\ [Next]_vars => ReceiverInv'
  BY ReceiverKept
<1>3. QED
  BY <1>1, <1>2, PTL DEF Spec

(* Every reachable state of the Alert Receiver, with any number of alerts  *)
(* and webhooks, is well typed.                                            *)
THEOREM ReceiverTypeCorrect == Spec => []TypeOK
<1>1. ReceiverInv => TypeOK
  BY DEF ReceiverInv, BasicInv
<1>2. QED
  BY <1>1, ReceiverInvariant, PTL

(* No event is triaged twice, whatever webhooks repeat or overlap.         *)
THEOREM OneTriagePerEvent == Spec => []TriagedOnce
<1>1. ReceiverInv => TriagedOnce
  BY DEF ReceiverInv
<1>2. QED
  BY <1>1, ReceiverInvariant, PTL

(* No critical event stays without a triage but for PostgreSQL or a crash. *)
THEOREM NoTriageForgotten == Spec => []TriagedUnlessDropped
<1>1. ReceiverInv => TriagedUnlessDropped
  BY DEF ReceiverInv
<1>2. QED
  BY <1>1, ReceiverInvariant, PTL

(* The table has at most one firing event per episode and fault, and one   *)
(* resolution without its firing event per fault.                          *)
THEOREM HistoryBounded == Spec => []HistoryFollowsEpisodes
<1>1. ReceiverInv => HistoryFollowsEpisodes
  <2>1. ASSUME ReceiverInv, NEW a \in Alerts
        PROVE  /\ Cardinality(Born(a, "firing")) <= episodes[a] + faults
               /\ Cardinality(Born(a, "resolved")) <= faults
    <3>1. /\ Cardinality(Born(a, "firing")) \in Nat /\ Cardinality(Born(a, "resolved")) \in Nat
          /\ Cardinality(Abandoned(a)) \in Nat /\ Unit(FiringDue(a)) \in {0, 1}
          /\ Unit(ResolutionDue(a)) \in {0, 1} /\ episodes[a] \in Nat /\ faults \in Nat
      BY <2>1, Numbers DEF ReceiverInv, BasicInv
    <3>2. FiringAccount(a) /\ ResolutionAccount(a)
      BY <2>1 DEF ReceiverInv, Accounts
    <3>3. QED
      BY <3>1, <3>2 DEF FiringAccount, ResolutionAccount
  <2>2. QED
    BY <2>1 DEF HistoryFollowsEpisodes
<1>2. QED
  BY <1>1, ReceiverInvariant, PTL
=============================================================================

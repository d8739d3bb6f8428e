---------------------- MODULE IngestionDelivery_proofs ----------------------
(***************************************************************************)
(* The consumer group implements AtLeastOnceDelivery, its commits never    *)
(* rewind, what it publishes or shows as dead-lettered is stored, and no   *)
(* message gets more rows than the group has had generations.  Builds on   *)
(* the invariants of IngestionConsumer_proofs.                             *)
(***************************************************************************)
EXTENDS IngestionConsumer_proofs, FiniteSetTheorems

-----------------------------------------------------------------------------
(* Ownership: the members from which the broker accepts commits own        *)
(* disjoint partitions, and are nowhere behind the committed offset.       *)

OwnersDisjoint ==
    \A i, k \in group : i # k => assigned[i] \cap assigned[k] = {}
OwnersNotBehind ==
    \A i \in group : \A p \in assigned[i] : committed[p] <= position[i][p]

OwnershipInv == OwnersDisjoint /\ OwnersNotBehind

LEMMA OwnershipUntouched ==
    ASSUME OwnershipInv, UNCHANGED <<committed, assigned, position>>, group' \subseteq group
    PROVE  OwnershipInv'
  BY DEF OwnershipInv, OwnersDisjoint, OwnersNotBehind

LEMMA LeaveKeepsOwnership ==
    ASSUME TypeInv, OwnershipInv, NEW i \in Instances, NEW stage \in {"down", "exited"},
           Leave(i, stage),
           committed' = committed \/ (i \in group /\ committed' = CommittedBy(i))
    PROVE  OwnershipInv'
<1> USE DEF TypeInv, TypeOK, BatchTypeOK, KafkaTypeOK
<1>1. /\ group' = group \ {i}
      /\ \A k \in Instances \ {i} : assigned'[k] = assigned[k] /\ position'[k] = position[k]
  BY DEF Leave
<1>2. \A k \in group' : \A p \in assigned[k] : committed'[p] = committed[p]
  BY <1>1 DEF CommittedBy, OwnershipInv, OwnersDisjoint
<1>3. QED
  BY <1>1, <1>2 DEF OwnershipInv, OwnersDisjoint, OwnersNotBehind

LEMMA InitOwnershipInv == Init => OwnershipInv
  BY DEF Init, OwnershipInv, OwnersDisjoint, OwnersNotBehind

LEMMA NextOwnershipInv == TypeInv /\ OwnershipInv /\ [Next]_vars => OwnershipInv'
<1> SUFFICES ASSUME TypeInv, OwnershipInv, [Next]_vars PROVE OwnershipInv'
  OBVIOUS
<1> USE DEF kafkaVars, postgresVars, redisVars, batchVars, messageVars
<1>1. ASSUME \/ \E p \in Partitions, m \in Messages : Produce(p, m)
             \/ \E d \in Devices : WriteDevice(d) \/ DeleteDevice(d) \/ ExpireKey(d)
             \/ \E i \in Instances : Evict(i) \/ Signal(i)
      PROVE  OwnershipInv'
  BY <1>1, OwnershipUntouched DEF Produce, WriteDevice, DeleteDevice, ExpireKey, Evict, Signal
<1>2. ASSUME Rebalance PROVE OwnershipInv'
  <2>0. PICK members \in SUBSET Members :
          /\ group' = members
          /\ \E owner \in [Partitions -> members] :
                /\ assigned' = [i \in Instances |->
                      IF i \in members THEN {p \in Partitions : owner[p] = i} ELSE assigned[i]]
                /\ position' = [i \in Instances |-> [p \in Partitions |->
                      IF owner[p] = i THEN committed[p] ELSE position[i][p]]]
    BY <1>2 DEF Rebalance, StartOffset
  <2>1. PICK owner \in [Partitions -> members] :
          /\ assigned' = [i \in Instances |->
                IF i \in members THEN {p \in Partitions : owner[p] = i} ELSE assigned[i]]
          /\ position' = [i \in Instances |-> [p \in Partitions |->
                IF owner[p] = i THEN committed[p] ELSE position[i][p]]]
    BY <2>0
  <2>2. committed' = committed
    BY <1>2 DEF Rebalance
  <2>3. \A i \in members : i \in Instances /\ assigned'[i] = {p \in Partitions : owner[p] = i}
    BY <2>1 DEF Members
  <2>4. \A i \in members : \A p \in assigned'[i] : position'[i][p] = committed[p]
    BY <2>1, <2>3 DEF Members
  <2>5. \A p \in Partitions : committed[p] \in Nat
    BY DEF TypeInv, TypeOK, KafkaTypeOK
  <2>6. OwnersDisjoint'
    BY <2>0, <2>3 DEF OwnersDisjoint
  <2>7. OwnersNotBehind'
    BY <2>0, <2>2, <2>3, <2>4, <2>5 DEF OwnersNotBehind
  <2>8. QED
    BY <2>6, <2>7 DEF OwnershipInv
<1>3. ASSUME NEW i \in Instances, Poll(i) PROVE OwnershipInv'
  <2>1. UNCHANGED <<group, committed, assigned>>
    BY <1>3 DEF Poll
  <2>2. ASSUME NEW k \in Instances, NEW p \in Partitions
        PROVE  position[k][p] <= position'[k][p]
    <3>1. position[k][p] \in Nat
      BY DEF TypeInv, TypeOK, BatchTypeOK
    <3>2. CASE k = i
      BY <1>3, <3>1, <3>2, PollEffect
    <3>3. CASE k # i
      BY <1>3, <3>1, <3>3, PollEffect
    <3>4. QED
      BY <3>2, <3>3
  <2>3. /\ \A p \in Partitions : committed[p] \in Nat
        /\ \A k \in Instances, p \in Partitions : position[k][p] \in Nat /\ position'[k][p] \in Nat
        /\ group \subseteq Instances /\ \A k \in Instances : assigned[k] \subseteq Partitions
    BY <1>3, PollEffect DEF TypeInv, TypeOK, BatchTypeOK, KafkaTypeOK
  <2>4. QED
    BY <2>1, <2>2, <2>3 DEF OwnershipInv, OwnersDisjoint, OwnersNotBehind
<1>4. ASSUME NEW i \in Instances, Commit(i) PROVE OwnershipInv'
  <2>1. /\ i \in group /\ committed' = CommittedBy(i)
        /\ UNCHANGED <<group, assigned, position>>
    BY <1>4 DEF Commit
  <2>2. \A k \in group \ {i} : \A p \in assigned[k] : p \notin assigned[i]
    BY <2>1 DEF OwnershipInv, OwnersDisjoint
  <2>3. /\ group \subseteq Instances /\ \A k \in Instances : assigned[k] \subseteq Partitions
        /\ \A k \in Instances, p \in Partitions : position[k][p] \in Nat
    BY DEF TypeInv, TypeOK, BatchTypeOK, KafkaTypeOK
  <2>4. OwnersNotBehind'
    BY <2>1, <2>2, <2>3 DEF CommittedBy, OwnershipInv, OwnersNotBehind
  <2>5. OwnersDisjoint'
    BY <2>1 DEF OwnershipInv, OwnersDisjoint
  <2>6. QED
    BY <2>4, <2>5 DEF OwnershipInv
<1>5. ASSUME NEW i \in Instances, CommitFails(i) PROVE OwnershipInv'
  BY <1>5, LeaveKeepsOwnership DEF CommitFails, Raise
<1>6. ASSUME NEW i \in Instances,
             \/ Crash(i) \/ Stop(i) \/ PollFails(i) \/ FetchFails(i)
             \/ PublishFails(i) \/ SendDeadLetterFails(i)
      PROVE  OwnershipInv'
  BY <1>6, LeaveKeepsOwnership
     DEF Crash, Stop, PollFails, FetchFails, PublishFails, SendDeadLetterFails, Raise
<1>7. ASSUME NEW i \in Instances,
             \/ Start(i) \/ Receive(i) \/ Lookup(i) \/ Fetch(i) \/ Store(i) \/ Expire(i)
             \/ Insert(i) \/ InsertFails(i) \/ Publish(i) \/ SendDeadLetter(i)
             \/ InsertDeadLetter(i)
      PROVE  OwnershipInv'
  BY <1>7, OwnershipUntouched
     DEF Start, Receive, Lookup, Fetch, Store, Expire, Insert, InsertFails, Publish,
         SendDeadLetter, InsertDeadLetter, NextMessage
<1>8. CASE UNCHANGED vars
  BY <1>8, OwnershipUntouched DEF vars
<1>9. QED
  BY <1>1, <1>2, <1>3, <1>4, <1>5, <1>6, <1>7, <1>8
     DEF Next, Environment, Consumer, ProcessMessage, CallFails, PollEmpty

-----------------------------------------------------------------------------
(* What a step can do to the log, to the settled offsets and to the        *)
(* committed offsets: one of the steps of AtLeastOnceDelivery.             *)

Appends(p, m) ==
    /\ log' = [log EXCEPT ![p] = Append(@, m)]
    /\ UNCHANGED <<Done, committed>>
Settles(i) ==
    /\ pc[i] \in InHand
    /\ Done' = WithHere(i)
    /\ UNCHANGED <<log, committed>>
Commits ==
    /\ UNCHANGED <<log, Done>>
    /\ committed' \in [Partitions -> Nat]
    /\ \A p \in Partitions : committed[p] <= committed'[p]
    /\ CommittedDone'

DeliveryStep ==
    \/ \E p \in Partitions, m \in Messages : Appends(p, m)
    \/ \E i \in Instances : Settles(i)
    \/ Commits
    \/ UNCHANGED <<log, Done, committed>>

LEMMA CommittedByNotBehind ==
    ASSUME TypeInv, OwnershipInv, NEW i \in group
    PROVE  /\ CommittedBy(i) \in [Partitions -> Nat]
           /\ \A p \in Partitions : committed[p] <= CommittedBy(i)[p]
  BY DEF TypeInv, TypeOK, KafkaTypeOK, BatchTypeOK, CommittedBy, OwnershipInv, OwnersNotBehind

LEMMA NextIsDeliveryStep ==
    DeliveryInv /\ OwnershipInv /\ [Next]_vars => DeliveryStep
<1> SUFFICES ASSUME DeliveryInv, OwnershipInv, [Next]_vars PROVE DeliveryStep
  OBVIOUS
<1>a. TypeInv /\ DeliveryInv'
  BY NextDeliveryInv DEF DeliveryInv
<1> USE DEF kafkaVars, postgresVars, redisVars, batchVars, messageVars
<1>1. ASSUME NEW p \in Partitions, NEW m \in Messages, Produce(p, m) PROVE DeliveryStep
  BY <1>1, DoneUnchanged DEF Produce, DeliveryStep, Appends
<1>2. ASSUME NEW i \in Instances, Commit(i) \/ CommitFails(i) PROVE DeliveryStep
  <2>1. UNCHANGED <<log, Done>>
    BY <1>2, DoneUnchanged DEF Commit, CommitFails, Raise, Leave
  <2>2. CASE committed' = committed
    BY <2>1, <2>2 DEF DeliveryStep
  <2>3. CASE committed' # committed
    <3>1. i \in group /\ committed' = CommittedBy(i)
      BY <1>2, <2>3 DEF Commit, CommitFails
    <3>2. Commits
      BY <1>a, <2>1, <3>1, CommittedByNotBehind DEF Commits, DeliveryInv, OffsetsInv
    <3>3. QED
      BY <3>2 DEF DeliveryStep
  <2>4. QED
    BY <2>2, <2>3
<1>3. ASSUME NEW i \in Instances, Publish(i) \/ PublishFails(i) PROVE DeliveryStep
  <2>1. pc[i] \in InHand /\ UNCHANGED <<log, committed, dlq>>
    BY <1>3 DEF Publish, PublishFails, Raise, Leave, InHand
  <2>2. enriched' = enriched \/ enriched' = enriched \cup {Published(i)}
    BY <1>3 DEF Publish, PublishFails
  <2>3. Done' = Done \/ Done' = WithHere(i)
    BY <1>a, <2>1, <2>2, DoneUnchanged, DonePublished
  <2>4. QED
    BY <2>1, <2>3 DEF DeliveryStep, Settles
<1>4. ASSUME NEW i \in Instances, SendDeadLetter(i) \/ SendDeadLetterFails(i)
      PROVE  DeliveryStep
  <2>1. pc[i] \in InHand /\ UNCHANGED <<log, committed, enriched>>
    BY <1>4 DEF SendDeadLetter, SendDeadLetterFails, Raise, Leave, InHand
  <2>2. dlq' = dlq \/ dlq' = dlq \cup {DeadLetter(i)}
    BY <1>4 DEF SendDeadLetter, SendDeadLetterFails
  <2>3. Done' = Done \/ Done' = WithHere(i)
    BY <1>a, <2>1, <2>2, DoneUnchanged, DoneDeadLettered
  <2>4. QED
    BY <2>1, <2>3 DEF DeliveryStep, Settles
<1>5. ASSUME UNCHANGED <<log, committed, enriched, dlq>> PROVE DeliveryStep
  BY <1>5, DoneUnchanged DEF DeliveryStep
<1>6. ASSUME \/ \E d \in Devices : WriteDevice(d) \/ DeleteDevice(d) \/ ExpireKey(d)
             \/ Rebalance
             \/ \E i \in Instances : Evict(i) \/ Crash(i) \/ Signal(i) \/ Start(i) \/ Stop(i)
             \/ \E i \in Instances : Poll(i) \/ PollFails(i) \/ FetchFails(i) \/ InsertFails(i)
             \/ \E i \in Instances : Receive(i) \/ Lookup(i) \/ Fetch(i) \/ Store(i) \/ Expire(i)
             \/ \E i \in Instances : Insert(i) \/ InsertDeadLetter(i)
             \/ UNCHANGED vars
      PROVE  UNCHANGED <<log, committed, enriched, dlq>>
  BY <1>6 DEF WriteDevice, DeleteDevice, ExpireKey, Rebalance, Evict, Crash, Signal, Start, Stop,
     Poll, PollFails, FetchFails, InsertFails, Receive, Lookup, Fetch, Store, Expire, Insert,
     InsertDeadLetter, Raise, Leave, vars
<1>7. QED
  BY <1>1, <1>2, <1>3, <1>4, <1>5, <1>6
     DEF Next, Environment, Consumer, ProcessMessage, CallFails, PollEmpty

LEMMA OwnershipInvariant == Spec => [](DeliveryInv /\ OwnershipInv)
<1>1. DeliveryInv /\ OwnershipInv /\ [Next]_vars => (DeliveryInv /\ OwnershipInv)'
  BY NextDeliveryInv, NextOwnershipInv DEF DeliveryInv
<1>2. QED
  BY <1>1, InitDeliveryInv, InitOwnershipInv, PTL DEF Spec

(* No commit moves the group's offset back. *)
THEOREM NeverRewinds == Spec => CommitsNeverRewind
<1>1. DeliveryInv /\ OwnershipInv /\ [Next]_vars =>
        [\A p \in Partitions : committed'[p] >= committed[p]]_committed
  BY NextIsDeliveryStep
     DEF DeliveryStep, Appends, Settles, Commits, DeliveryInv, TypeInv, TypeOK, KafkaTypeOK
<1>2. QED
  BY <1>1, OwnershipInvariant, PTL DEF Spec, CommitsNeverRewind

LEMMA SettlementIsDone == DeliveryInv => Settlement = Done
<1> SUFFICES ASSUME DeliveryInv PROVE Settlement = Done
  OBVIOUS
<1>1. ASSUME NEW p \in Partitions PROVE Settlement[p] = Done[p]
  <2>1. Len(log[p]) \in Nat
    BY DEF DeliveryInv, TypeInv, TypeOK, KafkaTypeOK
  <2>2. \A o \in Nat : Settled(p, o) => o < Len(log[p])
    BY DEF DeliveryInv, OffsetsInv, DoneInLog, Done
  <2>3. QED
    BY <2>1, <2>2 DEF Settlement, Done
<1>2. QED
  BY <1>1 DEF Settlement, Done

LEMMA DeliverySimulation ==
    DeliveryInv /\ OwnershipInv /\ [Next]_vars => [Delivery!Next]_(Delivery!vars)
<1> SUFFICES ASSUME DeliveryInv, OwnershipInv, [Next]_vars PROVE [Delivery!Next]_(Delivery!vars)
  OBVIOUS
<1>b. (DeliveryInv => Settlement = Done)'
  BY SettlementIsDone, PTL
<1>a. TypeInv /\ DeliveryInv' /\ Settlement = Done /\ Settlement' = Done'
  BY <1>b, NextDeliveryInv, SettlementIsDone DEF DeliveryInv
<1>1. ASSUME NEW p \in Partitions, NEW m \in Messages, Appends(p, m) PROVE Delivery!Next
  BY <1>a, <1>1 DEF Appends, Delivery!Next, Delivery!Append1
<1>2. ASSUME NEW i \in Instances, Settles(i) PROVE Delivery!Next
  <2>1. /\ cur[i] \in Partitions
        /\ cursor[i][cur[i]] \in 0..(Len(log[cur[i]]) - 1)
        /\ cursor[i][cur[i]] < Len(log[cur[i]])
    BY <1>a, <1>2, ReadInHand DEF Settles, TypeInv, TypeOK, KafkaTypeOK, BatchTypeOK
  <2>2. 0..(cursor[i][cur[i]] - 1) \subseteq Done[cur[i]]
    BY <1>2, <2>1 DEF DeliveryInv, OffsetsInv, ProcessedDone
  <2>3. Delivery!Settle(cur[i], cursor[i][cur[i]])
    BY <1>a, <1>2, <2>1, <2>2 DEF Settles, WithHere, Delivery!Settle
  <2>4. QED
    BY <2>1, <2>3 DEF Delivery!Next
<1>3. ASSUME Commits PROVE Delivery!Next
  <2>1. \A p \in Partitions :
           committed'[p] >= committed[p] /\ 0..(committed'[p] - 1) \subseteq Done[p]
    BY <1>3 DEF Commits, CommittedDone, DeliveryInv, TypeInv, TypeOK, KafkaTypeOK
  <2>2. QED
    BY <1>a, <1>3, <2>1 DEF Commits, Delivery!Next, Delivery!Acknowledge
<1>4. ASSUME UNCHANGED <<log, Done, committed>> PROVE UNCHANGED Delivery!vars
  BY <1>a, <1>4 DEF Delivery!vars
<1>5. QED
  BY <1>1, <1>2, <1>3, <1>4, NextIsDeliveryStep DEF DeliveryStep

(* The consumer group implements at-least-once, in-order delivery.         *)
THEOREM DeliveryImplemented == Spec => ImplementsDelivery
<1>1. Init => Delivery!Init
  BY DEF Init, Delivery!Init, Settlement
<1>2. QED
  BY <1>1, DeliverySimulation, OwnershipInvariant, PTL
     DEF Spec, ImplementsDelivery, Delivery!Spec
-----------------------------------------------------------------------------
(* Tables and topics: a message that is about to be published has its row. *)

RowInHand ==
    \A i \in Instances : pc[i] = "publish" => [id |-> eid[i], at |-> Here(i)] \in rows
RowNoted ==
    \A i \in Instances : pc[i] = "dead_letter_row" => DeadLetter(i) \in dlq

TablesInv == TablesFollowTopics /\ RowInHand /\ RowNoted

(* A process that moves to another stage than these two, or holds what it  *)
(* held, keeps the invariant if nothing leaves a table or topic.           *)
LEMMA TablesUntouched ==
    ASSUME TablesInv, enriched' = enriched, dlqTable' = dlqTable,
           rows \subseteq rows', dlq \subseteq dlq',
           \A k \in Instances :
              \/ pc'[k] \notin {"publish", "dead_letter_row"}
              \/ /\ pc'[k] = pc[k] /\ cur'[k] = cur[k] /\ cursor'[k] = cursor[k]
                 /\ eid'[k] = eid[k] /\ reason'[k] = reason[k]
    PROVE  TablesInv'
<1>1. TablesFollowTopics'
  BY DEF TablesInv, TablesFollowTopics
<1>2. RowInHand' /\ RowNoted'
  BY DEF TablesInv, RowInHand, RowNoted, Here, DeadLetter
<1>3. QED
  BY <1>1, <1>2 DEF TablesInv

(* A process that ends takes nothing with it but what it held.             *)
LEMMA LeaveKeepsTables ==
    ASSUME TypeInv, TablesInv, NEW i \in Instances, NEW stage \in {"down", "exited"},
           Leave(i, stage), dlq \subseteq dlq',
           enriched' = enriched \/ (pc[i] = "publish" /\ enriched' = enriched \cup {Published(i)})
    PROVE  TablesInv'
<1> USE DEF TypeInv, TypeOK, BatchTypeOK, ProcessTypeOK
<1>1. /\ rows' = rows /\ dlqTable' = dlqTable
      /\ pc'[i] = stage /\ stage \notin {"publish", "dead_letter_row"}
      /\ \A k \in Instances \ {i} :
            /\ pc'[k] = pc[k] /\ cur'[k] = cur[k] /\ cursor'[k] = cursor[k]
            /\ eid'[k] = eid[k] /\ reason'[k] = reason[k]
  BY DEF Leave, GoTo, ForgetMessage, postgresVars
<1>2. RowInHand' /\ RowNoted'
  BY <1>1 DEF TablesInv, RowInHand, RowNoted, Here, DeadLetter
<1>3. \A e \in enriched' : [id |-> e.id, at |-> e.at] \in rows'
  <2>1. \A e \in enriched : [id |-> e.id, at |-> e.at] \in rows
    BY DEF TablesInv, TablesFollowTopics
  <2>2. pc[i] = "publish" =>
           LET e == Published(i) IN [id |-> e.id, at |-> e.at] \in rows
    BY DEF TablesInv, RowInHand, Published
  <2>3. QED
    BY <1>1, <2>1, <2>2
<1>4. dlqTable' \subseteq dlq'
  BY <1>1 DEF TablesInv, TablesFollowTopics
<1>5. QED
  BY <1>2, <1>3, <1>4 DEF TablesInv, TablesFollowTopics

(* Every step keeps tables and topics together.                            *)
LEMMA NextTablesInv == TypeInv /\ TablesInv /\ [Next]_vars => TablesInv'
<1> SUFFICES ASSUME TypeInv, TablesInv, [Next]_vars PROVE TablesInv'
  OBVIOUS
<1> USE DEF kafkaVars, postgresVars, redisVars, batchVars, messageVars
<1>t. /\ pc \in [Instances -> Stages] /\ cur \in [Instances -> Partitions \cup {NoPartition}]
      /\ eid \in [Instances -> Nat] /\ reason \in [Instances -> Reasons]
      /\ cursor \in [Instances -> [Partitions -> Nat]]
  BY DEF TypeInv, TypeOK, BatchTypeOK, ProcessTypeOK
<1>1. ASSUME \/ \E p \in Partitions, m \in Messages : Produce(p, m)
             \/ \E d \in Devices : WriteDevice(d) \/ DeleteDevice(d) \/ ExpireKey(d)
             \/ Rebalance
             \/ \E i \in Instances : Evict(i) \/ Signal(i)
             \/ UNCHANGED vars
      PROVE  TablesInv'
  <2>1. UNCHANGED <<enriched, dlq, rows, dlqTable, pc, cur, cursor, eid, reason>>
    BY <1>1 DEF Produce, WriteDevice, DeleteDevice, ExpireKey, Rebalance, Evict, Signal, vars
  <2>2. QED
    BY <2>1, TablesUntouched
<1>2. ASSUME NEW i \in Instances,
             \/ Crash(i) \/ Stop(i) \/ PollFails(i) \/ FetchFails(i) \/ CommitFails(i)
             \/ PublishFails(i) \/ SendDeadLetterFails(i)
      PROVE  TablesInv'
  <2>1. \E stage \in {"down", "exited"} : Leave(i, stage)
    BY <1>2 DEF Crash, Stop, PollFails, FetchFails, CommitFails, PublishFails,
       SendDeadLetterFails, Raise
  <2>2. /\ dlq \subseteq dlq'
        /\ enriched' = enriched \/ (pc[i] = "publish" /\ enriched' = enriched \cup {Published(i)})
    BY <1>2 DEF Crash, Stop, PollFails, FetchFails, CommitFails, PublishFails,
       SendDeadLetterFails
  <2>3. QED
    BY <2>1, <2>2, LeaveKeepsTables
<1>3. ASSUME NEW i \in Instances,
             \/ Start(i) \/ Poll(i) \/ Receive(i) \/ Lookup(i) \/ Fetch(i) \/ Store(i)
             \/ Expire(i) \/ Commit(i) \/ InsertFails(i)
      PROVE  TablesInv'
  <2>1. /\ UNCHANGED <<enriched, dlqTable, dlq>> /\ rows \subseteq rows'
    BY <1>3 DEF Start, Poll, Receive, Lookup, Fetch, Store, Expire, Commit, InsertFails
  <2>2. pc'[i] \notin {"publish", "dead_letter_row"}
    BY <1>3, <1>t DEF Start, Poll, Receive, Lookup, Fetch, Store, Expire, Commit, InsertFails, GoTo
  <2>3. \A k \in Instances \ {i} :
           /\ pc'[k] = pc[k] /\ cur'[k] = cur[k] /\ cursor'[k] = cursor[k]
           /\ eid'[k] = eid[k] /\ reason'[k] = reason[k]
    BY <1>3, <1>t DEF Start, Poll, Receive, Lookup, Fetch, Store, Expire, Commit, InsertFails, GoTo
  <2>4. QED
    BY <2>1, <2>2, <2>3, TablesUntouched
<1>4. ASSUME NEW i \in Instances, Insert(i) PROVE TablesInv'
  <2>1. /\ UNCHANGED <<enriched, dlq, dlqTable, cur, cursor>> /\ rows \subseteq rows'
        /\ pc'[i] # "dead_letter_row"
        /\ \A k \in Instances \ {i} :
              pc'[k] = pc[k] /\ eid'[k] = eid[k] /\ reason'[k] = reason[k]
    BY <1>4, <1>t DEF Insert, GoTo
  <2>2. pc'[i] = "publish" => [id |-> eid'[i], at |-> Here(i)'] \in rows'
    BY <1>4, <1>t, <2>1 DEF Insert, GoTo, Row, Here
  <2>3. RowInHand' /\ RowNoted'
    BY <2>1, <2>2 DEF TablesInv, RowInHand, RowNoted, Here, DeadLetter
  <2>4. TablesFollowTopics'
    BY <2>1 DEF TablesInv, TablesFollowTopics
  <2>5. QED
    BY <2>3, <2>4 DEF TablesInv
<1>5. ASSUME NEW i \in Instances, Publish(i) \/ InsertDeadLetter(i) PROVE TablesInv'
  <2>1. /\ UNCHANGED <<rows, dlq, cur>> /\ pc'[i] = "batch"
        /\ \A k \in Instances \ {i} : /\ pc'[k] = pc[k] /\ cursor'[k] = cursor[k]
                                      /\ eid'[k] = eid[k] /\ reason'[k] = reason[k]
    BY <1>5, <1>t DEF Publish, InsertDeadLetter, NextMessage, ForgetMessage, GoTo
  <2>2. RowInHand' /\ RowNoted'
    BY <2>1 DEF TablesInv, RowInHand, RowNoted, Here, DeadLetter
  <2>3. CASE Publish(i)
    <3>1. /\ pc[i] = "publish" /\ enriched' = enriched \cup {Published(i)} /\ dlqTable' = dlqTable
      BY <2>3 DEF Publish
    <3>2. TablesFollowTopics'
      BY <2>1, <3>1 DEF TablesInv, TablesFollowTopics, RowInHand, Published
    <3>3. QED
      BY <2>2, <3>2 DEF TablesInv
  <2>4. CASE InsertDeadLetter(i)
    <3>1. /\ pc[i] = "dead_letter_row" /\ dlqTable' \subseteq dlqTable \cup {DeadLetter(i)}
          /\ enriched' = enriched
      BY <2>4 DEF InsertDeadLetter
    <3>2. TablesFollowTopics'
      BY <2>1, <3>1 DEF TablesInv, TablesFollowTopics, RowNoted
    <3>3. QED
      BY <2>2, <3>2 DEF TablesInv
  <2>5. QED
    BY <1>5, <2>3, <2>4
<1>6. ASSUME NEW i \in Instances, SendDeadLetter(i) PROVE TablesInv'
  <2>1. /\ UNCHANGED <<enriched, rows, dlqTable, cur, cursor, eid, reason>>
        /\ dlq' = dlq \cup {DeadLetter(i)} /\ pc'[i] = "dead_letter_row"
        /\ \A k \in Instances \ {i} : pc'[k] = pc[k]
    BY <1>6, <1>t DEF SendDeadLetter, GoTo
  <2>2. RowInHand' /\ RowNoted'
    BY <2>1 DEF TablesInv, RowInHand, RowNoted, Here, DeadLetter
  <2>3. TablesFollowTopics'
    BY <2>1 DEF TablesInv, TablesFollowTopics
  <2>4. QED
    BY <2>2, <2>3 DEF TablesInv
<1>7. QED
  BY <1>1, <1>2, <1>3, <1>4, <1>5, <1>6
     DEF Next, Environment, Consumer, ProcessMessage, CallFails, PollEmpty

(* What Anomaly Detection can see is stored, and what GET /telemetry/dlq   *)
(* shows is in the dead-letter topic.                                      *)
THEOREM TablesAgree == Spec => []TablesFollowTopics
<1>1. Init => TypeInv /\ TablesInv
  BY InitTypeInv DEF Init, TablesInv, TablesFollowTopics, RowInHand, RowNoted
<1>2. TypeInv /\ TablesInv /\ [Next]_vars => (TypeInv /\ TablesInv)'
  BY NextTypeInv, NextTablesInv
<1>3. TypeInv /\ TablesInv => TablesFollowTopics
  BY DEF TablesInv
<1>4. QED
  BY <1>1, <1>2, <1>3, PTL DEF Spec
-----------------------------------------------------------------------------
(* Repetitions.  An offset can still get a row from a process that has it  *)
(* in its batch and has not inserted it, and from one that may yet fetch   *)
(* it; a rebalance adds one of these at most, the new owner.               *)

RowsAt(p, o)   == {r \in rows : r.at = [part |-> p, off |-> o]}
Fetching(p, o) == {i \in Instances : p \in assigned[i] /\ position[i][p] <= o}
Inserted       == {"publish", "dead_letter", "dead_letter_row"}
Awaiting(p, o) ==
    {i \in Instances :
        /\ cursor[i][p] <= o /\ o < end[i][p]
        /\ ~(pc[i] \in Inserted /\ cur[i] = p /\ cursor[i][p] = o)}

RepeatsAt(p, o) ==
    /\ IsFiniteSet(RowsAt(p, o)) /\ IsFiniteSet(Fetching(p, o)) /\ IsFiniteSet(Awaiting(p, o))
    /\ Cardinality(RowsAt(p, o)) + Cardinality(Fetching(p, o)) + Cardinality(Awaiting(p, o))
           <= generation

RepeatsInv == \A p \in Partitions, o \in Nat : RepeatsAt(p, o)

(* A set that at most one element joins grows by one at most.              *)
LEMMA JoinedByOne ==
    ASSUME NEW S, NEW T, NEW x, IsFiniteSet(S), T \subseteq S \cup {x}
    PROVE  /\ IsFiniteSet(T) /\ Cardinality(S) \in Nat /\ Cardinality(T) \in Nat
           /\ Cardinality(T) <= Cardinality(S) + 1
<1>1. IsFiniteSet(S \cup {x}) /\ Cardinality(S) \in Nat
  BY FS_AddElement, FS_CardinalityType
<1>2. Cardinality(S \cup {x}) \in Nat /\ Cardinality(S \cup {x}) <= Cardinality(S) + 1
  BY <1>1, FS_AddElement
<1>3. IsFiniteSet(T) /\ Cardinality(T) \in Nat /\ Cardinality(T) <= Cardinality(S \cup {x})
  BY <1>1, FS_Subset, FS_CardinalityType
<1>4. QED
  BY <1>1, <1>2, <1>3

(* A set that one of its elements leaves shrinks by one.                   *)
LEMMA LeftByOne ==
    ASSUME NEW S, NEW x \in S, IsFiniteSet(S)
    PROVE  /\ IsFiniteSet(S \ {x}) /\ Cardinality(S) \in Nat /\ Cardinality(S \ {x}) \in Nat
           /\ Cardinality(S \ {x}) + 1 = Cardinality(S)
<1>1. /\ IsFiniteSet(S \ {x}) /\ Cardinality(S \ {x}) = Cardinality(S) - 1
  BY FS_RemoveElement
<1>2. Cardinality(S) \in Nat /\ Cardinality(S \ {x}) \in Nat
  BY <1>1, FS_CardinalityType
<1>3. QED
  BY <1>1, <1>2

(* The step takes from the sets of an offset, if anything.                 *)
LEMMA Fewer ==
    ASSUME TypeInv, NEW p \in Partitions, NEW o \in Nat, RepeatsAt(p, o),
           RowsAt(p, o)' = RowsAt(p, o), Fetching(p, o)' \subseteq Fetching(p, o),
           Awaiting(p, o)' \subseteq Awaiting(p, o), generation' = generation
    PROVE  RepeatsAt(p, o)'
<1>1. /\ IsFiniteSet(Fetching(p, o)') /\ Cardinality(Fetching(p, o)') <= Cardinality(Fetching(p, o))
      /\ IsFiniteSet(Awaiting(p, o)') /\ Cardinality(Awaiting(p, o)') <= Cardinality(Awaiting(p, o))
  BY FS_Subset DEF RepeatsAt
<1>2. /\ Cardinality(Fetching(p, o)) \in Nat /\ Cardinality(Awaiting(p, o)) \in Nat
      /\ Cardinality(Fetching(p, o)') \in Nat /\ Cardinality(Awaiting(p, o)') \in Nat
      /\ Cardinality(RowsAt(p, o)) \in Nat /\ generation \in Nat
  BY <1>1, FS_CardinalityType DEF RepeatsAt, TypeInv, TypeOK, KafkaTypeOK
<1>3. QED
  BY <1>1, <1>2 DEF RepeatsAt

(* The INSERT of the message in hand, applied or not.                      *)
LEMMA OneInserted ==
    ASSUME TypeInv, RepeatsInv, NEW i \in Instances, pc[i] = "insert", pc'[i] \in Inserted,
           rows' = rows \/ rows' = rows \cup {Row(i)},
           \A k \in Instances \ {i} : pc'[k] = pc[k],
           UNCHANGED <<generation, assigned, position, cursor, end, cur>>
    PROVE  RepeatsInv'
<1>h. /\ cur[i] \in Partitions /\ cursor[i][cur[i]] \in Nat
      /\ cursor[i][cur[i]] < end[i][cur[i]] /\ end[i][cur[i]] \in Nat
      /\ Row(i).at = [part |-> cur[i], off |-> cursor[i][cur[i]]]
  BY ReadInHand DEF InHand, Row, Here, TypeInv, TypeOK, BatchTypeOK
<1>1. ASSUME NEW p \in Partitions, NEW o \in Nat PROVE RepeatsAt(p, o)'
  <2>1. RepeatsAt(p, o) /\ Fetching(p, o)' = Fetching(p, o)
    BY DEF RepeatsInv, Fetching
  <2>2. CASE p = cur[i] /\ o = cursor[i][p]
    <3>1. i \in Awaiting(p, o) /\ Awaiting(p, o)' = Awaiting(p, o) \ {i}
      BY <1>h, <2>2 DEF Awaiting, Inserted
    <3>2. RowsAt(p, o)' \subseteq RowsAt(p, o) \cup {Row(i)}
      BY DEF RowsAt
    <3>3. /\ IsFiniteSet(Awaiting(p, o)') /\ Cardinality(Awaiting(p, o)) \in Nat
          /\ Cardinality(Awaiting(p, o)') \in Nat
          /\ Cardinality(Awaiting(p, o)') + 1 = Cardinality(Awaiting(p, o))
      BY <2>1, <3>1, LeftByOne DEF RepeatsAt
    <3>4. /\ IsFiniteSet(RowsAt(p, o)') /\ Cardinality(RowsAt(p, o)) \in Nat
          /\ Cardinality(RowsAt(p, o)') \in Nat
          /\ Cardinality(RowsAt(p, o)') <= Cardinality(RowsAt(p, o)) + 1
      BY <2>1, <3>2, JoinedByOne DEF RepeatsAt
    <3>5. Cardinality(Fetching(p, o)) \in Nat /\ generation \in Nat /\ generation' = generation
      BY <2>1, FS_CardinalityType DEF RepeatsAt, TypeInv, TypeOK, KafkaTypeOK
    <3>6. QED
      BY <2>1, <3>3, <3>4, <3>5 DEF RepeatsAt
  <2>3. CASE ~(p = cur[i] /\ o = cursor[i][p])
    <3>1. RowsAt(p, o)' = RowsAt(p, o)
      BY <1>h, <2>3 DEF RowsAt
    <3>2. Awaiting(p, o)' \subseteq Awaiting(p, o)
      BY <2>3 DEF Awaiting
    <3>3. QED
      BY <2>1, <3>1, <3>2, Fewer
  <2>4. QED
    BY <2>2, <2>3
<1>2. QED
  BY <1>1 DEF RepeatsInv

(* What a process fetches moves from one set to another.                   *)
LEMMA PollKeepsRepeats ==
    ASSUME TypeInv, HandInv, RepeatsInv, NEW i \in Instances, Poll(i) PROVE RepeatsInv'
<1>1. /\ UNCHANGED <<rows, generation, assigned, cur>> /\ pc[i] = "poll" /\ pc'[i] = "batch"
      /\ \A k \in Instances \ {i} : pc'[k] = pc[k]
  BY DEF Poll, GoTo, kafkaVars, postgresVars, messageVars, TypeInv, TypeOK, ProcessTypeOK
<1>2. /\ \A k \in Instances \ {i} :
            position'[k] = position[k] /\ cursor'[k] = cursor[k] /\ end'[k] = end[k]
      /\ \A p \in Partitions :
            IF p \in assigned[i]
            THEN /\ cursor'[i][p] = position[i][p]
                 /\ end'[i][p] = position'[i][p]
                 /\ position[i][p] <= position'[i][p]
            ELSE /\ cursor'[i][p] = end[i][p] /\ end'[i][p] = end[i][p]
                 /\ position'[i][p] = position[i][p]
  BY PollEffect
<1>3. \A p \in Partitions :
         /\ cursor[i][p] \in Nat /\ end[i][p] \in Nat /\ cursor[i][p] = end[i][p]
         /\ position[i][p] \in Nat /\ position'[i][p] \in Nat
  BY <1>1, PollEffect DEF HandInv, IdleHasNoBatch, TypeInv, TypeOK, BatchTypeOK
<1>4. ASSUME NEW p \in Partitions, NEW o \in Nat PROVE RepeatsAt(p, o)'
  <2>1. RepeatsAt(p, o) /\ RowsAt(p, o)' = RowsAt(p, o) /\ i \notin Awaiting(p, o)
    BY <1>1, <1>3 DEF RepeatsInv, RowsAt, Awaiting
  <2>2. CASE p \in assigned[i] /\ position[i][p] <= o /\ o < position'[i][p]
    <3>1. i \in Fetching(p, o) /\ Fetching(p, o)' = Fetching(p, o) \ {i}
      BY <1>1, <1>2, <1>3, <2>2 DEF Fetching
    <3>2. Awaiting(p, o)' \subseteq Awaiting(p, o) \cup {i}
      BY <1>1, <1>2 DEF Awaiting
    <3>3. /\ IsFiniteSet(Fetching(p, o)') /\ Cardinality(Fetching(p, o)) \in Nat
          /\ Cardinality(Fetching(p, o)') \in Nat
          /\ Cardinality(Fetching(p, o)') + 1 = Cardinality(Fetching(p, o))
      BY <2>1, <3>1, LeftByOne DEF RepeatsAt
    <3>4. /\ IsFiniteSet(Awaiting(p, o)') /\ Cardinality(Awaiting(p, o)) \in Nat
          /\ Cardinality(Awaiting(p, o)') \in Nat
          /\ Cardinality(Awaiting(p, o)') <= Cardinality(Awaiting(p, o)) + 1
      BY <2>1, <3>2, JoinedByOne DEF RepeatsAt
    <3>5. Cardinality(RowsAt(p, o)) \in Nat /\ generation \in Nat /\ generation' = generation
      BY <1>1, <2>1, FS_CardinalityType DEF RepeatsAt, TypeInv, TypeOK, KafkaTypeOK
    <3>6. QED
      BY <2>1, <3>3, <3>4, <3>5 DEF RepeatsAt
  <2>3. CASE ~(p \in assigned[i] /\ position[i][p] <= o /\ o < position'[i][p])
    <3>1. Fetching(p, o)' \subseteq Fetching(p, o)
      BY <1>1, <1>2, <1>3, <2>3 DEF Fetching
    <3>2. i \notin Awaiting(p, o)'
      BY <1>2, <1>3, <2>3 DEF Awaiting
    <3>3. Awaiting(p, o)' \subseteq Awaiting(p, o)
      BY <1>1, <1>2, <3>2 DEF Awaiting
    <3>4. QED
      BY <1>1, <2>1, <3>1, <3>3, Fewer
  <2>4. QED
    BY <2>2, <2>3
<1>5. QED
  BY <1>4 DEF RepeatsInv

(* A rebalance lets one more process fetch an offset: the new owner.       *)
LEMMA RebalanceKeepsRepeats == ASSUME TypeInv, RepeatsInv, Rebalance PROVE RepeatsInv'
<1>1. UNCHANGED <<rows, cursor, end, cur, pc>> /\ generation' = generation + 1
  BY DEF Rebalance, postgresVars, messageVars
<1>2. PICK members \in SUBSET Members :
         \E owner \in [Partitions -> members] :
            /\ assigned' = [i \in Instances |->
                  IF i \in members THEN {p \in Partitions : owner[p] = i} ELSE assigned[i]]
            /\ position' = [i \in Instances |-> [p \in Partitions |->
                  IF owner[p] = i THEN StartOffset(p) ELSE position[i][p]]]
  BY DEF Rebalance
<1>3. PICK owner \in [Partitions -> members] :
         /\ assigned' = [i \in Instances |->
               IF i \in members THEN {p \in Partitions : owner[p] = i} ELSE assigned[i]]
         /\ position' = [i \in Instances |-> [p \in Partitions |->
               IF owner[p] = i THEN StartOffset(p) ELSE position[i][p]]]
  BY <1>2
<1>4. ASSUME NEW p \in Partitions, NEW o \in Nat PROVE RepeatsAt(p, o)'
  <2>1. /\ RepeatsAt(p, o) /\ RowsAt(p, o)' = RowsAt(p, o)
        /\ Awaiting(p, o)' = Awaiting(p, o)
    BY <1>1 DEF RepeatsInv, RowsAt, Awaiting
  <2>2. Fetching(p, o)' \subseteq Fetching(p, o) \cup {owner[p]}
    BY <1>3 DEF Fetching
  <2>3. /\ IsFiniteSet(Fetching(p, o)') /\ Cardinality(Fetching(p, o)) \in Nat
        /\ Cardinality(Fetching(p, o)') \in Nat
        /\ Cardinality(Fetching(p, o)') <= Cardinality(Fetching(p, o)) + 1
    BY <2>1, <2>2, JoinedByOne DEF RepeatsAt
  <2>4. /\ Cardinality(RowsAt(p, o)) \in Nat /\ Cardinality(Awaiting(p, o)) \in Nat
        /\ generation \in Nat
    BY <2>1, FS_CardinalityType DEF RepeatsAt, TypeInv, TypeOK, KafkaTypeOK
  <2>5. QED
    BY <1>1, <2>1, <2>3, <2>4 DEF RepeatsAt
<1>5. QED
  BY <1>4 DEF RepeatsInv

(* Every other step leaves the rows alone, and no process gets an offset   *)
(* before it again.                                                        *)
NoOffsetAgain ==
    /\ UNCHANGED <<rows, generation>>
    /\ \A k \in Instances :
          /\ assigned'[k] \subseteq assigned[k]
          /\ assigned'[k] # {} => position'[k] = position[k]
          /\ \A p \in Partitions : \A o \in Nat :
                cursor'[k][p] <= o /\ o < end'[k][p]
                    /\ ~(pc'[k] \in Inserted /\ cur'[k] = p /\ cursor'[k][p] = o) =>
                cursor[k][p] <= o /\ o < end[k][p]
                    /\ ~(pc[k] \in Inserted /\ cur[k] = p /\ cursor[k][p] = o)

LEMMA NoOffsetAgainKeepsRepeats ==
    ASSUME TypeInv, RepeatsInv, NoOffsetAgain PROVE RepeatsInv'
<1>1. ASSUME NEW p \in Partitions, NEW o \in Nat PROVE RepeatsAt(p, o)'
  <2>1. /\ RowsAt(p, o)' = RowsAt(p, o) /\ Fetching(p, o)' \subseteq Fetching(p, o)
        /\ Awaiting(p, o)' \subseteq Awaiting(p, o) /\ generation' = generation
    BY DEF NoOffsetAgain, RowsAt, Fetching, Awaiting
  <2>2. QED
    BY <2>1, Fewer DEF RepeatsInv
<1>2. QED
  BY <1>1 DEF RepeatsInv

(* Every step keeps the counts.                                            *)
LEMMA NextRepeatsInv == TypeInv /\ HandInv /\ RepeatsInv /\ [Next]_vars => RepeatsInv'
<1> SUFFICES ASSUME TypeInv, HandInv, RepeatsInv, [Next]_vars PROVE RepeatsInv'
  OBVIOUS
<1> USE DEF kafkaVars, postgresVars, redisVars, batchVars, messageVars
<1>t. /\ pc \in [Instances -> Stages] /\ cur \in [Instances -> Partitions \cup {NoPartition}]
      /\ assigned \in [Instances -> SUBSET Partitions]
      /\ position \in [Instances -> [Partitions -> Nat]]
      /\ cursor \in [Instances -> [Partitions -> Nat]] /\ end \in [Instances -> [Partitions -> Nat]]
  BY DEF TypeInv, TypeOK, BatchTypeOK, ProcessTypeOK
<1>1. ASSUME \/ \E p \in Partitions, m \in Messages : Produce(p, m)
             \/ \E d \in Devices : WriteDevice(d) \/ DeleteDevice(d) \/ ExpireKey(d)
             \/ \E i \in Instances : Evict(i) \/ Signal(i)
             \/ UNCHANGED vars
      PROVE  RepeatsInv'
  <2>1. UNCHANGED <<rows, generation, assigned, position, cursor, end, cur, pc>>
    BY <1>1 DEF Produce, WriteDevice, DeleteDevice, ExpireKey, Evict, Signal, vars
  <2>2. QED
    BY <2>1, NoOffsetAgainKeepsRepeats DEF NoOffsetAgain
<1>2. CASE Rebalance
  BY <1>2, RebalanceKeepsRepeats
<1>3. ASSUME NEW i \in Instances,
             \/ Crash(i) \/ Stop(i) \/ PollFails(i) \/ FetchFails(i) \/ CommitFails(i)
             \/ PublishFails(i) \/ SendDeadLetterFails(i)
      PROVE  RepeatsInv'
  <2>1. PICK stage \in {"down", "exited"} : Leave(i, stage)
    BY <1>3 DEF Crash, Stop, PollFails, FetchFails, CommitFails, PublishFails,
       SendDeadLetterFails, Raise
  <2>2. /\ UNCHANGED <<rows, generation>> /\ assigned'[i] = {}
        /\ \A p \in Partitions : cursor'[i][p] = 0 /\ end'[i][p] = 0
        /\ \A k \in Instances \ {i} :
              /\ assigned'[k] = assigned[k] /\ position'[k] = position[k] /\ cursor'[k] = cursor[k]
              /\ end'[k] = end[k] /\ cur'[k] = cur[k] /\ pc'[k] = pc[k]
    BY <1>t, <2>1 DEF Leave, GoTo
  <2>3. NoOffsetAgain
    BY <2>2 DEF NoOffsetAgain
  <2>4. QED
    BY <2>3, NoOffsetAgainKeepsRepeats
<1>4. ASSUME NEW i \in Instances,
             \/ Start(i) \/ Receive(i) \/ Lookup(i) \/ Fetch(i) \/ Store(i) \/ Expire(i)
             \/ Commit(i) \/ SendDeadLetter(i)
      PROVE  RepeatsInv'
  <2>1. UNCHANGED <<rows, generation, assigned, position, cursor, end>>
    BY <1>4 DEF Start, Receive, Lookup, Fetch, Store, Expire, Commit, SendDeadLetter
  <2>2. /\ \A k \in Instances \ {i} : pc'[k] = pc[k] /\ cur'[k] = cur[k]
        /\ pc[i] \in Inserted => pc'[i] \in Inserted /\ cur'[i] = cur[i]
    BY <1>4, <1>t DEF Start, Receive, Lookup, Fetch, Store, Expire, Commit, SendDeadLetter, GoTo,
       Inserted
  <2>3. NoOffsetAgain
    BY <2>1, <2>2 DEF NoOffsetAgain
  <2>4. QED
    BY <2>3, NoOffsetAgainKeepsRepeats
<1>5. ASSUME NEW i \in Instances, Publish(i) \/ InsertDeadLetter(i) PROVE RepeatsInv'
  <2>1. /\ pc[i] \in Inserted /\ pc[i] \in InHand
        /\ NextMessage(i) /\ UNCHANGED <<rows, generation>>
    BY <1>5 DEF Publish, InsertDeadLetter, Inserted, InHand
  <2>2. cur[i] \in Partitions /\ cursor[i][cur[i]] \in Nat
    BY <2>1, ReadInHand
  <2>3. /\ UNCHANGED <<assigned, position, end, cur>> /\ pc'[i] = "batch"
        /\ \A k \in Instances \ {i} : pc'[k] = pc[k] /\ cursor'[k] = cursor[k]
        /\ \A p \in Partitions : cursor'[i][p] =
              IF p = cur[i] THEN cursor[i][p] + 1 ELSE cursor[i][p]
    BY <1>t, <2>1 DEF NextMessage, GoTo
  <2>4. NoOffsetAgain
    BY <1>t, <2>1, <2>2, <2>3 DEF NoOffsetAgain
  <2>5. QED
    BY <2>4, NoOffsetAgainKeepsRepeats
<1>6. ASSUME NEW i \in Instances, Insert(i) \/ InsertFails(i) PROVE RepeatsInv'
  <2>1. /\ pc[i] = "insert" /\ pc'[i] \in Inserted
        /\ rows' = rows \/ rows' = rows \cup {Row(i)}
        /\ \A k \in Instances \ {i} : pc'[k] = pc[k]
        /\ UNCHANGED <<generation, assigned, position, cursor, end, cur>>
    BY <1>6, <1>t DEF Insert, InsertFails, GoTo, Inserted
  <2>2. QED
    BY <2>1, OneInserted
<1>7. ASSUME NEW i \in Instances, Poll(i) PROVE RepeatsInv'
  BY <1>7, PollKeepsRepeats
<1>8. QED
  BY <1>1, <1>2, <1>3, <1>4, <1>5, <1>6, <1>7
     DEF Next, Environment, Consumer, ProcessMessage, CallFails, PollEmpty

(* A message gets at most one row per generation of the group.             *)
THEOREM OneRowPerGeneration == Spec => []DuplicatesBoundedByRebalances
<1>1. Init => RepeatsInv
  <2>1. ASSUME Init, NEW p \in Partitions, NEW o \in Nat
        PROVE  /\ RowsAt(p, o) = {} /\ Fetching(p, o) = {} /\ Awaiting(p, o) = {}
               /\ generation = 0
    BY <2>1 DEF Init, RowsAt, Fetching, Awaiting
  <2>2. ASSUME Init, NEW p \in Partitions, NEW o \in Nat PROVE RepeatsAt(p, o)
    BY <2>1, <2>2, FS_EmptySet DEF RepeatsAt
  <2>3. QED
    BY <2>2 DEF RepeatsInv
<1>2. DeliveryInv /\ RepeatsInv /\ [Next]_vars => (DeliveryInv /\ RepeatsInv)'
  BY NextDeliveryInv, NextRepeatsInv DEF DeliveryInv
<1>3. DeliveryInv /\ RepeatsInv => DuplicatesBoundedByRebalances
  <2>1. ASSUME DeliveryInv, RepeatsInv, NEW r \in rows
        PROVE  Cardinality({s \in rows : s.at = r.at}) <= generation
    <3>1. PICK p \in Partitions, o \in Nat : r.at = [part |-> p, off |-> o]
      BY <2>1 DEF DeliveryInv, TypeInv, TypeOK, PostgresTypeOK, Place
    <3>2. RepeatsAt(p, o) /\ generation \in Nat
      BY <2>1 DEF RepeatsInv, DeliveryInv, TypeInv, TypeOK, KafkaTypeOK
    <3>3. /\ Cardinality(RowsAt(p, o)) \in Nat /\ Cardinality(Fetching(p, o)) \in Nat
          /\ Cardinality(Awaiting(p, o)) \in Nat
      BY <3>2, FS_CardinalityType DEF RepeatsAt
    <3>4. Cardinality(RowsAt(p, o)) <= generation
      BY <3>2, <3>3 DEF RepeatsAt
    <3>5. QED
      BY <3>1, <3>4 DEF RowsAt
  <2>2. QED
    BY <2>1 DEF DuplicatesBoundedByRebalances
<1>4. QED
  BY <1>1, <1>2, <1>3, InitDeliveryInv, PTL DEF Spec
=============================================================================

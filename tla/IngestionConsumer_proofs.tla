---------------------- MODULE IngestionConsumer_proofs ----------------------
(***************************************************************************)
(* Proofs about IngestionConsumer, for every set of processes, partitions  *)
(* and devices and every value of the bounds.                              *)
(***************************************************************************)
EXTENDS IngestionConsumer, TLAPS

-----------------------------------------------------------------------------
(* Type correctness.  A process that reads the message in hand must have   *)
(* one, so TypeOK is not inductive alone: a batch lies within the log, and *)
(* process_message runs on a message of the batch.                         *)

BatchInLog ==
    \A i \in Instances, p \in Partitions :
        /\ cursor[i][p] <= end[i][p]
        /\ end[i][p] <= Len(log[p])

DeadLettering == {"dead_letter", "dead_letter_row"}

MessageInHand ==
    \A i \in Instances :
        /\ pc[i] \in InHand =>
              cur[i] \in Partitions /\ cursor[i][cur[i]] < end[i][cur[i]]
        /\ pc[i] \in InHand \ DeadLettering => DeviceOf(i) \in Devices

TypeInv == TypeOK /\ BatchInLog /\ MessageInHand

LEMMA InitTypeInv == Init => TypeInv
  BY ConstantsAssumption
     DEF Init, TypeInv, TypeOK, KafkaTypeOK, PostgresTypeOK, RedisTypeOK, BatchTypeOK,
         ProcessTypeOK, BatchInLog, MessageInHand, Messages, Reasons, Stages, InHand

(* Reading the log: a message in hand is a message of the topic.           *)
LEMMA ReadInHand ==
    ASSUME TypeInv, NEW i \in Instances, pc[i] \in InHand
    PROVE  /\ cur[i] \in Partitions
           /\ cursor[i][cur[i]] \in Nat
           /\ cursor[i][cur[i]] < end[i][cur[i]]
           /\ end[i][cur[i]] <= Len(log[cur[i]])
           /\ Here(i) \in Place
           /\ DeviceOf(i) \in Messages
           /\ pc[i] \notin DeadLettering => DeviceOf(i) \in Devices
  BY DEF TypeInv, TypeOK, KafkaTypeOK, BatchTypeOK, ProcessTypeOK, BatchInLog, MessageInHand,
         Here, Place, DeviceOf

(* Steps of the environment and of other parts leave what is in hand alone. *)
LEMMA HandUntouched ==
    ASSUME TypeInv, UNCHANGED <<log, cursor, end, cur, pc>>
    PROVE  BatchInLog' /\ MessageInHand'
  BY DEF TypeInv, BatchInLog, MessageInHand, DeviceOf

(* A process that moves to another stage keeps its message in hand if the  *)
(* new stage needs one.                                                    *)
LEMMA StageChanged ==
    ASSUME TypeInv, NEW i \in Instances, NEW stage \in Stages, GoTo(i, stage),
           UNCHANGED <<log, cursor, end, cur>>,
           stage \in InHand => pc[i] \in InHand,
           stage \in InHand \ DeadLettering => pc[i] \notin DeadLettering
    PROVE  pc' \in [Instances -> Stages] /\ BatchInLog' /\ MessageInHand'
<1>1. pc' \in [Instances -> Stages]
  BY DEF TypeInv, TypeOK, ProcessTypeOK, GoTo
<1>2. BatchInLog'
  BY DEF TypeInv, BatchInLog
<1>3. MessageInHand'
  <2>1. ASSUME NEW k \in Instances, k # i PROVE pc'[k] = pc[k]
    BY <2>1 DEF GoTo, TypeInv, TypeOK, ProcessTypeOK
  <2>2. pc'[i] = stage
    BY DEF GoTo, TypeInv, TypeOK, ProcessTypeOK
  <2>3. QED
    BY <2>1, <2>2 DEF TypeInv, MessageInHand, DeviceOf
<1>4. QED
  BY <1>1, <1>2, <1>3

(* A process that ends, in whatever way, holds nothing. *)
LEMMA LeaveKeepsTypes ==
    ASSUME TypeInv, NEW i \in Instances, NEW stage \in {"down", "exited"}, Leave(i, stage),
           faults' \in 0..MaxFaults
    PROVE  /\ PostgresTypeOK' /\ RedisTypeOK' /\ BatchTypeOK' /\ ProcessTypeOK'
           /\ group' \in SUBSET Instances
           /\ BatchInLog' /\ MessageInHand'
<1> USE DEF TypeInv, TypeOK, Leave, ForgetMessage, GoTo
<1>1. PostgresTypeOK' /\ RedisTypeOK'
  BY DEF PostgresTypeOK, RedisTypeOK, postgresVars, redisVars
<1>2. BatchTypeOK'
  BY DEF BatchTypeOK
<1>3. ProcessTypeOK'
  BY DEF ProcessTypeOK, Stages, Reasons
<1>4. group' \in SUBSET Instances
  BY DEF KafkaTypeOK
<1>5. BatchInLog'
  BY DEF BatchInLog, BatchTypeOK, KafkaTypeOK
<1>6. MessageInHand'
  BY DEF MessageInHand, BatchTypeOK, ProcessTypeOK, InHand, DeviceOf
<1>7. QED
  BY <1>1, <1>2, <1>3, <1>4, <1>5, <1>6

(* The end of process_message leaves the next message to the loop. *)
LEMMA NextMessageKeepsTypes ==
    ASSUME TypeInv, NEW i \in Instances, pc[i] \in InHand, NextMessage(i), log' = log,
           faults' \in 0..MaxFaults
    PROVE  BatchTypeOK' /\ ProcessTypeOK' /\ BatchInLog' /\ MessageInHand'
<1> USE ReadInHand DEF TypeInv, TypeOK, NextMessage, ForgetMessage, GoTo
<1>1. BatchTypeOK'
  <2>1. cursor[i][cur[i]] + 1 \in Nat
    OBVIOUS
  <2>2. QED
    BY <2>1 DEF BatchTypeOK
<1>2. ProcessTypeOK'
  BY DEF ProcessTypeOK, Stages, Reasons
<1>3. BatchInLog'
  BY DEF BatchInLog, BatchTypeOK
<1>4. MessageInHand'
  BY DEF MessageInHand, BatchTypeOK, ProcessTypeOK, InHand, DeviceOf
<1>5. QED
  BY <1>1, <1>2, <1>3, <1>4

(* What getmany returns: the messages from the position on, up to a later  *)
(* position within the log, of the partitions the client owns.             *)
LEMMA PollEffect ==
    ASSUME TypeInv, NEW i \in Instances, Poll(i)
    PROVE  /\ position' \in [Instances -> [Partitions -> Nat]]
           /\ cursor' \in [Instances -> [Partitions -> Nat]]
           /\ end' \in [Instances -> [Partitions -> Nat]]
           /\ assigned' = assigned /\ log' = log
           /\ \A k \in Instances \ {i} :
                 position'[k] = position[k] /\ cursor'[k] = cursor[k] /\ end'[k] = end[k]
           /\ \A p \in Partitions :
                 IF p \in assigned[i]
                 THEN /\ cursor'[i][p] = position[i][p]
                      /\ end'[i][p] = position'[i][p]
                      /\ position[i][p] <= position'[i][p] /\ position'[i][p] <= Len(log[p])
                 ELSE /\ cursor'[i][p] = end[i][p] /\ end'[i][p] = end[i][p]
                      /\ position'[i][p] = position[i][p]
<1> USE DEF TypeInv, TypeOK, BatchTypeOK
<1>1. PICK fetched \in [Partitions -> 0..MaxLog] :
        /\ \A p \in Partitions :
              IF p \in assigned[i]
              THEN position[i][p] <= fetched[p] /\ fetched[p] <= Len(log[p])
              ELSE fetched[p] = position[i][p]
        /\ position' = [position EXCEPT ![i] = fetched]
        /\ cursor' = [cursor EXCEPT ![i] = [p \in Partitions |->
              IF p \in assigned[i] THEN position[i][p] ELSE end[i][p]]]
        /\ end' = [end EXCEPT ![i] = [p \in Partitions |->
              IF p \in assigned[i] THEN fetched[p] ELSE end[i][p]]]
  BY Zenon DEF Poll
<1>2. fetched \in [Partitions -> Nat]
  OBVIOUS
<1>3. assigned' = assigned /\ log' = log
  BY Zenon DEF Poll, kafkaVars
<1>4. /\ position' \in [Instances -> [Partitions -> Nat]]
      /\ cursor' \in [Instances -> [Partitions -> Nat]]
      /\ end' \in [Instances -> [Partitions -> Nat]]
  BY <1>1, <1>2
<1>5. \A k \in Instances \ {i} :
         position'[k] = position[k] /\ cursor'[k] = cursor[k] /\ end'[k] = end[k]
  BY <1>1
<1>6. /\ position'[i] = fetched
      /\ \A p \in Partitions :
            /\ cursor'[i][p] = IF p \in assigned[i] THEN position[i][p] ELSE end[i][p]
            /\ end'[i][p] = IF p \in assigned[i] THEN fetched[p] ELSE end[i][p]
  BY <1>1
<1>7. QED
  BY <1>1, <1>3, <1>4, <1>5, <1>6

LEMMA NextTypeInv == TypeInv /\ [Next]_vars => TypeInv'
<1> SUFFICES ASSUME TypeInv, [Next]_vars PROVE TypeInv'
  OBVIOUS
<1> USE ConstantsAssumption
    DEF TypeInv, TypeOK, kafkaVars, postgresVars, redisVars, batchVars, messageVars
<1>1. ASSUME NEW p \in Partitions, NEW m \in Messages, Produce(p, m) PROVE TypeInv'
  <2>1. PostgresTypeOK' /\ RedisTypeOK' /\ BatchTypeOK' /\ ProcessTypeOK'
    BY <1>1 DEF Produce, PostgresTypeOK, RedisTypeOK, BatchTypeOK, ProcessTypeOK
  <2>2. KafkaTypeOK'
    BY <1>1 DEF Produce, KafkaTypeOK
  <2>3. Len(log'[p]) = Len(log[p]) + 1 /\ \A n \in 1..Len(log[p]) : log'[p][n] = log[p][n]
    BY <1>1 DEF Produce, KafkaTypeOK
  <2>4. \A q \in Partitions \ {p} : log'[q] = log[q]
    BY <1>1 DEF Produce, KafkaTypeOK
  <2>5. BatchInLog'
    BY <2>3, <2>4, <1>1 DEF Produce, BatchInLog, KafkaTypeOK, BatchTypeOK
  <2>6. MessageInHand'
    BY <2>3, <2>4, <1>1 DEF Produce, BatchInLog, MessageInHand, InHand, DeviceOf, KafkaTypeOK, BatchTypeOK, ProcessTypeOK
  <2>7. QED
    BY <2>1, <2>2, <2>3, <2>4, <2>5, <2>6
<1>2. ASSUME NEW d \in Devices, WriteDevice(d) PROVE TypeInv'
  <2>1. KafkaTypeOK' /\ RedisTypeOK' /\ BatchTypeOK' /\ ProcessTypeOK'
    BY <1>2 DEF WriteDevice, KafkaTypeOK, RedisTypeOK, BatchTypeOK, ProcessTypeOK
  <2>2. PostgresTypeOK'
    BY <1>2 DEF WriteDevice, PostgresTypeOK
  <2>3. BatchInLog' /\ MessageInHand'
    BY <1>2, HandUntouched DEF WriteDevice
  <2>4. QED
    BY <2>1, <2>2, <2>3
<1>3. ASSUME NEW d \in Devices, DeleteDevice(d) PROVE TypeInv'
  <2>1. KafkaTypeOK' /\ RedisTypeOK' /\ BatchTypeOK'
    BY <1>3 DEF DeleteDevice, KafkaTypeOK, RedisTypeOK, BatchTypeOK
  <2>2. PostgresTypeOK' /\ ProcessTypeOK'
    BY <1>3 DEF DeleteDevice, Fault, PostgresTypeOK, ProcessTypeOK
  <2>3. BatchInLog' /\ MessageInHand'
    BY <1>3, HandUntouched DEF DeleteDevice
  <2>4. QED
    BY <2>1, <2>2, <2>3
<1>4. ASSUME NEW d \in Devices, ExpireKey(d) PROVE TypeInv'
  <2>1. KafkaTypeOK' /\ PostgresTypeOK' /\ BatchTypeOK' /\ ProcessTypeOK'
    BY <1>4 DEF ExpireKey, KafkaTypeOK, PostgresTypeOK, BatchTypeOK, ProcessTypeOK
  <2>2. RedisTypeOK'
    BY <1>4 DEF ExpireKey, RedisTypeOK
  <2>3. BatchInLog' /\ MessageInHand'
    BY <1>4, HandUntouched DEF ExpireKey
  <2>4. QED
    BY <2>1, <2>2, <2>3
<1>5. ASSUME Rebalance PROVE TypeInv'
  <2>1. PostgresTypeOK' /\ RedisTypeOK' /\ ProcessTypeOK'
    BY <1>5 DEF Rebalance, PostgresTypeOK, RedisTypeOK, ProcessTypeOK
  <2>2. KafkaTypeOK'
    BY <1>5 DEF Rebalance, Members, KafkaTypeOK
  <2>3. BatchTypeOK'
    BY <1>5 DEF Rebalance, Members, StartOffset, BatchTypeOK, KafkaTypeOK
  <2>4. BatchInLog' /\ MessageInHand'
    BY <1>5, HandUntouched DEF Rebalance
  <2>5. QED
    BY <2>1, <2>2, <2>3, <2>4
<1>6. ASSUME NEW i \in Instances, Evict(i) PROVE TypeInv'
  <2>1. PostgresTypeOK' /\ RedisTypeOK' /\ BatchTypeOK'
    BY <1>6 DEF Evict, PostgresTypeOK, RedisTypeOK, BatchTypeOK
  <2>2. KafkaTypeOK' /\ ProcessTypeOK'
    BY <1>6 DEF Evict, Fault, KafkaTypeOK, ProcessTypeOK
  <2>3. BatchInLog' /\ MessageInHand'
    BY <1>6, HandUntouched DEF Evict
  <2>4. QED
    BY <2>1, <2>2, <2>3
<1>7. ASSUME NEW i \in Instances, Signal(i) PROVE TypeInv'
  <2>1. KafkaTypeOK' /\ PostgresTypeOK' /\ RedisTypeOK' /\ BatchTypeOK'
    BY <1>7 DEF Signal, KafkaTypeOK, PostgresTypeOK, RedisTypeOK, BatchTypeOK
  <2>2. ProcessTypeOK'
    BY <1>7 DEF Signal, Fault, ProcessTypeOK
  <2>3. BatchInLog' /\ MessageInHand'
    BY <1>7, HandUntouched DEF Signal
  <2>4. QED
    BY <2>1, <2>2, <2>3
<1>8. ASSUME NEW i \in Instances, Start(i) PROVE TypeInv'
  <2>1. KafkaTypeOK' /\ PostgresTypeOK' /\ RedisTypeOK' /\ BatchTypeOK'
    BY <1>8 DEF Start, KafkaTypeOK, PostgresTypeOK, RedisTypeOK, BatchTypeOK
  <2>2. pc' \in [Instances -> Stages] /\ BatchInLog' /\ MessageInHand'
    BY <1>8, StageChanged DEF Start, Stages, InHand, DeadLettering
  <2>3. ProcessTypeOK'
    BY <2>2, <1>8, ReadInHand DEF Start, InHand, DeadLettering, ProcessTypeOK
  <2>4. QED
    BY <2>1, <2>2, <2>3
<1>9. ASSUME NEW i \in Instances, Poll(i) PROVE TypeInv'
  <2>1. KafkaTypeOK' /\ PostgresTypeOK' /\ RedisTypeOK'
    BY <1>9 DEF Poll, KafkaTypeOK, PostgresTypeOK, RedisTypeOK
  <2>2. ProcessTypeOK'
    BY <1>9 DEF Poll, GoTo, ProcessTypeOK, Stages
  <2>3. BatchTypeOK' /\ BatchInLog'
    <3>1. BatchTypeOK'
      BY <1>9, PollEffect DEF BatchTypeOK
    <3>2. ASSUME NEW k \in Instances, NEW p \in Partitions
          PROVE  cursor'[k][p] <= end'[k][p] /\ end'[k][p] <= Len(log'[p])
      <4>1. CASE k = i
        <5>1. log' = log /\ end[i][p] <= Len(log[p]) /\ end[i][p] \in Nat
          BY <1>9, PollEffect DEF BatchInLog, BatchTypeOK
        <5>2. CASE p \in assigned[i]
          BY <4>1, <5>1, <5>2, <1>9, PollEffect
        <5>3. CASE p \notin assigned[i]
          BY <4>1, <5>1, <5>3, <1>9, PollEffect
        <5>4. QED
          BY <5>2, <5>3
      <4>2. CASE k # i
        BY <4>2, <1>9, PollEffect DEF BatchInLog
      <4>3. QED
        BY <4>1, <4>2
    <3>3. QED
      BY <3>1, <3>2 DEF BatchInLog
  <2>4. MessageInHand'
    <3>1. \A k \in Instances \ {i} :
             cursor'[k] = cursor[k] /\ end'[k] = end[k] /\ pc'[k] = pc[k]
      BY <1>9, PollEffect DEF GoTo, Poll, ProcessTypeOK
    <3>2. pc'[i] \notin InHand /\ UNCHANGED <<log, cur>>
      BY <1>9 DEF Poll, GoTo, ProcessTypeOK, InHand
    <3>3. QED
      BY <3>1, <3>2 DEF MessageInHand, DeviceOf
  <2>5. QED
    BY <2>1, <2>2, <2>3, <2>4
<1>10. ASSUME NEW i \in Instances, Receive(i) PROVE TypeInv'
  <2>1. KafkaTypeOK' /\ PostgresTypeOK' /\ RedisTypeOK' /\ BatchTypeOK'
    BY <1>10 DEF Receive, KafkaTypeOK, PostgresTypeOK, RedisTypeOK, BatchTypeOK
  <2>2. ProcessTypeOK'
    BY <1>10 DEF Receive, GoTo, ProcessTypeOK, Stages, Reasons
  <2>3. BatchInLog'
    BY <1>10 DEF Receive, BatchInLog
  <2>4. MessageInHand'
    <3>1. PICK p \in Partitions :
            /\ cursor[i][p] < end[i][p]
            /\ cur' = [cur EXCEPT ![i] = p]
            /\ IF log[p][cursor[i][p] + 1] = Malformed
               THEN GoTo(i, "dead_letter") ELSE GoTo(i, "lookup")
      BY <1>10 DEF Receive, Remaining
    <3>2. log[p][cursor[i][p] + 1] \in Messages
      BY <3>1 DEF BatchInLog, KafkaTypeOK, BatchTypeOK
    <3>3. cur'[i] = p /\ \A k \in Instances \ {i} : cur'[k] = cur[k] /\ pc'[k] = pc[k]
      BY <3>1 DEF GoTo, ProcessTypeOK
    <3>4. /\ pc'[i] \in {"dead_letter", "lookup"}
          /\ pc'[i] = "lookup" => log[p][cursor[i][p] + 1] # Malformed
      BY <3>1 DEF GoTo, ProcessTypeOK
    <3>5. UNCHANGED <<log, cursor, end>>
      BY <1>10 DEF Receive
    <3>6. QED
      BY <3>1, <3>2, <3>3, <3>4, <3>5
         DEF MessageInHand, DeadLettering, DeviceOf, Messages
  <2>5. QED
    BY <2>1, <2>2, <2>3, <2>4
<1>11. ASSUME NEW i \in Instances, Commit(i) PROVE TypeInv'
  <2>1. PostgresTypeOK' /\ RedisTypeOK' /\ BatchTypeOK'
    BY <1>11 DEF Commit, PostgresTypeOK, RedisTypeOK, BatchTypeOK
  <2>2. KafkaTypeOK'
    BY <1>11 DEF Commit, CommittedBy, KafkaTypeOK, BatchTypeOK
  <2>3. ProcessTypeOK'
    BY <1>11 DEF Commit, GoTo, ProcessTypeOK, Stages
  <2>4. BatchInLog'
    BY <1>11 DEF Commit, BatchInLog
  <2>5. MessageInHand'
    BY <1>11 DEF Commit, GoTo, MessageInHand, InHand, ProcessTypeOK, DeviceOf
  <2>6. QED
    BY <2>1, <2>2, <2>3, <2>4, <2>5
<1>12. ASSUME NEW i \in Instances, Lookup(i) PROVE TypeInv'
  <2>1. KafkaTypeOK' /\ PostgresTypeOK' /\ RedisTypeOK' /\ BatchTypeOK'
    BY <1>12 DEF Lookup, KafkaTypeOK, PostgresTypeOK, RedisTypeOK, BatchTypeOK
  <2>2. pc' \in [Instances -> Stages] /\ BatchInLog' /\ MessageInHand'
    BY <1>12, StageChanged DEF Lookup, Stages, InHand, DeadLettering
  <2>3. cache[DeviceOf(i)] \in Nat
    BY <1>12, ReadInHand DEF Lookup, InHand, DeadLettering, RedisTypeOK
  <2>4. meta' \in [Instances -> Nat] /\ faults' \in 0..MaxFaults
    BY <2>3, <1>12 DEF Lookup, Fault, ProcessTypeOK
  <2>5. ProcessTypeOK'
    BY <2>2, <2>4, <1>12 DEF Lookup, ProcessTypeOK
  <2>6. QED
    BY <2>1, <2>2, <2>5
<1>13. ASSUME NEW i \in Instances, Fetch(i) PROVE TypeInv'
  <2>1. KafkaTypeOK' /\ PostgresTypeOK' /\ RedisTypeOK' /\ BatchTypeOK'
    BY <1>13 DEF Fetch, KafkaTypeOK, PostgresTypeOK, RedisTypeOK, BatchTypeOK
  <2>2. pc' \in [Instances -> Stages] /\ BatchInLog' /\ MessageInHand'
    BY <1>13, StageChanged DEF Fetch, Stages, InHand, DeadLettering
  <2>3. ProcessTypeOK'
    BY <2>2, <1>13, ReadInHand DEF Fetch, InHand, DeadLettering, ProcessTypeOK, PostgresTypeOK, Reasons
  <2>4. QED
    BY <2>1, <2>2, <2>3
<1>14. ASSUME NEW i \in Instances, Store(i) PROVE TypeInv'
  <2>1. KafkaTypeOK' /\ PostgresTypeOK' /\ BatchTypeOK'
    BY <1>14 DEF Store, KafkaTypeOK, PostgresTypeOK, BatchTypeOK
  <2>2. pc' \in [Instances -> Stages] /\ BatchInLog' /\ MessageInHand'
    BY <1>14, StageChanged DEF Store, Stages, InHand, DeadLettering
  <2>3. RedisTypeOK' /\ ProcessTypeOK'
    BY <2>2, <1>14, ReadInHand DEF Store, InHand, DeadLettering, RedisTypeOK, ProcessTypeOK, HSet, Fault
  <2>4. QED
    BY <2>1, <2>2, <2>3
<1>15. ASSUME NEW i \in Instances, Expire(i) PROVE TypeInv'
  <2>1. KafkaTypeOK' /\ PostgresTypeOK' /\ BatchTypeOK'
    BY <1>15 DEF Expire, KafkaTypeOK, PostgresTypeOK, BatchTypeOK
  <2>2. pc' \in [Instances -> Stages] /\ BatchInLog' /\ MessageInHand'
    BY <1>15, StageChanged DEF Expire, Stages, InHand, DeadLettering
  <2>3. (cache[DeviceOf(i)] # 0) \in BOOLEAN
    OBVIOUS
  <2>4. ttl' \in [Devices -> BOOLEAN]
    BY <2>3, <1>15, Zenon DEF Expire, RedisTypeOK
  <2>5. cache' = cache /\ faults' \in 0..MaxFaults
    BY <1>15 DEF Expire, Fault, ProcessTypeOK
  <2>6. RedisTypeOK' /\ ProcessTypeOK'
    BY <2>2, <2>4, <2>5, <1>15 DEF Expire, RedisTypeOK, ProcessTypeOK
  <2>7. QED
    BY <2>1, <2>2, <2>6
<1>16. ASSUME NEW i \in Instances, Insert(i) PROVE TypeInv'
  <2>1. KafkaTypeOK' /\ RedisTypeOK' /\ BatchTypeOK'
    BY <1>16 DEF Insert, KafkaTypeOK, RedisTypeOK, BatchTypeOK
  <2>2. pc' \in [Instances -> Stages] /\ BatchInLog' /\ MessageInHand'
    BY <1>16, StageChanged DEF Insert, Stages, InHand, DeadLettering
  <2>3. Row(i) \in [id : Nat, at : Place]
    BY <1>16, ReadInHand DEF Insert, InHand, PostgresTypeOK, Row
  <2>4. PostgresTypeOK'
    BY <2>3, <1>16 DEF Insert, PostgresTypeOK
  <2>5. eid' \in [Instances -> Nat] /\ reason' \in [Instances -> Reasons]
    BY <1>16 DEF Insert, PostgresTypeOK, ProcessTypeOK, Reasons
  <2>6. ProcessTypeOK'
    BY <2>2, <2>5, <1>16 DEF Insert, ProcessTypeOK
  <2>7. QED
    BY <2>1, <2>2, <2>4, <2>6
<1>17. ASSUME NEW i \in Instances, InsertFails(i) PROVE TypeInv'
  <2>1. KafkaTypeOK' /\ RedisTypeOK' /\ BatchTypeOK'
    BY <1>17 DEF InsertFails, KafkaTypeOK, RedisTypeOK, BatchTypeOK
  <2>2. pc' \in [Instances -> Stages] /\ BatchInLog' /\ MessageInHand'
    BY <1>17, StageChanged DEF InsertFails, Stages, InHand, DeadLettering
  <2>3. PostgresTypeOK' /\ ProcessTypeOK'
    BY <2>2, <1>17, ReadInHand DEF InsertFails, InHand, DeadLettering, PostgresTypeOK, ProcessTypeOK, Row, Fault, Reasons
  <2>4. QED
    BY <2>1, <2>2, <2>3
<1>18. ASSUME NEW i \in Instances, SendDeadLetter(i) PROVE TypeInv'
  <2>1. PostgresTypeOK' /\ RedisTypeOK' /\ BatchTypeOK'
    BY <1>18 DEF SendDeadLetter, PostgresTypeOK, RedisTypeOK, BatchTypeOK
  <2>2. pc' \in [Instances -> Stages] /\ BatchInLog' /\ MessageInHand'
    BY <1>18, StageChanged DEF SendDeadLetter, Stages, InHand, DeadLettering
  <2>3. KafkaTypeOK' /\ ProcessTypeOK'
    BY <2>2, <1>18, ReadInHand DEF SendDeadLetter, InHand, DeadLettering, KafkaTypeOK, ProcessTypeOK, DeadLetter, Reasons
  <2>4. QED
    BY <2>1, <2>2, <2>3
<1>19. ASSUME NEW i \in Instances, Publish(i) PROVE TypeInv'
  <2>1. PostgresTypeOK' /\ RedisTypeOK'
    BY <1>19 DEF Publish, PostgresTypeOK, RedisTypeOK
  <2>2. log' = log /\ faults' \in 0..MaxFaults
    BY <1>19 DEF Publish, Fault, ProcessTypeOK
  <2>3. BatchTypeOK' /\ ProcessTypeOK' /\ BatchInLog' /\ MessageInHand'
    BY <2>2, <1>19, NextMessageKeepsTypes DEF Publish, InHand
  <2>4. KafkaTypeOK'
    BY <1>19, ReadInHand DEF Publish, NextMessage, GoTo, InHand, KafkaTypeOK, ProcessTypeOK, Published
  <2>5. QED
    BY <2>1, <2>2, <2>3, <2>4
<1>20. ASSUME NEW i \in Instances, InsertDeadLetter(i) PROVE TypeInv'
  <2>1. KafkaTypeOK' /\ RedisTypeOK'
    BY <1>20 DEF InsertDeadLetter, KafkaTypeOK, RedisTypeOK
  <2>2. log' = log /\ faults' \in 0..MaxFaults
    BY <1>20 DEF InsertDeadLetter, Fault, ProcessTypeOK
  <2>3. BatchTypeOK' /\ ProcessTypeOK' /\ BatchInLog' /\ MessageInHand'
    BY <2>2, <1>20, NextMessageKeepsTypes DEF InsertDeadLetter, InHand
  <2>4. PostgresTypeOK'
    BY <1>20, ReadInHand DEF InsertDeadLetter, NextMessage, GoTo, InHand, PostgresTypeOK, ProcessTypeOK, DeadLetter
  <2>5. QED
    BY <2>1, <2>2, <2>3, <2>4
<1>21. ASSUME NEW i \in Instances, Crash(i) PROVE TypeInv'
  <2>1. Leave(i, "down") /\ faults' \in 0..MaxFaults
    BY <1>21 DEF Crash, Raise, Fault, ProcessTypeOK
  <2>2. /\ PostgresTypeOK' /\ RedisTypeOK' /\ BatchTypeOK' /\ ProcessTypeOK'
        /\ group' \in SUBSET Instances
        /\ BatchInLog' /\ MessageInHand'
    BY <2>1, LeaveKeepsTypes
  <2>3. KafkaTypeOK'
    BY <2>1, <2>2, <1>21, ReadInHand DEF Crash, Leave, InHand, KafkaTypeOK
  <2>4. QED
    BY <2>1, <2>2, <2>3
<1>22. ASSUME NEW i \in Instances, Stop(i) PROVE TypeInv'
  <2>1. Leave(i, "exited") /\ faults' \in 0..MaxFaults
    BY <1>22 DEF Stop, Raise, Fault, ProcessTypeOK
  <2>2. /\ PostgresTypeOK' /\ RedisTypeOK' /\ BatchTypeOK' /\ ProcessTypeOK'
        /\ group' \in SUBSET Instances
        /\ BatchInLog' /\ MessageInHand'
    BY <2>1, LeaveKeepsTypes
  <2>3. KafkaTypeOK'
    BY <2>1, <2>2, <1>22, ReadInHand DEF Stop, Leave, InHand, KafkaTypeOK
  <2>4. QED
    BY <2>1, <2>2, <2>3
<1>23. ASSUME NEW i \in Instances, PollFails(i) PROVE TypeInv'
  <2>1. Leave(i, "exited") /\ faults' \in 0..MaxFaults
    BY <1>23 DEF PollFails, Raise, Fault, ProcessTypeOK
  <2>2. /\ PostgresTypeOK' /\ RedisTypeOK' /\ BatchTypeOK' /\ ProcessTypeOK'
        /\ group' \in SUBSET Instances
        /\ BatchInLog' /\ MessageInHand'
    BY <2>1, LeaveKeepsTypes
  <2>3. KafkaTypeOK'
    BY <2>1, <2>2, <1>23, ReadInHand DEF PollFails, Leave, InHand, KafkaTypeOK
  <2>4. QED
    BY <2>1, <2>2, <2>3
<1>24. ASSUME NEW i \in Instances, FetchFails(i) PROVE TypeInv'
  <2>1. Leave(i, "exited") /\ faults' \in 0..MaxFaults
    BY <1>24 DEF FetchFails, Raise, Fault, ProcessTypeOK
  <2>2. /\ PostgresTypeOK' /\ RedisTypeOK' /\ BatchTypeOK' /\ ProcessTypeOK'
        /\ group' \in SUBSET Instances
        /\ BatchInLog' /\ MessageInHand'
    BY <2>1, LeaveKeepsTypes
  <2>3. KafkaTypeOK'
    BY <2>1, <2>2, <1>24, ReadInHand DEF FetchFails, Leave, InHand, KafkaTypeOK
  <2>4. QED
    BY <2>1, <2>2, <2>3
<1>25. ASSUME NEW i \in Instances, CommitFails(i) PROVE TypeInv'
  <2>1. Leave(i, "exited") /\ faults' \in 0..MaxFaults
    BY <1>25 DEF CommitFails, Raise, Fault, ProcessTypeOK
  <2>2. /\ PostgresTypeOK' /\ RedisTypeOK' /\ BatchTypeOK' /\ ProcessTypeOK'
        /\ group' \in SUBSET Instances
        /\ BatchInLog' /\ MessageInHand'
    BY <2>1, LeaveKeepsTypes
  <2>3. CommittedBy(i) \in [Partitions -> Nat]
    BY DEF CommittedBy, KafkaTypeOK, BatchTypeOK
  <2>4. committed' \in [Partitions -> Nat]
    BY <2>3, <1>25 DEF CommitFails, KafkaTypeOK
  <2>5. KafkaTypeOK'
    BY <2>1, <2>2, <2>4, <1>25 DEF CommitFails, Leave, KafkaTypeOK
  <2>6. QED
    BY <2>1, <2>2, <2>5
<1>26. ASSUME NEW i \in Instances, PublishFails(i) PROVE TypeInv'
  <2>1. Leave(i, "exited") /\ faults' \in 0..MaxFaults
    BY <1>26 DEF PublishFails, Raise, Fault, ProcessTypeOK
  <2>2. /\ PostgresTypeOK' /\ RedisTypeOK' /\ BatchTypeOK' /\ ProcessTypeOK'
        /\ group' \in SUBSET Instances
        /\ BatchInLog' /\ MessageInHand'
    BY <2>1, LeaveKeepsTypes
  <2>3. KafkaTypeOK'
    BY <2>1, <2>2, <1>26, ReadInHand DEF PublishFails, Leave, InHand, KafkaTypeOK, Published, ProcessTypeOK
  <2>4. QED
    BY <2>1, <2>2, <2>3
<1>27. ASSUME NEW i \in Instances, SendDeadLetterFails(i) PROVE TypeInv'
  <2>1. Leave(i, "exited") /\ faults' \in 0..MaxFaults
    BY <1>27 DEF SendDeadLetterFails, Raise, Fault, ProcessTypeOK
  <2>2. /\ PostgresTypeOK' /\ RedisTypeOK' /\ BatchTypeOK' /\ ProcessTypeOK'
        /\ group' \in SUBSET Instances
        /\ BatchInLog' /\ MessageInHand'
    BY <2>1, LeaveKeepsTypes
  <2>3. KafkaTypeOK'
    BY <2>1, <2>2, <1>27, ReadInHand DEF SendDeadLetterFails, Leave, InHand, KafkaTypeOK, DeadLetter, ProcessTypeOK
  <2>4. QED
    BY <2>1, <2>2, <2>3
<1>28. CASE UNCHANGED vars
  BY <1>28, HandUntouched
     DEF vars, KafkaTypeOK, PostgresTypeOK, RedisTypeOK, BatchTypeOK, ProcessTypeOK
<1>29. QED
  BY <1>1, <1>2, <1>3, <1>4, <1>5, <1>6, <1>7, <1>8, <1>9, <1>10, <1>11, <1>12, <1>13, <1>14, <1>15, <1>16, <1>17, <1>18, <1>19, <1>20, <1>21, <1>22, <1>23, <1>24, <1>25, <1>26, <1>27, <1>28
     DEF Next, Environment, Consumer, ProcessMessage, CallFails, PollEmpty

(* Spec keeps every variable within its type, whatever fails. *)
THEOREM TypeCorrect == Spec => []TypeOK
<1>1. TypeInv => TypeOK
  BY DEF TypeInv
<1>2. QED
  BY <1>1, InitTypeInv, NextTypeInv, PTL DEF Spec

-----------------------------------------------------------------------------
(* At-least-once delivery.  What is committed is what a process had        *)
(* fetched when its batch was done, so the invariant follows an offset     *)
(* from the position to the batch and from the batch to its settlement:    *)
(* below the cursor of any process everything is settled; below a position *)
(* everything is settled or still in the batch, even if the batch was      *)
(* fetched before a rebalance rewound the position.                        *)

Done == [p \in Partitions |-> {o \in Nat : Settled(p, o)}]

DoneInLog      == \A p \in Partitions : \A o \in Done[p] : o < Len(log[p])
DoneInOrder    == \A p \in Partitions : \A o \in Done[p] : \A e \in Nat : e < o => e \in Done[p]
CommittedDone  == \A p \in Partitions : \A o \in Nat : o < committed[p] => o \in Done[p]
ProcessedDone  ==
    \A i \in Instances, p \in Partitions : \A o \in Nat : o < cursor[i][p] => o \in Done[p]
FetchedDoneOrInBatch ==
    \A i \in Instances, p \in Partitions : \A o \in Nat :
        o < position[i][p] => o \in Done[p] \/ (cursor[i][p] <= o /\ o < end[i][p])

IdleHasNoBatch ==
    \A i \in Instances : pc[i] \in {"poll", "down", "exited"} =>
        \A p \in Partitions : cursor[i][p] = end[i][p]
DeadLetterSent ==
    \A i \in Instances : pc[i] = "dead_letter_row" => cursor[i][cur[i]] \in Done[cur[i]]

OffsetsInv ==
    DoneInLog /\ DoneInOrder /\ CommittedDone /\ ProcessedDone /\ FetchedDoneOrInBatch
HandInv == IdleHasNoBatch /\ DeadLetterSent

DeliveryInv == TypeInv /\ OffsetsInv /\ HandInv

WithHere(i) == [Done EXCEPT ![cur[i]] = @ \cup {cursor[i][cur[i]]}]

LEMMA DoneType == Done \in [Partitions -> SUBSET Nat]
  BY DEF Done

LEMMA DoneUnchanged ==
    ASSUME UNCHANGED <<enriched, dlq>> PROVE Done' = Done
  BY DEF Done, Settled

LEMMA DonePublished ==
    ASSUME TypeInv, NEW i \in Instances, pc[i] \in InHand,
           enriched' = enriched \cup {Published(i)}, dlq' = dlq
    PROVE  Done' = WithHere(i)
<1>1. /\ cur[i] \in Partitions /\ cursor[i][cur[i]] \in Nat
      /\ Published(i).at = [part |-> cur[i], off |-> cursor[i][cur[i]]]
  BY ReadInHand DEF Published, Here
<1>2. ASSUME NEW p \in Partitions, NEW o \in Nat
      PROVE  Settled(p, o)' <=> Settled(p, o) \/ (p = cur[i] /\ o = cursor[i][cur[i]])
  BY <1>1 DEF Settled
<1>3. ASSUME NEW p \in Partitions PROVE Done'[p] = WithHere(i)[p]
  <2>1. Done'[p] = {o \in Nat : Settled(p, o) \/ (p = cur[i] /\ o = cursor[i][cur[i]])}
    BY <1>2 DEF Done
  <2>2. QED
    BY <1>1, <2>1 DEF Done, WithHere
<1>4. Done' = [p \in Partitions |-> Done'[p]] /\ WithHere(i) = [p \in Partitions |-> WithHere(i)[p]]
  BY DEF Done, WithHere
<1>5. QED
  BY <1>3, <1>4

LEMMA DoneDeadLettered ==
    ASSUME TypeInv, NEW i \in Instances, pc[i] \in InHand,
           dlq' = dlq \cup {DeadLetter(i)}, enriched' = enriched
    PROVE  Done' = WithHere(i)
<1>1. /\ cur[i] \in Partitions /\ cursor[i][cur[i]] \in Nat
      /\ DeadLetter(i).at = [part |-> cur[i], off |-> cursor[i][cur[i]]]
  BY ReadInHand DEF DeadLetter, Here
<1>2. ASSUME NEW p \in Partitions, NEW o \in Nat
      PROVE  Settled(p, o)' <=> Settled(p, o) \/ (p = cur[i] /\ o = cursor[i][cur[i]])
  BY <1>1 DEF Settled
<1>3. ASSUME NEW p \in Partitions PROVE Done'[p] = WithHere(i)[p]
  <2>1. Done'[p] = {o \in Nat : Settled(p, o) \/ (p = cur[i] /\ o = cursor[i][cur[i]])}
    BY <1>2 DEF Done
  <2>2. QED
    BY <1>1, <2>1 DEF Done, WithHere
<1>4. Done' = [p \in Partitions |-> Done'[p]] /\ WithHere(i) = [p \in Partitions |-> WithHere(i)[p]]
  BY DEF Done, WithHere
<1>5. QED
  BY <1>3, <1>4

(* Settling the message in hand keeps the order of settlement, and what    *)
(* other processes rely on.                                                *)
LEMMA SettlingHere ==
    ASSUME DeliveryInv, NEW i \in Instances, pc[i] \in InHand,
           Done' = Done \/ Done' = WithHere(i), log' = log
    PROVE  /\ DoneInLog' /\ DoneInOrder'
           /\ \A p \in Partitions : Done[p] \subseteq Done'[p]
<1> USE DEF DeliveryInv, OffsetsInv
<1>1. CASE Done' = Done
  BY <1>1 DEF DoneInLog, DoneInOrder
<1>2. CASE Done' = WithHere(i)
  <2>1. /\ cur[i] \in Partitions /\ cursor[i][cur[i]] \in Nat
        /\ cursor[i][cur[i]] < Len(log[cur[i]])
    BY ReadInHand DEF TypeInv, TypeOK, KafkaTypeOK, BatchTypeOK
  <2>2. \A p \in Partitions : \A o \in Done'[p] :
           o \in Done[p] \/ (p = cur[i] /\ o = cursor[i][cur[i]])
    BY <1>2, DoneType DEF WithHere
  <2>3. \A p \in Partitions : Done[p] \subseteq Done'[p]
    BY <1>2, DoneType DEF WithHere
  <2>4. DoneInLog'
    BY <2>1, <2>2 DEF DoneInLog
  <2>5. DoneInOrder'
    BY <2>1, <2>2, <2>3 DEF DoneInOrder, ProcessedDone
  <2>6. QED
    BY <2>3, <2>4, <2>5
<1>3. QED
  BY <1>1, <1>2

(* The end of a process: its batch is gone, the settled messages are not.  *)
LEMMA LeaveKeepsOffsets ==
    ASSUME DeliveryInv, NEW i \in Instances, NEW stage \in {"down", "exited"},
           Leave(i, stage), DoneInLog', DoneInOrder', CommittedDone',
           \A p \in Partitions : Done[p] \subseteq Done'[p]
    PROVE  OffsetsInv' /\ HandInv'
<1> USE DEF DeliveryInv, OffsetsInv, TypeInv, TypeOK, Leave, GoTo
<1>1. \A k \in Instances \ {i} :
         /\ cursor'[k] = cursor[k] /\ end'[k] = end[k] /\ position'[k] = position[k]
         /\ pc'[k] = pc[k] /\ cur'[k] = cur[k]
  BY DEF BatchTypeOK, ProcessTypeOK
<1>2. /\ pc'[i] = stage
      /\ \A p \in Partitions : cursor'[i][p] = 0 /\ end'[i][p] = 0 /\ position'[i][p] = 0
  BY DEF BatchTypeOK, ProcessTypeOK
<1>3. ProcessedDone'
  BY <1>1, <1>2 DEF ProcessedDone
<1>4. FetchedDoneOrInBatch'
  BY <1>1, <1>2 DEF FetchedDoneOrInBatch
<1>5. IdleHasNoBatch'
  BY <1>1, <1>2 DEF IdleHasNoBatch, HandInv
<1>6. DeadLetterSent'
  BY <1>1, <1>2, ReadInHand DEF DeadLetterSent, HandInv, InHand
<1>7. QED
  BY <1>3, <1>4, <1>5, <1>6 DEF HandInv

(* Steps that move no offset and settle nothing.                           *)
Idle == {"poll", "down", "exited"}

LEMMA QuietStep ==
    ASSUME DeliveryInv, UNCHANGED <<log, committed, enriched, dlq, position, cursor, end>>,
           \A k \in Instances :
              \/ pc'[k] = pc[k] /\ cur'[k] = cur[k]
              \/ pc'[k] \notin Idle \cup {"dead_letter_row"}
              \/ pc'[k] \in Idle /\ pc[k] \in Idle
    PROVE  OffsetsInv' /\ HandInv'
<1>1. Done' = Done
  BY DoneUnchanged
<1>2. OffsetsInv'
  BY <1>1 DEF DeliveryInv, OffsetsInv, DoneInLog, DoneInOrder, CommittedDone, ProcessedDone,
              FetchedDoneOrInBatch
<1>3. HandInv'
  BY <1>1 DEF DeliveryInv, HandInv, IdleHasNoBatch, DeadLetterSent, Idle
<1>4. QED
  BY <1>2, <1>3

(* The next message: what lies below the new cursor is what lay below the  *)
(* old one, and the message just settled.                                  *)
LEMMA NextMessageKeepsOffsets ==
    ASSUME DeliveryInv, NEW i \in Instances, pc[i] \in InHand, NextMessage(i),
           log' = log, committed' = committed, Done' = Done \/ Done' = WithHere(i),
           cursor[i][cur[i]] \in Done'[cur[i]]
    PROVE  OffsetsInv' /\ HandInv'
<1> USE DEF DeliveryInv, OffsetsInv, TypeInv, TypeOK, NextMessage, GoTo
<1>1. DoneInLog' /\ DoneInOrder' /\ \A p \in Partitions : Done[p] \subseteq Done'[p]
  BY SettlingHere
<1>2. /\ cur[i] \in Partitions /\ cursor[i][cur[i]] \in Nat
      /\ cursor'[i][cur[i]] = cursor[i][cur[i]] + 1
      /\ \A p \in Partitions \ {cur[i]} : cursor'[i][p] = cursor[i][p]
      /\ \A k \in Instances \ {i} : cursor'[k] = cursor[k] /\ pc'[k] = pc[k]
      /\ pc'[i] = "batch" /\ UNCHANGED <<position, end, cur>>
  BY ReadInHand DEF BatchTypeOK, ProcessTypeOK
<1>3. CommittedDone'
  BY <1>1 DEF CommittedDone
<1>4. ASSUME NEW k \in Instances, NEW p \in Partitions, NEW o \in Nat, o < cursor'[k][p]
      PROVE  o \in Done'[p]
  <2>1. CASE k = i /\ p = cur[i]
    BY <1>1, <1>2, <1>4, <2>1 DEF ProcessedDone
  <2>2. CASE ~(k = i /\ p = cur[i])
    BY <1>1, <1>2, <1>4, <2>2 DEF ProcessedDone
  <2>3. QED
    BY <2>1, <2>2
<1>5. ASSUME NEW k \in Instances, NEW p \in Partitions, NEW o \in Nat, o < position'[k][p]
      PROVE  o \in Done'[p] \/ (cursor'[k][p] <= o /\ o < end'[k][p])
  <2>1. o \in Done[p] \/ (cursor[k][p] <= o /\ o < end[k][p])
    BY <1>2, <1>5 DEF FetchedDoneOrInBatch
  <2>2. CASE k = i /\ p = cur[i]
    BY <1>1, <1>2, <2>1, <2>2
  <2>3. CASE ~(k = i /\ p = cur[i])
    BY <1>1, <1>2, <2>1, <2>3
  <2>4. QED
    BY <2>2, <2>3
<1>6. IdleHasNoBatch'
  BY <1>2 DEF HandInv, IdleHasNoBatch
<1>7. DeadLetterSent'
  BY <1>1, <1>2, ReadInHand DEF HandInv, DeadLetterSent, InHand
<1>8. QED
  BY <1>1, <1>3, <1>4, <1>5, <1>6, <1>7
     DEF HandInv, ProcessedDone, FetchedDoneOrInBatch

(* What a commit commits is settled: the batch is done.                    *)
LEMMA CommittedByDone ==
    ASSUME DeliveryInv, NEW i \in Instances, BatchDone(i), NEW p \in Partitions, NEW o \in Nat,
           o < CommittedBy(i)[p]
    PROVE  o \in Done[p]
<1>1. cursor[i][p] \in Nat /\ end[i][p] \in Nat /\ ~(cursor[i][p] < end[i][p])
  BY DEF BatchDone, Remaining, DeliveryInv, TypeInv, TypeOK, BatchTypeOK
<1>2. CASE p \in assigned[i]
  <2>1. o < position[i][p]
    BY <1>2 DEF CommittedBy
  <2>2. o \in Done[p] \/ (cursor[i][p] <= o /\ o < end[i][p])
    BY <2>1 DEF DeliveryInv, OffsetsInv, FetchedDoneOrInBatch
  <2>3. QED
    BY <1>1, <2>2
<1>3. CASE p \notin assigned[i]
  BY <1>3 DEF CommittedBy, DeliveryInv, OffsetsInv, CommittedDone
<1>4. QED
  BY <1>2, <1>3

LEMMA InitDeliveryInv == Init => DeliveryInv
<1> SUFFICES ASSUME Init PROVE OffsetsInv /\ HandInv
  BY InitTypeInv DEF DeliveryInv
<1>1. \A p \in Partitions : Done[p] = {}
  BY DEF Init, Done, Settled
<1>2. QED
  BY <1>1 DEF Init, OffsetsInv, DoneInLog, DoneInOrder, CommittedDone, ProcessedDone,
              FetchedDoneOrInBatch, HandInv, IdleHasNoBatch, DeadLetterSent

LEMMA NextDeliveryInv == DeliveryInv /\ [Next]_vars => DeliveryInv'
<1> SUFFICES ASSUME DeliveryInv, [Next]_vars PROVE OffsetsInv' /\ HandInv'
  BY NextTypeInv DEF DeliveryInv
<1>a. TypeInv /\ OffsetsInv /\ HandInv
  BY DEF DeliveryInv
<1>b. TypeInv'
  BY <1>a, NextTypeInv
<1> USE DEF kafkaVars, postgresVars, redisVars, batchVars, messageVars
<1>1. ASSUME NEW p \in Partitions, NEW m \in Messages, Produce(p, m) PROVE OffsetsInv' /\ HandInv'
  <2>1. Done' = Done /\ UNCHANGED <<committed, position, cursor, end, pc, cur>>
    BY <1>1, DoneUnchanged DEF Produce
  <2>2. \A q \in Partitions : Len(log'[q]) \in Nat /\ Len(log[q]) \in Nat /\ Len(log[q]) <= Len(log'[q])
    BY <1>1, <1>a DEF Produce, TypeInv, TypeOK, KafkaTypeOK
  <2>3. DoneInLog'
    BY <2>1, <2>2, <1>a, DoneType DEF OffsetsInv, DoneInLog
  <2>4. DoneInOrder' /\ CommittedDone' /\ ProcessedDone' /\ FetchedDoneOrInBatch'
    BY <2>1, <1>a DEF OffsetsInv, DoneInOrder, CommittedDone, ProcessedDone, FetchedDoneOrInBatch
  <2>5. IdleHasNoBatch' /\ DeadLetterSent'
    BY <2>1, <1>a DEF HandInv, IdleHasNoBatch, DeadLetterSent
  <2>6. QED
    BY <2>1, <2>2, <2>3, <2>4, <2>5 DEF OffsetsInv, HandInv
<1>2. ASSUME NEW d \in Devices, WriteDevice(d) PROVE OffsetsInv' /\ HandInv'
  BY <1>2, QuietStep DEF WriteDevice
<1>3. ASSUME NEW d \in Devices, DeleteDevice(d) PROVE OffsetsInv' /\ HandInv'
  BY <1>3, QuietStep DEF DeleteDevice
<1>4. ASSUME NEW d \in Devices, ExpireKey(d) PROVE OffsetsInv' /\ HandInv'
  BY <1>4, QuietStep DEF ExpireKey
<1>5. ASSUME Rebalance PROVE OffsetsInv' /\ HandInv'
  <2>1. Done' = Done /\ UNCHANGED <<log, committed, cursor, end, pc, cur>>
    BY <1>5, DoneUnchanged DEF Rebalance
  <2>2. \A i \in Instances, p \in Partitions : position'[i][p] = committed[p] \/ position'[i][p] = position[i][p]
    BY <1>5, <1>a DEF Rebalance, StartOffset, TypeInv, TypeOK, BatchTypeOK
  <2>3. FetchedDoneOrInBatch'
    BY <2>1, <2>2, <1>a DEF OffsetsInv, CommittedDone, FetchedDoneOrInBatch
  <2>4. DoneInLog' /\ DoneInOrder' /\ CommittedDone' /\ ProcessedDone'
    BY <2>1, <1>a DEF OffsetsInv, DoneInLog, DoneInOrder, CommittedDone, ProcessedDone
  <2>5. IdleHasNoBatch' /\ DeadLetterSent'
    BY <2>1, <1>a DEF HandInv, IdleHasNoBatch, DeadLetterSent
  <2>6. QED
    BY <2>1, <2>2, <2>3, <2>4, <2>5 DEF OffsetsInv, HandInv
<1>6. ASSUME NEW i \in Instances, Evict(i) PROVE OffsetsInv' /\ HandInv'
  BY <1>6, QuietStep DEF Evict
<1>7. ASSUME NEW i \in Instances, Signal(i) PROVE OffsetsInv' /\ HandInv'
  BY <1>7, QuietStep DEF Signal
<1>8. ASSUME NEW i \in Instances, Start(i) PROVE OffsetsInv' /\ HandInv'
  <2>1. \A k \in Instances \ {i} : pc'[k] = pc[k] /\ cur'[k] = cur[k]
    BY <1>8, <1>a DEF Start, GoTo, TypeInv, TypeOK, ProcessTypeOK
  <2>2. \/ pc'[i] = pc[i] /\ cur'[i] = cur[i]
        \/ pc'[i] \notin Idle \cup {"dead_letter_row"}
        \/ pc'[i] \in Idle /\ pc[i] \in Idle
    BY <1>8, <1>a DEF Start, GoTo, Idle, TypeInv, TypeOK, ProcessTypeOK
  <2>3. UNCHANGED <<log, committed, enriched, dlq, position, cursor, end>>
    BY <1>8 DEF Start
  <2>4. QED
    BY <2>1, <2>2, <2>3, QuietStep
<1>9. ASSUME NEW i \in Instances, Poll(i) PROVE OffsetsInv' /\ HandInv'
  <2>1. Done' = Done /\ UNCHANGED <<log, committed, cur>>
    BY <1>9, DoneUnchanged DEF Poll
  <2>2. /\ pc[i] = "poll" /\ pc'[i] = "batch"
        /\ \A k \in Instances \ {i} : pc'[k] = pc[k]
    BY <1>9, <1>a DEF Poll, GoTo, TypeInv, TypeOK, ProcessTypeOK
  <2>3. /\ \A p \in Partitions : \A o \in Nat : o < position[i][p] => o \in Done[p]
        /\ \A p \in Partitions : \A o \in Nat : o < end[i][p] => o \in Done[p]
    BY <2>2, <1>a DEF OffsetsInv, HandInv, FetchedDoneOrInBatch, ProcessedDone, IdleHasNoBatch, Idle, TypeInv, TypeOK, BatchTypeOK
  <2>4. DoneInLog' /\ DoneInOrder' /\ CommittedDone'
    BY <2>1, <1>a DEF OffsetsInv, DoneInLog, DoneInOrder, CommittedDone
  <2>5. /\ UNCHANGED log
        /\ \A k \in Instances \ {i} :
              position'[k] = position[k] /\ cursor'[k] = cursor[k] /\ end'[k] = end[k]
    BY <1>9, <1>a, PollEffect
  <2>6. \A p \in Partitions :
          \/ /\ cursor'[i][p] = position[i][p]
             /\ end'[i][p] = position'[i][p]
          \/ /\ cursor'[i][p] = end[i][p]
             /\ position'[i][p] = position[i][p]
    BY <1>9, <1>a, PollEffect
  <2>7. ProcessedDone'
    BY <2>1, <2>3, <2>5, <2>6, <1>a DEF OffsetsInv, ProcessedDone
  <2>8. FetchedDoneOrInBatch'
    <3> SUFFICES ASSUME NEW k \in Instances, NEW p \in Partitions, NEW o \in Nat,
                        o < position'[k][p]
                 PROVE  o \in Done'[p] \/ (cursor'[k][p] <= o /\ o < end'[k][p])
      BY DEF FetchedDoneOrInBatch
    <3>1. CASE k # i
      BY <2>1, <2>5, <3>1, <1>a DEF OffsetsInv, FetchedDoneOrInBatch
    <3>2. CASE k = i
      <4>1. position[i][p] \in Nat
        BY <1>a DEF TypeInv, TypeOK, BatchTypeOK
      <4>2. CASE o < position[i][p]
        BY <2>1, <2>3, <3>2, <4>2
      <4>3. CASE ~(o < position[i][p])
        BY <2>6, <3>2, <4>1, <4>3
      <4>4. QED
        BY <4>2, <4>3
    <3>3. QED
      BY <3>1, <3>2
  <2>9. IdleHasNoBatch' /\ DeadLetterSent'
    BY <2>1, <2>2, <2>5, <1>a DEF HandInv, IdleHasNoBatch, DeadLetterSent
  <2>10. QED
    BY <2>1, <2>2, <2>3, <2>4, <2>5, <2>6, <2>7, <2>8, <2>9 DEF OffsetsInv, HandInv
<1>10. ASSUME NEW i \in Instances, Receive(i) PROVE OffsetsInv' /\ HandInv'
  <2>1. \A k \in Instances \ {i} : pc'[k] = pc[k] /\ cur'[k] = cur[k]
    BY <1>10, <1>a DEF Receive, GoTo, TypeInv, TypeOK, ProcessTypeOK
  <2>2. pc'[i] \in InHand \ {"dead_letter_row"}
    BY <1>10, <1>a DEF Receive, GoTo, InHand, TypeInv, TypeOK, ProcessTypeOK
  <2>3. pc'[i] \notin Idle \cup {"dead_letter_row"}
    BY <2>2 DEF Idle, InHand
  <2>4. UNCHANGED <<log, committed, enriched, dlq, position, cursor, end>>
    BY <1>10 DEF Receive
  <2>5. QED
    BY <2>1, <2>3, <2>4, QuietStep
<1>11. ASSUME NEW i \in Instances, Commit(i) PROVE OffsetsInv' /\ HandInv'
  <2>1. Done' = Done /\ UNCHANGED <<log, position, cursor, end>>
    BY <1>11, DoneUnchanged DEF Commit
  <2>2. CommittedDone'
    BY <2>1, <1>11, CommittedByDone DEF Commit, CommittedDone
  <2>3. DoneInLog' /\ DoneInOrder' /\ ProcessedDone' /\ FetchedDoneOrInBatch'
    BY <2>1, <1>a DEF OffsetsInv, DoneInLog, DoneInOrder, ProcessedDone, FetchedDoneOrInBatch
  <2>4. /\ pc'[i] = "poll" /\ BatchDone(i)
        /\ \A k \in Instances \ {i} : pc'[k] = pc[k] /\ cur'[k] = cur[k]
    BY <1>11, <1>a DEF Commit, GoTo, TypeInv, TypeOK, ProcessTypeOK
  <2>5. \A p \in Partitions : cursor[i][p] = end[i][p]
    BY <2>4, <1>a DEF BatchDone, Remaining, TypeInv, TypeOK, BatchInLog, BatchTypeOK
  <2>6. IdleHasNoBatch' /\ DeadLetterSent'
    BY <2>1, <2>4, <2>5, <1>a DEF HandInv, IdleHasNoBatch, DeadLetterSent
  <2>7. QED
    BY <2>1, <2>2, <2>3, <2>4, <2>5, <2>6 DEF OffsetsInv, HandInv
<1>12. ASSUME NEW i \in Instances, Lookup(i) PROVE OffsetsInv' /\ HandInv'
  <2>1. \A k \in Instances \ {i} : pc'[k] = pc[k] /\ cur'[k] = cur[k]
    BY <1>12, <1>a DEF Lookup, GoTo, TypeInv, TypeOK, ProcessTypeOK
  <2>2. pc'[i] \in InHand \ {"dead_letter_row"}
    BY <1>12, <1>a DEF Lookup, GoTo, InHand, TypeInv, TypeOK, ProcessTypeOK
  <2>3. pc'[i] \notin Idle \cup {"dead_letter_row"}
    BY <2>2 DEF Idle, InHand
  <2>4. UNCHANGED <<log, committed, enriched, dlq, position, cursor, end>>
    BY <1>12 DEF Lookup
  <2>5. QED
    BY <2>1, <2>3, <2>4, QuietStep
<1>13. ASSUME NEW i \in Instances, Fetch(i) PROVE OffsetsInv' /\ HandInv'
  <2>1. \A k \in Instances \ {i} : pc'[k] = pc[k] /\ cur'[k] = cur[k]
    BY <1>13, <1>a DEF Fetch, GoTo, TypeInv, TypeOK, ProcessTypeOK
  <2>2. pc'[i] \in InHand \ {"dead_letter_row"}
    BY <1>13, <1>a DEF Fetch, GoTo, InHand, TypeInv, TypeOK, ProcessTypeOK
  <2>3. pc'[i] \notin Idle \cup {"dead_letter_row"}
    BY <2>2 DEF Idle, InHand
  <2>4. UNCHANGED <<log, committed, enriched, dlq, position, cursor, end>>
    BY <1>13 DEF Fetch
  <2>5. QED
    BY <2>1, <2>3, <2>4, QuietStep
<1>14. ASSUME NEW i \in Instances, Store(i) PROVE OffsetsInv' /\ HandInv'
  <2>1. \A k \in Instances \ {i} : pc'[k] = pc[k] /\ cur'[k] = cur[k]
    BY <1>14, <1>a DEF Store, GoTo, HSet, TypeInv, TypeOK, ProcessTypeOK
  <2>2. pc'[i] \in InHand \ {"dead_letter_row"}
    BY <1>14, <1>a DEF Store, GoTo, HSet, InHand, TypeInv, TypeOK, ProcessTypeOK
  <2>3. pc'[i] \notin Idle \cup {"dead_letter_row"}
    BY <2>2 DEF Idle, InHand
  <2>4. UNCHANGED <<log, committed, enriched, dlq, position, cursor, end>>
    BY <1>14 DEF Store, HSet
  <2>5. QED
    BY <2>1, <2>3, <2>4, QuietStep
<1>15. ASSUME NEW i \in Instances, Expire(i) PROVE OffsetsInv' /\ HandInv'
  <2>1. \A k \in Instances \ {i} : pc'[k] = pc[k] /\ cur'[k] = cur[k]
    BY <1>15, <1>a DEF Expire, GoTo, TypeInv, TypeOK, ProcessTypeOK
  <2>2. pc'[i] \in InHand \ {"dead_letter_row"}
    BY <1>15, <1>a DEF Expire, GoTo, InHand, TypeInv, TypeOK, ProcessTypeOK
  <2>3. pc'[i] \notin Idle \cup {"dead_letter_row"}
    BY <2>2 DEF Idle, InHand
  <2>4. UNCHANGED <<log, committed, enriched, dlq, position, cursor, end>>
    BY <1>15 DEF Expire
  <2>5. QED
    BY <2>1, <2>3, <2>4, QuietStep
<1>16. ASSUME NEW i \in Instances, Insert(i) PROVE OffsetsInv' /\ HandInv'
  <2>1. \A k \in Instances \ {i} : pc'[k] = pc[k] /\ cur'[k] = cur[k]
    BY <1>16, <1>a DEF Insert, GoTo, TypeInv, TypeOK, ProcessTypeOK
  <2>2. pc'[i] \in InHand \ {"dead_letter_row"}
    BY <1>16, <1>a DEF Insert, GoTo, InHand, TypeInv, TypeOK, ProcessTypeOK
  <2>3. pc'[i] \notin Idle \cup {"dead_letter_row"}
    BY <2>2 DEF Idle, InHand
  <2>4. UNCHANGED <<log, committed, enriched, dlq, position, cursor, end>>
    BY <1>16 DEF Insert
  <2>5. QED
    BY <2>1, <2>3, <2>4, QuietStep
<1>17. ASSUME NEW i \in Instances, InsertFails(i) PROVE OffsetsInv' /\ HandInv'
  <2>1. \A k \in Instances \ {i} : pc'[k] = pc[k] /\ cur'[k] = cur[k]
    BY <1>17, <1>a DEF InsertFails, GoTo, TypeInv, TypeOK, ProcessTypeOK
  <2>2. pc'[i] \in InHand \ {"dead_letter_row"}
    BY <1>17, <1>a DEF InsertFails, GoTo, InHand, TypeInv, TypeOK, ProcessTypeOK
  <2>3. pc'[i] \notin Idle \cup {"dead_letter_row"}
    BY <2>2 DEF Idle, InHand
  <2>4. UNCHANGED <<log, committed, enriched, dlq, position, cursor, end>>
    BY <1>17 DEF InsertFails
  <2>5. QED
    BY <2>1, <2>3, <2>4, QuietStep
<1>18. ASSUME NEW i \in Instances, Publish(i) PROVE OffsetsInv' /\ HandInv'
  <2>1. pc[i] \in InHand /\ NextMessage(i) /\ log' = log /\ committed' = committed
    BY <1>18 DEF Publish, InHand
  <2>2. Done' = WithHere(i)
    BY <1>a, <2>1, <1>18, DonePublished DEF Publish
  <2>3. cursor[i][cur[i]] \in Done'[cur[i]]
    BY <1>a, <2>1, <2>2, ReadInHand, DoneType DEF WithHere
  <2>4. OffsetsInv' /\ HandInv'
    BY <2>1, <2>2, <2>3, NextMessageKeepsOffsets
  <2>5. QED
    BY <2>1, <2>2, <2>3, <2>4 DEF OffsetsInv, HandInv
<1>19. ASSUME NEW i \in Instances, InsertDeadLetter(i) PROVE OffsetsInv' /\ HandInv'
  <2>1. pc[i] \in InHand /\ NextMessage(i) /\ log' = log /\ committed' = committed
    BY <1>19 DEF InsertDeadLetter, InHand
  <2>2. Done' = Done
    BY <1>19, DoneUnchanged DEF InsertDeadLetter
  <2>3. cursor[i][cur[i]] \in Done'[cur[i]]
    BY <1>a, <2>2, <1>19 DEF InsertDeadLetter, HandInv, DeadLetterSent
  <2>4. OffsetsInv' /\ HandInv'
    BY <2>1, <2>2, <2>3, NextMessageKeepsOffsets
  <2>5. QED
    BY <2>1, <2>2, <2>3, <2>4 DEF OffsetsInv, HandInv
<1>20. ASSUME NEW i \in Instances, SendDeadLetter(i) PROVE OffsetsInv' /\ HandInv'
  <2>1. pc[i] \in InHand /\ UNCHANGED <<log, committed, position, cursor, end, cur>>
    BY <1>20 DEF SendDeadLetter, InHand
  <2>2. Done' = WithHere(i)
    BY <1>a, <2>1, <1>20, DoneDeadLettered DEF SendDeadLetter
  <2>3. DoneInLog' /\ DoneInOrder' /\ \A p \in Partitions : Done[p] \subseteq Done'[p]
    BY <2>1, <2>2, SettlingHere
  <2>4. cursor[i][cur[i]] \in Done'[cur[i]]
    BY <1>a, <2>1, <2>2, ReadInHand, DoneType DEF WithHere
  <2>5. CommittedDone' /\ ProcessedDone' /\ FetchedDoneOrInBatch'
    BY <2>1, <2>3, <1>a DEF OffsetsInv, CommittedDone, ProcessedDone, FetchedDoneOrInBatch
  <2>6. pc'[i] = "dead_letter_row" /\ \A k \in Instances \ {i} : pc'[k] = pc[k]
    BY <1>20, <1>a DEF SendDeadLetter, GoTo, TypeInv, TypeOK, ProcessTypeOK
  <2>7. IdleHasNoBatch'
    BY <2>1, <2>6, <1>a DEF HandInv, IdleHasNoBatch
  <2>8. DeadLetterSent'
    BY <2>1, <2>3, <2>4, <2>6, <1>a, ReadInHand DEF HandInv, DeadLetterSent, InHand
  <2>9. QED
    BY <2>1, <2>2, <2>3, <2>4, <2>5, <2>6, <2>7, <2>8 DEF OffsetsInv, HandInv
<1>21. ASSUME NEW i \in Instances, Crash(i) PROVE OffsetsInv' /\ HandInv'
  <2>1. Leave(i, "down") /\ UNCHANGED <<log, committed>>
    BY <1>21 DEF Crash, Raise, Leave
  <2>2. Done' = Done
    BY <1>21, DoneUnchanged DEF Crash
  <2>3. DoneInLog' /\ DoneInOrder' /\ CommittedDone'
    BY <2>1, <2>2, <1>a DEF OffsetsInv, DoneInLog, DoneInOrder, CommittedDone
  <2>4. OffsetsInv' /\ HandInv'
    BY <2>1, <2>2, <2>3, LeaveKeepsOffsets
  <2>5. QED
    BY <2>1, <2>2, <2>3, <2>4 DEF OffsetsInv, HandInv
<1>22. ASSUME NEW i \in Instances, Stop(i) PROVE OffsetsInv' /\ HandInv'
  <2>1. Leave(i, "exited") /\ UNCHANGED <<log, committed>>
    BY <1>22 DEF Stop, Raise, Leave
  <2>2. Done' = Done
    BY <1>22, DoneUnchanged DEF Stop
  <2>3. DoneInLog' /\ DoneInOrder' /\ CommittedDone'
    BY <2>1, <2>2, <1>a DEF OffsetsInv, DoneInLog, DoneInOrder, CommittedDone
  <2>4. OffsetsInv' /\ HandInv'
    BY <2>1, <2>2, <2>3, LeaveKeepsOffsets
  <2>5. QED
    BY <2>1, <2>2, <2>3, <2>4 DEF OffsetsInv, HandInv
<1>23. ASSUME NEW i \in Instances, PollFails(i) PROVE OffsetsInv' /\ HandInv'
  <2>1. Leave(i, "exited") /\ UNCHANGED <<log, committed>>
    BY <1>23 DEF PollFails, Raise, Leave
  <2>2. Done' = Done
    BY <1>23, DoneUnchanged DEF PollFails
  <2>3. DoneInLog' /\ DoneInOrder' /\ CommittedDone'
    BY <2>1, <2>2, <1>a DEF OffsetsInv, DoneInLog, DoneInOrder, CommittedDone
  <2>4. OffsetsInv' /\ HandInv'
    BY <2>1, <2>2, <2>3, LeaveKeepsOffsets
  <2>5. QED
    BY <2>1, <2>2, <2>3, <2>4 DEF OffsetsInv, HandInv
<1>24. ASSUME NEW i \in Instances, FetchFails(i) PROVE OffsetsInv' /\ HandInv'
  <2>1. Leave(i, "exited") /\ UNCHANGED <<log, committed>>
    BY <1>24 DEF FetchFails, Raise, Leave
  <2>2. Done' = Done
    BY <1>24, DoneUnchanged DEF FetchFails
  <2>3. DoneInLog' /\ DoneInOrder' /\ CommittedDone'
    BY <2>1, <2>2, <1>a DEF OffsetsInv, DoneInLog, DoneInOrder, CommittedDone
  <2>4. OffsetsInv' /\ HandInv'
    BY <2>1, <2>2, <2>3, LeaveKeepsOffsets
  <2>5. QED
    BY <2>1, <2>2, <2>3, <2>4 DEF OffsetsInv, HandInv
<1>25. ASSUME NEW i \in Instances, CommitFails(i) PROVE OffsetsInv' /\ HandInv'
  <2>1. Leave(i, "exited") /\ log' = log /\ BatchDone(i)
    BY <1>25 DEF CommitFails, Raise, Leave
  <2>2. Done' = Done
    BY <1>25, DoneUnchanged DEF CommitFails
  <2>3. committed' = committed \/ committed' = CommittedBy(i)
    BY <1>25 DEF CommitFails
  <2>4. CommittedDone'
    BY <2>1, <2>2, <2>3, <1>a, CommittedByDone DEF OffsetsInv, CommittedDone
  <2>5. DoneInLog' /\ DoneInOrder'
    BY <2>1, <2>2, <1>a DEF OffsetsInv, DoneInLog, DoneInOrder
  <2>6. OffsetsInv' /\ HandInv'
    BY <2>1, <2>2, <2>4, <2>5, LeaveKeepsOffsets
  <2>7. QED
    BY <2>1, <2>2, <2>3, <2>4, <2>5, <2>6 DEF OffsetsInv, HandInv
<1>26. ASSUME NEW i \in Instances, PublishFails(i) PROVE OffsetsInv' /\ HandInv'
  <2>1. Leave(i, "exited") /\ pc[i] \in InHand /\ UNCHANGED <<log, committed>>
    BY <1>26 DEF PublishFails, Raise, Leave, InHand
  <2>2. Done' = Done \/ Done' = WithHere(i)
    BY <2>1, <1>a, <1>26, DoneUnchanged, DonePublished DEF PublishFails
  <2>3. DoneInLog' /\ DoneInOrder' /\ \A p \in Partitions : Done[p] \subseteq Done'[p]
    BY <2>1, <2>2, SettlingHere
  <2>4. CommittedDone'
    BY <2>1, <2>3, <1>a DEF OffsetsInv, CommittedDone
  <2>5. OffsetsInv' /\ HandInv'
    BY <2>1, <2>3, <2>4, LeaveKeepsOffsets
  <2>6. QED
    BY <2>1, <2>2, <2>3, <2>4, <2>5 DEF OffsetsInv, HandInv
<1>27. ASSUME NEW i \in Instances, SendDeadLetterFails(i) PROVE OffsetsInv' /\ HandInv'
  <2>1. Leave(i, "exited") /\ pc[i] \in InHand /\ UNCHANGED <<log, committed>>
    BY <1>27 DEF SendDeadLetterFails, Raise, Leave, InHand
  <2>2. Done' = Done \/ Done' = WithHere(i)
    BY <2>1, <1>a, <1>27, DoneUnchanged, DoneDeadLettered DEF SendDeadLetterFails
  <2>3. DoneInLog' /\ DoneInOrder' /\ \A p \in Partitions : Done[p] \subseteq Done'[p]
    BY <2>1, <2>2, SettlingHere
  <2>4. CommittedDone'
    BY <2>1, <2>3, <1>a DEF OffsetsInv, CommittedDone
  <2>5. OffsetsInv' /\ HandInv'
    BY <2>1, <2>3, <2>4, LeaveKeepsOffsets
  <2>6. QED
    BY <2>1, <2>2, <2>3, <2>4, <2>5 DEF OffsetsInv, HandInv
<1>28. CASE UNCHANGED vars
  BY <1>28, QuietStep DEF vars
<1>29. QED
  BY <1>1, <1>2, <1>3, <1>4, <1>5, <1>6, <1>7, <1>8, <1>9, <1>10, <1>11, <1>12, <1>13, <1>14, <1>15, <1>16, <1>17, <1>18, <1>19, <1>20, <1>21, <1>22, <1>23, <1>24, <1>25, <1>26, <1>27, <1>28
     DEF Next, Environment, Consumer, ProcessMessage, CallFails, PollEmpty

LEMMA DeliveryInvariant == Spec => []DeliveryInv
  BY InitDeliveryInv, NextDeliveryInv, PTL DEF Spec

(* At-least-once: every committed offset's message is published or         *)
(* dead-lettered (main.py:106-107).                                        *)
THEOREM AtLeastOnce == Spec => []CommittedIsSettled
<1>1. DeliveryInv => CommittedIsSettled
  <2> SUFFICES ASSUME DeliveryInv, NEW p \in Partitions, NEW o \in 0..(committed[p] - 1)
               PROVE  Settled(p, o)
    BY DEF CommittedIsSettled
  <2>1. o \in Nat /\ o < committed[p]
    BY DEF DeliveryInv, TypeInv, TypeOK, KafkaTypeOK
  <2>2. QED
    BY <2>1 DEF DeliveryInv, OffsetsInv, CommittedDone, Done
<1>2. QED
  BY <1>1, DeliveryInvariant, PTL

(* The messages of a partition are settled in log order. *)
THEOREM InOrder == Spec => []SettledInOrder
<1>1. DeliveryInv => SettledInOrder
  BY DEF DeliveryInv, OffsetsInv, DoneInOrder, Done, SettledInOrder, TypeInv, TypeOK, KafkaTypeOK
<1>2. QED
  BY <1>1, DeliveryInvariant, PTL
=============================================================================

------------------------ MODULE AtLeastOnceDelivery ------------------------
(***************************************************************************)
(* What a consumer of a Kafka topic promises the rest of the platform: it  *)
(* settles the messages of each partition in log order, never takes a      *)
(* settlement back, and acknowledges to the broker only what is settled.   *)
(* Processes, batches, rebalances, failures and redelivery do not appear:  *)
(* they are how a consumer does it.                                        *)
(***************************************************************************)
EXTENDS Naturals, Sequences

CONSTANTS Partitions, Messages

VARIABLES
    log,     \* log[p]: the messages of partition p, offset o at index o + 1
    settled, \* settled[p]: the offsets of p that have reached their destination
    acked    \* acked[p]: the offset committed to the broker

vars == <<log, settled, acked>>

Init ==
    /\ log = [p \in Partitions |-> <<>>]
    /\ settled = [p \in Partitions |-> {}]
    /\ acked = [p \in Partitions |-> 0]

Append1(p, m) ==
    /\ log' = [log EXCEPT ![p] = Append(@, m)]
    /\ UNCHANGED <<settled, acked>>

Settle(p, o) ==
    /\ o < Len(log[p])
    /\ 0..(o - 1) \subseteq settled[p]
    /\ settled' = [settled EXCEPT ![p] = @ \cup {o}]
    /\ UNCHANGED <<log, acked>>

(* One commit acknowledges any number of partitions. *)
Acknowledge ==
    /\ DOMAIN acked' = Partitions
    /\ \A p \in Partitions :
          /\ acked'[p] >= acked[p]
          /\ 0..(acked'[p] - 1) \subseteq settled[p]
    /\ UNCHANGED <<log, settled>>

Next ==
    \/ \E p \in Partitions, m \in Messages : Append1(p, m)
    \/ \E p \in Partitions : \E o \in 0..(Len(log[p]) - 1) : Settle(p, o)
    \/ Acknowledge

Spec == Init /\ [][Next]_vars
=============================================================================

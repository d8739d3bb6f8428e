---------------------- MODULE MCIngestionConsumer ----------------------
(* Model-checking instances of IngestionConsumer. *)
EXTENDS IngestionConsumer, TLC

CONSTANTS i1, i2, p1, p2, d1

OneProcess    == {i1}
TwoProcesses  == {i1, i2}
OnePartition  == {p1}
TwoPartitions == {p1, p2}
OneDevice     == {d1}

(* Processes and partitions are interchangeable; used in safety runs only. *)
Symmetry == Permutations(Instances) \cup Permutations(Partitions)
=============================================================================

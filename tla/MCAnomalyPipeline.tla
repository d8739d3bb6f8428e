-------------------------- MODULE MCAnomalyPipeline --------------------------
(* Model-checking instances of AnomalyPipeline. *)
EXTENDS AnomalyPipeline

(* A flat reading and a spike. *)
TwoValues == {1, 3}

(* Of two different readings each has |z| = 1, the "low" threshold.        *)
SmallThresholds == [low |-> 4, medium |-> 8, high |-> 12, critical |-> 16]
=============================================================================

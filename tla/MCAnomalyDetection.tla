------------------------- MODULE MCAnomalyDetection -------------------------
(* Model-checking instances of AnomalyDetection. *)
EXTENDS AnomalyDetection

(* A flat reading and a spike. *)
TwoValues == {1, 3}

(* Thresholds |z| = 1, 1.41, 1.73 and 2: within reach of five samples.     *)
SmallThresholds == [low |-> 4, medium |-> 8, high |-> 12, critical |-> 16]
=============================================================================

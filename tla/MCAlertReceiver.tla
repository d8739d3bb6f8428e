-------------------------- MODULE MCAlertReceiver --------------------------
(* Model-checking instance of AlertReceiver: one platform alert. *)
EXTENDS AlertReceiver

CONSTANTS a1

OneAlert   == {a1}
OneLabel   == {"ingestion"}
LabelOfOne == [a \in {a1} |-> "ingestion"]
=============================================================================

--------------------------- MODULE MCTelemetryApi ---------------------------
(* Two requests, a pool of one connection or two, and one event that may   *)
(* be sent twice.                                                          *)
EXTENDS TelemetryApi

CONSTANTS r1, r2, e1

TwoRequests == {r1, r2}
OneEvent    == {e1}
OneOrTwo    == {1, 2}
=============================================================================

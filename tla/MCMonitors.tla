----------------------------- MODULE MCMonitors -----------------------------
(* Two requests at a time, on two monitors, one of whose expressions       *)
(* Prometheus rejects.                                                     *)
EXTENDS Monitors, TLC

CONSTANTS h1, h2, m1, m2, valid, invalid

TwoHandlers == {h1, h2}
TwoIds      == {m1, m2}
TwoExprs    == {valid, invalid}
OneInvalid  == {invalid}

Symmetry == Permutations(TwoHandlers) \cup Permutations(TwoIds)
=============================================================================

--------------------------- MODULE MCPublication ---------------------------
(* Instances of Publication for TLC.                                       *)
EXTENDS Publication

CONSTANTS p1, p2, t1, t2

TwoProcs == {p1, p2}
TwoTemps == {t1, t2}
OneChecked == {p1}
============================================================================

----------------------------- MODULE MCRegistry -----------------------------
(* Instances of Registry for TLC.                                          *)
EXTENDS Registry, TLC

CONSTANTS p1, p2, k1, k2, k3, d1

TwoProcs == {p1, p2}
TwoKeys == {k1, k2}
ThreeKeys == {k1, k2, k3}
OneData == {d1}

\* A text that is as long as may be, and one that is longer.
TextsAtLimit == {MaxLen, MaxLen + 1}

Alike == Permutations(TwoProcs) \cup Permutations(ThreeKeys)
============================================================================

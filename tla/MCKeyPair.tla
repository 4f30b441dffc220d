----------------------------- MODULE MCKeyPair -----------------------------
(* Instances of KeyPair for TLC.                                           *)
EXTENDS KeyPair, TLC

CONSTANTS p1, p2

TwoProcs == {p1, p2}

Alike == Permutations(TwoProcs)
============================================================================

----------------------------- MODULE MCMaterial -----------------------------
(* Instances of Material for TLC.                                          *)
EXTENDS Material

CONSTANTS i1, i2

TwoInodes == {i1, i2}
============================================================================

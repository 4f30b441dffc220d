---------------------------- MODULE MCSealStream ----------------------------
(* Instances of SealStream for TLC.                                        *)
EXTENDS SealStream

Sizes == {1, 2, 3}
============================================================================

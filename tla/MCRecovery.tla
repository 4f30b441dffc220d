----------------------------- MODULE MCRecovery -----------------------------
(* Instances of Recovery for TLC.                                          *)
EXTENDS Recovery

CONSTANTS k1, k2, r1, r2, s1, s2, a1, a2, a3

Kems == <<k1, k2>>
RootFiles == <<r1, r2>>
SigningPairs == <<s1, s2>>
ArchiveFiles == <<a1, a2, a3>>
============================================================================

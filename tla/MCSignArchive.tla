--------------------------- MODULE MCSignArchive ---------------------------
(* Instances of SignArchive for TLC.                                       *)
EXTENDS SignArchive, TLC

CONSTANTS a1, a2, a3, s1, s2

ThreeArchives == {a1, a2, a3}
TheirFrames == (a1 :> 1) @@ (a2 :> 2) @@ (a3 :> 2)
TwoKeys == {s1, s2}

\* An archive whose first frame was damaged, and one with a frame of another.
NotSealed ==
    {[Sealed(a2) EXCEPT ![2].intact = FALSE],
     [Sealed(a2) EXCEPT ![2].of = a3]}

Alike == Permutations(TwoKeys)
============================================================================

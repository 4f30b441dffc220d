--------------------------- MODULE MCOpenArchive ---------------------------
(* Instances of OpenArchive for TLC.                                       *)
EXTENDS OpenArchive, TLC

CONSTANTS even, uneven, empty, s1, s2

\* Frames of equal length, which differ in nothing but the index; frames of
\* different lengths; and an empty file.
ThreeArchives == {even, uneven, empty}
TheirLens == (even :> <<1, 1, 1>>) @@ (uneven :> <<2, 1>>) @@ (empty :> <<0>>)
TwoSigners == {s1, s2}

\* An archive one frame of which was damaged before it was signed, and the frames of
\* one archive after the header of another.
NotSealed ==
    {[header |-> Header(even), frames |-> [Frames(even) EXCEPT ![2].body = Damaged]],
     [header |-> Header(uneven), frames |-> Frames(even)]}

Alike == Permutations(TwoSigners)
============================================================================

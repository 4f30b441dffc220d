---------------------------- MODULE Restoration ----------------------------
(***************************************************************************)
(* What restoring a backup promises to its owner, whoever kept the medium  *)
(* and whoever else uses the output directory: one answer.  That of open   *)
(* and of verify approves all of one sealed archive or nothing; that of    *)
(* provenance-verify, which has no keys, all of one signed envelope,       *)
(* whether it can be decrypted or not.  An output path that is in use is   *)
(* left alone, and otherwise gets, in one step, the whole plaintext of the *)
(* archive that is approved.  After a refusal the program has put nothing  *)
(* at the output path.  Only a failure of the machine may leave an output  *)
(* without a confirmation, and that output is whole as well.               *)
(***************************************************************************)
CONSTANTS
    Archive,  \* the archives ever sealed for these keys
    Sealed,   \* Sealed[a]: archive a as its maker sealed it
    Content,  \* Content[a]: the plaintext in it
    Signed    \* the envelopes that were ever signed, sealed archives or not

VARIABLES
    request,    \* what the owner asked for
    output,     \* whose file is at the output path: "absent", "other" or "ours"
    restored,   \* the plaintext in it, if it is ours
    answer,     \* what the owner was told
    approved    \* the envelope the answer is about, as it was read

vars == <<request, output, restored, answer, approved>>

Init ==
    /\ request \in {"open", "verify", "provenance-verify"}
    /\ output \in {"absent", "other"}
    /\ restored = {}
    /\ answer = "none"
    /\ approved = {}

\* The plaintext of an archive appears at the path, and the owner is told so, or
\* that it could not be confirmed.
Publish(a) ==
    /\ answer = "none" /\ request = "open" /\ output = "absent"
    /\ output' = "ours" /\ restored' = {Content[a]}
    /\ \/ answer' = "approved" /\ approved' = {Sealed[a]}
       \/ answer' = "failed" /\ UNCHANGED approved
    /\ UNCHANGED request

\* The archive is good, or the signature is, and that is all the owner wanted to know.
Approve(envelopes) ==
    /\ answer = "none"
    /\ \E e \in envelopes : answer' = "approved" /\ approved' = {e}
    /\ UNCHANGED <<request, output, restored>>

Verify == request = "verify" /\ Approve({Sealed[a] : a \in Archive})
VerifyProvenance == request = "provenance-verify" /\ Approve(Signed)

TurnDown ==
    /\ answer = "none"
    /\ answer' \in {"refused", "failed"}
    /\ UNCHANGED <<request, output, restored, approved>>

Occupy ==
    /\ answer = "none" /\ output = "absent"
    /\ output' = "other"
    /\ UNCHANGED <<request, restored, answer, approved>>

Next ==
    \/ \E a \in Archive : Publish(a)
    \/ Verify
    \/ VerifyProvenance
    \/ TurnDown
    \/ Occupy

Spec == Init /\ [][Next]_vars
============================================================================

----------------------------- MODULE WriteOnce -----------------------------
(***************************************************************************)
(* What an output path promises to the people who run pqbackup: it holds   *)
(* nothing or one file, a file that somebody was told about stays, and an  *)
(* invocation that was told "not published" has not published and never    *)
(* will.  Only a file nobody was told about may be lost again.             *)
(***************************************************************************)
CONSTANTS
    Proc,    \* the invocations
    NoInode  \* the path holds nothing

VARIABLES
    file,    \* the invocation whose file is at the path
    acked,   \* the invocations that reported success
    denied   \* the invocations that reported an error before publication

vars == <<file, acked, denied>>

Init ==
    /\ file = NoInode
    /\ acked = {}
    /\ denied = {}

Publish(p) ==
    /\ file = NoInode
    /\ p \notin denied
    /\ file' = p
    /\ UNCHANGED <<acked, denied>>

Acknowledge(p) ==
    /\ file = p
    /\ acked' = acked \cup {p}
    /\ UNCHANGED <<file, denied>>

Deny(p) ==
    /\ file # p
    /\ p \notin acked
    /\ denied' = denied \cup {p}
    /\ UNCHANGED <<file, acked>>

\* A power loss before anybody was told.
Lose ==
    /\ file # NoInode
    /\ acked = {}
    /\ file' = NoInode
    /\ UNCHANGED <<acked, denied>>

Next ==
    \/ \E p \in Proc : Publish(p) \/ Acknowledge(p) \/ Deny(p)
    \/ Lose

Spec == Init /\ [][Next]_vars
============================================================================

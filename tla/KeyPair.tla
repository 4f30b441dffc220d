------------------------------ MODULE KeyPair ------------------------------
(***************************************************************************)
(* keygen-kem and keygen-signing: create_key_directory, then               *)
(* write_key_pair, which stages a public and a secret file and publishes   *)
(* the secret before the public one.  There is no atomic publication of    *)
(* two files, so the order of the calls has to leave every crash and every *)
(* failed call in a state the operator can recover from.  Invocations may  *)
(* race for one pair of paths, or follow one that was killed.              *)
(***************************************************************************)
EXTENDS Naturals

CONSTANTS
    Proc,        \* the invocations; each generates one pair
    Final,       \* <<Final, kind>>: the published names
    NoInode,
    MaxFaults,   \* bound: failed calls and crashed processes
    MaxLosses    \* bound: power losses

ASSUME ProcAssumption == Final \notin Proc
ASSUME BoundAssumption == MaxFaults \in Nat /\ MaxLosses \in Nat

VARIABLES
    cached, disk, content, pages,   \* the key directory and the files in it
    dir,       \* the entry of the key directory in its parent
    inherited, \* history: the invocations that found a directory not yet durable
    at,        \* what each invocation does next
    kind,      \* the file of the pair it is busy with
    guards,    \* the temporary files its TemporaryFile values will remove
    leaked,    \* the temporary files that could not be removed
    outcome,   \* what each invocation reports
    faults,
    losses

Kind == {"public", "secret"}

ASSUME InodeAssumption == NoInode \notin Proc \X Kind

\* The temporary file of <<p, k>> has the name <<p, k>>: how temporary names
\* collide is the subject of Publication.
INSTANCE FileStore WITH
    Name <- (Proc \cup {Final}) \X Kind,
    Inode <- Proc \X Kind

fileVars == <<cached, disk, content, pages>>
dirVars == <<dir, inherited>>
envVars == <<faults, losses>>
vars == <<cached, disk, content, pages, dir, inherited, at, kind, guards, leaked, outcome, faults, losses>>

Over == {"end", "crashed"}

TypeOK ==
    /\ StoreTypeOK
    /\ dir \in {"absent", "cached", "durable"}
    /\ inherited \subseteq Proc
    /\ at \in [Proc -> {"idle", "mkdir", "dirsync", "lookup", "create", "write", "sync", "link",
                        "sync1", "unlink", "sync2", "drop", "dropsync"} \cup Over]
    /\ kind \in [Proc -> Kind]
    /\ guards \in [Proc -> SUBSET Kind]
    /\ leaked \subseteq Proc \X Kind
    /\ outcome \in [Proc -> {"none", "ok",
         "refused",      \* an error before the publications
         "incomplete",   \* "key-pair generation did not complete; inspect <secret>"
         "retained"}]    \* "key-pair generation incomplete: secret retained"
    /\ faults \in Nat
    /\ losses \in Nat

Init ==
    /\ StoreInit
    /\ dir \in {"absent", "durable"}
    /\ inherited = {}
    /\ at = [p \in Proc |-> "idle"]
    /\ kind = [p \in Proc |-> "public"]
    /\ guards = [p \in Proc |-> {}]
    /\ leaked = {}
    /\ outcome = [p \in Proc |-> "none"]
    /\ faults = 0
    /\ losses = 0

----------------------------------------------------------------------------
Goto(p, from, to) ==
    /\ at[p] = from
    /\ at' = [at EXCEPT ![p] = to]

Busy(p, k) == kind' = [kind EXCEPT ![p] = k]

Report(p, result) == outcome' = [outcome EXCEPT ![p] = result]

Fault ==
    /\ faults < MaxFaults
    /\ faults' = faults + 1
    /\ UNCHANGED losses

Mine(p) == <<p, kind[p]>>
Target(p) == <<Final, kind[p]>>

\* The order of the two commits.
CommitOrderSwapped == <<"public", "secret">>  \* variant: the usable half first
CommitOrder == <<"secret", "public">>

\* Where an error leaves the invocation: it drops its guards, if any.
Unwinding(left) == IF left = {} THEN "end" ELSE "drop"

\* create_key_directory looks for the directory, then creates it and
\* synchronizes its parent; a directory that is there is used as it is.
Start(p) ==
    /\ Goto(p, "idle", IF dir = "absent" THEN "mkdir" ELSE "lookup")
    /\ inherited' = IF dir = "cached" THEN inherited \cup {p} ELSE inherited
    /\ UNCHANGED <<fileVars, dir, kind, guards, outcome, leaked, envVars>>

MakeDirectory(p) ==
    /\ Goto(p, "mkdir", "dirsync")
    /\ dir = "absent"
    /\ dir' = "cached"
    /\ UNCHANGED <<fileVars, inherited, kind, guards, outcome, leaked, envVars>>

SyncParentOfDirectory(p) ==
    /\ Goto(p, "dirsync", "lookup")
    /\ dir' = "durable"
    /\ UNCHANGED <<fileVars, inherited, kind, guards, outcome, leaked, envVars>>

DirectoryFails(p) ==
    /\ \/ Goto(p, "mkdir", "end") /\ dir # "absent" /\ UNCHANGED envVars
       \/ \E a \in {"mkdir", "dirsync"} : Goto(p, a, "end") /\ Fault
    /\ Report(p, "refused")
    /\ UNCHANGED <<fileVars, dirVars, kind, guards, leaked>>

\* Neither file of the pair may exist; the public path is looked up first.
Lookup(p) ==
    /\ ~ Exists(Target(p))
    /\ \/ kind[p] = "public" /\ Goto(p, "lookup", "lookup") /\ Busy(p, "secret")
       \/ kind[p] = "secret" /\ Goto(p, "lookup", "create") /\ Busy(p, "public")
    /\ UNCHANGED <<fileVars, dirVars, guards, outcome, leaked, envVars>>

LookupFails(p) ==
    /\ Goto(p, "lookup", "end")
    /\ Report(p, "refused")
    /\ (Exists(Target(p)) /\ UNCHANGED envVars) \/ Fault
    /\ UNCHANGED <<fileVars, dirVars, kind, guards, leaked>>

\* stage_file, for the public and then for the secret file.
Create(p) ==
    /\ Goto(p, "create", "write")
    /\ CreateNew(Mine(p), Mine(p))
    /\ guards' = [guards EXCEPT ![p] = @ \cup {kind[p]}]
    /\ UNCHANGED <<dirVars, kind, outcome, leaked, envVars>>

Write(p) ==
    /\ \/ Goto(p, "write", "write") /\ WriteSome(Mine(p))
       \/ Goto(p, "write", "sync") /\ WriteRest(Mine(p))
    /\ UNCHANGED <<dirVars, kind, guards, outcome, leaked, envVars>>

Sync(p) ==
    /\ \/ kind[p] = "public" /\ Goto(p, "sync", "create") /\ Busy(p, "secret")
       \/ kind[p] = "secret" /\ Goto(p, "sync", "link") /\ Busy(p, CommitOrder[1])
    /\ SyncFile(Mine(p))
    /\ UNCHANGED <<dirVars, guards, outcome, leaked, envVars>>

StageFails(p) ==
    /\ \E a \in {"create", "write", "sync"} : Goto(p, a, Unwinding(guards[p]))
    /\ Fault
    /\ Report(p, "refused")
    /\ UNCHANGED <<fileVars, dirVars, kind, guards, leaked>>

\* TemporaryFile::commit, for one file and then for the other.
Link(p) ==
    /\ Goto(p, "link", "sync1")
    /\ HardLink(Mine(p), Target(p))
    /\ UNCHANGED <<dirVars, kind, guards, outcome, leaked, envVars>>

DirSync1(p) ==
    /\ Goto(p, "sync1", "unlink")
    /\ SyncDirectory
    /\ UNCHANGED <<dirVars, kind, guards, outcome, leaked, envVars>>

Unlink(p) ==
    /\ Goto(p, "unlink", "sync2")
    /\ Remove(Mine(p))
    /\ guards' = [guards EXCEPT ![p] = @ \ {kind[p]}]
    /\ UNCHANGED <<dirVars, kind, outcome, leaked, envVars>>

\* The call that follows the removal, and a variant without it.
NoFinalSync == UNCHANGED fileVars
FinalSync == SyncDirectory

DirSync2(p) ==
    /\ \/ /\ kind[p] = CommitOrder[1]
          /\ Goto(p, "sync2", "link") /\ Busy(p, CommitOrder[2])
          /\ UNCHANGED outcome
       \/ /\ kind[p] = CommitOrder[2]
          /\ Goto(p, "sync2", "end") /\ Report(p, "ok")
          /\ UNCHANGED kind
    /\ FinalSync
    /\ UNCHANGED <<dirVars, guards, leaked, envVars>>

\* Nothing that is published is removed; a variant takes back the first file
\* when the publication of the second fails.
TakeBack(p) == IF kind[p] = CommitOrder[2] THEN Remove(<<Final, CommitOrder[1]>>) ELSE UNCHANGED fileVars
Retain(p) == UNCHANGED fileVars

\* The target exists, or a call fails.
CommitFails(p) ==
    /\ \E a \in {"link", "sync1", "unlink", "sync2"} : Goto(p, a, Unwinding(guards[p]))
    /\ (at[p] = "link" /\ Exists(Target(p)) /\ UNCHANGED envVars) \/ Fault
    /\ Report(p, IF kind[p] = CommitOrder[1] THEN "incomplete" ELSE "retained")
    /\ Retain(p)
    /\ UNCHANGED <<dirVars, kind, guards, leaked>>

\* The guards are dropped in the reverse order of their creation.
NextGuard(p) == IF "secret" \in guards[p] THEN "secret" ELSE "public"

\* The guards that are left; a variant forgets the other file.
NoOtherGuard(p) == {}
OtherGuards(p) == guards[p] \ {NextGuard(p)}

Drop(p) ==
    /\ Goto(p, "drop", "dropsync")
    /\ Remove(<<p, NextGuard(p)>>)
    /\ guards' = [guards EXCEPT ![p] = OtherGuards(p)]
    /\ UNCHANGED <<dirVars, kind, outcome, leaked, envVars>>

DropSync(p) ==
    /\ Goto(p, "dropsync", Unwinding(guards[p]))
    /\ SyncDirectory
    /\ UNCHANGED <<dirVars, kind, guards, outcome, leaked, envVars>>

\* The removal fails and leaves the name; or only the synchronization does.
DropFails(p) ==
    /\ \/ /\ guards' = [guards EXCEPT ![p] = OtherGuards(p)]
          /\ leaked' = leaked \cup {<<p, NextGuard(p)>>}
          /\ Goto(p, "drop", Unwinding(guards'[p]))
       \/ /\ Goto(p, "dropsync", Unwinding(guards[p]))
          /\ UNCHANGED <<guards, leaked>>
    /\ Fault
    /\ UNCHANGED <<fileVars, dirVars, kind, outcome>>

Step(p) ==
    \/ MakeDirectory(p) \/ SyncParentOfDirectory(p) \/ DirectoryFails(p)
    \/ Lookup(p) \/ LookupFails(p)
    \/ Create(p) \/ Write(p) \/ Sync(p) \/ StageFails(p)
    \/ Link(p) \/ DirSync1(p) \/ Unlink(p) \/ DirSync2(p) \/ CommitFails(p)
    \/ Drop(p) \/ DropSync(p) \/ DropFails(p)

----------------------------------------------------------------------------
Running(p) == at[p] \notin Over \cup {"idle"}

Crash(p) ==
    /\ Running(p)
    /\ at' = [at EXCEPT ![p] = "crashed"]
    /\ Fault
    /\ UNCHANGED <<fileVars, dirVars, kind, guards, leaked, outcome>>

\* A directory whose own entry is not durable is lost with all it holds.
LosePower ==
    /\ losses < MaxLosses
    /\ losses' = losses + 1
    /\ \/ dir # "cached" /\ PowerLoss /\ UNCHANGED dir
       \/ /\ dir = "cached" /\ dir' = "absent"
          /\ cached' = [n \in DOMAIN cached |-> NoInode]
          /\ disk' = cached'
          /\ UNCHANGED <<content, pages>>
    /\ at' = [p \in Proc |-> IF Running(p) THEN "crashed" ELSE at[p]]
    /\ UNCHANGED <<inherited, kind, guards, leaked, outcome, faults>>

BackgroundWriteback ==
    /\ \/ (\E n \in DOMAIN cached : Writeback(n)) /\ UNCHANGED dir
       \/ dir = "cached" /\ dir' = "durable" /\ UNCHANGED fileVars
    /\ UNCHANGED <<inherited, at, kind, guards, leaked, outcome, envVars>>

Next ==
    \/ \E p \in Proc : Start(p) \/ Step(p) \/ Crash(p)
    \/ LosePower
    \/ BackgroundWriteback

Spec == Init /\ [][Next]_vars

----------------------------------------------------------------------------
(* Properties.                                                             *)

Published(p, k) == cached[<<Final, k>>] = <<p, k>> \/ disk[<<Final, k>>] = <<p, k>>

\* Whoever finds a public key, now or after a power loss, can rely on its own
\* secret being there, complete and durable: an archive sealed to that key, or
\* a statement signed for it, is never orphaned.  It follows that the two
\* published files are always of one generation (write_key_pair).
PublicImpliesSecret ==
    \A p \in Proc : Published(p, "public") =>
        /\ cached[<<Final, "secret">>] = <<p, "secret">>
        /\ disk[<<Final, "secret">>] = <<p, "secret">>
        /\ content[<<p, "secret">>] = "full" /\ pages[<<p, "secret">>] = "clean"

\* The variables keep their types, and the pair is published in that order.
KeyPairInv == TypeOK /\ PublicImpliesSecret

\* No step of a program removes or replaces a published key file, whatever
\* failed: the secret is retained when the second publication fails.
KeysAreKept ==
    [][losses' = losses =>
         \A k \in Kind : Exists(<<Final, k>>) =>
             cached'[<<Final, k>>] = cached[<<Final, k>>]]_vars

\* Both files, their names and the directory that holds them, and no temporary
\* copy of the secret that could come back.
Secured(p) ==
    /\ dir = "durable"
    /\ \A k \in Kind : /\ cached[<<Final, k>>] = <<p, k>>
                     /\ disk[<<Final, k>>] = <<p, k>>
                     /\ content[<<p, k>>] = "full" /\ pages[<<p, k>>] = "clean"
                     /\ cached[<<p, k>>] = NoInode /\ disk[<<p, k>>] = NoInode

\* "creation of each directory entry synchronized" (docs/SECRET_HANDLING.md):
\* whoever is told of a success has the pair for ever, power losses included.
EveryOkIsDurable == \A p \in Proc : outcome[p] = "ok" => Secured(p)

\* It holds for every invocation that made the directory, or found one whose
\* creator had come to synchronize it: create_key_directory, write_key_pair.
OkIsDurable == \A p \in Proc \ inherited : outcome[p] = "ok" => Secured(p)

\* What the errors of keygen say is what the operator will find, after a power
\* loss too: "secret retained" means the secret is there (in a directory that
\* is); "did not complete" means there is no public file of this run; any other
\* error means there is neither.
ReportHonest ==
    \A p \in Proc :
        /\ outcome[p] = "retained" /\ p \notin inherited =>
             cached[<<Final, "secret">>] = <<p, "secret">> /\ disk[<<Final, "secret">>] = <<p, "secret">>
        /\ outcome[p] \in {"incomplete", "refused"} => ~ Published(p, "public")
        /\ outcome[p] = "refused" => ~ Published(p, "secret")

\* Whatever keygen reports, success or one of its errors, is true for ever
\* (write_key_pair and its callers).
ReportsHold == OkIsDurable /\ ReportHonest

\* Key material is under a temporary name only while the guard of an invocation
\* that runs or was killed stands for it, or when its removal failed: whichever
\* call fails, an invocation that ends has tried to remove both files.  A power
\* loss may bring back names.
NoStrayKey ==
    losses = 0 =>
        \A p \in Proc :
            /\ \A k \in Kind : Exists(<<p, k>>) => k \in guards[p] \/ <<p, k>> \in leaked
            /\ at[p] = "end" => guards[p] = {}
============================================================================

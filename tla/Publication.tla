---------------------------- MODULE Publication ----------------------------
(***************************************************************************)
(* Every output pqbackup creates (archive, restored file, public header,   *)
(* root secret, list, policy) goes through TemporaryFile::create, writes   *)
(* and an fsync of the temporary file, and TemporaryFile::commit.  This    *)
(* module runs several invocations of the program that create the same     *)
(* output path, with I/O failures, crashes of a process and power losses   *)
(* between any two calls.                                                  *)
(***************************************************************************)
EXTENDS Naturals

CONSTANTS
    Proc,       \* the invocations; each creates at most one file, named after it
    Temp,       \* the names ".<output>.<random>.tmp"
    Dest,       \* the output path
    Checked,    \* the invocations that look at the output path before they start
    NoInode,
    MaxFaults,  \* bound: failed calls and crashed processes
    MaxLosses   \* bound: power losses

ASSUME ProcAssumption == NoInode \notin Proc /\ Checked \subseteq Proc
ASSUME NameAssumption == Dest \notin Temp
ASSUME BoundAssumption == MaxFaults \in Nat /\ MaxLosses \in Nat

VARIABLES
    cached, disk, content, pages,   \* the directory and the files
    pc,        \* what each invocation does next
    temp,      \* the temporary name of each invocation
    outcome,   \* what each invocation reports
    faults,
    losses

INSTANCE FileStore WITH Name <- Temp \cup {Dest}, Inode <- Proc

fileVars == <<cached, disk, content, pages>>
procVars == <<pc, temp, outcome>>
envVars == <<faults, losses>>
vars == <<cached, disk, content, pages, pc, temp, outcome, faults, losses>>

\* Before the file exists; while TemporaryFile guards it; in commit after the
\* link; in drop; and when the invocation is over.
Early == {"idle", "check", "pick", "create"}
Staging == {"write", "sync", "link"}
Linked == {"dirsync1", "unlink"}
Dropping == {"drop"}
Guarded == Staging \cup Linked \cup Dropping
Over == {"end", "leaked", "crashed"}

PCs == Early \cup Guarded \cup {"dirsync2", "dropsync"} \cup Over

Outcomes ==
    {"none",         \* nothing reported yet
     "ok",           \* success
     "unpublished",  \* an error: nothing was published
     "published"}    \* "output ... was published, but cleanup or directory
                     \*  durability confirmation failed"

TypeOK ==
    /\ StoreTypeOK
    /\ pc \in [Proc -> PCs]
    /\ temp \in [Proc -> Temp \cup {NoInode}]
    /\ outcome \in [Proc -> Outcomes]
    /\ faults \in Nat
    /\ losses \in Nat

Init ==
    /\ StoreInit
    /\ pc = [p \in Proc |-> "idle"]
    /\ temp = [p \in Proc |-> NoInode]
    /\ outcome = [p \in Proc |-> "none"]
    /\ faults = 0
    /\ losses = 0

----------------------------------------------------------------------------
Goto(p, from, to) ==
    /\ pc[p] = from
    /\ pc' = [pc EXCEPT ![p] = to]

Report(p, result) == outcome' = [outcome EXCEPT ![p] = result]

\* A call that fails.
Fault ==
    /\ faults < MaxFaults
    /\ faults' = faults + 1
    /\ UNCHANGED losses

Start(p) ==
    /\ Goto(p, "idle", IF p \in Checked THEN "check" ELSE "pick")
    /\ UNCHANGED <<fileVars, temp, outcome, envVars>>

\* "refusing to overwrite existing output"
Check(p) ==
    /\ IF Exists(Dest)
       THEN Goto(p, "check", "end") /\ Report(p, "unpublished")
       ELSE Goto(p, "check", "pick") /\ UNCHANGED outcome
    /\ UNCHANGED <<fileVars, temp, envVars>>

\* temporary_output_path: a name that does not exist when it is looked up.
Pick(p) ==
    /\ Goto(p, "pick", "create")
    /\ \E t \in Temp : ~ Exists(t) /\ temp' = [temp EXCEPT ![p] = t]
    /\ UNCHANGED <<fileVars, outcome, envVars>>

\* No name found in 32 attempts, or no randomness.
PickFails(p) ==
    /\ Goto(p, "pick", "end")
    /\ Report(p, "unpublished")
    /\ \/ Fault
       \/ (\A t \in Temp : Exists(t)) /\ UNCHANGED envVars
    /\ UNCHANGED <<fileVars, temp>>

\* TemporaryFile::create: the guard is made after the file.
Create(p) ==
    /\ Goto(p, "create", "write")
    /\ CreateNew(temp[p], p)
    /\ UNCHANGED <<temp, outcome, envVars>>

\* Variant: the guard is made before the file.
CreateFailsGuarded(p) ==
    /\ Goto(p, "create", "drop")
    /\ Report(p, "unpublished")
    /\ \/ Exists(temp[p]) /\ UNCHANGED envVars
       \/ Fault
    /\ UNCHANGED <<fileVars, temp>>

\* The name was taken since it was looked up, or the call failed: there is no
\* guard yet, and nothing is removed.
CreateFails(p) ==
    /\ Goto(p, "create", "end")
    /\ Report(p, "unpublished")
    /\ \/ Exists(temp[p]) /\ UNCHANGED envVars
       \/ Fault
    /\ UNCHANGED <<fileVars, temp>>

Write(p) ==
    /\ \/ Goto(p, "write", "write") /\ WriteSome(p)
       \/ Goto(p, "write", "sync") /\ WriteRest(p)
    /\ UNCHANGED <<temp, outcome, envVars>>

\* Variant: the staged file is not synchronized.
SyncSkipped(p) ==
    /\ Goto(p, "sync", "link")
    /\ UNCHANGED <<fileVars, temp, outcome, envVars>>

Sync(p) ==
    /\ Goto(p, "sync", "link")
    /\ SyncFile(p)
    /\ UNCHANGED <<temp, outcome, envVars>>

\* Any failure before the link: a write, flush or sync, a check of the input or
\* of the staged file, or the link itself.
StageFails(p) ==
    /\ \E s \in Staging : Goto(p, s, "drop")
    /\ Fault
    /\ Report(p, "unpublished")
    /\ UNCHANGED <<fileVars, temp>>

\* Variants: a rename, and a symbolic link.
LinkByRename(p) ==
    /\ Goto(p, "link", "dirsync1")
    /\ Rename(temp[p], Dest)
    /\ UNCHANGED <<temp, outcome, envVars>>

LinkSymbolic(p) ==
    /\ Goto(p, "link", "dirsync1")
    /\ ~ Exists(Dest)
    /\ cached' = [cached EXCEPT ![Dest] = temp[p]]
    /\ UNCHANGED <<disk, content, pages, temp, outcome, envVars>>

\* TemporaryFile::commit
Link(p) ==
    /\ Goto(p, "link", "dirsync1")
    /\ HardLink(temp[p], Dest)
    /\ UNCHANGED <<temp, outcome, envVars>>

LinkRefused(p) ==
    /\ Goto(p, "link", "drop")
    /\ Exists(Dest)
    /\ Report(p, "unpublished")
    /\ UNCHANGED <<fileVars, temp, envVars>>

DirSync1(p) ==
    /\ Goto(p, "dirsync1", "unlink")
    /\ SyncDirectory
    /\ UNCHANGED <<temp, outcome, envVars>>

Unlink(p) ==
    /\ Goto(p, "unlink", "dirsync2")
    /\ Remove(temp[p])
    /\ UNCHANGED <<temp, outcome, envVars>>

\* Variant: the directory is not synchronized again after the removal.
DirSync2Skipped(p) ==
    /\ Goto(p, "dirsync2", "end")
    /\ Report(p, "ok")
    /\ UNCHANGED <<fileVars, temp, envVars>>

DirSync2(p) ==
    /\ Goto(p, "dirsync2", "end")
    /\ SyncDirectory
    /\ Report(p, "ok")
    /\ UNCHANGED <<temp, envVars>>

\* Variant: the error does not mention the publication.
CommitFailsSilently(p) ==
    /\ \/ \E s \in Linked : Goto(p, s, "drop")
       \/ Goto(p, "dirsync2", "end")
    /\ Fault
    /\ Report(p, "unpublished")
    /\ UNCHANGED <<fileVars, temp>>

\* After the link every failure is reported as a publication; the temporary
\* name is dropped unless it is already gone.
CommitFails(p) ==
    /\ \/ \E s \in Linked : Goto(p, s, "drop")
       \/ Goto(p, "dirsync2", "end")
    /\ Fault
    /\ Report(p, "published")
    /\ UNCHANGED <<fileVars, temp>>

\* impl Drop for TemporaryFile
Drop(p) ==
    /\ Goto(p, "drop", "dropsync")
    /\ Remove(temp[p])
    /\ UNCHANGED <<temp, outcome, envVars>>

DropFails(p) ==
    /\ Goto(p, "drop", "leaked")
    /\ Fault
    /\ UNCHANGED <<fileVars, temp, outcome>>

DropSync(p) ==
    /\ Goto(p, "dropsync", "end")
    /\ SyncDirectory
    /\ UNCHANGED <<temp, outcome, envVars>>

\* The error of this synchronization is ignored.
DropSyncFails(p) ==
    /\ Goto(p, "dropsync", "end")
    /\ Fault
    /\ UNCHANGED <<fileVars, temp, outcome>>

Step(p) ==
    \/ Check(p) \/ Pick(p) \/ PickFails(p) \/ Create(p) \/ CreateFails(p)
    \/ Write(p) \/ Sync(p) \/ StageFails(p)
    \/ Link(p) \/ LinkRefused(p) \/ DirSync1(p) \/ Unlink(p) \/ DirSync2(p)
    \/ CommitFails(p)
    \/ Drop(p) \/ DropFails(p) \/ DropSync(p) \/ DropSyncFails(p)

----------------------------------------------------------------------------
Running(p) == pc[p] \notin Over \cup {"idle"}

\* The process is killed.
Crash(p) ==
    /\ Running(p)
    /\ pc' = [pc EXCEPT ![p] = "crashed"]
    /\ Fault
    /\ UNCHANGED <<fileVars, temp, outcome>>

LosePower ==
    /\ losses < MaxLosses
    /\ losses' = losses + 1
    /\ PowerLoss
    /\ pc' = [p \in Proc |-> IF Running(p) THEN "crashed" ELSE pc[p]]
    /\ UNCHANGED <<temp, outcome, faults>>

BackgroundWriteback ==
    /\ \E n \in Temp \cup {Dest} : Writeback(n)
    /\ UNCHANGED <<procVars, envVars>>

Next ==
    \/ \E p \in Proc : Start(p) \/ Step(p) \/ Crash(p)
    \/ LosePower
    \/ BackgroundWriteback

\* An invocation that was started keeps running.  Nobody has to start one, and
\* no call has to fail.
Work(p) == Step(p) /\ UNCHANGED faults

Spec ==
    /\ Init
    /\ [][Next]_vars
    /\ \A p \in Proc : WF_vars(Work(p))

----------------------------------------------------------------------------
(* Properties.                                                             *)

AtDest(p) == cached[Dest] = p \/ disk[Dest] = p

\* Whatever is found under the output path, now or after a power loss, is a
\* complete file whose content is durable: an invocation never exposes an
\* output it has not finished (stage_file_with, then commit).
DestComplete ==
    \A p \in Proc : AtDest(p) => content[p] = "full" /\ pages[p] = "clean"

\* An output path that exists never comes to lead to another file, except that
\* a power loss may take back an entry no process has been told about: commit
\* links instead of renaming, and drop removes temporary names only.
NoReplace ==
    [][/\ disk[Dest] # NoInode => disk'[Dest] = disk[Dest]
       /\ cached[Dest] # NoInode /\ losses' = losses => cached'[Dest] = cached[Dest]]_vars

\* An invocation that reported success has its file at the output path for
\* ever, power losses included, and has left no temporary name behind that
\* could come back: the two synchronizations of the directory in commit.
OkIsDurable ==
    \A p \in Proc : outcome[p] = "ok" =>
        /\ cached[Dest] = p /\ disk[Dest] = p
        /\ \A t \in Temp : cached[t] # p /\ disk[t] # p

\* An error that does not say "was published" means the file is not at the
\* output path and will never be; an error that does say so is true until the
\* next power loss.  The operator decides on a retry by this message.
ReportHonest ==
    \A p \in Proc :
        /\ outcome[p] = "unpublished" => ~ AtDest(p)
        /\ outcome[p] = "published" /\ losses = 0 => cached[Dest] = p

\* While an invocation holds its guard, the temporary name leads to its own
\* file, although names are drawn without a reservation and other invocations
\* remove theirs: what it links, and what it removes, is its own.
TempIsOurs ==
    \A p \in Proc : pc[p] \in Guarded => cached[temp[p]] = p

\* A temporary name is left behind only by an invocation still running, a
\* crashed one, or one that failed to remove it; a power loss may bring back
\* others.
RemnantExplained ==
    losses = 0 =>
        \A p \in Proc, t \in Temp :
            cached[t] = p => pc[p] \in Guarded \cup {"leaked", "crashed"}

\* Both together: a temporary name is under the hand of the invocation that
\* drew it, or there is a reason why it is still there (TemporaryFile).
TempsAreOurs == TempIsOurs /\ RemnantExplained

\* Of the invocations that race for one output path, one wins: unless a call
\* fails, a process dies or the power does, once somebody starts the output
\* comes to exist, however the names collide.
RaceHasWinner ==
    \A p \in Proc : Running(p) ~> (Exists(Dest) \/ faults > 0 \/ losses > 0)

\* The output path is write-once: the entries, the durability of the directory
\* and the reports of all invocations together implement WriteOnce.
Promise == INSTANCE WriteOnce WITH
    file <- cached[Dest],
    acked <- {p \in Proc : outcome[p] = "ok"},
    denied <- {p \in Proc : outcome[p] = "unpublished"}

ImplementsWriteOnce == Promise!Spec

\* What the path promises, and what a power loss may do to it beyond that: it
\* never exchanges the file, and never takes back one that is durable.
OutputIsWriteOnce == ImplementsWriteOnce /\ NoReplace
============================================================================

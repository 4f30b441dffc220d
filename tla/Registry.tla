------------------------------ MODULE Registry ------------------------------
(***************************************************************************)
(* The two record files of pqbackup: the signer trust policy               *)
(* (signer-policy init, add, set-status) and the root-key inventory        *)
(* (inventory init, add, set-status).  init publishes an empty file and    *)
(* never replaces one.  The other commands read the whole file, check and  *)
(* change the records in memory, write a temporary file and rename it over *)
(* the old one.  Nothing locks the file: two invocations may overlap.      *)
(***************************************************************************)
EXTENDS Naturals, FiniteSetsExt

CONSTANTS
    Proc,        \* the invocations, each with one command
    Key,         \* <<id, epoch>> of a record
    Data,        \* the rest of a record: identity and fingerprint, or custody
    Dest,        \* the path of the file
    Genesis,     \* the file that may be there in the beginning
    NoInode,
    MaxLen,      \* MAX_SIGNER_POLICY_LEN and MAX_INVENTORY_LEN, scaled down
    EditedLens,  \* the lengths a text that was edited by hand may have
    MaxFaults,   \* bound: failed calls and killed processes
    MaxLosses    \* bound: power losses

ASSUME NamesAssumption == Dest \notin Proc /\ Genesis \notin Proc /\ NoInode \notin Proc \cup {Genesis}
ASSUME KeyAssumption == IsFiniteSet(Key)
ASSUME BoundAssumption == {MaxLen, MaxFaults, MaxLosses} \subseteq Nat
ASSUME TextAssumption == EditedLens \subseteq Nat

VARIABLES
    cached, disk, content, pages,   \* the directory and the files in it
    lifecycle, \* which of the two files it is: "signer" or "root"
    edited,    \* the length of the text of Genesis
    body,      \* body[i]: the records written, or to be written, to file i
    pc,        \* what each invocation does next
    command,   \* what each invocation was asked to do
    outcome,   \* what each invocation reports
    overlapped,\* history: two invocations have run at the same time
    faults,
    losses

\* The temporary file of p is named p.
INSTANCE FileStore WITH Name <- Proc \cup {Dest}, Inode <- Proc \cup {Genesis}

fileVars == <<cached, disk, content, pages>>
commandVars == <<lifecycle, edited, command, overlapped>>
envVars == <<faults, losses>>
vars == <<cached, disk, content, pages, lifecycle, edited, body, pc, command, outcome, overlapped, faults, losses>>

----------------------------------------------------------------------------
(* The records and their lifecycles.                                       *)

SignerStatus == {"trusted", "retired", "revoked"}
RootKeyStatus == {"active", "retired", "compromised", "destroyed"}

\* ensure_signer_status_transition
SignerTransitions ==
    ({"trusted"} \X SignerStatus)
        \cup ({"retired"} \X {"retired", "revoked"})
        \cup {<<"revoked", "revoked">>}

\* ensure_root_key_status_transition; in a variant a compromise can be called off.
AfterCompromiseBack == {"retired", "compromised", "destroyed"}
AfterCompromise == {"compromised", "destroyed"}

RootKeyTransitions ==
    ({"active"} \X RootKeyStatus)
        \cup ({"retired"} \X {"retired", "compromised", "destroyed"})
        \cup ({"compromised"} \X AfterCompromise)
        \cup {<<"destroyed", "destroyed">>}

Status == IF lifecycle = "signer" THEN SignerStatus ELSE RootKeyStatus
Permitted == IF lifecycle = "signer" THEN SignerTransitions ELSE RootKeyTransitions

\* The text of an ID stands for the key whatever its letters are; the commands
\* write and look for the lower-case one.
Text == Key \X {"lower", "mixed"}
Canonical(key) == <<key, "lower">>

Record == [id : Text, status : Status, data : Data]

Command == [op : {"init"}]
               \cup [op : {"add"}, key : Key, status : Status, data : Data]
               \cup [op : {"set"}, key : Key, status : Status]

\* The length of a record: that of its status, and 10 for the rest.  The words
\* for the states of a signer are equally long; a variant has a longer one.
SignerWordLonger(status) == IF status = "revoked" THEN 8 ELSE 7
SignerWord(status) == 7
RootKeyWord(status) ==
    CASE status = "active" -> 6 [] status = "retired" -> 7
      [] status = "destroyed" -> 9 [] status = "compromised" -> 11

RecordLen(r) == 10 + IF lifecycle = "signer" THEN SignerWord(r.status) ELSE RootKeyWord(r.status)

\* What a command writes is the text of encode_signer_policy or encode_inventory,
\* however the text it has read was laid out, and has to keep within the limit.
EncodedLen(records) == MapThenSumSet(RecordLen, records)
Fits(records) == EncodedLen(records) <= MaxLen

\* The length of the text of a file, which the readers look at: somebody may have
\* written the first one with less white space, or with comments.
TextLen(inode) == IF inode = Genesis THEN edited ELSE EncodedLen(body[inode])

\* validate_signer_policy and validate_inventory
CanonicalOnly(records) == \A r \in records : r.id[2] = "lower"

Unique(records) == \A r, s \in records : r.id[1] = s.id[1] => r = s
Valid(records) == CanonicalOnly(records) /\ Unique(records)

\* read_signer_policy, read_inventory
Readable(inode) == TextLen(inode) <= MaxLen /\ Valid(body[inode])

NewRecord(c) == [id |-> Canonical(c.key), status |-> c.status, data |-> c.data]

\* Variant: no transition check.
MayMoveAnywhere(from, to) == TRUE
MayMove(from, to) == <<from, to>> \in Permitted

\* What a command makes of the records it reads, nothing if it refuses: an add
\* needs a new key, a change of status a record of the key and a transition the
\* lifecycle permits, and the new text has to keep within the limit.
Added(c, records) ==
    {new \in {records \cup {NewRecord(c)}} :
        (\A r \in records : r.id # Canonical(c.key)) /\ Valid(new)}

Moved(c, records) ==
    {(records \ {r}) \cup {[r EXCEPT !.status = c.status]} :
        r \in {x \in records : x.id = Canonical(c.key) /\ MayMove(x.status, c.status)}}

Changes(c, records) ==
    {new \in IF c.op = "add" THEN Added(c, records) ELSE Moved(c, records) : Fits(new)}

----------------------------------------------------------------------------
Over == {"end", "crashed"}
Running(p) == pc[p] \notin Over \cup {"idle"}

TypeOK ==
    /\ StoreTypeOK
    /\ lifecycle \in {"signer", "root"}
    /\ edited \in Nat
    /\ body \in [Proc \cup {Genesis} -> SUBSET Record]
    /\ pc \in [Proc -> {"idle", "read", "create", "write", "sync", "rename", "link", "dirsync",
                        "unlink", "dirsync2", "drop", "dropsync"} \cup Over]
    /\ command \in [Proc -> Command \cup {[op |-> "none"]}]
    /\ outcome \in [Proc -> {"none", "ok",
                        "refused",      \* an error that leaves the file alone
                        "replaced"}]    \* "output ... was replaced [published], but ...
                                        \*  durability confirmation failed"
    /\ overlapped \in BOOLEAN
    /\ faults \in Nat
    /\ losses \in Nat

\* What may be there: nothing, an empty file, one record, also with an ID that was
\* edited by hand, and a file at the limit or, if its text is a short one, beyond
\* the limit when it is written again.
FirstRecord == CHOOSE s \in {"trusted", "active"} : s \in Status
Genesises ==
    {{r} : r \in Record}
        \cup {{[id |-> Canonical(k), status |-> FirstRecord, data |-> d] : k \in K} : K \in SUBSET Key, d \in Data}

Init ==
    /\ lifecycle \in {"signer", "root"}
    /\ cached \in {[n \in Proc \cup {Dest} |-> IF n = Dest THEN first ELSE NoInode] :
                      first \in {Genesis, NoInode}}
    /\ disk = cached
    /\ content = [i \in Proc \cup {Genesis} |-> IF i = Genesis THEN "full" ELSE "none"]
    /\ pages = [i \in Proc \cup {Genesis} |-> IF i = Genesis THEN "clean" ELSE "dirty"]
    /\ body \in {[i \in Proc \cup {Genesis} |-> IF i = Genesis THEN records ELSE {}] :
                    records \in IF cached[Dest] = Genesis THEN Genesises ELSE {{}}}
    /\ edited \in IF cached[Dest] = Genesis THEN EditedLens ELSE {0}
    /\ pc = [p \in Proc |-> "idle"]
    /\ command = [p \in Proc |-> [op |-> "none"]]
    /\ outcome = [p \in Proc |-> "none"]
    /\ overlapped = FALSE
    /\ faults = 0
    /\ losses = 0

Goto(p, from, to) ==
    /\ pc[p] = from
    /\ pc' = [pc EXCEPT ![p] = to]

Inits(p) == command[p].op = "init"

Report(p, result) == outcome' = [outcome EXCEPT ![p] = result]

Fault ==
    /\ faults < MaxFaults
    /\ faults' = faults + 1
    /\ UNCHANGED losses

\* init does not look at the path before it has a file to publish.
Start(p) ==
    /\ \E c \in Command :
          /\ command' = [command EXCEPT ![p] = c]
          /\ Goto(p, "idle", IF c.op = "init" THEN "create" ELSE "read")
    /\ overlapped' = (overlapped \/ \E q \in Proc : Running(q))
    /\ UNCHANGED <<fileVars, lifecycle, edited, body, outcome, envVars>>

\* read_signer_policy or read_inventory opens the file once and reads all of it;
\* the command is checked against that copy and applied to it in memory.
Usable ==
    /\ Exists(Dest)
    /\ content[cached[Dest]] = "full"
    /\ Readable(cached[Dest])

Read(p) ==
    /\ Goto(p, "read", "create")
    /\ Usable
    /\ \E new \in Changes(command[p], body[cached[Dest]]) : body' = [body EXCEPT ![p] = new]
    /\ UNCHANGED <<fileVars, commandVars, outcome, envVars>>

Refuse(p) ==
    /\ Goto(p, "read", "end")
    /\ \/ (Usable => Changes(command[p], body[cached[Dest]]) = {}) /\ UNCHANGED envVars
       \/ Fault
    /\ Report(p, "refused")
    /\ UNCHANGED <<fileVars, commandVars, body>>

\* write_new_file, replace_signer_policy, replace_inventory: TemporaryFile::create,
\* the text, and its synchronization.
Create(p) ==
    /\ Goto(p, "create", "write")
    /\ CreateNew(p, p)
    /\ UNCHANGED <<commandVars, body, outcome, envVars>>

Write(p) ==
    /\ \/ Goto(p, "write", "write") /\ WriteSome(p)
       \/ Goto(p, "write", "sync") /\ WriteRest(p)
    /\ UNCHANGED <<commandVars, body, outcome, envVars>>

\* Variant: the new file is not synchronized.
NoSync(p) == UNCHANGED fileVars
StagedSync(p) == SyncFile(p)

Sync(p) ==
    /\ Goto(p, "sync", IF Inits(p) THEN "link" ELSE "rename")
    /\ StagedSync(p)
    /\ UNCHANGED <<commandVars, body, outcome, envVars>>

StageFails(p) ==
    /\ \/ Goto(p, "create", "end")
       \/ \E s \in {"write", "sync", "rename", "link"} : Goto(p, s, "drop")
    /\ Fault
    /\ Report(p, "refused")
    /\ UNCHANGED <<fileVars, commandVars, body>>

\* TemporaryFile::replace
RenameInto(p) ==
    /\ Goto(p, "rename", "dirsync")
    /\ Rename(p, Dest)
    /\ UNCHANGED <<commandVars, body, outcome, envVars>>

\* TemporaryFile::commit, for init.
LinkInto(p) ==
    /\ \/ Goto(p, "link", "dirsync") /\ HardLink(p, Dest) /\ UNCHANGED outcome
       \/ Goto(p, "link", "drop") /\ Exists(Dest) /\ Report(p, "refused") /\ UNCHANGED fileVars
    /\ UNCHANGED <<commandVars, body, envVars>>

\* Variant: the directory is not synchronized.
NoDirSync(p) == UNCHANGED fileVars
ConfirmedSync(p) == SyncDirectory

DirSync(p) ==
    /\ \/ Inits(p) /\ Goto(p, "dirsync", "unlink") /\ UNCHANGED outcome
       \/ ~ Inits(p) /\ Goto(p, "dirsync", "end") /\ Report(p, "ok")
       \/ Goto(p, "dirsync2", "end") /\ Report(p, "ok")
    /\ ConfirmedSync(p)
    /\ UNCHANGED <<commandVars, body, envVars>>

Unlink(p) ==
    /\ Goto(p, "unlink", "dirsync2")
    /\ Remove(p)
    /\ UNCHANGED <<commandVars, body, outcome, envVars>>

\* Variant: the error does not mention the replacement.
Silence == "refused"
Warning == "replaced"

DirSyncFails(p) ==
    /\ \/ \E s \in {"dirsync", "unlink"} : Goto(p, s, IF Inits(p) THEN "drop" ELSE "end")
       \/ Goto(p, "dirsync2", "end")
    /\ Fault
    /\ Report(p, Warning)
    /\ UNCHANGED <<fileVars, commandVars, body>>

\* impl Drop for TemporaryFile: the removal, and a synchronization of the
\* directory whose failure is ignored.
Drop(p) ==
    /\ \/ Goto(p, "drop", "dropsync") /\ Remove(p) /\ UNCHANGED envVars
       \/ Goto(p, "drop", "end") /\ UNCHANGED fileVars /\ Fault
    /\ UNCHANGED <<commandVars, body, outcome>>

DropSync(p) ==
    /\ Goto(p, "dropsync", "end")
    /\ \/ SyncDirectory /\ UNCHANGED envVars
       \/ UNCHANGED fileVars /\ Fault
    /\ UNCHANGED <<commandVars, body, outcome>>

Crash(p) ==
    /\ Running(p)
    /\ pc' = [pc EXCEPT ![p] = "crashed"]
    /\ Fault
    /\ UNCHANGED <<fileVars, commandVars, body, outcome>>

LosePower ==
    /\ losses < MaxLosses
    /\ losses' = losses + 1
    /\ PowerLoss
    /\ pc' = [p \in Proc |-> IF Running(p) THEN "crashed" ELSE pc[p]]
    /\ UNCHANGED <<commandVars, body, outcome, faults>>

BackgroundWriteback ==
    /\ \E n \in Proc \cup {Dest} : Writeback(n)
    /\ UNCHANGED <<commandVars, body, pc, outcome, envVars>>

Next ==
    \/ \E p \in Proc :
         \/ Start(p) \/ Read(p) \/ Refuse(p)
         \/ Create(p) \/ Write(p) \/ Sync(p) \/ StageFails(p)
         \/ RenameInto(p) \/ LinkInto(p) \/ DirSync(p) \/ Unlink(p) \/ DirSyncFails(p)
         \/ Drop(p) \/ DropSync(p) \/ Crash(p)
    \/ LosePower
    \/ BackgroundWriteback

Spec == Init /\ [][Next]_vars

----------------------------------------------------------------------------
(* Properties.                                                             *)

VersionIn(inode) == IF inode = NoInode THEN {} ELSE body[inode]
Visible == VersionIn(cached[Dest])
Durable == VersionIn(disk[Dest])

\* Every record is still there, for the same public key or custody, with a
\* status its lifecycle permits from the earlier one.
Continues(old, new) ==
    \A r \in old : \E s \in new :
        s.id = r.id /\ s.data = r.data /\ <<r.status, s.status>> \in Permitted

\* "Lifecycle changes through the CLI are monotonic" (docs/PROVENANCE_POLICY.md,
\* docs/KEY_MANAGEMENT.md): while commands do not overlap, what verification
\* reads never goes back to an earlier status and never loses a record, except
\* by a power loss.  It covers init as well, which must not empty a file.
LifecycleMonotone ==
    [][losses' = losses /\ ~ overlapped' => Continues(Visible, Visible')]_vars

\* A step that gives authority back to a key that had lost it.
Regained ==
    \E r \in Visible, s \in Visible' :
        /\ r.id = s.id
        /\ r.status \in {"revoked", "compromised", "destroyed"}
        /\ s.status \in {"trusted", "active", "retired"}

\* "A terminal or compromised state cannot regain authority"
\* (docs/PHASE6_REMEDIATION.md), "a revoked epoch cannot return to trusted or
\* retired" (docs/PROVENANCE_POLICY.md), stated without the transition tables.
\* The words have no exception for commands that overlap ...
NoAuthorityRegained == [][losses' = losses => ~ Regained]_vars

\* ... and the code keeps it while they do not.
NoAuthorityRegainedInTurn == [][losses' = losses /\ ~ overlapped' => ~ Regained]_vars

\* Nor does what survives a power loss ever go back, power losses included.
DurableMonotone == [][~ overlapped' => Continues(Durable, Durable')]_vars

\* What is in force and what is durable both follow the lifecycle (add_signer,
\* set_signer_status and their inventory counterparts).
StatusesAdvance == LifecycleMonotone /\ DurableMonotone

\* The version of p comes into force: what its command makes of the version it
\* replaces, or the first version.
TakesEffect(p) ==
    /\ cached[Dest] # p /\ cached'[Dest] = p
    /\ IF Inits(p)
       THEN cached[Dest] = NoInode /\ Visible' = {}
       ELSE cached[Dest] # NoInode /\ Visible' \in Changes(command[p], Visible)

\* While commands do not overlap each takes effect in one step or not at all, on
\* the records in force at that step, however long ago it has read them, and
\* nothing else changes them but a power loss.
AtomicInTurn ==
    [][losses' = losses /\ ~ overlapped' =>
          \/ cached'[Dest] = cached[Dest] /\ Visible' = Visible
          \/ \E p \in Proc : TakesEffect(p)]_vars

\* A record file that is changed by one command at a time is as good as one that
\* each command changes at once, and never goes back (add_signer,
\* set_signer_status, init_signer_policy and their inventory counterparts).
CommandsInTurn == StatusesAdvance /\ AtomicInTurn

\* A command that reported success stays in force whatever happens next: its
\* record keeps the status it was given, or moves on from there.  Revocation
\* is worth nothing without it.
AcknowledgedStays ==
    ~ overlapped => \A p \in Proc : outcome[p] = "ok" =>
        \A inode \in {cached[Dest], disk[Dest]} :
            /\ inode # NoInode
            /\ ~ Inits(p) => \E r \in VersionIn(inode) :
                  /\ r.id = Canonical(command[p].key)
                  /\ <<command[p].status, r.status>> \in Permitted

\* Whoever opens the file at any instant, also after a power loss and while
\* commands overlap, finds one complete version the readers accept, unless it
\* is still the one that was there in the beginning: publication and rename of
\* a synchronized file.
AlwaysReadable ==
    \A i \in {cached[Dest], disk[Dest]} \ {Genesis, NoInode} :
        /\ content[i] = "full" /\ pages[i] = "clean"
        /\ Readable(i)

\* The variables keep their types, and the file is always one the readers accept.
RegistryInv == TypeOK /\ AlwaysReadable

\* An error that does not say "was replaced" means the version of that
\* invocation is not, and will not be, in force.
RefusedIsUnchanged ==
    \A p \in Proc : outcome[p] = "refused" => cached[Dest] # p /\ disk[Dest] # p

\* Every signer of a policy that a command has written can be revoked at once:
\* its record is found under its ID, the lifecycle permits it from every status,
\* and a file at the size limit has room for it.  Of a policy that was edited by
\* hand this is so if it is within the limit when it is encoded again: the readers
\* measure the text they read, replace_signer_policy the one it writes.
RevocationPossible ==
    lifecycle = "signer" /\ Usable /\ (cached[Dest] = Genesis => Fits(Visible)) =>
        \A r \in Visible :
            Changes([op |-> "set", key |-> r.id[1], status |-> "revoked"], Visible) # {}
============================================================================

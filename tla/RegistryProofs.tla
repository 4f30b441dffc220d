--------------------------- MODULE RegistryProofs ---------------------------
(***************************************************************************)
(* What is proved of the signer policy and of the root inventory, for any  *)
(* number of invocations, keys, faults and power losses.                   *)
(*                                                                         *)
(* The invariant has three layers.  Commanded and FileInv hold whatever    *)
(* overlaps: they follow each new version through its staging and say that *)
(* only checked, written and synchronized versions get to the path.        *)
(* TurnInv adds what holds while no two commands have overlapped: what is  *)
(* durable is behind what is visible, and what is about to be renamed      *)
(* continues what it replaces.                                             *)
(* Current says what exactly that is: what the command makes of what it    *)
(* replaces, which makes the rename the whole effect of a command.         *)
(***************************************************************************)
EXTENDS Registry, FiniteSetTheorems, WellFoundedInduction, TLAPS

Staging == {"create", "write", "sync"}
Publishing == {"rename", "link"}

AtDest(p) == cached[Dest] = p \/ disk[Dest] = p

\* A temporary name leads to the file of its invocation.
Named == \A p \in Proc : cached[p] \in {p, NoInode} /\ disk[p] \in {p, NoInode}

\* Before it publishes an invocation has reported nothing, and its file is not at Dest.
Unpublished ==
    \A p \in Proc : pc[p] \in {"idle", "read"} \cup Staging \cup Publishing =>
        outcome[p] = "none" /\ ~ AtDest(p)

\* What replace_* and write_new_file may write: the readers accept its own text.
Acceptable(S) == Valid(S) /\ Fits(S)

\* The records it will publish have been checked; those of init are none.
Checked ==
    \A p \in Proc :
        /\ pc[p] \in {"idle", "read"} => body[p] = {}
        /\ pc[p] \in Staging \cup Publishing => Acceptable(body[p])

\* What is published has been written and synchronized, in this order.
Publishable ==
    \A p \in Proc :
        /\ pc[p] \in {"sync"} \cup Publishing => content[p] = "full"
        /\ pc[p] \in Publishing => pages[p] = "clean"

PublishedWhole ==
    \A p \in Proc : AtDest(p) => content[p] = "full" /\ pages[p] = "clean" /\ Acceptable(body[p])

FileInv ==
    /\ Named
    /\ Unpublished
    /\ Checked
    /\ Publishable
    /\ PublishedWhole
    /\ RefusedIsUnchanged

\* What init publishes, a file without records, is acceptable.
LEMMA EmptyIsAcceptable == Acceptable({})
<1>1. MapThenSumSet(RecordLen, {}) = 0
  BY DEF MapThenSumSet, MapThenFoldSet
<1>2. Fits({})
  BY <1>1, BoundAssumption DEF Fits, EncodedLen
<1> QED
  BY <1>2 DEF Acceptable, Valid, CanonicalOnly, Unique

\* That depends on which of the two files it is, and on nothing else.
LEMMA SameLimits == lifecycle' = lifecycle => \A S : Acceptable(S)' <=> Acceptable(S)
<1> SUFFICES ASSUME lifecycle' = lifecycle, NEW S PROVE Acceptable(S)' <=> Acceptable(S)
  OBVIOUS
<1>1. Fits(S)' <=> Fits(S)
  BY DEF Fits, EncodedLen, RecordLen, MapThenSumSet, MapThenFoldSet
<1>2. Valid(S)' <=> Valid(S)
  BY DEF Valid, CanonicalOnly, Unique
<1> QED
  BY <1>1, <1>2 DEF Acceptable

\* A file that an invocation has written is one the readers accept exactly if its
\* records are acceptable: its text is the encoded one.
LEMMA OwnTextIsEncoded == \A p \in Proc : Readable(p) <=> Acceptable(body[p])
BY NamesAssumption DEF Readable, TextLen, Acceptable, Fits

\* add and set-status make an acceptable file of any the readers accept, also of one
\* that is too long when it is encoded again.
LEMMA ChangesAcceptable ==
  ASSUME NEW c, NEW S, Valid(S), NEW new \in Changes(c, S)
  PROVE  Acceptable(new)
<1>1. Fits(new) /\ (new \in Added(c, S) \/ new \in Moved(c, S))
  BY DEF Changes
<1>2. CASE new \in Added(c, S)
  BY <1>1, <1>2 DEF Added, Acceptable
<1>3. CASE new \in Moved(c, S)
  <2>1. PICK r \in S : new = (S \ {r}) \cup {[r EXCEPT !.status = c.status]} /\ r.id = Canonical(c.key)
    BY <1>3 DEF Moved
  <2>2. PICK s : s = [r EXCEPT !.status = c.status]
    OBVIOUS
  <2>3. s.id = r.id
    BY <2>2
  <2>4. \A x \in new : x = s \/ (x \in S /\ x # r)
    BY <2>1, <2>2
  <2>5. CanonicalOnly(new)
    BY <2>3, <2>4 DEF Valid, CanonicalOnly
  <2>6. Unique(new)
    BY <2>3, <2>4 DEF Valid, Unique
  <2> QED
    BY <1>1, <2>5, <2>6 DEF Acceptable, Valid
<1> QED
  BY <1>1, <1>2, <1>3

\* Which commands come to which calls.
Commanded ==
    \A p \in Proc :
        /\ pc[p] # "idle" => command[p] \in Command
        /\ pc[p] \in {"read", "rename"} => ~ Inits(p)
        /\ pc[p] \in {"link", "unlink", "dirsync2"} => Inits(p)
        /\ Inits(p) => body[p] = {}

\* add and set-status make records out of records.
LEMMA ChangesType ==
  ASSUME NEW c \in Command, c.op # "init", NEW S \in SUBSET Record, NEW new \in Changes(c, S)
  PROVE  new \in SUBSET Record
<1>1. c.status \in Status /\ c.key \in Key
  BY DEF Command
<1>2. CASE c.op = "add"
  <2>1. c.data \in Data
    BY <1>2 DEF Command
  <2>2. NewRecord(c) \in Record
    BY <1>1, <2>1 DEF NewRecord, Record, Canonical, Text
  <2> QED
    BY <1>2, <2>2 DEF Changes, Added
<1>3. CASE c.op # "add"
  <2>1. PICK r \in S : new = (S \ {r}) \cup {[r EXCEPT !.status = c.status]}
    BY <1>3 DEF Changes, Moved
  <2>2. [r EXCEPT !.status = c.status] \in Record
    BY <1>1 DEF Record
  <2> QED
    BY <2>1, <2>2
<1> QED
  BY <1>2, <1>3

\* Every step keeps the types.
LEMMA NextTypeOK == TypeOK /\ Commanded /\ [Next]_vars => TypeOK'
<1> SUFFICES ASSUME TypeOK, Commanded, [Next]_vars PROVE TypeOK'
  OBVIOUS
<1> USE DEF TypeOK, StoreTypeOK, Content, Over, commandVars, envVars, fileVars
<1>0. lifecycle' = lifecycle /\ edited' = edited
  BY DEF Next, Start, Read, Refuse, Create, Write, Sync, StageFails, RenameInto, LinkInto, DirSync, Unlink,
         DirSyncFails, Drop, DropSync, Crash, LosePower, BackgroundWriteback, vars
<1>1. Status' = Status /\ Command' = Command /\ Record' = Record
  BY <1>0 DEF Status, Command, Record
<1> USE <1>0, <1>1
<1> HIDE DEF Status
<1>2. ASSUME NEW p \in Proc,
             \/ Start(p) \/ Read(p) \/ Refuse(p) \/ Create(p) \/ Write(p) \/ Sync(p) \/ StageFails(p)
             \/ RenameInto(p) \/ LinkInto(p) \/ DirSync(p) \/ Unlink(p) \/ DirSyncFails(p)
             \/ Drop(p) \/ DropSync(p) \/ Crash(p)
      PROVE  TypeOK'
  <2> USE DEF Goto, Report, Fault
  <2>1. CASE Start(p)
    BY <2>1 DEF Start
  <2>2. CASE Read(p)
    <3>0. pc[p] = "read" /\ cached[Dest] # NoInode
      BY <2>2 DEF Read, Usable, Exists
    <3>1. command[p] \in Command /\ command[p].op # "init" /\ cached[Dest] \in Proc \cup {Genesis}
      BY <3>0 DEF Commanded, Inits
    <3>2. body[cached[Dest]] \in SUBSET Record
      BY <3>1
    <3>3. PICK new \in Changes(command[p], body[cached[Dest]]) : body' = [body EXCEPT ![p] = new]
      BY <2>2 DEF Read
    <3>4. new \in SUBSET Record
      BY <3>1, <3>2, ChangesType
    <3> QED
      BY <2>2, <3>3, <3>4 DEF Read
  <2>3. CASE Refuse(p)
    BY <2>3 DEF Refuse
  <2>4. CASE Create(p)
    BY <2>4 DEF Create, CreateNew
  <2>5. CASE Write(p)
    BY <2>5 DEF Write, WriteSome, WriteRest
  <2>6. CASE Sync(p)
    BY <2>6 DEF Sync, StagedSync, SyncFile, Inits
  <2>7. CASE StageFails(p)
    BY <2>7 DEF StageFails
  <2>8. CASE RenameInto(p)
    BY <2>8 DEF RenameInto, Rename
  <2>9. CASE LinkInto(p)
    BY <2>9 DEF LinkInto, HardLink
  <2>10. CASE DirSync(p)
    BY <2>10 DEF DirSync, ConfirmedSync, SyncDirectory
  <2>11. CASE Unlink(p)
    BY <2>11 DEF Unlink, Remove
  <2>12. CASE DirSyncFails(p)
    BY <2>12 DEF DirSyncFails, Warning
  <2>13. CASE Drop(p)
    BY <2>13 DEF Drop, Remove
  <2>14. CASE DropSync(p)
    BY <2>14 DEF DropSync, SyncDirectory
  <2>15. CASE Crash(p)
    BY <2>15 DEF Crash, Running
  <2> QED
    BY <1>2, <2>1, <2>2, <2>3, <2>4, <2>5, <2>6, <2>7, <2>8, <2>9, <2>10, <2>11, <2>12, <2>13, <2>14, <2>15
<1>3. CASE LosePower
  BY <1>3 DEF LosePower, PowerLoss, Running
<1>4. CASE BackgroundWriteback
  BY <1>4 DEF BackgroundWriteback, Writeback
<1>5. CASE UNCHANGED vars
  BY <1>5 DEF vars
<1> QED
  BY <1>2, <1>3, <1>4, <1>5 DEF Next

\* Every step, overlapping or not, keeps the layer of the file: one case per action.
LEMMA NextFileInv == TypeOK /\ Commanded /\ FileInv /\ [Next]_vars => FileInv' /\ Commanded'
<1> SUFFICES ASSUME TypeOK, Commanded, FileInv, [Next]_vars PROVE FileInv' /\ Commanded'
  OBVIOUS
<1> USE NamesAssumption
<1> USE DEF FileInv, Named, Unpublished, Checked, Publishable, PublishedWhole, RefusedIsUnchanged, AtDest,
            Staging, Publishing, Over, commandVars, envVars, fileVars, Exists, Commanded, Inits
<1>0. lifecycle' = lifecycle /\ edited' = edited
  BY DEF Next, Start, Read, Refuse, Create, Write, Sync, StageFails, RenameInto, LinkInto, DirSync, Unlink,
         DirSyncFails, Drop, DropSync, Crash, LosePower, BackgroundWriteback, vars
<1>1. \A S : Acceptable(S)' <=> Acceptable(S)
  BY <1>0, SameLimits
<1>2. Command' = Command
  BY <1>0 DEF Command, Status
<1>3. Acceptable({})
  BY EmptyIsAcceptable
<1>4.  /\ StoreTypeOK
    /\ body \in [Proc \cup {Genesis} -> SUBSET Record]
    /\ pc \in [Proc -> {"idle", "read", "create", "write", "sync", "rename", "link", "dirsync",
                        "unlink", "dirsync2", "drop", "dropsync"} \cup Over]
    /\ command \in [Proc -> Command \cup {[op |-> "none"]}]
    /\ outcome \in [Proc -> {"none", "ok", "refused", "replaced"}]
  BY DEF TypeOK
<1> USE DEF StoreTypeOK
<1>5. ASSUME NEW p \in Proc,
             \/ Start(p) \/ Read(p) \/ Refuse(p) \/ Create(p) \/ Write(p) \/ Sync(p) \/ StageFails(p)
             \/ RenameInto(p) \/ LinkInto(p) \/ DirSync(p) \/ Unlink(p) \/ DirSyncFails(p)
             \/ Drop(p) \/ DropSync(p) \/ Crash(p)
      PROVE  FileInv' /\ Commanded'
  <2> USE DEF Goto, Report, Fault
  <2>1. CASE Start(p)
    <3>1. PICK c \in Command : /\ command' = [command EXCEPT ![p] = c]
                               /\ pc[p] = "idle"
                               /\ pc' = [pc EXCEPT ![p] = IF c.op = "init" THEN "create" ELSE "read"]
      BY <2>1 DEF Start
    <3>2. /\ \A q \in Proc \ {p} : command'[q] = command[q] /\ pc'[q] = pc[q]
          /\ command'[p] = c
          /\ pc'[p] = IF c.op = "init" THEN "create" ELSE "read"
      BY <1>4, <3>1
    <3>3. /\ cached' = cached /\ disk' = disk /\ content' = content /\ pages' = pages
          /\ body' = body /\ outcome' = outcome
      BY <2>1 DEF Start
    <3>4. body[p] = {}
      BY <3>1
    <3>5. FileInv'
      <4>1. Checked'
        <5>1. Acceptable(body[p])'
          BY <1>1, <1>3, <3>3, <3>4
        <5>2. ASSUME NEW q \in Proc, q # p PROVE
                 /\ pc'[q] \in {"idle", "read"} => body'[q] = {}
                 /\ pc'[q] \in Staging \cup Publishing => Acceptable(body[q])'
          BY <1>1, <3>2, <3>3, <5>2
        <5>3. body'[p] = {}
          BY <3>3, <3>4
        <5> QED
          BY <5>1, <5>2, <5>3
      <4>2. Unpublished'
        BY <3>1, <3>2, <3>3
      <4>3. Publishable' /\ Named'
        BY <3>1, <3>2, <3>3
      <4>4. PublishedWhole' /\ RefusedIsUnchanged'
        BY <1>1, <3>2, <3>3
      <4> QED
        BY <4>1, <4>2, <4>3, <4>4
    <3>6. Commanded'
      <4> HIDE DEF FileInv, Unpublished, Checked, Publishable, PublishedWhole, Named
      <4>1. ASSUME NEW q \in Proc, q # p PROVE
               /\ pc'[q] # "idle" => command'[q] \in Command'
               /\ pc'[q] \in {"read", "rename"} => command'[q].op # "init"
               /\ pc'[q] \in {"link", "unlink", "dirsync2"} => command'[q].op = "init"
               /\ command'[q].op = "init" => body'[q] = {}
        BY <1>2, <3>2, <3>3, <4>1
      <4>2. /\ command'[p] \in Command'
            /\ pc'[p] \in {"read", "rename"} => command'[p].op # "init"
            /\ pc'[p] \in {"link", "unlink", "dirsync2"} => command'[p].op = "init"
            /\ body'[p] = {}
        BY <1>2, <3>1, <3>2, <3>3, <3>4
      <4> QED
        BY <4>1, <4>2
    <3> QED
      BY <3>5, <3>6
  <2>2. CASE Read(p)
    <3>1. PICK new \in Changes(command[p], body[cached[Dest]]) : body' = [body EXCEPT ![p] = new]
      BY <2>2 DEF Read
    <3>2. Acceptable(new)
      BY <2>2, <3>1, ChangesAcceptable DEF Read, Usable, Readable
    <3>3. pc[p] = "read" /\ pc' = [pc EXCEPT ![p] = "create"] /\ UNCHANGED <<fileVars, command, outcome>>
      BY <2>2 DEF Read
    <3>4. FileInv'
      BY <1>1, <1>4, <3>1, <3>2, <3>3
    <3>5. Commanded'
      BY <1>2, <1>4, <3>1, <3>3
    <3> QED
      BY <3>4, <3>5
  <2>3. CASE Refuse(p)
    BY <1>0, <1>1, <1>2, <1>3, <1>4, <2>3 DEF Refuse
  <2>4. CASE Create(p)
    BY <1>0, <1>1, <1>2, <1>3, <1>4, <2>4 DEF Create, CreateNew
  <2>5. CASE Write(p)
    BY <1>0, <1>1, <1>2, <1>3, <1>4, <2>5 DEF Write, WriteSome, WriteRest
  <2>6. CASE Sync(p)
    BY <1>0, <1>1, <1>2, <1>3, <1>4, <2>6 DEF Sync, StagedSync, SyncFile
  <2>7. CASE StageFails(p)
    BY <1>0, <1>1, <1>2, <1>3, <1>4, <2>7 DEF StageFails
  <2>8. CASE RenameInto(p)
    BY <1>0, <1>1, <1>2, <1>3, <1>4, <2>8 DEF RenameInto, Rename
  <2>9. CASE LinkInto(p)
    BY <1>0, <1>1, <1>2, <1>3, <1>4, <2>9 DEF LinkInto, HardLink
  <2>10. CASE DirSync(p)
    BY <1>0, <1>1, <1>2, <1>3, <1>4, <2>10 DEF DirSync, ConfirmedSync, SyncDirectory
  <2>11. CASE Unlink(p)
    BY <1>0, <1>1, <1>2, <1>3, <1>4, <2>11 DEF Unlink, Remove
  <2>12. CASE DirSyncFails(p)
    BY <1>0, <1>1, <1>2, <1>3, <1>4, <2>12 DEF DirSyncFails, Warning
  <2>13. CASE Drop(p)
    BY <1>0, <1>1, <1>2, <1>3, <1>4, <2>13 DEF Drop, Remove
  <2>14. CASE DropSync(p)
    BY <1>0, <1>1, <1>2, <1>3, <1>4, <2>14 DEF DropSync, SyncDirectory
  <2>15. CASE Crash(p)
    BY <1>0, <1>1, <1>2, <1>3, <1>4, <2>15 DEF Crash, Running
  <2> QED
    BY <1>5, <2>1, <2>2, <2>3, <2>4, <2>5, <2>6, <2>7, <2>8, <2>9, <2>10, <2>11, <2>12, <2>13, <2>14, <2>15
<1>6. CASE LosePower
  BY <1>1, <1>2, <1>4, <1>6 DEF LosePower, PowerLoss, Running
<1>7. CASE BackgroundWriteback
  BY <1>1, <1>2, <1>4, <1>7 DEF BackgroundWriteback, Writeback
<1>8. CASE UNCHANGED vars
  BY <1>1, <1>2, <1>4, <1>8 DEF vars
<1> QED
  BY <1>5, <1>6, <1>7, <1>8 DEF Next

----------------------------------------------------------------------------
\* The file that may be there in the beginning satisfies the layer of the file.
LEMMA InitFileInv == Init => TypeOK /\ Commanded /\ FileInv
<1> SUFFICES ASSUME Init PROVE TypeOK /\ Commanded /\ FileInv
  OBVIOUS
<1> USE NamesAssumption
<1>1. body \in [Proc \cup {Genesis} -> SUBSET Record]
  <2>1. PICK records \in IF cached[Dest] = Genesis THEN Genesises ELSE {{}} :
          body = [i \in Proc \cup {Genesis} |-> IF i = Genesis THEN records ELSE {}]
    BY DEF Init
  <2>2. FirstRecord \in Status
    BY DEF Init, FirstRecord, Status, SignerStatus, RootKeyStatus
  <2>3. \A k \in Key, d \in Data : [id |-> Canonical(k), status |-> FirstRecord, data |-> d] \in Record
    BY <2>2 DEF Record, Canonical, Text
  <2>4. records \in SUBSET Record
    BY <2>1, <2>3 DEF Genesises
  <2> QED
    BY <2>1, <2>4
<1>6. edited \in Nat
  BY TextAssumption DEF Init
<1>2. TypeOK
  BY <1>1, <1>6 DEF Init, TypeOK, StoreTypeOK, Content, Over
<1>3. \A p \in Proc : /\ body[p] = {} /\ pc[p] = "idle" /\ outcome[p] = "none"
                      /\ cached[p] = NoInode /\ disk[p] = NoInode /\ ~ AtDest(p)
                      /\ command[p].op = "none"
  BY DEF Init, AtDest
<1>4. Commanded
  BY <1>3 DEF Commanded, Inits
<1>5. FileInv
  BY <1>3 DEF FileInv, Named, Unpublished, Checked, Publishable, PublishedWhole, RefusedIsUnchanged,
              Staging, Publishing, AtDest
<1> QED
  BY <1>2, <1>4, <1>5

\* The layer of the file, which needs nothing of the other.
LEMMA FileInvariance == Spec => [](TypeOK /\ Commanded /\ FileInv)
<1>1. (TypeOK /\ Commanded /\ FileInv) /\ [Next]_vars => (TypeOK /\ Commanded /\ FileInv)'
  BY NextTypeOK, NextFileInv
<1> QED
  BY <1>1, InitFileInv, PTL DEF Spec

\* Whoever opens the policy or the inventory, at any time, finds one complete version that
\* read_signer_policy or read_inventory accepts, or the file of the beginning: write_new_file
\* links, and replace_* renames, only what has been checked, written and synchronized.
THEOREM AlwaysReadableByAnyone == Spec => []RegistryInv
<1>1. TypeOK /\ FileInv => RegistryInv
  <2> SUFFICES ASSUME TypeOK, FileInv, NEW i \in {cached[Dest], disk[Dest]} \ {Genesis, NoInode}
               PROVE  content[i] = "full" /\ pages[i] = "clean" /\ Readable(i)
    BY DEF RegistryInv, AlwaysReadable
  <2>1. i \in Proc
    BY DEF TypeOK, StoreTypeOK
  <2> QED
    BY <2>1, OwnTextIsEncoded DEF FileInv, PublishedWhole, AtDest
<1> QED
  BY <1>1, FileInvariance, PTL

\* A command that fails without "was replaced" has not changed the file, now or after a
\* power loss: errors before the rename or the link are the only ones without the word.
THEOREM RefusalsAreTrue == Spec => []RefusedIsUnchanged
<1>1. FileInv => RefusedIsUnchanged
  BY DEF FileInv
<1> QED
  BY <1>1, FileInvariance, PTL

----------------------------------------------------------------------------
\* ensure_*_status_transition allows no change at all, and what two changes lead to.
LEMMA PermittedIsOrder ==
  /\ \A a \in Status : <<a, a>> \in Permitted
  /\ \A a, b, c : <<a, b>> \in Permitted /\ <<b, c>> \in Permitted => <<a, c>> \in Permitted
BY DEF Status, Permitted, SignerStatus, RootKeyStatus, SignerTransitions, RootKeyTransitions, AfterCompromise

\* A version continues itself, and the continuation of a continuation.
LEMMA ContinuesIsOrder ==
  /\ \A S \in SUBSET Record : Continues(S, S)
  /\ \A S, T, U : Continues(S, T) /\ Continues(T, U) => Continues(S, U)
<1>1. ASSUME NEW S \in SUBSET Record PROVE Continues(S, S)
  BY PermittedIsOrder DEF Continues, Record
<1>2. ASSUME NEW S, NEW T, NEW U, Continues(S, T), Continues(T, U) PROVE Continues(S, U)
  <2> SUFFICES ASSUME NEW r \in S
               PROVE  \E s \in U : s.id = r.id /\ s.data = r.data /\ <<r.status, s.status>> \in Permitted
    BY DEF Continues
  <2>1. PICK t \in T : t.id = r.id /\ t.data = r.data /\ <<r.status, t.status>> \in Permitted
    BY <1>2 DEF Continues
  <2>2. PICK s \in U : s.id = t.id /\ s.data = t.data /\ <<t.status, s.status>> \in Permitted
    BY <1>2 DEF Continues
  <2> QED
    BY <2>1, <2>2, PermittedIsOrder
<1> QED
  BY <1>1, <1>2

\* add and set-status continue the version they read, and put the record asked for into it.
LEMMA ChangesContinue ==
  ASSUME NEW c \in Command, c.op # "init", NEW S \in SUBSET Record, NEW new \in Changes(c, S)
  PROVE  /\ Continues(S, new)
         /\ \E r \in new : r.id = Canonical(c.key) /\ r.status = c.status
<1>1. CASE c.op = "add"
  <2>1. new = S \cup {NewRecord(c)}
    BY <1>1 DEF Changes, Added
  <2>2. Continues(S, S)
    BY ContinuesIsOrder
  <2>3. Continues(S, new)
    BY <2>1, <2>2 DEF Continues
  <2>4. NewRecord(c).id = Canonical(c.key) /\ NewRecord(c).status = c.status
    BY DEF NewRecord
  <2>5. NewRecord(c) \in new
    BY <2>1
  <2> QED
    BY <2>3, <2>4, <2>5
<1>2. CASE c.op # "add"
  <2>1. PICK r \in S : /\ new = (S \ {r}) \cup {[r EXCEPT !.status = c.status]}
                       /\ r.id = Canonical(c.key) /\ MayMove(r.status, c.status)
    BY <1>2 DEF Changes, Moved
  <2>2. PICK s : s = [r EXCEPT !.status = c.status]
    OBVIOUS
  <2>3. s.id = r.id /\ s.data = r.data /\ s.status = c.status
    BY <2>1, <2>2 DEF Record
  <2>4. Continues(S, S)
    BY ContinuesIsOrder
  <2>5. s \in new /\ \A x \in S : x # r => x \in new
    BY <2>1, <2>2
  <2>6. Continues(S, new)
    <3> SUFFICES ASSUME NEW x \in S
                 PROVE \E y \in new : y.id = x.id /\ y.data = x.data /\ <<x.status, y.status>> \in Permitted
      BY DEF Continues
    <3>1. CASE x = r
      BY <3>1, <2>1, <2>3, <2>5 DEF MayMove
    <3>2. CASE x # r
      <4>1. <<x.status, x.status>> \in Permitted
        BY PermittedIsOrder DEF Record
      <4> QED
        BY <3>2, <2>5, <4>1
    <3> QED
      BY <3>1, <3>2
  <2> QED
    BY <2>1, <2>3, <2>5, <2>6
<1> QED
  BY <1>1, <1>2

----------------------------------------------------------------------------
Replacing == Staging \cup {"rename"}
Confirming == {"dirsync", "unlink", "dirsync2"}

\* The file that was there in the beginning is not written again, and an
\* invocation past its reading carries the record it was asked for.
Carried ==
    /\ Unique(body[Genesis])
    /\ \A p \in Proc : pc[p] \in Replacing \cup Confirming /\ ~ Inits(p) =>
          \E r \in body[p] : r.id = Canonical(command[p].key) /\ r.status = command[p].status

Alone == \A p, q \in Proc : Running(p) /\ Running(q) => p = q

\* The version to be renamed continues the one it replaces.
Prepared == \A p \in Proc : pc[p] \in Replacing /\ ~ Inits(p) => Continues(Visible, body[p])

InForce == \A p \in Proc : pc[p] \in Confirming => cached[Dest] = p

InTurn == ~ overlapped => Alone /\ Continues(Durable, Visible) /\ Prepared /\ InForce

TurnInv == Carried /\ InTurn /\ AcknowledgedStays

Inv == TypeOK /\ Commanded /\ FileInv /\ TurnInv

\* A step that neither publishes nor confirms a version.
Quiet ==
    /\ lifecycle' = lifecycle /\ body' = body /\ command' = command /\ overlapped' = overlapped
    /\ cached'[Dest] = cached[Dest] /\ disk'[Dest] \in {disk[Dest], cached[Dest]}
    /\ \A p \in Proc :
          /\ outcome'[p] = "ok" => outcome[p] = "ok"
          /\ pc'[p] \in Replacing => pc[p] \in Replacing
          /\ pc'[p] \in Confirming => pc[p] \in Confirming
          /\ Running(p)' => Running(p)

\* The lifecycle depends on which of the two files it is, and on nothing else.
LEMMA SameOrder ==
  lifecycle' = lifecycle =>
    /\ Permitted' = Permitted
    /\ Status' = Status /\ Record' = Record /\ Command' = Command
    /\ \A S, T : Continues(S, T)' <=> Continues(S, T)
<1> SUFFICES ASSUME lifecycle' = lifecycle
             PROVE  /\ Permitted' = Permitted
                    /\ Status' = Status /\ Record' = Record /\ Command' = Command
                    /\ \A S, T : Continues(S, T)' <=> Continues(S, T)
  OBVIOUS
<1>1. Permitted' = Permitted
  BY DEF Permitted
<1>2. Status' = Status /\ Record' = Record /\ Command' = Command
  BY DEF Status, Record, Command
<1>3. \A S, T : Continues(S, T)' <=> Continues(S, T)
  BY <1>1 DEF Continues
<1> QED
  BY <1>1, <1>2, <1>3

\* Both versions, the visible and the durable one, are sets of records.
LEMMA VersionsAreRecords ==
  TypeOK => Visible \in SUBSET Record /\ Durable \in SUBSET Record
BY DEF TypeOK, StoreTypeOK, Visible, Durable, VersionIn

\* All steps but the start, the read, the publication, the confirmation and a power loss
\* are quiet.
LEMMA QuietIsQuiet ==
  ASSUME TypeOK, Commanded, FileInv,
         \/ \E p \in Proc : \/ Refuse(p) \/ Create(p) \/ Write(p) \/ Sync(p) \/ StageFails(p)
                            \/ Unlink(p) \/ DirSyncFails(p) \/ Drop(p) \/ DropSync(p) \/ Crash(p)
         \/ BackgroundWriteback
         \/ UNCHANGED vars
  PROVE  Quiet
<1> USE NamesAssumption
<1> USE DEF Goto, Report, Fault, Replacing, Confirming, Staging, Running, Over, Quiet,
            commandVars, envVars, fileVars, TypeOK, StoreTypeOK
<1>1. ASSUME NEW p \in Proc,
             \/ Refuse(p) \/ Create(p) \/ Write(p) \/ Sync(p) \/ StageFails(p)
             \/ Unlink(p) \/ DirSyncFails(p) \/ Drop(p) \/ DropSync(p) \/ Crash(p)
      PROVE  Quiet
  <2>1. CASE Refuse(p)
    BY <2>1 DEF Refuse
  <2>2. CASE Create(p)
    BY <2>2 DEF Create, CreateNew
  <2>3. CASE Write(p)
    BY <2>3 DEF Write, WriteSome, WriteRest
  <2>4. CASE Sync(p)
    BY <2>4 DEF Sync, StagedSync, SyncFile
  <2>5. CASE StageFails(p)
    BY <2>5 DEF StageFails
  <2>6. CASE Unlink(p)
    BY <2>6 DEF Unlink, Remove
  <2>7. CASE DirSyncFails(p)
    BY <2>7 DEF DirSyncFails, Warning
  <2>8. CASE Drop(p)
    BY <2>8 DEF Drop, Remove
  <2>9. CASE DropSync(p)
    BY <2>9 DEF DropSync, SyncDirectory
  <2>10. CASE Crash(p)
    BY <2>10 DEF Crash
  <2> QED
    BY <1>1, <2>1, <2>2, <2>3, <2>4, <2>5, <2>6, <2>7, <2>8, <2>9, <2>10
<1>2. CASE BackgroundWriteback
  BY <1>2 DEF BackgroundWriteback, Writeback
<1>3. CASE UNCHANGED vars
  BY <1>3 DEF vars
<1> QED
  BY <1>1, <1>2, <1>3

\* The version in file inode has what p acknowledged.
Has(p, inode) ==
    /\ inode # NoInode
    /\ ~ Inits(p) => \E r \in VersionIn(inode) :
          r.id = Canonical(command[p].key) /\ <<command[p].status, r.status>> \in Permitted

Acknowledged == \A p \in Proc : outcome[p] = "ok" => Has(p, cached[Dest]) /\ Has(p, disk[Dest])

\* AcknowledgedStays in terms of Has.
LEMMA AcknowledgedAlike == AcknowledgedStays <=> (~ overlapped => Acknowledged)
BY DEF AcknowledgedStays, Acknowledged, Has

\* A continuation of a version has what the version has.
LEMMA AdvanceKeeps ==
  ASSUME NEW p, NEW i, NEW j, j # NoInode, Has(p, i), Continues(VersionIn(i), VersionIn(j))
  PROVE  Has(p, j)
<1> SUFFICES ASSUME ~ Inits(p)
             PROVE  \E r \in VersionIn(j) :
                      r.id = Canonical(command[p].key) /\ <<command[p].status, r.status>> \in Permitted
  BY DEF Has
<1>1. PICK r \in VersionIn(i) : r.id = Canonical(command[p].key) /\ <<command[p].status, r.status>> \in Permitted
  BY DEF Has
<1>2. PICK s \in VersionIn(j) : s.id = r.id /\ <<r.status, s.status>> \in Permitted
  BY <1>1 DEF Continues
<1> QED
  BY <1>1, <1>2, PermittedIsOrder

\* Whether a version has what p acknowledged depends on the version and on p's command.
LEMMA SameHolding ==
  ASSUME lifecycle' = lifecycle, NEW p, NEW i, command'[p] = command[p],
         i # NoInode => body'[i] = body[i]
  PROVE  Has(p, i)' <=> Has(p, i)
<1>1. Permitted' = Permitted
  BY SameOrder
<1>2. VersionIn(i)' = VersionIn(i)
  BY DEF VersionIn
<1> QED
  BY <1>1, <1>2 DEF Has, Inits

\* A quiet step keeps TurnInv.
LEMMA QuietKeeps ==
  ASSUME TypeOK, TurnInv, Quiet
  PROVE  TurnInv'
<1> USE DEF Quiet, TurnInv
<1>1. Carried'
  BY DEF Carried, Inits
<1>2. ASSUME ~ overlapped' PROVE Alone' /\ Continues(Durable, Visible)' /\ Prepared' /\ InForce'
  <2>1. ~ overlapped
    BY <1>2
  <2>2. Alone'
    BY <2>1 DEF Alone, InTurn
  <2>3. Visible' = Visible /\ Durable' \in {Durable, Visible}
    BY DEF Visible, Durable, VersionIn
  <2>4. Continues(Durable, Visible)'
    <3>1. Continues(Visible, Visible) /\ Continues(Durable, Visible)
      BY <2>1, ContinuesIsOrder, VersionsAreRecords DEF InTurn
    <3> QED
      BY <2>3, <3>1, SameOrder
  <2>5. Prepared'
    <3> SUFFICES ASSUME NEW p \in Proc, pc'[p] \in Replacing, ~ Inits(p)'
                 PROVE  Continues(Visible, body[p])'
      BY DEF Prepared, Replacing, Staging
    <3>1. Continues(Visible, body[p])
      BY <2>1 DEF InTurn, Prepared, Inits
    <3> QED
      BY <2>3, <3>1, SameOrder
  <2>6. InForce'
    BY <2>1 DEF InTurn, InForce, Confirming
  <2> QED
    BY <2>2, <2>4, <2>5, <2>6
<1>3. ASSUME ~ overlapped' PROVE Acknowledged'
  <2> SUFFICES ASSUME NEW p \in Proc, outcome'[p] = "ok"
               PROVE  Has(p, cached[Dest])' /\ Has(p, disk[Dest])'
    BY DEF Acknowledged
  <2>1. Has(p, cached[Dest]) /\ Has(p, disk[Dest])
    BY <1>3, AcknowledgedAlike DEF Acknowledged
  <2>2. \A i : Has(p, i)' <=> Has(p, i)
    BY SameHolding
  <2> QED
    BY <2>1, <2>2
<1>4. AcknowledgedStays'
  BY <1>3, AcknowledgedAlike, PTL
<1> QED
  BY <1>1, <1>2, <1>4 DEF InTurn

\* A command that starts alone starts a new turn; one that does not ends the turns.
LEMMA StartKeeps ==
  ASSUME TypeOK, Commanded, FileInv, TurnInv, NEW p \in Proc, Start(p)
  PROVE  TurnInv'
<1> USE DEF TurnInv
<1>1. PICK c \in Command : /\ command' = [command EXCEPT ![p] = c]
                           /\ pc[p] = "idle"
                           /\ pc' = [pc EXCEPT ![p] = IF c.op = "init" THEN "create" ELSE "read"]
  BY DEF Start, Goto
<1>2. /\ cached' = cached /\ disk' = disk /\ body' = body /\ outcome' = outcome /\ lifecycle' = lifecycle
      /\ overlapped' = (overlapped \/ \E q \in Proc : Running(q))
  BY DEF Start, fileVars
<1>3. /\ command'[p] = c
      /\ pc'[p] = IF c.op = "init" THEN "create" ELSE "read"
      /\ \A q \in Proc : q # p => command'[q] = command[q] /\ pc'[q] = pc[q]
  BY <1>1 DEF TypeOK
<1>4. Carried'
  <2> SUFFICES ASSUME NEW q \in Proc, pc'[q] \in Replacing \cup Confirming, ~ Inits(q)'
               PROVE  \E r \in body'[q] : r.id = Canonical(command'[q].key) /\ r.status = command'[q].status
    BY <1>2 DEF Carried
  <2>1. q # p
    BY <1>3 DEF Replacing, Confirming, Staging, Inits
  <2> QED
    BY <1>2, <1>3, <2>1 DEF Carried, Inits
<1>5. ASSUME ~ overlapped' PROVE Alone' /\ Continues(Durable, Visible)' /\ Prepared' /\ InForce'
  <2>1. ~ overlapped /\ \A q \in Proc : ~ Running(q)
    BY <1>2, <1>5
  <2>2. Alone'
    BY <1>3, <2>1 DEF Alone, Running
  <2>3. Visible' = Visible /\ Durable' = Durable
    BY <1>2 DEF Visible, Durable, VersionIn
  <2>4. Continues(Durable, Visible)'
    BY <1>2, <2>1, <2>3, SameOrder DEF InTurn
  <2>5. \A q \in Proc : pc'[q] \in Replacing \cup Confirming => q = p /\ Inits(q)' /\ pc'[q] \in Replacing
    BY <1>3, <2>1 DEF Running, Over, Replacing, Staging, Confirming, Inits
  <2>6. Prepared' /\ InForce'
    BY <2>5 DEF Prepared, InForce, Replacing, Staging, Confirming
  <2> QED
    BY <2>2, <2>4, <2>6
<1>6. ASSUME ~ overlapped' PROVE Acknowledged'
  <2> SUFFICES ASSUME NEW q \in Proc, outcome'[q] = "ok"
               PROVE  Has(q, cached[Dest])' /\ Has(q, disk[Dest])'
    BY DEF Acknowledged
  <2>1. q # p
    BY <1>1, <1>2 DEF FileInv, Unpublished
  <2>2. Has(q, cached[Dest]) /\ Has(q, disk[Dest])
    BY <1>2, <1>6, AcknowledgedAlike DEF Acknowledged
  <2>3. \A i : Has(q, i)' <=> Has(q, i)
    BY <1>2, <1>3, <2>1, SameHolding
  <2> QED
    BY <1>2, <2>2, <2>3
<1>7. AcknowledgedStays'
  BY <1>6, AcknowledgedAlike, PTL
<1> QED
  BY <1>4, <1>5, <1>7 DEF InTurn

\* A command prepares a continuation of the version it has read, which is the visible one.
LEMMA ReadKeeps ==
  ASSUME TypeOK, Commanded, FileInv, TurnInv, NEW p \in Proc, Read(p)
  PROVE  TurnInv'
<1> USE DEF TurnInv
<1>1. PICK new \in Changes(command[p], Visible) : body' = [body EXCEPT ![p] = new]
  BY DEF Read, Usable, Exists, Visible, VersionIn
<1>2. /\ pc[p] = "read" /\ pc' = [pc EXCEPT ![p] = "create"]
      /\ cached' = cached /\ disk' = disk /\ outcome' = outcome
      /\ command' = command /\ overlapped' = overlapped /\ lifecycle' = lifecycle
  BY DEF Read, Goto, fileVars, commandVars
<1>3. /\ pc'[p] = "create" /\ body'[p] = new
      /\ \A q \in Proc : q # p => body'[q] = body[q] /\ pc'[q] = pc[q]
      /\ body'[Genesis] = body[Genesis]
  BY <1>1, <1>2, NamesAssumption DEF TypeOK
<1>4. cached[Dest] # p /\ disk[Dest] # p /\ outcome[p] # "ok"
  BY <1>2 DEF FileInv, Unpublished, AtDest
<1>5. Continues(Visible, new) /\ \E r \in new : r.id = Canonical(command[p].key) /\ r.status = command[p].status
  BY <1>1, <1>2, ChangesContinue, VersionsAreRecords DEF Commanded, Inits
<1>6. Visible' = Visible /\ Durable' = Durable
  BY <1>2, <1>3, <1>4 DEF Visible, Durable, VersionIn, TypeOK, StoreTypeOK
<1>7. Carried'
  <2>1. ASSUME NEW q \in Proc, q # p, pc'[q] \in Replacing \cup Confirming, ~ Inits(q)'
        PROVE  \E r \in body'[q] : r.id = Canonical(command'[q].key) /\ r.status = command'[q].status
    BY <1>2, <1>3, <2>1 DEF Carried, Inits
  <2>2. \E r \in body'[p] : r.id = Canonical(command'[p].key) /\ r.status = command'[p].status
    BY <1>2, <1>3, <1>5
  <2>3. Unique(body[Genesis])'
    BY <1>3 DEF Carried, Unique
  <2> QED
    BY <2>1, <2>2, <2>3 DEF Carried
<1>8. ASSUME ~ overlapped' PROVE Alone' /\ Continues(Durable, Visible)' /\ Prepared' /\ InForce'
  <2>1. ~ overlapped /\ InTurn
    BY <1>2, <1>8
  <2>2. Alone'
    BY <1>2, <1>3, <2>1 DEF Alone, InTurn, Running, Over
  <2>3. Continues(Durable, Visible)'
    BY <1>2, <1>6, <2>1, SameOrder DEF InTurn
  <2>4. Prepared'
    <3> SUFFICES ASSUME NEW q \in Proc, pc'[q] \in Replacing, ~ Inits(q)'
                 PROVE  Continues(Visible, body[q])'
      BY DEF Prepared, Replacing, Staging
    <3>1. CASE q = p
      BY <1>2, <1>3, <1>5, <1>6, <3>1, SameOrder
    <3>2. CASE q # p
      <4>1. Continues(Visible, body[q])
        BY <1>2, <1>3, <2>1, <3>2 DEF InTurn, Prepared, Inits
      <4> QED
        BY <1>2, <1>3, <1>6, <3>2, <4>1, SameOrder
    <3> QED
      BY <3>1, <3>2
  <2>5. InForce'
    BY <1>2, <1>3, <2>1 DEF InTurn, InForce, Confirming
  <2> QED
    BY <2>2, <2>3, <2>4, <2>5
<1>9. ASSUME ~ overlapped' PROVE Acknowledged'
  <2> SUFFICES ASSUME NEW q \in Proc, outcome'[q] = "ok"
               PROVE  Has(q, cached[Dest])' /\ Has(q, disk[Dest])'
    BY DEF Acknowledged
  <2>1. Has(q, cached[Dest]) /\ Has(q, disk[Dest])
    BY <1>2, <1>9, AcknowledgedAlike DEF Acknowledged
  <2>2. \A i \in {cached[Dest], disk[Dest]} : i # NoInode => body'[i] = body[i]
    BY <1>3, <1>4 DEF TypeOK, StoreTypeOK
  <2>3. \A i \in {cached[Dest], disk[Dest]} : Has(q, i)' <=> Has(q, i)
    BY <1>2, <2>2, SameHolding
  <2> QED
    BY <1>2, <2>1, <2>3
<1>10. AcknowledgedStays'
  BY <1>9, AcknowledgedAlike, PTL
<1> QED
  BY <1>7, <1>8, <1>10 DEF InTurn

\* What publication, by a rename or by a link, has in common.
LEMMA PublishKeeps ==
  ASSUME TypeOK, Commanded, FileInv, TurnInv, NEW p \in Proc,
         pc[p] \in Publishing, pc' = [pc EXCEPT ![p] = "dirsync"],
         cached'[Dest] = p, disk' = disk, body' = body, outcome' = outcome,
         lifecycle' = lifecycle, command' = command, overlapped' = overlapped,
         InTurn /\ ~ overlapped => Continues(Visible, body[p]),
         ~ Inits(p) => pc[p] = "rename"
  PROVE  TurnInv'
<1> USE NamesAssumption DEF TurnInv
<1>1. /\ pc'[p] = "dirsync" /\ \A q \in Proc : q # p => pc'[q] = pc[q]
      /\ Running(p) /\ \A q \in Proc : Running(q)' => Running(q)
  BY DEF TypeOK, Running, Over, Publishing
<1>2. Carried'
  BY <1>1 DEF Carried, Inits, Replacing
<1>3. Visible' = body[p] /\ Durable' = Durable
  BY DEF Visible, Durable, VersionIn
<1>4. ASSUME ~ overlapped' PROVE Alone' /\ Continues(Durable, Visible)' /\ Prepared' /\ InForce'
  <2>1. ~ overlapped /\ InTurn
    BY <1>4
  <2>2. \A q \in Proc : Running(q) => q = p
    BY <1>1, <2>1 DEF InTurn, Alone
  <2>3. Alone'
    BY <1>1, <2>2 DEF Alone
  <2>4. Continues(Durable, body[p])
    BY <2>1, ContinuesIsOrder DEF InTurn
  <2>5. Continues(Durable, Visible)'
    BY <1>3, <2>4, SameOrder
  <2>6. \A q \in Proc : pc'[q] \in Replacing \cup Confirming => q = p
    BY <1>1, <2>2 DEF Running, Over, Replacing, Staging, Confirming
  <2>7. Prepared' /\ InForce'
    BY <1>1, <2>6 DEF Prepared, InForce, Replacing, Staging, Confirming
  <2> QED
    BY <2>3, <2>5, <2>7
<1>5. ASSUME ~ overlapped' PROVE Acknowledged'
  <2> SUFFICES ASSUME NEW q \in Proc, outcome'[q] = "ok"
               PROVE  Has(q, cached[Dest])' /\ Has(q, disk[Dest])'
    BY DEF Acknowledged
  <2>1. Has(q, cached[Dest]) /\ Has(q, disk[Dest])
    BY <1>5, AcknowledgedAlike DEF Acknowledged
  <2>2. Continues(VersionIn(cached[Dest]), VersionIn(p)) /\ p # NoInode
    BY <1>5 DEF Visible, VersionIn
  <2>3. Has(q, p)
    BY <2>1, <2>2, AdvanceKeeps
  <2>4. \A i : Has(q, i)' <=> Has(q, i)
    BY SameHolding
  <2> QED
    BY <2>1, <2>3, <2>4
<1>6. AcknowledgedStays'
  BY <1>5, AcknowledgedAlike, PTL
<1> QED
  BY <1>2, <1>4, <1>6 DEF InTurn

\* TemporaryFile::replace puts the prepared version in force.
LEMMA RenameKeeps ==
  ASSUME TypeOK, Commanded, FileInv, TurnInv, NEW p \in Proc, RenameInto(p)
  PROVE  TurnInv'
<1> USE NamesAssumption
<1>1. pc[p] = "rename" /\ pc' = [pc EXCEPT ![p] = "dirsync"] /\ ~ Inits(p)
  BY DEF RenameInto, Goto, Commanded
<1>2. cached[p] = p
  BY DEF RenameInto, Rename, Exists, FileInv, Named
<1>3. cached'[Dest] = p /\ disk' = disk
  BY <1>2 DEF RenameInto, Rename, TypeOK, StoreTypeOK
<1>4. /\ body' = body /\ outcome' = outcome
      /\ lifecycle' = lifecycle /\ command' = command /\ overlapped' = overlapped
  BY DEF RenameInto, commandVars
<1>5. InTurn /\ ~ overlapped => Continues(Visible, body[p])
  BY <1>1 DEF InTurn, Prepared, Replacing
<1> QED
  BY <1>1, <1>3, <1>4, <1>5, PublishKeeps DEF Publishing

\* TemporaryFile::commit, for init, publishes where there is no file, or fails.
LEMMA LinkKeeps ==
  ASSUME TypeOK, Commanded, FileInv, TurnInv, NEW p \in Proc, LinkInto(p)
  PROVE  TurnInv'
<1> USE NamesAssumption
<1>1. pc[p] = "link" /\ Inits(p)
  BY DEF LinkInto, Goto, Commanded
<1>2. body' = body /\ lifecycle' = lifecycle /\ command' = command /\ overlapped' = overlapped
  BY DEF LinkInto, commandVars
<1>3. CASE pc' = [pc EXCEPT ![p] = "dirsync"] /\ HardLink(p, Dest) /\ outcome' = outcome
  <2>1. cached[p] = p /\ cached[Dest] = NoInode
    BY <1>3 DEF HardLink, Exists, FileInv, Named
  <2>2. cached'[Dest] = p /\ disk' = disk
    BY <1>3, <2>1 DEF HardLink, TypeOK, StoreTypeOK
  <2>3. Continues(Visible, body[p])
    BY <2>1 DEF Visible, VersionIn, Continues
  <2> QED
    BY <1>1, <1>2, <1>3, <2>2, <2>3, PublishKeeps DEF Publishing
<1>4. CASE pc' = [pc EXCEPT ![p] = "drop"] /\ outcome' = [outcome EXCEPT ![p] = "refused"] /\ UNCHANGED fileVars
  <2>1. Quiet
    BY <1>1, <1>2, <1>4 DEF Quiet, fileVars, TypeOK, Replacing, Staging, Confirming, Running, Over
  <2> QED
    BY <2>1, QuietKeeps
<1> QED
  BY <1>3, <1>4 DEF LinkInto, Goto, Report

\* Success is reported after the version in force has become durable.
LEMMA DirSyncKeeps ==
  ASSUME TypeOK, Commanded, FileInv, TurnInv, NEW p \in Proc, DirSync(p)
  PROVE  TurnInv'
<1> USE NamesAssumption DEF TurnInv
<1>1. /\ cached' = cached /\ disk' = cached /\ body' = body
      /\ lifecycle' = lifecycle /\ command' = command /\ overlapped' = overlapped
  BY DEF DirSync, ConfirmedSync, SyncDirectory, commandVars
<1>2. /\ pc[p] \in Confirming
      /\ pc'[p] \notin Replacing
      /\ pc'[p] \in Confirming => pc[p] \in Confirming
      /\ \A q \in Proc : q # p => pc'[q] = pc[q] /\ outcome'[q] = outcome[q]
      /\ Running(p)' => Running(p)
      /\ outcome'[p] \in {outcome[p], "ok"}
  BY DEF DirSync, Goto, Report, TypeOK, Confirming, Replacing, Staging, Running, Over
<1>3. Carried'
  BY <1>1, <1>2 DEF Carried, Inits
<1>4. Visible' = Visible /\ Durable' = Visible
  BY <1>1 DEF Visible, Durable, VersionIn
<1>5. ASSUME ~ overlapped' PROVE Alone' /\ Continues(Durable, Visible)' /\ Prepared' /\ InForce'
  <2>1. ~ overlapped /\ InTurn
    BY <1>1, <1>5
  <2>2. Alone'
    BY <1>2, <2>1 DEF InTurn, Alone, Running
  <2>3. Continues(Durable, Visible)'
    BY <1>1, <1>4, ContinuesIsOrder, VersionsAreRecords, SameOrder
  <2>4. Prepared'
    <3> SUFFICES ASSUME NEW q \in Proc, pc'[q] \in Replacing, ~ Inits(q)'
                 PROVE  Continues(Visible, body[q])'
      BY DEF Prepared, Replacing, Staging
    <3>1. Continues(Visible, body[q])
      BY <1>1, <1>2, <2>1 DEF InTurn, Prepared, Inits
    <3> QED
      BY <1>1, <1>4, <3>1, SameOrder
  <2>5. InForce'
    BY <1>1, <1>2, <2>1 DEF InTurn, InForce, Confirming
  <2> QED
    BY <2>2, <2>3, <2>4, <2>5
<1>6. ASSUME ~ overlapped' PROVE Acknowledged'
  <2> SUFFICES ASSUME NEW q \in Proc, outcome'[q] = "ok"
               PROVE  Has(q, cached[Dest])' /\ Has(q, disk[Dest])'
    BY DEF Acknowledged
  <2>1. ~ overlapped /\ InTurn
    BY <1>1, <1>6
  <2>2. Has(q, cached[Dest])
    <3>1. CASE q = p
      <4>1. cached[Dest] = p
        BY <1>2, <2>1 DEF InTurn, InForce
      <4>2. ASSUME ~ Inits(p)
            PROVE  \E r \in body[p] : r.id = Canonical(command[p].key)
                                      /\ <<command[p].status, r.status>> \in Permitted
        <5>1. PICK r \in body[p] : r.id = Canonical(command[p].key) /\ r.status = command[p].status
          BY <1>2, <4>2 DEF Carried
        <5>2. body[p] \in SUBSET Record
          BY DEF TypeOK
        <5>3. r.status \in Status
          BY <5>1, <5>2 DEF Record
        <5> QED
          BY <5>1, <5>3, PermittedIsOrder
      <4> QED
        BY <3>1, <4>1, <4>2 DEF Has, VersionIn
    <3>2. CASE q # p
      BY <1>2, <2>1, <3>2, AcknowledgedAlike DEF Acknowledged
    <3> QED
      BY <3>1, <3>2
  <2>3. \A i : Has(q, i)' <=> Has(q, i)
    BY <1>1, SameHolding
  <2> QED
    BY <1>1, <2>2, <2>3
<1>7. AcknowledgedStays'
  BY <1>6, AcknowledgedAlike, PTL
<1> QED
  BY <1>3, <1>5, <1>7 DEF InTurn

\* A power loss ends every command and goes back to the durable version.
LEMMA PowerLossKeeps ==
  ASSUME TypeOK, Commanded, FileInv, TurnInv, LosePower
  PROVE  TurnInv'
<1> USE DEF TurnInv
<1>1. /\ cached' = disk /\ disk' = disk /\ body' = body /\ outcome' = outcome
      /\ lifecycle' = lifecycle /\ command' = command /\ overlapped' = overlapped
      /\ pc' = [p \in Proc |-> IF Running(p) THEN "crashed" ELSE pc[p]]
  BY DEF LosePower, PowerLoss, commandVars
<1>2. \A p \in Proc : pc'[p] \notin Replacing \cup Confirming /\ ~ Running(p)'
  BY <1>1 DEF Running, Over, Replacing, Confirming, Staging
<1>3. Carried'
  BY <1>1, <1>2 DEF Carried
<1>4. Alone' /\ Prepared' /\ InForce'
  BY <1>2 DEF Alone, Prepared, InForce
<1>5. Visible' = Durable /\ Durable' = Durable
  BY <1>1 DEF Visible, Durable, VersionIn
<1>6. Continues(Durable, Visible)'
  BY <1>1, <1>5, ContinuesIsOrder, VersionsAreRecords, SameOrder
<1>7. ASSUME ~ overlapped' PROVE Acknowledged'
  <2> SUFFICES ASSUME NEW q \in Proc, outcome'[q] = "ok"
               PROVE  Has(q, cached[Dest])' /\ Has(q, disk[Dest])'
    BY DEF Acknowledged
  <2>1. Has(q, disk[Dest])
    BY <1>1, <1>7, AcknowledgedAlike DEF Acknowledged
  <2>2. \A i : Has(q, i)' <=> Has(q, i)
    BY <1>1, SameHolding
  <2> QED
    BY <1>1, <2>1, <2>2
<1>8. AcknowledgedStays'
  BY <1>7, AcknowledgedAlike, PTL
<1> QED
  BY <1>3, <1>4, <1>6, <1>8 DEF InTurn

\* Every step keeps TurnInv.
LEMMA NextTurnInv == TypeOK /\ Commanded /\ FileInv /\ TurnInv /\ [Next]_vars => TurnInv'
<1> SUFFICES ASSUME TypeOK, Commanded, FileInv, TurnInv, [Next]_vars PROVE TurnInv'
  OBVIOUS
<1>1. CASE \E p \in Proc : Start(p)
  BY <1>1, StartKeeps
<1>2. CASE \E p \in Proc : Read(p)
  BY <1>2, ReadKeeps
<1>3. CASE \E p \in Proc : RenameInto(p)
  BY <1>3, RenameKeeps
<1>4. CASE \E p \in Proc : LinkInto(p)
  BY <1>4, LinkKeeps
<1>5. CASE \E p \in Proc : DirSync(p)
  BY <1>5, DirSyncKeeps
<1>6. CASE LosePower
  BY <1>6, PowerLossKeeps
<1>7. CASE \/ \E p \in Proc : \/ Refuse(p) \/ Create(p) \/ Write(p) \/ Sync(p) \/ StageFails(p)
                              \/ Unlink(p) \/ DirSyncFails(p) \/ Drop(p) \/ DropSync(p) \/ Crash(p)
           \/ BackgroundWriteback
           \/ UNCHANGED vars
  BY <1>7, QuietIsQuiet, QuietKeeps
<1> QED
  BY <1>1, <1>2, <1>3, <1>4, <1>5, <1>6, <1>7 DEF Next

\* In the beginning the visible version is the durable one.
LEMMA InitTurnInv == Init => TurnInv
<1> SUFFICES ASSUME Init PROVE TurnInv
  OBVIOUS
<1>1. TypeOK
  BY InitFileInv
<1>2. \A p \in Proc : pc[p] = "idle" /\ outcome[p] = "none" /\ ~ Running(p)
  BY DEF Init, Running
<1>3. Unique(body[Genesis])
  <2>1. PICK records \in IF cached[Dest] = Genesis THEN Genesises ELSE {{}} :
          body = [i \in Proc \cup {Genesis} |-> IF i = Genesis THEN records ELSE {}]
    BY DEF Init
  <2>2. ASSUME NEW d, NEW r \in {[id |-> Canonical(k), status |-> FirstRecord, data |-> d] : k \in Key},
               NEW s \in {[id |-> Canonical(k), status |-> FirstRecord, data |-> d] : k \in Key},
               r.id[1] = s.id[1]
        PROVE  r = s
    BY <2>2 DEF Canonical
  <2>3. Unique(records)
    BY <2>1, <2>2 DEF Genesises, Unique
  <2> QED
    BY <2>1, <2>3
<1>4. Visible = Durable
  BY DEF Init, Visible, Durable
<1>5. Continues(Durable, Visible)
  BY <1>1, <1>4, ContinuesIsOrder, VersionsAreRecords
<1>6. Carried /\ Prepared /\ InForce /\ Alone /\ AcknowledgedStays
  BY <1>2, <1>3 DEF Carried, Prepared, InForce, Alone, AcknowledgedStays, Replacing, Staging, Confirming
<1> QED
  BY <1>5, <1>6 DEF TurnInv, InTurn

\* The inductive invariant.
LEMMA Invariance == Spec => []Inv
<1>1. Init => Inv
  BY InitFileInv, InitTurnInv DEF Inv
<1>2. Inv /\ [Next]_vars => Inv'
  BY NextTypeOK, NextFileInv, NextTurnInv DEF Inv
<1> QED
  BY <1>1, <1>2, PTL DEF Spec

\* A status change that was reported as done stays in force, and survives a power loss, as
\* long as commands do not overlap: sync_parent comes after the rename and before the report.
THEOREM SuccessStays == Spec => []AcknowledgedStays
<1>1. Inv => AcknowledgedStays
  BY DEF Inv, TurnInv
<1> QED
  BY <1>1, Invariance, PTL

----------------------------------------------------------------------------
\* What a step may make of the visible and of the durable version.
LEMMA VersionSteps ==
  ASSUME Inv, [Next]_vars
  PROVE  /\ ~ overlapped' => ~ overlapped
         /\ \/ Visible' = Visible
            \/ ~ overlapped => Continues(Visible, Visible')
            \/ losses' # losses
         /\ Durable' \in {Durable, Visible}
<1> USE NamesAssumption DEF Inv
<1>1. CASE \E p \in Proc : Start(p)
  BY <1>1 DEF Start, fileVars, Visible, Durable, VersionIn
<1>2. CASE \E p \in Proc : Read(p)
  <2>1. PICK p \in Proc : Read(p)
    BY <1>2
  <2>2. /\ cached' = cached /\ disk' = disk /\ overlapped' = overlapped
        /\ \E new : body' = [body EXCEPT ![p] = new]
        /\ cached[Dest] # p /\ disk[Dest] # p
    BY <2>1 DEF Read, Goto, fileVars, commandVars, FileInv, Unpublished, AtDest
  <2> QED
    BY <2>2 DEF Visible, Durable, VersionIn, TypeOK, StoreTypeOK
<1>3. CASE \E p \in Proc : RenameInto(p)
  <2>1. PICK p \in Proc : RenameInto(p)
    BY <1>3
  <2>2. pc[p] = "rename" /\ ~ Inits(p) /\ cached[p] = p
    BY <2>1 DEF RenameInto, Goto, Commanded, Rename, Exists, FileInv, Named
  <2>3. cached'[Dest] = p /\ disk' = disk /\ body' = body /\ overlapped' = overlapped
    BY <2>1, <2>2 DEF RenameInto, Rename, TypeOK, StoreTypeOK, commandVars
  <2>4. Visible' = body[p] /\ Durable' = Durable
    BY <2>3 DEF Visible, Durable, VersionIn
  <2>5. ~ overlapped => Continues(Visible, body[p])
    BY <2>2 DEF TurnInv, InTurn, Prepared, Replacing
  <2> QED
    BY <2>3, <2>4, <2>5
<1>4. CASE \E p \in Proc : LinkInto(p)
  <2>1. PICK p \in Proc : LinkInto(p)
    BY <1>4
  <2>2. disk' = disk /\ body' = body /\ overlapped' = overlapped
    BY <2>1 DEF LinkInto, HardLink, fileVars, commandVars
  <2>3. CASE HardLink(p, Dest)
    BY <2>2, <2>3 DEF HardLink, Exists, Visible, Durable, VersionIn, Continues
  <2>4. CASE UNCHANGED fileVars
    BY <2>2, <2>4 DEF fileVars, Visible, Durable, VersionIn
  <2> QED
    BY <2>1, <2>3, <2>4 DEF LinkInto
<1>5. CASE \E p \in Proc : DirSync(p)
  BY <1>5 DEF DirSync, ConfirmedSync, SyncDirectory, commandVars, Visible, Durable, VersionIn
<1>6. CASE LosePower
  BY <1>6 DEF LosePower, PowerLoss, commandVars, TypeOK, Visible, Durable, VersionIn
<1>7. CASE \/ \E p \in Proc : \/ Refuse(p) \/ Create(p) \/ Write(p) \/ Sync(p) \/ StageFails(p)
                              \/ Unlink(p) \/ DirSyncFails(p) \/ Drop(p) \/ DropSync(p) \/ Crash(p)
           \/ BackgroundWriteback
           \/ UNCHANGED vars
  <2>1. Quiet
    BY <1>7, QuietIsQuiet
  <2> QED
    BY <2>1 DEF Quiet, Visible, Durable, VersionIn
<1> QED
  BY <1>1, <1>2, <1>3, <1>4, <1>5, <1>6, <1>7 DEF Next

\* While commands do not overlap every step continues both versions.
LEMMA TurnContinues ==
  ASSUME Inv, [Next]_vars, ~ overlapped'
  PROVE  /\ losses' = losses => Continues(Visible, Visible')
         /\ Continues(Durable, Durable')
<1>1. /\ Continues(Visible, Visible) /\ Continues(Durable, Durable)
  BY ContinuesIsOrder, VersionsAreRecords DEF Inv
<1>2. ~ overlapped /\ Continues(Durable, Visible)
  BY VersionSteps DEF Inv, TurnInv, InTurn
<1> QED
  BY <1>1, <1>2, VersionSteps

\* Neither what is in force nor what is durable goes back in its lifecycle or loses a
\* record while commands do not overlap: the transition check of set-status and the
\* create-new publication of init.
LEMMA LifecyclesAdvance == Spec => StatusesAdvance
<1>1. Inv /\ [Next]_vars => [losses' = losses /\ ~ overlapped' => Continues(Visible, Visible')]_vars
  BY TurnContinues
<1>2. Inv /\ [Next]_vars => [~ overlapped' => Continues(Durable, Durable')]_vars
  BY TurnContinues
<1> QED
  BY <1>1, <1>2, Invariance, PTL DEF Spec, StatusesAdvance, LifecycleMonotone, DurableMonotone

----------------------------------------------------------------------------
\* What a command makes of the records depends on them and on which of the two
\* files it is.
LEMMA SameChanges ==
  lifecycle' = lifecycle => \A c, S : Changes(c, S)' = Changes(c, S)
<1> SUFFICES ASSUME lifecycle' = lifecycle, NEW c, NEW S PROVE Changes(c, S)' = Changes(c, S)
  OBVIOUS
<1>1. \A T : Fits(T)' <=> Fits(T)
  BY DEF Fits, EncodedLen, RecordLen, MapThenSumSet, MapThenFoldSet
<1>2. Added(c, S)' = Added(c, S)
  BY DEF Added, Valid, CanonicalOnly, Unique, NewRecord
<1>3. Moved(c, S)' = Moved(c, S)
  BY DEF Moved, MayMove, Permitted
<1> QED
  BY <1>1, <1>2, <1>3 DEF Changes

\* The version to be renamed is what the command makes of the one it replaces.
Current ==
    ~ overlapped => \A p \in Proc : pc[p] \in Replacing /\ ~ Inits(p) =>
        cached[Dest] # NoInode /\ body[p] \in Changes(command[p], Visible)

\* Only a read prepares a version, and only a start, a publication and a power
\* loss can make it stale.
LEMMA SamePrepared ==
  ASSUME Current, lifecycle' = lifecycle, overlapped' = overlapped,
         cached'[Dest] = cached[Dest], Visible' = Visible,
         \A p \in Proc : pc'[p] \in Replacing =>
            pc[p] \in Replacing /\ command'[p] = command[p] /\ body'[p] = body[p]
  PROVE  Current'
<1> SUFFICES ASSUME ~ overlapped', NEW p \in Proc, pc'[p] \in Replacing, ~ Inits(p)'
             PROVE  cached'[Dest] # NoInode /\ body'[p] \in Changes(command[p], Visible)'
  BY DEF Current, Replacing, Staging
<1>1. pc[p] \in Replacing /\ ~ Inits(p) /\ ~ overlapped /\ command'[p] = command[p] /\ body'[p] = body[p]
  BY DEF Inits
<1>2. cached[Dest] # NoInode /\ body[p] \in Changes(command[p], Visible)
  BY <1>1 DEF Current
<1>3. Changes(command[p], Visible)' = Changes(command[p], Visible)
  BY <1>1, SameChanges
<1> QED
  BY <1>1, <1>2, <1>3

\* Every step keeps Current.
LEMMA NextCurrent == Inv /\ Current /\ [Next]_vars => Current'
<1> SUFFICES ASSUME Inv, Current, [Next]_vars PROVE Current'
  OBVIOUS
<1> USE NamesAssumption DEF Inv
<1>1. CASE \E p \in Proc : Start(p)
  <2>1. PICK p \in Proc : Start(p)
    BY <1>1
  <2>2. PICK c \in Command : /\ command' = [command EXCEPT ![p] = c]
                             /\ pc' = [pc EXCEPT ![p] = IF c.op = "init" THEN "create" ELSE "read"]
    BY <2>1 DEF Start, Goto
  <2>3. /\ cached' = cached /\ body' = body /\ lifecycle' = lifecycle
        /\ overlapped' = (overlapped \/ \E q \in Proc : Running(q))
    BY <2>1 DEF Start, fileVars
  <2>4. ASSUME ~ overlapped', NEW q \in Proc, pc'[q] \in Replacing PROVE Inits(q)'
    <3>1. q = p
      BY <2>2, <2>3, <2>4 DEF TypeOK, Running, Over, Replacing, Staging
    <3> QED
      BY <2>2, <2>4, <3>1 DEF TypeOK, Inits, Replacing, Staging
  <2> QED
    BY <2>4 DEF Current, Replacing, Staging
<1>2. CASE \E p \in Proc : Read(p)
  <2>1. PICK p \in Proc : Read(p)
    BY <1>2
  <2>2. PICK new \in Changes(command[p], Visible) : body' = [body EXCEPT ![p] = new]
    BY <2>1 DEF Read, Usable, Exists, Visible, VersionIn
  <2>3. /\ pc[p] = "read" /\ pc' = [pc EXCEPT ![p] = "create"] /\ cached' = cached
        /\ command' = command /\ overlapped' = overlapped /\ lifecycle' = lifecycle
        /\ cached[Dest] # NoInode
    BY <2>1 DEF Read, Goto, Usable, Exists, fileVars, commandVars
  <2>4. /\ body'[p] = new
        /\ \A q \in Proc : q # p => body'[q] = body[q] /\ pc'[q] = pc[q]
    BY <2>2, <2>3 DEF TypeOK
  <2>5. cached[Dest] # p
    BY <2>3 DEF FileInv, Unpublished, AtDest
  <2>6. Visible' = Visible
    BY <2>2, <2>3, <2>5 DEF Visible, VersionIn, TypeOK, StoreTypeOK
  <2> SUFFICES ASSUME ~ overlapped', NEW q \in Proc, pc'[q] \in Replacing, ~ Inits(q)'
               PROVE  cached'[Dest] # NoInode /\ body'[q] \in Changes(command[q], Visible)'
    BY DEF Current, Replacing, Staging
  <2>7. Changes(command[q], Visible)' = Changes(command[q], Visible)
    BY <2>3, <2>6, SameChanges
  <2>8. CASE q = p
    BY <2>2, <2>3, <2>4, <2>7, <2>8
  <2>9. CASE q # p
    <3>1. body[q] \in Changes(command[q], Visible)
      BY <2>3, <2>4, <2>9 DEF Current, Inits
    <3> QED
      BY <2>3, <2>4, <2>7, <2>9, <3>1
  <2> QED
    BY <2>8, <2>9
<1>3. CASE \E p \in Proc : RenameInto(p) \/ LinkInto(p)
  <2>1. PICK p \in Proc : RenameInto(p) \/ LinkInto(p)
    BY <1>3
  <2>2. /\ overlapped' = overlapped /\ pc[p] \in Publishing
        /\ \E s \in {"dirsync", "drop"} : pc' = [pc EXCEPT ![p] = s]
    BY <2>1 DEF RenameInto, LinkInto, Goto, commandVars, Publishing
  <2>3. ASSUME ~ overlapped', NEW q \in Proc PROVE pc'[q] \notin Replacing
    <3>1. CASE q = p
      BY <2>2, <3>1 DEF TypeOK, Replacing, Staging
    <3>2. CASE q # p
      <4>1. ~ Running(q)
        BY <2>2, <2>3, <3>2 DEF TurnInv, InTurn, Alone, Running, Over, Publishing
      <4> QED
        BY <2>2, <3>2, <4>1 DEF TypeOK, Running, Over, Replacing, Staging
    <3> QED
      BY <3>1, <3>2
  <2> QED
    BY <2>3 DEF Current, Replacing, Staging
<1>4. CASE \E p \in Proc : DirSync(p)
  <2>1. PICK p \in Proc : DirSync(p)
    BY <1>4
  <2>2. /\ cached' = cached /\ body' = body
        /\ lifecycle' = lifecycle /\ command' = command /\ overlapped' = overlapped
    BY <2>1 DEF DirSync, ConfirmedSync, SyncDirectory, commandVars
  <2>3. \A q \in Proc : pc'[q] \in Replacing => pc[q] \in Replacing
    BY <2>1 DEF DirSync, Goto, TypeOK, Replacing, Staging
  <2>4. Visible' = Visible
    BY <2>2 DEF Visible, VersionIn
  <2> QED
    BY <2>2, <2>3, <2>4, SamePrepared
<1>5. CASE LosePower
  <2>1. \A p \in Proc : pc'[p] \notin Replacing
    BY <1>5 DEF LosePower, Running, Over, Replacing, Staging
  <2> QED
    BY <2>1 DEF Current, Replacing, Staging
<1>6. CASE \/ \E p \in Proc : \/ Refuse(p) \/ Create(p) \/ Write(p) \/ Sync(p) \/ StageFails(p)
                              \/ Unlink(p) \/ DirSyncFails(p) \/ Drop(p) \/ DropSync(p) \/ Crash(p)
           \/ BackgroundWriteback
           \/ UNCHANGED vars
  <2>1. Quiet
    BY <1>6, QuietIsQuiet
  <2>2. Visible' = Visible
    BY <2>1 DEF Quiet, Visible, VersionIn
  <2> QED
    BY <2>1, <2>2, SamePrepared DEF Quiet
<1> QED
  BY <1>1, <1>2, <1>3, <1>4, <1>5, <1>6 DEF Next

\* A publication in turn is the one step in which a command takes effect.
LEMMA RenameTakesEffect ==
  ASSUME Inv, Current, ~ overlapped, NEW p \in Proc, RenameInto(p)
  PROVE  TakesEffect(p)
<1> USE NamesAssumption DEF Inv
<1>1. pc[p] = "rename" /\ ~ Inits(p) /\ cached[p] = p /\ cached[Dest] # p
  BY DEF RenameInto, Goto, Commanded, Rename, Exists, FileInv, Named, Unpublished, Publishing, AtDest
<1>2. cached'[Dest] = p /\ body' = body
  BY <1>1 DEF RenameInto, Rename, TypeOK, StoreTypeOK
<1>3. Visible' = body[p]
  BY <1>2 DEF Visible, VersionIn
<1>4. cached[Dest] # NoInode /\ body[p] \in Changes(command[p], Visible)
  BY <1>1 DEF Current, Replacing
<1> QED
  BY <1>1, <1>2, <1>3, <1>4 DEF TakesEffect

LEMMA LinkTakesEffect ==
  ASSUME Inv, NEW p \in Proc, LinkInto(p)
  PROVE  TakesEffect(p) \/ UNCHANGED <<cached, body>>
<1> USE NamesAssumption DEF Inv
<1>1. pc[p] = "link" /\ Inits(p) /\ body[p] = {} /\ body' = body /\ cached[Dest] # p
  BY DEF LinkInto, Goto, Commanded, FileInv, Unpublished, Publishing, AtDest
<1>2. CASE HardLink(p, Dest)
  <2>1. cached[p] = p /\ cached[Dest] = NoInode
    BY <1>2 DEF HardLink, Exists, FileInv, Named
  <2>2. cached'[Dest] = p
    BY <1>2, <2>1 DEF HardLink, TypeOK, StoreTypeOK
  <2>3. Visible' = {}
    BY <1>1, <2>2 DEF Visible, VersionIn
  <2> QED
    BY <1>1, <2>1, <2>2, <2>3 DEF TakesEffect
<1>3. CASE UNCHANGED fileVars
  BY <1>1, <1>3 DEF fileVars
<1> QED
  BY <1>2, <1>3 DEF LinkInto

SameVersion == cached'[Dest] = cached[Dest] /\ Visible' = Visible

LEMMA AtomicStep ==
  ASSUME Inv, Current, [Next]_vars, losses' = losses, ~ overlapped'
  PROVE  SameVersion \/ \E p \in Proc : TakesEffect(p)
<1> USE NamesAssumption DEF Inv
<1>1. CASE \E p \in Proc : Start(p) \/ DirSync(p)
  BY <1>1 DEF Start, DirSync, ConfirmedSync, SyncDirectory, fileVars, Visible, VersionIn, SameVersion
<1>2. CASE \E p \in Proc : Read(p)
  <2>1. PICK p \in Proc : Read(p)
    BY <1>2
  <2>2. /\ cached' = cached /\ cached[Dest] # p
        /\ \E new : body' = [body EXCEPT ![p] = new]
    BY <2>1 DEF Read, Goto, fileVars, FileInv, Unpublished, AtDest
  <2> QED
    BY <2>2 DEF Visible, VersionIn, TypeOK, StoreTypeOK, SameVersion
<1>3. CASE \E p \in Proc : RenameInto(p)
  <2>1. PICK p \in Proc : RenameInto(p)
    BY <1>3
  <2>2. ~ overlapped
    BY <2>1 DEF RenameInto, commandVars
  <2> QED
    BY <2>1, <2>2, RenameTakesEffect
<1>4. CASE \E p \in Proc : LinkInto(p)
  BY <1>4, LinkTakesEffect DEF Visible, VersionIn, SameVersion
<1>5. CASE LosePower
  BY <1>5 DEF LosePower, TypeOK
<1>6. CASE \/ \E p \in Proc : \/ Refuse(p) \/ Create(p) \/ Write(p) \/ Sync(p) \/ StageFails(p)
                              \/ Unlink(p) \/ DirSyncFails(p) \/ Drop(p) \/ DropSync(p) \/ Crash(p)
           \/ BackgroundWriteback
           \/ UNCHANGED vars
  <2>1. Quiet
    BY <1>6, QuietIsQuiet
  <2> QED
    BY <2>1 DEF Quiet, Visible, VersionIn, SameVersion
<1> QED
  BY <1>1, <1>2, <1>3, <1>4, <1>5, <1>6 DEF Next

\* While commands do not overlap a record file is as good as one that each
\* command changes at once (replace_signer_policy, replace_inventory,
\* TemporaryFile::commit for init), on the records that are in force then and not
\* on those it has read; and neither what is in force nor what is durable goes
\* back in its lifecycle or loses a record.
THEOREM OneCommandAtATime == Spec => CommandsInTurn
<1>1. Init => Current
  BY DEF Init, Current, Replacing, Staging
<1>2. Spec => [](Inv /\ Current)
  <2>1. Inv /\ Current /\ [Next]_vars => Current'
    BY NextCurrent
  <2> QED
    BY <1>1, <2>1, Invariance, PTL DEF Spec
<1>3. Inv /\ Current /\ [Next]_vars =>
         [losses' = losses /\ ~ overlapped' => SameVersion \/ \E p \in Proc : TakesEffect(p)]_vars
  BY AtomicStep
<1>4. Spec => AtomicInTurn
  BY <1>2, <1>3, PTL DEF Spec, AtomicInTurn, SameVersion
<1> QED
  BY <1>4, LifecyclesAdvance, PTL DEF CommandsInTurn

----------------------------------------------------------------------------
\* The visible version has one record per key.
LEMMA VisibleIsUnique == Inv => Unique(Visible)
<1> SUFFICES ASSUME Inv PROVE Unique(Visible)
  OBVIOUS
<1>1. CASE cached[Dest] = NoInode
  BY <1>1 DEF Visible, VersionIn, Unique
<1>2. CASE cached[Dest] = Genesis
  BY <1>2, NamesAssumption DEF Inv, TurnInv, Carried, Visible, VersionIn
<1>3. CASE cached[Dest] \in Proc
  BY <1>3, NamesAssumption DEF Inv, FileInv, PublishedWhole, AtDest, Acceptable, Valid, Visible, VersionIn
<1> QED
  BY <1>1, <1>2, <1>3 DEF Inv, TypeOK, StoreTypeOK

\* No step gives authority back to a revoked, compromised or destroyed key while commands
\* do not overlap: the transition tables together with the uniqueness the readers check.
THEOREM AuthorityStaysLost == Spec => NoAuthorityRegainedInTurn
<1>1. ASSUME Inv, Inv', [Next]_vars, losses' = losses, ~ overlapped' PROVE ~ Regained
  <2> SUFFICES ASSUME NEW r \in Visible, NEW s \in Visible', r.id = s.id,
                      r.status \in {"revoked", "compromised", "destroyed"},
                      s.status \in {"trusted", "active", "retired"}
               PROVE  FALSE
    BY DEF Regained
  <2>1. PICK t \in Visible' : t.id = r.id /\ <<r.status, t.status>> \in Permitted
    BY <1>1, TurnContinues DEF Continues
  <2>2. Unique(Visible')
    <3>1. Unique(Visible)'
      BY <1>1, VisibleIsUnique, PTL
    <3> QED
      BY <3>1 DEF Unique
  <2>3. t = s
    BY <2>1, <2>2 DEF Unique
  <2> QED
    BY <2>1, <2>3 DEF Permitted, SignerTransitions, RootKeyTransitions, AfterCompromise
<1>2. Inv /\ Inv' /\ [Next]_vars => [losses' = losses /\ ~ overlapped' => ~ Regained]_vars
  BY <1>1
<1> QED
  BY <1>2, Invariance, PTL DEF Spec, NoAuthorityRegainedInTurn

----------------------------------------------------------------------------
(* Revocation at the size limit.                                           *)

\* All words for the states of a signer are equally long, so the length of a policy is a
\* multiple of the number of its records.
LEMMA SignerLength ==
  ASSUME lifecycle = "signer", NEW S, IsFiniteSet(S)
  PROVE  MapThenSumSet(RecordLen, S) = 17 * Cardinality(S)
<1> DEFINE Pick(s) == CHOOSE x \in s : TRUE
           Sums(g) == g = [s \in SUBSET S |-> IF s = {} THEN 0 ELSE RecordLen(Pick(s)) + g[s \ {Pick(s)}]]
           iter == CHOOSE g : Sums(g)
           exact == [s \in SUBSET S |-> 17 * Cardinality(s)]
           wrong == {s \in SUBSET S : iter[s] # 17 * Cardinality(s)}
<1>1. MapThenSumSet(RecordLen, S) = iter[S]
  BY DEF MapThenSumSet, MapThenFoldSet
<1>2. \A x : RecordLen(x) = 17
  BY DEF RecordLen, SignerWord
<1>3. \A s \in SUBSET S : s # {} =>
        /\ Pick(s) \in s /\ s \ {Pick(s)} \in SUBSET S
        /\ Cardinality(s) \in Nat /\ Cardinality(s \ {Pick(s)}) = Cardinality(s) - 1
  BY FS_Subset, FS_RemoveElement, FS_CardinalityType
<1>4. Cardinality({}) = 0
  BY FS_EmptySet
<1> HIDE DEF Pick
<1>5. Sums(exact)
  <2> SUFFICES ASSUME NEW s \in SUBSET S
               PROVE  17 * Cardinality(s) = IF s = {} THEN 0 ELSE RecordLen(Pick(s)) + exact[s \ {Pick(s)}]
    OBVIOUS
  <2>1. CASE s = {}
    BY <1>4, <2>1
  <2>2. CASE s # {}
    BY <1>2, <1>3, <2>2
  <2> QED
    BY <2>1, <2>2
<1> HIDE DEF exact
<1>6. Sums(iter)
  BY <1>5
<1> HIDE DEF iter
<1>7. wrong = {}
  <2> SUFFICES ASSUME wrong # {} PROVE FALSE
    OBVIOUS
  <2>1. IsWellFoundedOn(StrictSubsetOrdering(S), SUBSET S)
    BY FS_StrictSubsetOrderingWellFounded, FS_FiniteSubsetsOfFinite
  <2>2. wrong \subseteq SUBSET S
    OBVIOUS
  <2> HIDE DEF wrong
  <2>3. PICK s \in wrong : \A t \in wrong : ~ (<<t, s>> \in StrictSubsetOrdering(S))
    BY <2>1, <2>2, WFMin
  <2> USE DEF wrong
  <2>4. CASE s = {}
    BY <1>4, <1>6, <2>3, <2>4
  <2>5. CASE s # {}
    <3>1. Pick(s) \in s /\ s \ {Pick(s)} \in SUBSET S
      BY <1>3, <2>3, <2>5
    <3>2. <<s \ {Pick(s)}, s>> \in StrictSubsetOrdering(S)
      <4>1. s \in SUBSET S /\ s \ {Pick(s)} # s
        BY <2>3, <3>1
      <4> QED
        BY <3>1, <4>1 DEF StrictSubsetOrdering
    <3>3. iter[s \ {Pick(s)}] = 17 * Cardinality(s \ {Pick(s)})
      BY <2>3, <3>1, <3>2
    <3>4. iter[s] = RecordLen(Pick(s)) + iter[s \ {Pick(s)}]
      BY <1>6, <2>3, <2>5
    <3>5. iter[s] = 17 * Cardinality(s)
      BY <1>2, <1>3, <2>3, <2>5, <3>3, <3>4
    <3> QED
      BY <2>3, <3>5
  <2> QED
    BY <2>4, <2>5
<1>8. S \notin wrong
  BY <1>7
<1> QED
  BY <1>1, <1>8

\* With one record per key there are only finitely many.
LEMMA UniqueIsFinite ==
  ASSUME NEW S \in SUBSET Record, Unique(S)
  PROVE  IsFiniteSet(S)
<1> DEFINE f == [r \in S |-> r.id[1]]
<1>1. \A r \in S : r.id[1] \in Key
  BY DEF Record, Text
<1>2. f \in Injection(S, Key)
  BY <1>1 DEF Injection, IsInjective, Unique
<1> QED
  BY <1>2, FS_Injection, KeyAssumption

\* A version that is in force and fits has acceptable records: what a command has
\* published does, of the first one the readers have looked at the IDs.
LEMMA InForceIsAcceptable ==
  Inv /\ Usable /\ (cached[Dest] = Genesis => Fits(Visible)) => Acceptable(Visible)
<1> SUFFICES ASSUME Inv, Usable, cached[Dest] = Genesis => Fits(Visible) PROVE Acceptable(Visible)
  OBVIOUS
<1>1. CASE cached[Dest] = Genesis
  BY <1>1, NamesAssumption DEF Usable, Readable, Acceptable, Visible, VersionIn
<1>2. CASE cached[Dest] \in Proc
  BY <1>2, NamesAssumption DEF Inv, FileInv, PublishedWhole, AtDest, Visible, VersionIn
<1> QED
  BY <1>1, <1>2 DEF Usable, Exists, Inv, TypeOK, StoreTypeOK

\* Moving a record to revoked makes the policy no longer.
LEMMA RoomToRevoke == Inv => RevocationPossible
<1> SUFFICES ASSUME TypeOK, lifecycle = "signer", Acceptable(Visible), NEW r \in Visible
             PROVE  Changes([op |-> "set", key |-> r.id[1], status |-> "revoked"], Visible) # {}
  BY InForceIsAcceptable DEF RevocationPossible, Inv
<1> DEFINE c == [op |-> "set", key |-> r.id[1], status |-> "revoked"]
           s == [r EXCEPT !.status = "revoked"]
           new == (Visible \ {r}) \cup {s}
<1>1. Visible \in SUBSET Record
  BY DEF TypeOK, StoreTypeOK, Visible, VersionIn
<1>2. r.id = Canonical(r.id[1]) /\ MayMove(r.status, "revoked")
  BY <1>1 DEF Acceptable, Valid, CanonicalOnly, Record, Text, Canonical, MayMove, Permitted, SignerTransitions,
              Status, SignerStatus
<1>3. IsFiniteSet(Visible) /\ IsFiniteSet(new) /\ Cardinality(new) <= Cardinality(Visible)
      /\ Cardinality(new) \in Nat /\ Cardinality(Visible) \in Nat
  <2>1. IsFiniteSet(Visible)
    BY <1>1, UniqueIsFinite DEF Acceptable, Valid
  <2>2. IsFiniteSet(Visible \ {r}) /\ Cardinality(Visible \ {r}) = Cardinality(Visible) - 1
    BY <2>1, FS_RemoveElement
  <2>3. Cardinality(Visible \ {r}) \in Nat /\ Cardinality(Visible) \in Nat
    BY <2>1, <2>2, FS_CardinalityType
  <2>4. /\ IsFiniteSet((Visible \ {r}) \cup {s})
        /\ Cardinality((Visible \ {r}) \cup {s}) =
             IF s \in Visible \ {r} THEN Cardinality(Visible \ {r}) ELSE Cardinality(Visible \ {r}) + 1
    <3> HIDE DEF s
    <3> QED
      BY <2>2, FS_AddElement
  <2> QED
    BY <2>1, <2>2, <2>3, <2>4
<1>4. Fits(new)
  <2>1. 17 * Cardinality(Visible) <= MaxLen
    BY <1>3, SignerLength DEF Acceptable, Fits, EncodedLen
  <2>2. 17 * Cardinality(new) <= MaxLen
    BY <1>3, <2>1, BoundAssumption
  <2> QED
    BY <1>3, <2>2, SignerLength DEF Fits, EncodedLen
<1>5. new \in Moved(c, Visible)
  BY <1>2 DEF Moved
<1>6. new \in Changes(c, Visible)
  BY <1>4, <1>5 DEF Changes
<1> QED
  BY <1>6

\* set-status revoked is accepted for every signer of a policy that a command has written, one
\* at MAX_SIGNER_POLICY_LEN included, and of an edited one that keeps within that limit when
\* encode_signer_policy writes it: the transition exists and the new text fits.
THEOREM AnyoneCanBeRevoked == Spec => []RevocationPossible
<1>1. Inv => RevocationPossible
  BY RoomToRevoke
<1> QED
  BY <1>1, Invariance, PTL
=============================================================================

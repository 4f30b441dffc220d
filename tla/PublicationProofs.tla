------------------------- MODULE PublicationProofs -------------------------
(***************************************************************************)
(* Proofs about Publication, for any number of invocations, of temporary   *)
(* names, of failures and of power losses.                                 *)
(***************************************************************************)
EXTENDS Publication, TLAPS

(***************************************************************************)
(* The inductive invariant.  DestComplete, OkIsDurable and ReportHonest    *)
(* are not inductive: they need what each value of pc guarantees about the *)
(* directory, who may be found under which temporary name, and that a      *)
(* durable entry of the output path is also the visible one.               *)
(***************************************************************************)

\* An invocation that has not linked has reported nothing and is not at Dest.
Unlinked ==
    \A p \in Proc : pc[p] \in Early \cup Staging =>
        outcome[p] = "none" /\ ~ AtDest(p)

\* Before its file is created an invocation is under no name at all.
Unborn ==
    \A p \in Proc : pc[p] \in Early =>
        \A t \in Temp : cached[t] # p /\ disk[t] # p

\* A file is only ever under the temporary name its invocation picked.
Named ==
    /\ \A p \in Proc : pc[p] \in Guarded \cup {"create", "dirsync2"} => temp[p] \in Temp
    /\ \A p \in Proc, t \in Temp : cached[t] = p \/ disk[t] = p => temp[p] = t

\* What is linked has been written and synchronized, in this order.
Linkable ==
    \A p \in Proc :
        /\ pc[p] \in {"sync", "link"} => content[p] = "full"
        /\ pc[p] = "link" => pages[p] = "clean"

DestStable == disk[Dest] # NoInode => cached[Dest] = disk[Dest]

AfterLink ==
    \A p \in Proc :
        /\ pc[p] \in Linked \cup {"dirsync2"} => cached[Dest] = p
        /\ pc[p] \in {"unlink", "dirsync2"} => disk[Dest] = p
        /\ pc[p] = "dirsync2" => cached[temp[p]] # p

\* Once an invocation has succeeded it does nothing more.
OkIsOver == \A p \in Proc : outcome[p] = "ok" => pc[p] \in Over

IndInv ==
    /\ TypeOK
    /\ Unlinked
    /\ Unborn
    /\ Named
    /\ TempIsOurs
    /\ Linkable
    /\ DestComplete
    /\ DestStable
    /\ AfterLink
    /\ OkIsOver
    /\ OkIsDurable
    /\ ReportHonest
    /\ RemnantExplained

----------------------------------------------------------------------------
LEMMA InitIndInv == Init => IndInv
  BY ProcAssumption, NameAssumption
  DEF Init, StoreInit, IndInv, TypeOK, StoreTypeOK, Unlinked, Unborn, Named, TempIsOurs, Linkable,
      DestComplete, DestStable, AfterLink, OkIsOver, OkIsDurable, ReportHonest,
      RemnantExplained, AtDest,
      PCs, Early, Staging, Linked, Dropping, Guarded, Over, Outcomes, Content

LEMMA NextIndInv == IndInv /\ [Next]_vars => IndInv'
<1> SUFFICES ASSUME IndInv, [Next]_vars PROVE IndInv'
  OBVIOUS
<1> USE ProcAssumption, NameAssumption
<1> USE DEF IndInv, TypeOK, StoreTypeOK, Unlinked, Unborn, Named, TempIsOurs, Linkable,
      DestComplete, DestStable, AfterLink, OkIsOver, OkIsDurable, ReportHonest,
      RemnantExplained, AtDest,
      PCs, Early, Staging, Linked, Dropping, Guarded, Over, Outcomes, Content
<1>1. ASSUME NEW p \in Proc, Start(p) \/ Step(p) \/ Crash(p)
      PROVE  IndInv'
  <2> USE DEF Goto, Report, Fault, Exists, fileVars, envVars
  <2>1. CASE Start(p)
    BY <2>1 DEF Start
  <2>2. CASE Check(p)
    BY <2>2 DEF Check
  <2>3. CASE Pick(p)
    BY <2>3 DEF Pick
  <2>4. CASE PickFails(p)
    BY <2>4 DEF PickFails
  <2>5. CASE Create(p)
    BY <2>5 DEF Create, CreateNew
  <2>6. CASE CreateFails(p)
    BY <2>6 DEF CreateFails
  <2>7. CASE Write(p)
    BY <2>7 DEF Write, WriteSome, WriteRest
  <2>8. CASE Sync(p)
    BY <2>8 DEF Sync, SyncFile
  <2>9. CASE StageFails(p)
    BY <2>9 DEF StageFails
  <2>10. CASE Link(p)
    BY <2>10 DEF Link, HardLink
  <2>11. CASE LinkRefused(p)
    BY <2>11 DEF LinkRefused
  <2>12. CASE DirSync1(p)
    BY <2>12 DEF DirSync1, SyncDirectory
  <2>13. CASE Unlink(p)
    BY <2>13 DEF Unlink, Remove
  <2>14. CASE DirSync2(p)
    BY <2>14 DEF DirSync2, SyncDirectory
  <2>15. CASE CommitFails(p)
    BY <2>15 DEF CommitFails
  <2>16. CASE Drop(p)
    BY <2>16 DEF Drop, Remove
  <2>17. CASE DropFails(p)
    BY <2>17 DEF DropFails
  <2>18. CASE DropSync(p)
    BY <2>18 DEF DropSync, SyncDirectory
  <2>19. CASE DropSyncFails(p)
    BY <2>19 DEF DropSyncFails
  <2>20. CASE Crash(p)
    BY <2>20 DEF Crash, Running
  <2> QED
    BY <1>1, <2>1, <2>2, <2>3, <2>4, <2>5, <2>6, <2>7, <2>8, <2>9, <2>10, <2>11, <2>12, <2>13, <2>14, <2>15, <2>16, <2>17, <2>18, <2>19, <2>20 DEF Step
<1>2. CASE LosePower
  BY <1>2 DEF LosePower, PowerLoss, Running
<1>3. CASE BackgroundWriteback
  BY <1>3 DEF BackgroundWriteback, Writeback, procVars, envVars
<1>4. CASE UNCHANGED vars
  BY <1>4 DEF vars
<1> QED
  BY <1>1, <1>2, <1>3, <1>4 DEF Next

\* The invariant holds in every reachable state.
LEMMA Invariance == Spec => []IndInv
<1>1. Init => IndInv
  BY InitIndInv
<1>2. IndInv /\ [Next]_vars => IndInv'
  BY NextIndInv
<1> QED
  BY <1>1, <1>2, PTL DEF Spec

----------------------------------------------------------------------------
(***************************************************************************)
(* What follows from it.                                                   *)
(***************************************************************************)

\* The types of the model's state.
THEOREM TypeCorrect == Spec => []TypeOK
<1>1. IndInv => TypeOK
  BY DEF IndInv
<1> QED
  BY <1>1, Invariance, PTL

\* No power loss, crash or failed call, in any interleaving of any number of
\* invocations, exposes an unfinished output (stage_file_with, commit).
THEOREM OutputIsComplete == Spec => []DestComplete
<1>1. IndInv => DestComplete
  BY DEF IndInv
<1> QED
  BY <1>1, Invariance, PTL

\* A reported success survives every later power loss and leaves no temporary
\* name, visible or durable (commit).
THEOREM SuccessIsDurable == Spec => []OkIsDurable
<1>1. IndInv => OkIsDurable
  BY DEF IndInv
<1> QED
  BY <1>1, Invariance, PTL

\* The error messages of the program tell whether the output was published
\* (write_new_file, commit).
THEOREM ReportsAreHonest == Spec => []ReportHonest
<1>1. IndInv => ReportHonest
  BY DEF IndInv
<1> QED
  BY <1>1, Invariance, PTL

\* A guard removes and links nothing but the file of its own invocation, and
\* removes it whatever the way out (impl Drop for TemporaryFile).
THEOREM GuardsAreExclusive == Spec => []TempsAreOurs
<1>1. IndInv => TempsAreOurs
  BY DEF IndInv, TempsAreOurs
<1> QED
  BY <1>1, Invariance, PTL

\* One step leaves the entry of the output path alone once there is one.
LEMMA StepKeepsDest ==
  IndInv /\ [Next]_vars =>
    /\ disk[Dest] # NoInode => disk'[Dest] = disk[Dest]
    /\ cached[Dest] # NoInode /\ losses' = losses => cached'[Dest] = cached[Dest]
<1> SUFFICES ASSUME IndInv, [Next]_vars
             PROVE  /\ disk[Dest] # NoInode => disk'[Dest] = disk[Dest]
                    /\ cached[Dest] # NoInode /\ losses' = losses =>
                         cached'[Dest] = cached[Dest]
  OBVIOUS
<1> USE ProcAssumption, NameAssumption
<1>0. /\ TypeOK /\ StoreTypeOK /\ DestStable
      /\ \A p \in Proc : pc[p] \in Guarded \cup {"create"} => temp[p] \in Temp
  BY DEF IndInv, TypeOK, Named
<1>1. ASSUME NEW p \in Proc, Start(p) \/ Step(p) \/ Crash(p)
      PROVE  /\ cached[Dest] # NoInode => cached'[Dest] = cached[Dest]
             /\ disk' = disk \/ disk' = cached
  <2> USE <1>0 DEF StoreTypeOK, Goto, fileVars, Exists, Guarded, Staging, Linked, Dropping
  <2>1. CASE Link(p)
    BY <2>1 DEF Link, HardLink
  <2>2. CASE Create(p)
    BY <2>2 DEF Create, CreateNew
  <2>3. CASE Unlink(p) \/ Drop(p)
    BY <2>3 DEF Unlink, Drop, Remove
  <2>4. CASE DirSync1(p) \/ DirSync2(p) \/ DropSync(p)
    BY <2>4 DEF DirSync1, DirSync2, DropSync, SyncDirectory
  <2>5. CASE Write(p) \/ Sync(p)
    BY <2>5 DEF Write, Sync, WriteSome, WriteRest, SyncFile
  <2>6. CASE \/ Start(p) \/ Check(p) \/ Pick(p) \/ PickFails(p) \/ CreateFails(p)
             \/ StageFails(p) \/ LinkRefused(p) \/ CommitFails(p)
             \/ DropFails(p) \/ DropSyncFails(p) \/ Crash(p)
    BY <2>6 DEF Start, Check, Pick, PickFails, CreateFails, StageFails, LinkRefused,
                CommitFails, DropFails, DropSyncFails, Crash
  <2> QED
    BY <1>1, <2>1, <2>2, <2>3, <2>4, <2>5, <2>6 DEF Step
<1>2. CASE LosePower
  BY <1>2, <1>0 DEF LosePower, PowerLoss, TypeOK
<1>3. CASE BackgroundWriteback
  BY <1>3, <1>0 DEF BackgroundWriteback, Writeback, DestStable, StoreTypeOK
<1>4. CASE UNCHANGED vars
  BY <1>4 DEF vars
<1> QED
  BY <1>0, <1>1, <1>2, <1>3, <1>4 DEF Next, DestStable

\* An output path never comes to lead to another file (commit, impl Drop).
LEMMA OutputIsNotReplaced == Spec => NoReplace
<1>1. IndInv /\ [Next]_vars =>
        [/\ disk[Dest] # NoInode => disk'[Dest] = disk[Dest]
         /\ cached[Dest] # NoInode /\ losses' = losses => cached'[Dest] = cached[Dest]]_vars
  BY StepKeepsDest
<1> QED
  BY <1>1, Invariance, PTL DEF Spec, NoReplace

----------------------------------------------------------------------------
(***************************************************************************)
(* Publication implements WriteOnce.                                       *)
(***************************************************************************)

LEMMA InitRefines == Init => Promise!Init
  BY NameAssumption DEF Init, StoreInit, Promise!Init

LEMMA StepRefines == IndInv /\ [Next]_vars => [Promise!Next]_Promise!vars
<1> SUFFICES ASSUME IndInv, [Next]_vars
             PROVE  [Promise!Next]_Promise!vars
  OBVIOUS
<1> DEFINE acked == {p \in Proc : outcome[p] = "ok"}
           denied == {p \in Proc : outcome[p] = "unpublished"}
<1> USE ProcAssumption, NameAssumption
<1>0. /\ TypeOK /\ StoreTypeOK /\ DestStable /\ Named /\ Unlinked /\ TempIsOurs /\ AfterLink
      /\ OkIsOver /\ OkIsDurable /\ ReportHonest
  BY DEF IndInv, TypeOK
<1>1. ASSUME UNCHANGED <<cached[Dest], outcome>>
      PROVE  UNCHANGED Promise!vars
  BY <1>1 DEF Promise!vars
<1>2. ASSUME NEW p \in Proc, Start(p) \/ Step(p) \/ Crash(p)
      PROVE  [Promise!Next]_Promise!vars
  <2> USE <1>0 DEF TypeOK, StoreTypeOK, Goto, Report, fileVars, Exists,
                   Early, Guarded, Staging, Linked, Dropping, Over
  <2>1. CASE Link(p)
    <3>1. cached[temp[p]] = p /\ outcome[p] = "none"
      BY <2>1 DEF Link, TempIsOurs, Unlinked
    <3>2. cached[Dest] = NoInode /\ cached'[Dest] = p /\ UNCHANGED outcome
      BY <2>1, <3>1 DEF Link, HardLink
    <3>3. Promise!Publish(p)
      BY <3>1, <3>2 DEF Promise!Publish
    <3> QED
      BY <3>3 DEF Promise!Next
  <2>2. CASE DirSync2(p)
    <3>1. cached[Dest] = p /\ UNCHANGED cached
      BY <2>2 DEF DirSync2, SyncDirectory, AfterLink
    <3>2. outcome[p] # "unpublished"
      BY <3>1 DEF ReportHonest, AtDest
    <3>3. outcome' = [outcome EXCEPT ![p] = "ok"]
      BY <2>2 DEF DirSync2
    <3>4. acked' = acked \cup {p} /\ denied' = denied
      BY <3>2, <3>3
    <3>5. Promise!Acknowledge(p)
      BY <3>1, <3>4 DEF Promise!Acknowledge
    <3> QED
      BY <3>5 DEF Promise!Next
  <2>3. CASE /\ outcome' = [outcome EXCEPT ![p] = "unpublished"]
             /\ pc[p] \in Early \cup Staging
             /\ UNCHANGED cached
    <3>1. cached[Dest] # p /\ outcome[p] = "none"
      BY <2>3 DEF Unlinked, AtDest
    <3>2. acked' = acked /\ denied' = denied \cup {p}
      BY <2>3, <3>1
    <3>3. Promise!Deny(p)
      BY <2>3, <3>1, <3>2 DEF Promise!Deny
    <3> QED
      BY <3>3 DEF Promise!Next
  <2>4. CASE PickFails(p) \/ CreateFails(p) \/ StageFails(p) \/ LinkRefused(p)
    BY <2>3, <2>4 DEF PickFails, CreateFails, StageFails, LinkRefused
  <2>5. CASE Check(p)
    BY <2>3, <2>5, <1>1 DEF Check
  <2>6. CASE CommitFails(p)
    <3>1. cached[Dest] = p /\ UNCHANGED cached
      BY <2>6 DEF CommitFails, AfterLink
    <3>2. outcome[p] \notin {"ok", "unpublished"}
      BY <3>1, <2>6 DEF CommitFails, ReportHonest, OkIsOver, AtDest
    <3>3. outcome' = [outcome EXCEPT ![p] = "published"]
      BY <2>6 DEF CommitFails
    <3>4. acked' = acked /\ denied' = denied
      BY <3>2, <3>3
    <3> QED
      BY <3>1, <3>4 DEF Promise!vars
  <2>7. CASE Create(p)
    BY <2>7, <1>1 DEF Create, CreateNew, Named
  <2>8. CASE Unlink(p) \/ Drop(p)
    BY <2>8, <1>1 DEF Unlink, Drop, Remove, Named
  <2>9. CASE \/ Start(p) \/ Pick(p) \/ Write(p) \/ Sync(p) \/ DirSync1(p)
             \/ DropFails(p) \/ DropSync(p) \/ DropSyncFails(p) \/ Crash(p)
    BY <2>9, <1>1 DEF Start, Pick, Write, WriteSome, WriteRest, Sync, SyncFile, DirSync1,
                SyncDirectory, DropFails, DropSync, DropSyncFails, Crash
  <2> QED
    BY <1>2, <2>1, <2>2, <2>4, <2>5, <2>6, <2>7, <2>8, <2>9 DEF Step
<1>3. CASE LosePower
  <2>1. cached' = disk /\ UNCHANGED <<acked, denied>>
    BY <1>3 DEF LosePower, PowerLoss
  <2>2. CASE cached[Dest] = disk[Dest]
    BY <2>1, <2>2 DEF Promise!vars
  <2>3. CASE cached[Dest] # disk[Dest]
    <3>1. disk[Dest] = NoInode /\ cached[Dest] # NoInode
      BY <1>0, <2>3 DEF DestStable
    <3>2. acked = {}
      BY <1>0, <2>3 DEF OkIsDurable
    <3>3. Promise!Lose
      BY <2>1, <3>1, <3>2 DEF Promise!Lose
    <3> QED
      BY <3>3 DEF Promise!Next
  <2> QED
    BY <2>2, <2>3
<1>4. CASE BackgroundWriteback
  BY <1>4, <1>1 DEF BackgroundWriteback, Writeback, procVars
<1>5. CASE UNCHANGED vars
  BY <1>5, <1>1 DEF vars
<1> QED
  BY <1>2, <1>3, <1>4, <1>5 DEF Next

\* Whatever happens to the invocations and to the machine, an output path is
\* write-once, and what was acknowledged stays.
LEMMA Refinement == Spec => ImplementsWriteOnce
<1>1. Init => Promise!Init
  BY InitRefines
<1>2. IndInv /\ [Next]_vars => [Promise!Next]_Promise!vars
  BY StepRefines
<1> QED
  BY <1>1, <1>2, Invariance, PTL DEF Spec, ImplementsWriteOnce, Promise!Spec

\* Publication implements WriteOnce (TemporaryFile::commit), and an entry of the
\* output path is never exchanged, in memory or on disk, nor taken back once it is
\* durable.
THEOREM OutputPromise == Spec => OutputIsWriteOnce
  BY Refinement, OutputIsNotReplaced DEF OutputIsWriteOnce
============================================================================

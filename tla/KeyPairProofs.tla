--------------------------- MODULE KeyPairProofs ---------------------------
(***************************************************************************)
(* Proofs about KeyPair, for any number of invocations, of failures and of *)
(* power losses.                                                           *)
(***************************************************************************)
EXTENDS KeyPair, TLAPS

(***************************************************************************)
(* The inductive invariant.  What makes PublicImpliesSecret and the        *)
(* reports true is what an invocation has achieved when it comes to each   *)
(* call: which files it has staged, which it has published, and that what  *)
(* it published is on disk before it goes on to the other file.            *)
(***************************************************************************)

Preparing == {"idle", "mkdir", "dirsync", "lookup"}
Staging == {"create", "write", "sync"}
Committing == {"link", "sync1", "unlink", "sync2"}

\* The published names lead to published files, and what is on disk is also what
\* everybody sees.
FinalInv ==
    \A k \in Kind :
        /\ cached[<<Final, k>>] \in {<<p, k>> : p \in Proc} \cup {NoInode}
        /\ disk[<<Final, k>>] \in {cached[<<Final, k>>], NoInode}

\* A temporary name leads to its own file.
Named(p) ==
    \A k \in Kind :
        /\ cached[<<p, k>>] \in {<<p, k>>, NoInode}
        /\ disk[<<p, k>>] \in {<<p, k>>, NoInode}

\* No name leads to the file yet.
Unborn(p, k) ==
    /\ cached[<<p, k>>] = NoInode /\ disk[<<p, k>>] = NoInode
    /\ ~ Published(p, k)

Whole(p, k) == content[<<p, k>>] = "full" /\ pages[<<p, k>>] = "clean"

\* The guards that are live, call by call.
GuardsOf(p) ==
    /\ at[p] \in Preparing \cup {"end"} => guards[p] = {}
    /\ at[p] = "create" => guards[p] = IF kind[p] = "public" THEN {} ELSE {"public"}
    /\ at[p] \in {"write", "sync", "link", "sync1", "unlink"} =>
          guards[p] = IF kind[p] = "public" THEN {"public"} ELSE Kind
    /\ at[p] = "sync2" => guards[p] = IF kind[p] = "public" THEN {} ELSE {"public"}

\* What has been created and written.
Staged(p) ==
    /\ at[p] \in Preparing => Unborn(p, "public") /\ Unborn(p, "secret")
    /\ at[p] = "create" => Unborn(p, kind[p])
    /\ at[p] \in Staging =>
          /\ ~ Published(p, "public") /\ ~ Published(p, "secret")
          /\ kind[p] = "public" => Unborn(p, "secret")
          /\ kind[p] = "secret" => Whole(p, "public")
    /\ at[p] = "sync" => content[<<p, kind[p]>>] = "full"
    /\ at[p] \in Committing => Whole(p, "public") /\ Whole(p, "secret")

\* What has been published, and that the temporary names of it are gone.
Committed(p) ==
    /\ at[p] = "link" => ~ Published(p, kind[p])
    /\ at[p] \in Committing /\ kind[p] = "secret" => ~ Published(p, "public")
    /\ at[p] \in {"sync1", "unlink", "sync2"} => cached[<<Final, kind[p]>>] = <<p, kind[p]>>
    /\ at[p] \in {"unlink", "sync2"} => disk[<<Final, kind[p]>>] = <<p, kind[p]>>
    /\ at[p] = "sync2" => cached[<<p, kind[p]>>] = NoInode
    /\ at[p] \in Committing /\ kind[p] = "public" =>
          /\ disk[<<Final, "secret">>] = <<p, "secret">>
          /\ cached[<<p, "secret">>] = NoInode /\ disk[<<p, "secret">>] = NoInode

\* A published file is complete and durable, and the secret comes first.
Backed(p) ==
    /\ \A k \in Kind : Published(p, k) => Whole(p, k)
    /\ Published(p, "public") => disk[<<Final, "secret">>] = <<p, "secret">>

\* Nothing is reported before the end or the clean-up, and the directory of an
\* invocation that did not inherit it is durable from the look-up on.
Reported(p) ==
    /\ at[p] \in Preparing \cup Staging \cup Committing => outcome[p] = "none"
    /\ p \notin inherited =>
          /\ at[p] \in {"lookup"} \cup Staging \cup Committing => dir = "durable"
          /\ outcome[p] \in {"ok", "retained"} => dir = "durable"
          /\ outcome[p] = "ok" => Secured(p)
          /\ outcome[p] = "retained" => disk[<<Final, "secret">>] = <<p, "secret">>
    /\ outcome[p] \in {"incomplete", "refused"} => ~ Published(p, "public")
    /\ outcome[p] = "refused" => ~ Published(p, "secret")

\* The first part of NoStrayKey.
Guarded(p) ==
    losses = 0 => \A k \in Kind : Exists(<<p, k>>) => k \in guards[p] \/ <<p, k>> \in leaked

ProcInv(p) ==
    /\ Named(p)
    /\ GuardsOf(p)
    /\ Staged(p)
    /\ Committed(p)
    /\ Backed(p)
    /\ Reported(p)
    /\ Guarded(p)

IndInv ==
    /\ TypeOK
    /\ FinalInv
    /\ \A p \in Proc : ProcInv(p)

----------------------------------------------------------------------------
(***************************************************************************)
(* Types, and what every step is about.                                    *)
(***************************************************************************)

\* What TypeOK says of the variables that are functions of the invocations.
ControlTypeOK ==
    /\ at \in [Proc -> {"idle", "mkdir", "dirsync", "lookup", "create", "write", "sync", "link",
                        "sync1", "unlink", "sync2", "drop", "dropsync"} \cup Over]
    /\ kind \in [Proc -> Kind]
    /\ guards \in [Proc -> SUBSET Kind]
    /\ outcome \in [Proc -> {"none", "ok", "refused", "incomplete", "retained"}]

\* Every call of keygen, and everything the environment does, keeps the types.
LEMMA NextTypeOK == TypeOK /\ [Next]_vars => TypeOK'
<1> SUFFICES ASSUME TypeOK, [Next]_vars PROVE TypeOK'
  OBVIOUS
<1> USE DEF TypeOK, StoreTypeOK, Content, Kind, Over
<1>1. ASSUME NEW p \in Proc, Start(p) \/ Step(p) \/ Crash(p)
      PROVE  TypeOK'
  <2> USE <1>1 DEF Goto, Report, Fault, Busy, Mine, Target, Unwinding, CommitOrder, fileVars, dirVars, envVars
  <2>1. CASE Start(p)
    BY <2>1 DEF Start
  <2>2. CASE MakeDirectory(p)
    BY <2>2 DEF MakeDirectory
  <2>3. CASE SyncParentOfDirectory(p)
    BY <2>3 DEF SyncParentOfDirectory
  <2>4. CASE DirectoryFails(p)
    BY <2>4 DEF DirectoryFails
  <2>5. CASE Lookup(p)
    BY <2>5 DEF Lookup
  <2>6. CASE LookupFails(p)
    BY <2>6 DEF LookupFails
  <2>7. CASE Create(p)
    BY <2>7 DEF Create, CreateNew
  <2>8. CASE Write(p)
    <3>1. PICK c \in Content : content' = [content EXCEPT ![<<p, kind[p]>>] = c]
      BY <2>8 DEF Write, WriteSome, WriteRest
    <3>2. pages' = [pages EXCEPT ![<<p, kind[p]>>] = "dirty"] /\ cached' = cached /\ disk' = disk
      BY <2>8 DEF Write, WriteSome, WriteRest
    <3>3. StoreTypeOK'
      BY <3>1, <3>2
    <3>4. at' \in [Proc -> {"write", "sync", "idle", "mkdir", "dirsync", "lookup", "create", "link",
                        "sync1", "unlink", "sync2", "drop", "dropsync"} \cup Over]
      BY <2>8 DEF Write
    <3> QED
      BY <2>8, <3>3, <3>4 DEF Write
  <2>9. CASE Sync(p)
    BY <2>9 DEF Sync, SyncFile
  <2>10. CASE StageFails(p)
    BY <2>10 DEF StageFails
  <2>11. CASE Link(p)
    BY <2>11 DEF Link, HardLink
  <2>12. CASE DirSync1(p)
    BY <2>12 DEF DirSync1, SyncDirectory
  <2>13. CASE Unlink(p)
    BY <2>13 DEF Unlink, Remove
  <2>14. CASE DirSync2(p)
    BY <2>14 DEF DirSync2, FinalSync, SyncDirectory
  <2>15. CASE CommitFails(p)
    BY <2>15 DEF CommitFails, Retain
  <2>16. CASE Drop(p)
    BY <2>16 DEF Drop, Remove, NextGuard, OtherGuards
  <2>17. CASE DropSync(p)
    BY <2>17 DEF DropSync, SyncDirectory
  <2>18. CASE DropFails(p)
    BY <2>18 DEF DropFails, NextGuard, OtherGuards
  <2>19. CASE Crash(p)
    BY <2>19 DEF Crash, Running
  <2> QED
    BY <1>1, <2>1, <2>2, <2>3, <2>4, <2>5, <2>6, <2>7, <2>8, <2>9, <2>10, <2>11, <2>12, <2>13, <2>14,
       <2>15, <2>16, <2>17, <2>18, <2>19 DEF Step
<1>2. CASE LosePower
  BY <1>2 DEF LosePower, PowerLoss, Running
<1>3. CASE BackgroundWriteback
  BY <1>3 DEF BackgroundWriteback, Writeback, fileVars, envVars
<1>4. CASE UNCHANGED vars
  BY <1>4 DEF vars
<1> QED
  BY <1>1, <1>2, <1>3, <1>4 DEF Next

\* What a step of somebody else leaves of invocation q: its own state, its own
\* files, and the published names unless they were free.
Frame(q) ==
    /\ at'[q] = at[q] /\ kind'[q] = kind[q] /\ guards'[q] = guards[q] /\ outcome'[q] = outcome[q]
    /\ \A k \in Kind :
          /\ cached'[<<q, k>>] = cached[<<q, k>>]
          /\ disk'[<<q, k>>] \in {disk[<<q, k>>], cached[<<q, k>>]}
          /\ content'[<<q, k>>] = content[<<q, k>>] /\ pages'[<<q, k>>] = pages[<<q, k>>]
          /\ \/ cached'[<<Final, k>>] = cached[<<Final, k>>]
             \/ cached[<<Final, k>>] = NoInode /\ cached'[<<Final, k>>] \in {<<p, k>> : p \in Proc \ {q}}
          /\ disk'[<<Final, k>>] \in {disk[<<Final, k>>], cached[<<Final, k>>]}
    /\ leaked \subseteq leaked'
    /\ q \in inherited' <=> q \in inherited
    /\ dir = "durable" => dir' = "durable"
    /\ losses' = losses

\* Invocations interfere only through the published names: files are created and
\* removed under names of one's own, and hard_link does not replace an entry.
LEMMA StepFrame ==
  ASSUME TypeOK, NEW p \in Proc, NEW q \in Proc, q # p, Named(p), Start(p) \/ Step(p) \/ Crash(p)
  PROVE  Frame(q)
<1> USE InodeAssumption, ProcAssumption
<1> USE DEF Goto, Report, Fault, Busy, Mine, Target
<1>0. ControlTypeOK /\ StoreTypeOK /\ kind[p] \in Kind
  BY DEF ControlTypeOK, TypeOK
<1>1. CASE Start(p)
  BY <1>0, <1>1 DEF Start, Frame, ControlTypeOK, StoreTypeOK, fileVars, dirVars, envVars
<1>2. CASE MakeDirectory(p)
  BY <1>0, <1>2 DEF MakeDirectory, Frame, ControlTypeOK, StoreTypeOK, fileVars, dirVars, envVars
<1>3. CASE SyncParentOfDirectory(p)
  BY <1>0, <1>3 DEF SyncParentOfDirectory, Frame, ControlTypeOK, StoreTypeOK, fileVars, dirVars, envVars
<1>4. CASE DirectoryFails(p)
  BY <1>0, <1>4 DEF DirectoryFails, Frame, ControlTypeOK, StoreTypeOK, fileVars, dirVars, envVars
<1>5. CASE Lookup(p)
  BY <1>0, <1>5 DEF Lookup, Frame, ControlTypeOK, StoreTypeOK, fileVars, dirVars, envVars
<1>6. CASE LookupFails(p)
  BY <1>0, <1>6 DEF LookupFails, Frame, ControlTypeOK, StoreTypeOK, fileVars, dirVars, envVars
<1>7. CASE Create(p)
  BY <1>0, <1>7 DEF Create, CreateNew, Frame, ControlTypeOK, StoreTypeOK, fileVars, dirVars, envVars
<1>8. CASE Write(p)
  BY <1>0, <1>8 DEF Write, WriteSome, WriteRest, Frame, ControlTypeOK, StoreTypeOK, fileVars, dirVars, envVars
<1>9. CASE Sync(p)
  BY <1>0, <1>9 DEF Sync, SyncFile, Frame, ControlTypeOK, StoreTypeOK, fileVars, dirVars, envVars
<1>10. CASE StageFails(p)
  BY <1>0, <1>10 DEF StageFails, Frame, ControlTypeOK, StoreTypeOK, fileVars, dirVars, envVars
<1>11. CASE Link(p)
  <2>1. cached[<<p, kind[p]>>] = <<p, kind[p]>> /\ cached[<<Final, kind[p]>>] = NoInode
    BY <1>0, <1>11 DEF Link, HardLink, Exists, Named
  <2>2. cached' = [cached EXCEPT ![<<Final, kind[p]>>] = <<p, kind[p]>>]
    BY <2>1, <1>11 DEF Link, HardLink
  <2>3. ASSUME NEW k \in Kind
        PROVE  /\ cached'[<<q, k>>] = cached[<<q, k>>]
               /\ \/ cached'[<<Final, k>>] = cached[<<Final, k>>]
                  \/ cached[<<Final, k>>] = NoInode /\ cached'[<<Final, k>>] = <<p, k>>
    BY <1>0, <2>1, <2>2 DEF StoreTypeOK
  <2> QED
    BY <1>0, <1>11, <2>3 DEF Link, HardLink, Frame, ControlTypeOK, dirVars, envVars
<1>12. CASE DirSync1(p)
  BY <1>0, <1>12 DEF DirSync1, SyncDirectory, Frame, ControlTypeOK, StoreTypeOK, fileVars, dirVars, envVars
<1>13. CASE Unlink(p)
  BY <1>0, <1>13 DEF Unlink, Remove, Frame, ControlTypeOK, StoreTypeOK, fileVars, dirVars, envVars
<1>14. CASE DirSync2(p)
  BY <1>0, <1>14 DEF DirSync2, FinalSync, SyncDirectory, Frame, ControlTypeOK, StoreTypeOK, fileVars,
     dirVars, envVars
<1>15. CASE CommitFails(p)
  BY <1>0, <1>15 DEF CommitFails, Retain, Frame, ControlTypeOK, StoreTypeOK, fileVars, dirVars, envVars
<1>16. CASE Drop(p)
  BY <1>0, <1>16 DEF Drop, Remove, NextGuard, Frame, ControlTypeOK, StoreTypeOK, fileVars, dirVars, envVars
<1>17. CASE DropSync(p)
  BY <1>0, <1>17 DEF DropSync, SyncDirectory, Frame, ControlTypeOK, StoreTypeOK, fileVars, dirVars, envVars
<1>18. CASE DropFails(p)
  BY <1>0, <1>18 DEF DropFails, Frame, ControlTypeOK, StoreTypeOK, fileVars, dirVars, envVars
<1>19. CASE Crash(p)
  BY <1>0, <1>19 DEF Crash, Frame, ControlTypeOK, StoreTypeOK, fileVars, dirVars, envVars
<1> QED
  BY <1>1, <1>2, <1>3, <1>4, <1>5, <1>6, <1>7, <1>8, <1>9, <1>10, <1>11, <1>12, <1>13, <1>14, <1>15,
     <1>16, <1>17, <1>18, <1>19 DEF Step

\* What the operating system writes back was already visible to everybody.
LEMMA WritebackFrame == ASSUME TypeOK, NEW q \in Proc, BackgroundWriteback PROVE Frame(q)
<1>0. ControlTypeOK /\ StoreTypeOK
  BY DEF ControlTypeOK, TypeOK
<1>1. cached' = cached /\ content' = content /\ pages' = pages /\ (dir = "durable" => dir' = "durable")
  BY DEF BackgroundWriteback, Writeback, fileVars
<1>2. ASSUME NEW k \in Kind
      PROVE  /\ disk'[<<q, k>>] \in {disk[<<q, k>>], cached[<<q, k>>]}
             /\ disk'[<<Final, k>>] \in {disk[<<Final, k>>], cached[<<Final, k>>]}
  <2>1. CASE disk' = disk
    BY <2>1
  <2>2. CASE \E n \in DOMAIN cached : disk' = [disk EXCEPT ![n] = cached[n]]
    BY <1>0, <2>2 DEF StoreTypeOK
  <2> QED
    BY <2>1, <2>2 DEF BackgroundWriteback, Writeback, fileVars
<1> QED
  BY <1>1, <1>2 DEF Frame, BackgroundWriteback, envVars

\* So nothing another program does invalidates what an invocation knows.
LEMMA FrameKeeps ==
  ASSUME TypeOK, FinalInv, NEW q \in Proc, ProcInv(q), Frame(q)
  PROVE  ProcInv(q)'
<1> USE InodeAssumption, ProcAssumption
<1>0. FinalInv /\ ProcInv(q) /\ kind[q] \in Kind /\ kind'[q] = kind[q] /\ at'[q] = at[q]
  BY DEF TypeOK, Frame
<1>1. ASSUME NEW k \in Kind PROVE Published(q, k)' => Published(q, k)
  BY <1>0, <1>1 DEF Frame, FinalInv, Published
<1>2. ASSUME NEW k \in Kind, cached[<<Final, k>>] = <<q, k>> PROVE cached'[<<Final, k>>] = <<q, k>>
  BY <1>0, <1>2 DEF Frame
<1>3. ASSUME NEW k \in Kind, disk[<<Final, k>>] = <<q, k>> PROVE disk'[<<Final, k>>] = <<q, k>>
  BY <1>0, <1>3 DEF Frame, FinalInv
<1>4. ASSUME NEW k \in Kind PROVE Whole(q, k)' <=> Whole(q, k)
  BY <1>4 DEF Frame, Whole
<1>5. ASSUME NEW k \in Kind
      PROVE  cached'[<<q, k>>] = cached[<<q, k>>] /\ disk'[<<q, k>>] \in {disk[<<q, k>>], cached[<<q, k>>]}
  BY <1>5 DEF Frame
<1>11. Named(q)'
  BY <1>0, <1>5 DEF Named, ProcInv, Frame
<1>12. GuardsOf(q)'
  BY <1>0 DEF GuardsOf, ProcInv, Frame
<1>13. Staged(q)'
  <2>1. content'[<<q, kind[q]>>] = content[<<q, kind[q]>>]
    BY <1>0 DEF Frame
  <2> QED
    BY <1>0, <1>1, <1>4, <1>5, <2>1 DEF Staged, Unborn, ProcInv, Staging, Committing, Preparing, Kind
<1>14. Committed(q)'
  <2>1. /\ Published(q, "public")' => Published(q, "public")
        /\ Published(q, "secret")' => Published(q, "secret")
    BY <1>1 DEF Kind
  <2>2. at[q] = "link" => ~ Published(q, kind[q])'
    <3>1. PICK k \in Kind : k = kind[q] /\ k = kind'[q]
      BY <1>0
    <3>2. at[q] = "link" => ~ Published(q, k)
      BY <1>0, <3>1 DEF Committed, ProcInv
    <3> QED
      BY <1>1, <3>1, <3>2 DEF Published
  <2>3. /\ at[q] \in {"sync1", "unlink", "sync2"} => cached'[<<Final, kind[q]>>] = <<q, kind[q]>>
        /\ at[q] \in {"unlink", "sync2"} => disk'[<<Final, kind[q]>>] = <<q, kind[q]>>
        /\ at[q] = "sync2" => cached'[<<q, kind[q]>>] = NoInode
    <3>1. PICK k \in Kind : k = kind[q]
      BY <1>0
    <3> QED
      BY <1>0, <3>1, <1>2, <1>3, <1>5 DEF Committed, ProcInv
  <2>4. at[q] \in Committing /\ kind[q] = "public" =>
          /\ disk'[<<Final, "secret">>] = <<q, "secret">>
          /\ cached'[<<q, "secret">>] = NoInode /\ disk'[<<q, "secret">>] = NoInode
    BY <1>0, <1>3, <1>5 DEF Committed, ProcInv, Kind, Frame
  <2> QED
    BY <1>0, <2>1, <2>2, <2>3, <2>4 DEF Committed, ProcInv
<1>15. Backed(q)'
    BY <1>0, <1>1, <1>3, <1>4 DEF Backed, ProcInv, Kind
<1>16. Reported(q)'
  <2>1. Secured(q) /\ dir' = "durable" => Secured(q)'
    BY <1>2, <1>3, <1>4, <1>5 DEF Secured, Whole
  <2> QED
    BY <1>0, <1>1, <1>3, <2>1 DEF Reported, Staging, Committing, Secured, Preparing, ProcInv, Frame, Kind
<1>17. Guarded(q)'
  BY <1>0, <1>5 DEF Guarded, Exists, ProcInv, Frame
<1> QED
 BY <1>11, <1>12, <1>13, <1>14, <1>15, <1>16, <1>17 DEF ProcInv

\* A call that touches no file changes no fact about files.
LEMMA FilesKept ==
  ASSUME FinalInv, NEW p \in Proc, UNCHANGED fileVars
  PROVE  /\ FinalInv'
         /\ Named(p)' <=> Named(p)
         /\ \A k \in Kind : /\ Published(p, k)' <=> Published(p, k)
                            /\ Unborn(p, k)' <=> Unborn(p, k)
                            /\ Whole(p, k)' <=> Whole(p, k)
                            /\ Exists(<<p, k>>)' <=> Exists(<<p, k>>)
BY DEF FinalInv, fileVars, Named, Published, Unborn, Whole, Exists

----------------------------------------------------------------------------
(***************************************************************************)
(* One step of an invocation, seen by itself.                              *)
(***************************************************************************)

\* Each call of create_key_directory, stage_file, TemporaryFile::commit and
\* TemporaryFile::drop establishes what the invocation relies on next.
LEMMA OwnStep ==
  ASSUME TypeOK, FinalInv, NEW p \in Proc, ProcInv(p), TypeOK', Start(p) \/ Step(p) \/ Crash(p)
  PROVE  ProcInv(p)' /\ FinalInv'
<1> USE InodeAssumption, ProcAssumption
<1> USE DEF Goto, Report, Fault, Busy, Mine, Target, Unwinding, dirVars, envVars
<1>0. ControlTypeOK /\ StoreTypeOK /\ kind'[p] \in Kind /\ kind[p] \in Kind
  BY DEF TypeOK, ControlTypeOK
<1>1. ASSUME Start(p) \/ MakeDirectory(p) \/ SyncParentOfDirectory(p) \/ DirectoryFails(p) \/ Lookup(p) \/ LookupFails(p)
      PROVE  ProcInv(p)' /\ FinalInv'
  <2>1. UNCHANGED fileVars /\ guards' = guards /\ leaked' = leaked /\ losses' = losses
    BY <1>1 DEF Start, MakeDirectory, SyncParentOfDirectory, DirectoryFails, Lookup, LookupFails
  <2>2. /\ FinalInv'
        /\ Named(p)' <=> Named(p)
        /\ \A k \in Kind : /\ Published(p, k)' <=> Published(p, k)
                           /\ Unborn(p, k)' <=> Unborn(p, k)
                           /\ Whole(p, k)' <=> Whole(p, k)
                           /\ Exists(<<p, k>>)' <=> Exists(<<p, k>>)
    BY <2>1, FilesKept
  <2>3. /\ at[p] \in Preparing
        /\ at'[p] \in Preparing \cup {"end"} \/ (at'[p] = "create" /\ kind'[p] = "public")
        /\ outcome'[p] = outcome[p] \/ (outcome'[p] = "refused" /\ at'[p] = "end")
    BY <1>1, <1>0 DEF ControlTypeOK, Start, MakeDirectory, SyncParentOfDirectory, DirectoryFails, Lookup,
       LookupFails, Preparing
  <2>4. Staged(p)'
    <3>1. Unborn(p, "public") /\ Unborn(p, "secret")
      BY <2>3 DEF ProcInv, Staged
    <3>2. at'[p] = "create" => Unborn(p, kind[p])'
      BY <2>1, <2>3, <3>1 DEF Unborn, Published, fileVars, Preparing
    <3> QED
      BY <2>2, <2>3, <3>1, <3>2 DEF Staged, Preparing, Staging, Committing, Unborn, Kind
  <2>5. Reported(p)'
    <3>1. outcome'[p] \in {"none", "refused"} /\ (outcome'[p] = "refused" => at'[p] = "end")
      BY <2>3 DEF ProcInv, Reported
    <3>2. at'[p] \in {"lookup", "create"} /\ p \notin inherited' => dir' = "durable"
      <4>1. CASE Start(p)
        BY <4>1, <1>0 DEF Start, ControlTypeOK, TypeOK
      <4>2. CASE MakeDirectory(p) \/ SyncParentOfDirectory(p) \/ DirectoryFails(p) \/ LookupFails(p)
        BY <4>2, <1>0 DEF MakeDirectory, SyncParentOfDirectory, DirectoryFails, LookupFails, ControlTypeOK
      <4>3. CASE Lookup(p)
        BY <4>3 DEF Lookup, ProcInv, Reported
      <4> QED
        BY <1>1, <4>1, <4>2, <4>3
    <3>3. ~ Published(p, "public")' /\ ~ Published(p, "secret")'
      BY <2>2, <2>3 DEF ProcInv, Staged, Unborn, Kind
    <3> QED
      BY <2>3, <3>1, <3>2, <3>3 DEF Reported, Preparing, Staging, Committing
  <2>6. Guarded(p)'
    BY <2>1, <2>2 DEF ProcInv, Guarded
  <2>7. Committed(p)'
    BY <2>3 DEF Committed, Preparing, Committing
  <2>8. GuardsOf(p)'
    BY <2>1, <2>3 DEF GuardsOf, Preparing, ProcInv
  <2>9. Backed(p)'
    BY <2>1, <2>2 DEF Backed, ProcInv, fileVars, Kind
  <2> QED
    BY <2>2, <2>4, <2>5, <2>6, <2>7, <2>8, <2>9 DEF ProcInv
<1>2. ASSUME StageFails(p) \/ CommitFails(p) \/ DropFails(p) \/ Crash(p)
      PROVE  ProcInv(p)' /\ FinalInv'
  <2>1. UNCHANGED fileVars /\ leaked \subseteq leaked' /\ losses' = losses /\ UNCHANGED dirVars /\ kind'[p] = kind[p]
    BY <1>2 DEF StageFails, CommitFails, DropFails, Crash, Retain, fileVars
  <2>2. /\ FinalInv'
        /\ Named(p)' <=> Named(p)
        /\ \A k \in Kind : /\ Published(p, k)' <=> Published(p, k)
                           /\ Whole(p, k)' <=> Whole(p, k)
                           /\ Exists(<<p, k>>)' <=> Exists(<<p, k>>)
    BY <2>1, FilesKept
  <2>3. at'[p] \in {"drop", "dropsync", "end", "crashed"} /\ (at'[p] = "end" => guards'[p] = {})
    BY <1>2, <1>0 DEF ControlTypeOK, StageFails, CommitFails, DropFails, Crash
  <2>4. \/ outcome'[p] = outcome[p]
        \/ outcome'[p] = "refused" /\ at[p] \in Staging
        \/ outcome'[p] = "incomplete" /\ at[p] \in Committing /\ kind[p] = "secret"
        \/ outcome'[p] = "retained" /\ at[p] \in Committing /\ kind[p] = "public"
    BY <1>2, <1>0 DEF ControlTypeOK, StageFails, CommitFails, DropFails, Crash, Staging, Committing,
       CommitOrder, Kind
  <2>5. Staged(p)' /\ Committed(p)' /\ GuardsOf(p)'
    BY <2>3 DEF Staged, Committed, GuardsOf, Preparing, Staging, Committing
  <2>6. Backed(p)'
    BY <2>1, <2>2 DEF Backed, ProcInv, fileVars, Kind
  <2>7. Reported(p)'
    <3>1. CASE outcome'[p] = outcome[p]
      <4>1. Secured(p)' <=> Secured(p)
        BY <2>1 DEF Secured, fileVars, dirVars
      <4>2. disk' = disk /\ dir' = dir /\ inherited' = inherited
        BY <2>1 DEF fileVars, dirVars
      <4> QED
        BY <2>2, <2>3, <3>1, <4>1, <4>2 DEF Reported, ProcInv, Preparing, Staging, Committing, Kind
    <3>2. CASE outcome'[p] = "refused" /\ at[p] \in Staging
        BY <2>2, <2>3, <3>2 DEF Reported, ProcInv, Preparing, Staging, Committing, Kind, Staged
    <3>3. CASE outcome'[p] = "incomplete" /\ at[p] \in Committing /\ kind[p] = "secret"
        BY <2>2, <2>3, <3>3 DEF Reported, ProcInv, Preparing, Staging, Committing, Kind, Committed
    <3>4. CASE outcome'[p] = "retained" /\ at[p] \in Committing /\ kind[p] = "public"
        BY <2>1, <2>2, <2>3, <3>4 DEF Reported, ProcInv, Preparing, Staging, Committing, Kind, Committed,
           fileVars
    <3> QED
      BY <2>4, <3>1, <3>2, <3>3, <3>4
  <2>8. Guarded(p)'
    <3>1. guards'[p] = guards[p] \/ (guards'[p] = guards[p] \ {NextGuard(p)} /\ <<p, NextGuard(p)>> \in leaked')
      BY <1>2, <1>0 DEF ControlTypeOK, StageFails, CommitFails, DropFails, Crash, OtherGuards
    <3> QED
      BY <2>1, <2>2, <3>1 DEF Guarded, ProcInv
  <2> QED
    BY <2>2, <2>5, <2>6, <2>7, <2>8 DEF ProcInv
<1>3. ASSUME Create(p)
      PROVE  ProcInv(p)' /\ FinalInv'
  <2>0. /\ at[p] = "create" /\ at'[p] = "write" /\ kind'[p] = kind[p] /\ guards'[p] = guards[p] \cup {kind[p]}
        /\ outcome'[p] = outcome[p] /\ leaked' = leaked /\ losses' = losses /\ UNCHANGED dirVars
    BY <1>3, <1>0 DEF ControlTypeOK, Create
  <2>1. /\ cached'[<<p, kind[p]>>] = <<p, kind[p]>>
        /\ \A k \in Kind : k # kind[p] => cached'[<<p, k>>] = cached[<<p, k>>]
        /\ \A k \in Kind : cached'[<<Final, k>>] = cached[<<Final, k>>]
        /\ disk' = disk /\ content' = content /\ pages' = pages
    BY <1>3, <1>0 DEF StoreTypeOK, Create, CreateNew
  <2>2. \A k \in Kind : /\ Published(p, k)' <=> Published(p, k)
                        /\ Whole(p, k)' <=> Whole(p, k)
                        /\ k # kind[p] => (Unborn(p, k)' <=> Unborn(p, k))
    BY <2>1 DEF Published, Unborn, Whole
  <2>3. Named(p)'
    BY <2>1 DEF Named, ProcInv
  <2>4. GuardsOf(p)'
    BY <2>0, <1>0 DEF GuardsOf, ProcInv, Preparing, Kind
  <2>5. Staged(p)'
    BY <2>0, <2>2, <1>0 DEF Staged, ProcInv, Staging, Preparing, Committing, Kind
  <2>6. Committed(p)'
    BY <2>0 DEF Committed, Committing
  <2>7. Backed(p)'
    BY <2>1, <2>2 DEF Backed, ProcInv, Kind
  <2>8. Reported(p)'
    BY <2>0, <2>2 DEF Reported, ProcInv, Preparing, Staging, Committing, dirVars
  <2>9. Guarded(p)'
    BY <2>0, <2>1 DEF Guarded, ProcInv, Exists
  <2>10. FinalInv'
    BY <2>1 DEF FinalInv
  <2> QED
    BY <2>3, <2>4, <2>5, <2>6, <2>7, <2>8, <2>9, <2>10 DEF ProcInv
<1>4. ASSUME Write(p)
      PROVE  ProcInv(p)' /\ FinalInv'
  <2>0. /\ at[p] = "write" /\ kind'[p] = kind[p] /\ guards'[p] = guards[p]
        /\ outcome'[p] = outcome[p] /\ leaked' = leaked /\ losses' = losses /\ UNCHANGED dirVars
        /\ cached' = cached /\ disk' = disk
        /\ \/ at'[p] = "write"
           \/ at'[p] = "sync" /\ content'[<<p, kind[p]>>] = "full"
        /\ \A k \in Kind : k # kind[p] => content'[<<p, k>>] = content[<<p, k>>] /\ pages'[<<p, k>>] = pages[<<p, k>>]
    BY <1>4, <1>0 DEF StoreTypeOK, ControlTypeOK, Write, WriteSome, WriteRest
  <2>2. \A k \in Kind : /\ Published(p, k)' <=> Published(p, k)
                        /\ Unborn(p, k)' <=> Unborn(p, k)
                        /\ k # kind[p] => (Whole(p, k)' <=> Whole(p, k))
    BY <2>0 DEF Published, Unborn, Whole
  <2>3. Named(p)'
    BY <2>0 DEF Named, ProcInv
  <2>4. GuardsOf(p)'
    BY <2>0, <1>0 DEF GuardsOf, ProcInv, Preparing, Kind
  <2>5. Staged(p)'
    BY <2>0, <2>2, <1>0 DEF Staged, ProcInv, Staging, Preparing, Committing, Kind
  <2>6. Committed(p)'
    BY <2>0 DEF Committed, Committing
  <2>7. Backed(p)'
    BY <2>0, <2>2 DEF Backed, ProcInv, Kind, Staged, Staging
  <2>8. Reported(p)'
    BY <2>0, <2>2 DEF Reported, ProcInv, Preparing, Staging, Committing, dirVars
  <2>9. Guarded(p)'
    BY <2>0 DEF Guarded, ProcInv, Exists
  <2>10. FinalInv'
    BY <2>0 DEF FinalInv
  <2> QED
    BY <2>3, <2>4, <2>5, <2>6, <2>7, <2>8, <2>9, <2>10 DEF ProcInv
<1>5. ASSUME Sync(p)
      PROVE  ProcInv(p)' /\ FinalInv'
  <2>0. /\ at[p] = "sync" /\ guards'[p] = guards[p]
        /\ outcome'[p] = outcome[p] /\ leaked' = leaked /\ losses' = losses /\ UNCHANGED dirVars
        /\ cached' = cached /\ disk' = disk /\ content' = content
        /\ kind'[p] = "secret"
        /\ \/ at'[p] = "create" /\ kind[p] = "public"
           \/ at'[p] = "link" /\ kind[p] = "secret"
        /\ pages'[<<p, kind[p]>>] = "clean"
        /\ \A k \in Kind : k # kind[p] => pages'[<<p, k>>] = pages[<<p, k>>]
    BY <1>5, <1>0 DEF StoreTypeOK, ControlTypeOK, Sync, SyncFile, CommitOrder
  <2>1. content[<<p, kind[p]>>] = "full"
    BY <2>0 DEF ProcInv, Staged
  <2>2. ASSUME NEW k \in Kind
        PROVE  /\ Published(p, k)' <=> Published(p, k)
               /\ k = kind[p] \/ Whole(p, k) => Whole(p, k)'
    <3>1. CASE k = kind[p]
      BY <2>0, <2>1, <3>1 DEF Published, Whole
    <3>2. CASE k # kind[p]
      BY <2>0, <2>2, <3>2 DEF Published, Whole
    <3> QED
      BY <3>1, <3>2
  <2>3. Named(p)'
    BY <2>0 DEF Named, ProcInv
  <2>4. GuardsOf(p)'
    BY <2>0, <1>0 DEF GuardsOf, ProcInv, Preparing, Kind
  <2>5. Staged(p)'
    <3>1. CASE at'[p] = "create" /\ kind[p] = "public"
      <4>1. Unborn(p, kind[p])'
        BY <2>0, <3>1 DEF Staged, ProcInv, Staging, Unborn, Published
      <4> QED
        BY <2>0, <2>2, <4>1, <3>1 DEF Staged, ProcInv, Staging, Preparing, Committing, Kind
    <3>2. CASE at'[p] = "link" /\ kind[p] = "secret"
      BY <2>0, <2>2, <3>2 DEF Staged, ProcInv, Staging, Preparing, Committing, Kind
    <3> QED
      BY <2>0, <3>1, <3>2
  <2>6. Committed(p)'
    BY <2>0, <2>2 DEF Committed, Committing, Staged, Staging, ProcInv, Kind
  <2>7. Backed(p)'
    BY <2>0, <2>2 DEF Backed, ProcInv, Kind
  <2>8. Reported(p)'
    BY <2>0, <2>2 DEF Reported, ProcInv, Preparing, Staging, Committing, dirVars
  <2>9. Guarded(p)'
    BY <2>0 DEF Guarded, ProcInv, Exists
  <2>10. FinalInv'
    BY <2>0 DEF FinalInv
  <2> QED
    BY <2>3, <2>4, <2>5, <2>6, <2>7, <2>8, <2>9, <2>10 DEF ProcInv
<1>6. ASSUME Link(p)
      PROVE  ProcInv(p)' /\ FinalInv'
  <2>0. /\ at[p] = "link" /\ at'[p] = "sync1" /\ kind'[p] = kind[p] /\ guards'[p] = guards[p]
        /\ outcome'[p] = outcome[p] /\ leaked' = leaked /\ losses' = losses /\ UNCHANGED dirVars
        /\ disk' = disk /\ content' = content /\ pages' = pages
    BY <1>6, <1>0 DEF ControlTypeOK, Link, HardLink
  <2>1. /\ cached[<<Final, kind[p]>>] = NoInode
        /\ cached'[<<Final, kind[p]>>] = <<p, kind[p]>>
        /\ \A k \in Kind : k # kind[p] => cached'[<<Final, k>>] = cached[<<Final, k>>]
        /\ \A k \in Kind : cached'[<<p, k>>] = cached[<<p, k>>]
    BY <1>6, <1>0 DEF StoreTypeOK, Link, HardLink, Exists, ProcInv, Named
  <2>2. \A k \in Kind : /\ Whole(p, k)' <=> Whole(p, k)
                        /\ k # kind[p] => (Published(p, k)' <=> Published(p, k))
    BY <2>0, <2>1 DEF Published, Whole
  <2>3. Named(p)'
    BY <2>0, <2>1 DEF Named, ProcInv
  <2>4. GuardsOf(p)'
    BY <2>0, <1>0 DEF GuardsOf, ProcInv, Preparing, Kind
  <2>5. Staged(p)'
    BY <2>0, <2>2 DEF Staged, ProcInv, Staging, Preparing, Committing, Kind
  <2>6. Committed(p)'
    BY <2>0, <2>1, <2>2 DEF Committed, Committing, ProcInv, Kind
  <2>7. Backed(p)'
    BY <2>0, <2>2, <1>0 DEF Backed, Staged, Committed, Committing, ProcInv, Kind
  <2>8. Reported(p)'
    BY <2>0, <2>2 DEF Reported, ProcInv, Preparing, Staging, Committing, dirVars
  <2>9. Guarded(p)'
    BY <2>0, <2>1 DEF Guarded, ProcInv, Exists
  <2>10. FinalInv'
    BY <2>0, <2>1 DEF FinalInv
  <2> QED
    BY <2>3, <2>4, <2>5, <2>6, <2>7, <2>8, <2>9, <2>10 DEF ProcInv
<1>7. ASSUME DirSync1(p)
      PROVE  ProcInv(p)' /\ FinalInv'
  <2>0. /\ at[p] = "sync1" /\ at'[p] = "unlink" /\ kind'[p] = kind[p] /\ guards'[p] = guards[p]
        /\ outcome'[p] = outcome[p] /\ leaked' = leaked /\ losses' = losses /\ UNCHANGED dirVars
        /\ disk' = cached /\ cached' = cached /\ content' = content /\ pages' = pages
    BY <1>7, <1>0 DEF ControlTypeOK, DirSync1, SyncDirectory
  <2>2. \A k \in Kind : /\ Whole(p, k)' <=> Whole(p, k)
                        /\ Published(p, k)' => Published(p, k)
    BY <2>0 DEF Published, Whole
  <2>1. disk[<<Final, "secret">>] = <<p, "secret">> => cached[<<Final, "secret">>] = <<p, "secret">>
    BY DEF FinalInv, Kind
  <2>3. Named(p)'
    BY <2>0 DEF Named, ProcInv
  <2>4. GuardsOf(p)'
    BY <2>0 DEF GuardsOf, ProcInv, Preparing
  <2>5. Staged(p)'
    BY <2>0, <2>2 DEF Staged, ProcInv, Staging, Preparing, Committing, Kind
  <2>6. Committed(p)'
    BY <2>0, <2>1, <2>2 DEF Committed, Committing, ProcInv, Kind
  <2>7. Backed(p)'
    BY <2>0, <2>1, <2>2 DEF Backed, ProcInv, Kind
  <2>8. Reported(p)'
    BY <2>0, <2>2 DEF Reported, ProcInv, Preparing, Staging, Committing, dirVars
  <2>9. Guarded(p)'
    BY <2>0 DEF Guarded, ProcInv, Exists
  <2>10. FinalInv'
    BY <2>0 DEF FinalInv
  <2> QED
    BY <2>3, <2>4, <2>5, <2>6, <2>7, <2>8, <2>9, <2>10 DEF ProcInv
<1>8. ASSUME Unlink(p)
      PROVE  ProcInv(p)' /\ FinalInv'
  <2>0. /\ at[p] = "unlink" /\ at'[p] = "sync2" /\ kind'[p] = kind[p] /\ guards'[p] = guards[p] \ {kind[p]}
        /\ outcome'[p] = outcome[p] /\ leaked' = leaked /\ losses' = losses /\ UNCHANGED dirVars
        /\ disk' = disk /\ content' = content /\ pages' = pages
    BY <1>8, <1>0 DEF ControlTypeOK, Unlink, Remove
  <2>1. /\ cached'[<<p, kind[p]>>] = NoInode
        /\ \A k \in Kind : k # kind[p] => cached'[<<p, k>>] = cached[<<p, k>>]
        /\ \A k \in Kind : cached'[<<Final, k>>] = cached[<<Final, k>>]
    BY <1>8, <1>0 DEF StoreTypeOK, Unlink, Remove
  <2>2. \A k \in Kind : /\ Whole(p, k)' <=> Whole(p, k)
                        /\ Published(p, k)' <=> Published(p, k)
    BY <2>0, <2>1 DEF Published, Whole
  <2>3. Named(p)'
    BY <2>0, <2>1 DEF Named, ProcInv
  <2>4. GuardsOf(p)'
    BY <2>0, <1>0 DEF GuardsOf, ProcInv, Preparing, Kind
  <2>5. Staged(p)'
    BY <2>0, <2>2 DEF Staged, ProcInv, Staging, Preparing, Committing, Kind
  <2>6. Committed(p)'
    BY <2>0, <2>1, <2>2, <1>0 DEF Committed, Committing, ProcInv, Kind
  <2>7. Backed(p)'
    BY <2>0, <2>1, <2>2 DEF Backed, ProcInv, Kind
  <2>8. Reported(p)'
    BY <2>0, <2>2 DEF Reported, ProcInv, Preparing, Staging, Committing, dirVars
  <2>9. Guarded(p)'
    BY <2>0, <2>1 DEF Guarded, ProcInv, Exists
  <2>10. FinalInv'
    BY <2>0, <2>1 DEF FinalInv
  <2> QED
    BY <2>3, <2>4, <2>5, <2>6, <2>7, <2>8, <2>9, <2>10 DEF ProcInv
<1>9. ASSUME DirSync2(p)
      PROVE  ProcInv(p)' /\ FinalInv'
  <2>0. /\ at[p] = "sync2" /\ guards'[p] = guards[p] /\ kind'[p] = "public"
        /\ leaked' = leaked /\ losses' = losses /\ UNCHANGED dirVars
        /\ disk' = cached /\ cached' = cached /\ content' = content /\ pages' = pages
        /\ \/ at'[p] = "link" /\ kind[p] = "secret" /\ outcome'[p] = outcome[p]
           \/ at'[p] = "end" /\ kind[p] = "public" /\ outcome'[p] = "ok"
    BY <1>9, <1>0 DEF ControlTypeOK, DirSync2, FinalSync, SyncDirectory, CommitOrder
  <2>2. \A k \in Kind : /\ Whole(p, k)' <=> Whole(p, k)
                        /\ Published(p, k)' => Published(p, k)
    BY <2>0 DEF Published, Whole
  <2>1. disk[<<Final, "secret">>] = <<p, "secret">> => cached[<<Final, "secret">>] = <<p, "secret">>
    BY DEF FinalInv, Kind
  <2>3. Named(p)'
    BY <2>0 DEF Named, ProcInv
  <2>4. GuardsOf(p)'
    BY <2>0 DEF GuardsOf, ProcInv, Preparing, Kind
  <2>5. Staged(p)'
    BY <2>0, <2>2 DEF Staged, ProcInv, Staging, Preparing, Committing, Kind
  <2>6. Committed(p)'
    <3>1. CASE kind[p] = "secret"
      <4>1. ~ Published(p, kind[p])'
        BY <2>0, <3>1 DEF Committed, Committing, ProcInv, Published
      <4> QED
        BY <2>0, <2>1, <3>1, <4>1 DEF Committed, Committing, ProcInv, Kind
    <3>2. CASE kind[p] = "public"
      BY <2>0, <3>2 DEF Committed, Committing
    <3> QED
      BY <2>0, <3>1, <3>2
  <2>7. Backed(p)'
    BY <2>0, <2>1, <2>2 DEF Backed, ProcInv, Kind
  <2>8. Reported(p)'
    <3>1. CASE outcome'[p] = outcome[p] /\ at'[p] = "link"
      BY <2>0, <2>2, <3>1 DEF Reported, ProcInv, Preparing, Staging, Committing, dirVars
    <3>2. CASE kind[p] = "public" /\ outcome'[p] = "ok" /\ at'[p] = "end"
      <4>1. p \notin inherited => dir = "durable"
        BY <2>0 DEF Reported, ProcInv, Committing
      <4>2. \A k \in Kind : cached[<<Final, k>>] = <<p, k>> /\ cached[<<p, k>>] = NoInode /\ Whole(p, k)
        BY <2>0, <2>1, <3>2 DEF Committed, Committing, Staged, ProcInv, Kind
      <4>3. p \notin inherited => Secured(p)'
        BY <2>0, <4>1, <4>2 DEF Secured, Whole, dirVars
      <4> QED
        BY <2>0, <3>2, <4>1, <4>3 DEF Reported, Preparing, Staging, Committing, dirVars
    <3> QED
      BY <2>0, <3>1, <3>2
  <2>9. Guarded(p)'
    BY <2>0 DEF Guarded, ProcInv, Exists
  <2>10. FinalInv'
    BY <2>0 DEF FinalInv
  <2> QED
    BY <2>3, <2>4, <2>5, <2>6, <2>7, <2>8, <2>9, <2>10 DEF ProcInv
<1>10. ASSUME Drop(p)
      PROVE  ProcInv(p)' /\ FinalInv'
  <2>0. /\ at[p] = "drop" /\ at'[p] = "dropsync" /\ kind'[p] = kind[p] /\ guards'[p] = guards[p] \ {NextGuard(p)}
        /\ outcome'[p] = outcome[p] /\ leaked' = leaked /\ losses' = losses /\ UNCHANGED dirVars
        /\ disk' = disk /\ content' = content /\ pages' = pages /\ NextGuard(p) \in Kind
    BY <1>10, <1>0 DEF ControlTypeOK, Drop, Remove, OtherGuards, NextGuard, Kind
  <2>1. /\ cached'[<<p, NextGuard(p)>>] = NoInode
        /\ \A k \in Kind : k # NextGuard(p) => cached'[<<p, k>>] = cached[<<p, k>>]
        /\ \A k \in Kind : cached'[<<Final, k>>] = cached[<<Final, k>>]
    BY <1>0, <1>10, <2>0 DEF StoreTypeOK, Drop, Remove
  <2>2. \A k \in Kind : /\ Whole(p, k)' <=> Whole(p, k)
                        /\ Published(p, k)' <=> Published(p, k)
    BY <2>0, <2>1 DEF Published, Whole
  <2>3. Named(p)'
    BY <2>0, <2>1 DEF Named, ProcInv
  <2>4. GuardsOf(p)' /\ Staged(p)' /\ Committed(p)'
    BY <2>0 DEF GuardsOf, Staged, Committed, Preparing, Staging, Committing
  <2>7. Backed(p)'
    BY <2>0, <2>1, <2>2 DEF Backed, ProcInv, Kind
  <2>8. Reported(p)'
    <3>1. Secured(p) => Secured(p)'
      BY <2>0, <2>1 DEF Secured, dirVars
    <3> QED
      BY <2>0, <2>2, <3>1 DEF Reported, ProcInv, Preparing, Staging, Committing, dirVars, Kind
  <2>9. Guarded(p)'
    BY <2>0, <2>1 DEF Guarded, ProcInv, Exists
  <2>10. FinalInv'
    BY <2>0, <2>1 DEF FinalInv
  <2> QED
    BY <2>3, <2>4, <2>7, <2>8, <2>9, <2>10 DEF ProcInv
<1>11. ASSUME DropSync(p)
      PROVE  ProcInv(p)' /\ FinalInv'
  <2>0. /\ at[p] = "dropsync" /\ at'[p] \in {"end", "drop"} /\ kind'[p] = kind[p] /\ guards'[p] = guards[p]
        /\ at'[p] = "end" => guards[p] = {}
        /\ outcome'[p] = outcome[p] /\ leaked' = leaked /\ losses' = losses /\ UNCHANGED dirVars
        /\ disk' = cached /\ cached' = cached /\ content' = content /\ pages' = pages
    BY <1>11, <1>0 DEF ControlTypeOK, DropSync, SyncDirectory
  <2>2. \A k \in Kind : /\ Whole(p, k)' <=> Whole(p, k)
                        /\ Published(p, k)' => Published(p, k)
    BY <2>0 DEF Published, Whole
  <2>1. disk[<<Final, "secret">>] = <<p, "secret">> => cached[<<Final, "secret">>] = <<p, "secret">>
    BY DEF FinalInv, Kind
  <2>3. Named(p)'
    BY <2>0 DEF Named, ProcInv
  <2>4. GuardsOf(p)' /\ Staged(p)' /\ Committed(p)'
    BY <2>0 DEF GuardsOf, Staged, Committed, Preparing, Staging, Committing
  <2>7. Backed(p)'
    BY <2>0, <2>1, <2>2 DEF Backed, ProcInv, Kind
  <2>8. Reported(p)'
    <3>1. Secured(p) => Secured(p)'
      BY <2>0 DEF Secured, dirVars
    <3> QED
      BY <2>0, <2>1, <2>2, <3>1 DEF Reported, ProcInv, Preparing, Staging, Committing, dirVars, Kind
  <2>9. Guarded(p)'
    BY <2>0 DEF Guarded, ProcInv, Exists
  <2>10. FinalInv'
    BY <2>0 DEF FinalInv
  <2> QED
    BY <2>3, <2>4, <2>7, <2>8, <2>9, <2>10 DEF ProcInv
<1> QED
  BY <1>1, <1>2, <1>3, <1>4, <1>5, <1>6, <1>7, <1>8, <1>9, <1>10, <1>11 DEF Step

----------------------------------------------------------------------------
(***************************************************************************)
(* A power loss.                                                           *)
(***************************************************************************)

\* A power loss leaves what was durable, or nothing when the directory was not.
LEMMA LossKeepsFinal == ASSUME TypeOK, FinalInv, LosePower PROVE FinalInv'
<1>1. \/ cached' = disk /\ disk' = disk
      \/ \A n \in (Proc \cup {Final}) \X Kind : cached'[n] = NoInode /\ disk'[n] = NoInode
  BY DEF LosePower, PowerLoss, TypeOK, StoreTypeOK
<1> QED
  BY <1>1 DEF FinalInv

\* What an invocation relied on or reported survives a power loss.
LEMMA LossKeeps ==
  ASSUME TypeOK, FinalInv, NEW q \in Proc, ProcInv(q), LosePower
  PROVE  ProcInv(q)'
<1> USE InodeAssumption, ProcAssumption
<1>0. ControlTypeOK /\ StoreTypeOK /\ losses \in Nat
  BY DEF ControlTypeOK, TypeOK
<1>1. /\ at'[q] \in {"idle", "end", "crashed"} /\ (at'[q] # "crashed" => at'[q] = at[q])
      /\ kind' = kind /\ guards' = guards /\ leaked' = leaked /\ outcome' = outcome /\ inherited' = inherited
      /\ losses' = losses + 1
  BY <1>0 DEF ControlTypeOK, Over, LosePower, Running
<1>2. \/ dir # "cached" /\ dir' = dir /\ cached' = disk /\ disk' = disk
      \/ /\ dir = "cached"
         /\ \A n \in (Proc \cup {Final}) \X Kind : cached'[n] = NoInode /\ disk'[n] = NoInode
  BY <1>0 DEF LosePower, PowerLoss, StoreTypeOK
<1>3. ASSUME NEW k \in Kind, Whole(q, k) PROVE Whole(q, k)'
  BY <1>0, <1>3 DEF LosePower, PowerLoss, StoreTypeOK, Whole
<1>4. ASSUME NEW k \in Kind
      PROVE  /\ Published(q, k)' => disk[<<Final, k>>] = <<q, k>> /\ dir # "cached"
             /\ Unborn(q, k) => Unborn(q, k)'
  BY <1>2 DEF Published, Unborn
<1>6. Named(q)'
  BY <1>2 DEF Named, ProcInv
<1>7. GuardsOf(q)' /\ Staged(q)' /\ Committed(q)'
  BY <1>1, <1>4 DEF GuardsOf, Staged, Committed, Preparing, Staging, Committing, Kind, ProcInv
<1>8. Backed(q)'
  BY <1>2, <1>3, <1>4 DEF Backed, Published, Kind, ProcInv
<1>9. Reported(q)'
  <2>1. Secured(q) => Secured(q)'
    BY <1>2, <1>3 DEF Secured, Whole
  <2>2. \A k \in Kind : Published(q, k)' => Published(q, k)
    BY <1>4 DEF Published
  <2> QED
    BY <1>1, <1>2, <2>1, <2>2 DEF Reported, Preparing, Staging, Committing, Kind, ProcInv
<1>10. Guarded(q)'
  BY <1>0, <1>1 DEF Guarded
<1> QED
  BY <1>6, <1>7, <1>8, <1>9, <1>10 DEF ProcInv

----------------------------------------------------------------------------
\* No invocation has started and the directory holds nothing.
LEMMA InitIndInv == Init => IndInv
<1> SUFFICES ASSUME Init PROVE IndInv
  OBVIOUS
<1> USE InodeAssumption, ProcAssumption
<1>1. TypeOK
  BY DEF Init, StoreInit, TypeOK, StoreTypeOK, Content, Over, Kind
<1>2. FinalInv
  BY DEF Init, StoreInit, FinalInv
<1>3. ASSUME NEW p \in Proc PROVE ProcInv(p)
  <2>1. /\ at[p] = "idle" /\ guards[p] = {} /\ outcome[p] = "none"
        /\ \A n \in (Proc \cup {Final}) \X Kind : cached[n] = NoInode /\ disk[n] = NoInode
    BY DEF Init, StoreInit
  <2>2. ASSUME NEW k \in Kind PROVE Unborn(p, k) /\ ~ Published(p, k)
    BY <2>1 DEF Unborn, Published
  <2>3. Named(p) /\ Guarded(p)
    BY <2>1 DEF Named, Guarded, Exists
  <2>4. GuardsOf(p) /\ Committed(p)
    BY <2>1 DEF GuardsOf, Committed, Preparing, Committing
  <2>5. Staged(p) /\ Backed(p) /\ Reported(p)
    BY <2>1, <2>2 DEF Staged, Backed, Reported, Preparing, Staging, Committing, Kind
  <2> QED
    BY <2>3, <2>4, <2>5 DEF ProcInv
<1> QED
  BY <1>1, <1>2, <1>3 DEF IndInv

\* Every step of the invocations and of the environment keeps the invariant.
LEMMA NextIndInv == IndInv /\ [Next]_vars => IndInv'
<1> SUFFICES ASSUME IndInv, [Next]_vars PROVE IndInv'
  OBVIOUS
<1>0. TypeOK /\ FinalInv /\ (\A p \in Proc : ProcInv(p)) /\ TypeOK'
  BY NextTypeOK DEF IndInv
<1>1. ASSUME NEW p \in Proc, Start(p) \/ Step(p) \/ Crash(p)
      PROVE  IndInv'
  <2>1. ProcInv(p)' /\ FinalInv'
    BY <1>0, <1>1, OwnStep
  <2>2. ASSUME NEW q \in Proc, q # p PROVE ProcInv(q)'
    <3>1. Frame(q)
      BY <1>0, <1>1, <2>2, StepFrame DEF ProcInv
    <3> QED
      BY <1>0, <3>1, FrameKeeps
  <2> QED
    BY <1>0, <2>1, <2>2 DEF IndInv
<1>2. CASE LosePower
  BY <1>0, <1>2, LossKeeps, LossKeepsFinal DEF IndInv
<1>3. CASE BackgroundWriteback
  <2>1. ASSUME NEW q \in Proc PROVE ProcInv(q)'
    BY <1>0, <1>3, WritebackFrame, FrameKeeps
  <2>2. cached' = cached
    BY <1>3 DEF BackgroundWriteback, Writeback, fileVars
  <2>3. ASSUME NEW k \in Kind
        PROVE  disk'[<<Final, k>>] \in {disk[<<Final, k>>], cached[<<Final, k>>]}
    <3>1. CASE disk' = disk
      BY <3>1
    <3>2. CASE \E n \in DOMAIN cached : disk' = [disk EXCEPT ![n] = cached[n]]
      BY <1>0, <3>2 DEF TypeOK, StoreTypeOK
    <3> QED
      BY <1>3, <3>1, <3>2 DEF BackgroundWriteback, Writeback, fileVars
  <2>4. FinalInv'
    BY <1>0, <2>2, <2>3 DEF FinalInv
  <2> QED
    BY <1>0, <2>1, <2>4 DEF IndInv
<1>4. CASE UNCHANGED vars
  <2>1. ASSUME NEW q \in Proc PROVE ProcInv(q)'
    <3>1. Frame(q)
      BY <1>4 DEF vars, Frame
    <3> QED
      BY <1>0, <3>1, FrameKeeps
  <2>2. FinalInv'
    BY <1>0, <1>4 DEF vars, FinalInv
  <2> QED
    BY <1>0, <2>1, <2>2 DEF IndInv
<1> QED
  BY <1>1, <1>2, <1>3, <1>4 DEF Next

\* The invariant holds in every reachable state.
LEMMA Invariance == Spec => []IndInv
<1>1. Init => IndInv
  BY InitIndInv
<1>2. IndInv /\ [Next]_vars => IndInv'
  BY NextIndInv
<1> QED
  BY <1>1, <1>2, PTL DEF Spec

----------------------------------------------------------------------------
(***************************************************************************)
(* The theorems.                                                           *)
(***************************************************************************)

\* Whoever finds a public key, now or after any number of crashes, failed calls
\* and power losses, finds its own secret beside it, complete and durable
\* (write_key_pair publishes the secret and synchronizes it first).
THEOREM PublicNeverAlone == Spec => []KeyPairInv
<1>1. ASSUME IndInv PROVE KeyPairInv
  <2>1. ASSUME NEW p \in Proc, Published(p, "public")
        PROVE  /\ disk[<<Final, "secret">>] = <<p, "secret">>
               /\ cached[<<Final, "secret">>] = <<p, "secret">>
               /\ Whole(p, "secret")
    <3>1. disk[<<Final, "secret">>] = <<p, "secret">>
      BY <1>1, <2>1 DEF IndInv, ProcInv, Backed
    <3>2. cached[<<Final, "secret">>] = <<p, "secret">>
      BY <1>1, <3>1, InodeAssumption DEF IndInv, FinalInv, Kind
    <3>3. Whole(p, "secret")
      BY <1>1, <3>1 DEF IndInv, ProcInv, Backed, Published, Kind
    <3> QED
      BY <3>1, <3>2, <3>3
  <2> QED
    BY <1>1, <2>1 DEF KeyPairInv, PublicImpliesSecret, Whole, IndInv
<1> QED
  BY <1>1, Invariance, PTL

\* Success means two durable files in a durable directory, "secret retained"
\* means the secret is there, and the other errors mean no public file, or no
\* file, of this run - for ever (write_key_pair and its callers).
THEOREM ReportsAreTrue == Spec => []ReportsHold
<1>1. ASSUME IndInv PROVE ReportsHold
  <2>1. OkIsDurable
    BY <1>1 DEF IndInv, ProcInv, Reported, OkIsDurable
  <2>2. ASSUME NEW p \in Proc, disk[<<Final, "secret">>] = <<p, "secret">>
        PROVE  cached[<<Final, "secret">>] = <<p, "secret">>
    BY <1>1, <2>2, InodeAssumption DEF IndInv, FinalInv, Kind
  <2>3. ReportHonest
    BY <1>1, <2>2 DEF IndInv, ProcInv, Reported, ReportHonest
  <2> QED
    BY <2>1, <2>3 DEF ReportsHold
<1> QED
  BY <1>1, Invariance, PTL

\* Until the power fails, key material is under a temporary name only while the
\* guard of an invocation stands for it, or when its removal failed: every path
\* out of write_key_pair drops both TemporaryFile values.
THEOREM NoStrayTemporaries == Spec => []NoStrayKey
<1>1. ASSUME IndInv PROVE NoStrayKey
  BY <1>1 DEF IndInv, ProcInv, Guarded, GuardsOf, NoStrayKey
<1> QED
  BY <1>1, Invariance, PTL

\* No step of a program removes or replaces a published key file: the link is
\* refused when the name exists, and the clean-up after a failure removes only
\* temporary names (TemporaryFile::commit, TemporaryFile::drop).
THEOREM PublishedKeysAreKept == Spec => KeysAreKept
<1> DEFINE Kept == losses' = losses =>
                     \A k \in Kind : Exists(<<Final, k>>) => cached'[<<Final, k>>] = cached[<<Final, k>>]
<1>1. ASSUME IndInv, [Next]_vars PROVE Kept
  <2>0. TypeOK /\ (\A p \in Proc : Named(p)) /\ losses \in Nat
    BY <1>1 DEF IndInv, ProcInv, TypeOK
  <2>1. ASSUME NEW p \in Proc, Start(p) \/ Step(p) \/ Crash(p)
        PROVE  Kept
    <3>1. CASE Link(p)
      BY <2>0, <3>1, ProcAssumption DEF Link, HardLink, Target, Exists, TypeOK, StoreTypeOK
    <3>2. CASE Drop(p)
      <4>1. NextGuard(p) \in Kind
        BY DEF NextGuard, Kind
      <4> QED
        BY <2>0, <3>2, <4>1, ProcAssumption DEF Drop, Remove, TypeOK, StoreTypeOK
    <3>3. CASE Create(p) \/ Unlink(p)
      BY <2>0, <3>3, ProcAssumption DEF Create, CreateNew, Unlink, Remove, Mine, TypeOK, StoreTypeOK
    <3>4. CASE ~ (Link(p) \/ Drop(p) \/ Create(p) \/ Unlink(p))
      BY <2>1, <3>4 DEF Step, Start, MakeDirectory, SyncParentOfDirectory, DirectoryFails, Lookup,
         LookupFails, Write, WriteSome, WriteRest, Sync, SyncFile, StageFails, DirSync1, SyncDirectory,
         DirSync2, FinalSync, CommitFails, Retain, DropSync, DropFails, Crash, fileVars
    <3> QED
      BY <3>1, <3>2, <3>3, <3>4
  <2>2. CASE LosePower
    BY <2>0, <2>2 DEF LosePower
  <2>3. CASE BackgroundWriteback \/ UNCHANGED vars
    BY <2>3 DEF BackgroundWriteback, Writeback, fileVars, vars
  <2> QED
    BY <1>1, <2>1, <2>2, <2>3 DEF Next
<1>2. IndInv /\ [Next]_vars => [Kept]_vars
  BY <1>1
<1> QED
  BY <1>2, Invariance, PTL DEF Spec, KeysAreKept
============================================================================

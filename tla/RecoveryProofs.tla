--------------------------- MODULE RecoveryProofs ---------------------------
(***************************************************************************)
(* What is proved of the commands together, for any number of key pairs,   *)
(* root keys, signers and archives and any number of commands.             *)
(*                                                                         *)
(* FilesInv says what the files have to do with each other.  KemInv        *)
(* follows the secret that an archive is encapsulated with, from the pair  *)
(* to the key that wraps the archive; RootInv gives every root secret one  *)
(* ID and epoch, wherever they are written, and every ID and epoch one     *)
(* record; OneSigner does so for the policy.  Each command is shown to     *)
(* keep them by a lemma of its own, and demo gives no other commands.      *)
(***************************************************************************)
EXTENDS Recovery, TLAPS

----------------------------------------------------------------------------
(* The invariant.                                                          *)

\* The files, and the records, that can be there when k values have been drawn.
Half(type, k) == [type : {type}, pair : 1..k]
RootFile(k) == [type : {"root"}, id : 1..k, epoch : Epoch, secret : 1..k]
SigningHalfFile(type, k) == [type : {type}, id : 1..k, epoch : Epoch, key : 1..k]
Signatures(k) == [id : 1..k, epoch : Epoch, key : 1..k] \cup {Unsigned}
Keks(k) == {<<"shared", p>> : p \in 1..k} \X (1..k)
ArchiveFile(k) ==
    [type : {"archive"}, id : 1..k, epoch : Epoch, kek : Keks(k), signature : Signatures(k),
     kem : NamesOf(Kem), secret : 1..k]
RootRecords(k) == [id : 1..k, epoch : Epoch, status : RootStatus, of : 1..k]
SignerRecords(k) == [id : 1..k, epoch : Epoch, status : SignerStatus, sha256 : 1..k]
ListFile(records) == [type : {"records"}, records : SUBSET records]

\* c can be in the file n.
IsContent(n, c, k) ==
    /\ n \in KemSeeds => c \in Half("kem_seed", k)
    /\ n \in KemPublics => c \in Half("kem_public", k)
    /\ n \in Roots => c \in RootFile(k)
    /\ n \in Signers => c \in SigningHalfFile("signing_seed", k)
    /\ n \in SignerPublics => c \in SigningHalfFile("signing_public", k)
    /\ n \in Archives => c \in ArchiveFile(k)
    /\ n = Inventory => c \in ListFile(RootRecords(k))
    /\ n = Policy => c \in ListFile(SignerRecords(k))
    /\ n = Restored => c = [type |-> "plain"]

\* Every file has the type that its name stands for.
Typed ==
    /\ fresh \in Nat
    /\ DOMAIN files = File
    /\ \A n \in File : files[n] # Absent => IsContent(n, files[n], fresh)

\* A seed has the public half that was generated with it, no two names have one
\* pair, and the key that wraps an archive is made of the pair of the name that it
\* was sealed for and the secret of its root key.
Halves ==
    \A n \in NamesOf(Kem) :
        files[Seed(n)] # Absent =>
            files[Public(n)] # Absent /\ files[Seed(n)].pair = files[Public(n)].pair

OnePair ==
    \A n, m \in NamesOf(Kem) :
        files[Public(n)] # Absent /\ files[Public(m)] # Absent /\ files[Public(n)].pair = files[Public(m)].pair => n = m

Wrapped ==
    \A a \in Sealed :
        /\ files[Public(files[a].kem)] # Absent
        /\ files[a].kek = <<Shared(files[Public(files[a].kem)]), files[a].secret>>

KemInv == Halves /\ OnePair /\ Wrapped

\* Whoever tells of a root secret, with the ID and the epoch that go with it.
Identities ==
    {<<files[r].secret, files[r].id, files[r].epoch>> : r \in {n \in Roots : files[n] # Absent}}
    \cup {<<files[a].secret, files[a].id, files[a].epoch>> : a \in Sealed}
    \cup (IF files[Inventory] = Absent THEN {}
          ELSE {<<r.of, r.id, r.epoch>> : r \in files[Inventory].records})

\* They agree, and there is one record for an ID and an epoch.
OneIdentity == \A x, y \in Identities : x[1] = y[1] => x = y

OneRecord ==
    files[Inventory] # Absent =>
        \A r, s \in files[Inventory].records : r.id = s.id /\ r.epoch = s.epoch => r = s

RootInv == OneIdentity /\ OneRecord

\* There is one record for an ID and an epoch in the policy as well: no other
\* record can stand in for one that was revoked.
OneSigner ==
    files[Policy] # Absent =>
        \A r, s \in files[Policy].records : r.id = s.id /\ r.epoch = s.epoch => r = s

\* demo and the bound.
Counted ==
    /\ step \in 1..15 /\ used \in 0..MaxCommands
    /\ demo \in {"runs", "done", "failed", "refused"}

FilesInv == Typed /\ KemInv /\ RootInv /\ OneSigner /\ Counted

----------------------------------------------------------------------------
\* A name stands for one kind of file.
LEMMA Kinds ==
  /\ \A m \in KemSeeds : m \notin KemPublics \cup Roots \cup Signers \cup SignerPublics \cup Archives
                                    \cup {Inventory, Policy, Restored}
  /\ \A m \in KemPublics : m \notin KemSeeds \cup Roots \cup Signers \cup SignerPublics \cup Archives
                                      \cup {Inventory, Policy, Restored}
  /\ \A m \in Roots : m \notin KemSeeds \cup KemPublics \cup Signers \cup SignerPublics \cup Archives
                                 \cup {Inventory, Policy, Restored}
  /\ \A m \in Signers : m \notin KemSeeds \cup KemPublics \cup Roots \cup SignerPublics \cup Archives
                                   \cup {Inventory, Policy, Restored}
  /\ \A m \in SignerPublics : m \notin KemSeeds \cup KemPublics \cup Roots \cup Signers \cup Archives
                                         \cup {Inventory, Policy, Restored}
  /\ \A m \in Archives : m \notin KemSeeds \cup KemPublics \cup Roots \cup Signers \cup SignerPublics
                                    \cup {Inventory, Policy, Restored}
  /\ {Inventory, Policy, Restored}
        \cap (KemSeeds \cup KemPublics \cup Roots \cup Signers \cup SignerPublics \cup Archives) = {}
  /\ Inventory # Policy /\ Policy # Restored /\ Inventory # Restored
<1> DEFINE Lists == {Inventory, Policy, Restored}
<1>1. \A n, m : Seed(n) # Public(m) /\ (Seed(n) = Seed(m) => n = m) /\ (Public(n) = Public(m) => n = m)
  BY DEF Seed, Public
<1>2. \A n : Seed(n) \notin Lists /\ Public(n) \notin Lists
  BY DEF Seed, Public, Inventory, Policy, Restored
<1>3. Inventory # Policy /\ Policy # Restored /\ Inventory # Restored
  BY DEF Inventory, Policy, Restored
<1>4. /\ \A m \in Roots : m \notin KemSeeds \cup KemPublics \cup Signers \cup SignerPublics \cup Archives \cup Lists
      /\ \A m \in Archives : m \notin KemSeeds \cup KemPublics \cup Signers \cup SignerPublics \cup Roots \cup Lists
  BY PathAssumption
<1> HIDE DEF Lists
<1>5. \A m \in KemSeeds : m \notin KemPublics \cup Signers \cup SignerPublics \cup Lists
  BY <1>1, <1>2, PathAssumption DEF KemSeeds, KemPublics, Signers, SignerPublics
<1>6. \A m \in KemPublics : m \notin KemSeeds \cup Signers \cup SignerPublics \cup Lists
  BY <1>1, <1>2, PathAssumption DEF KemSeeds, KemPublics, Signers, SignerPublics
<1>7. \A m \in Signers : m \notin KemSeeds \cup KemPublics \cup SignerPublics \cup Lists
  BY <1>1, <1>2, PathAssumption DEF KemSeeds, KemPublics, Signers, SignerPublics
<1>8. \A m \in SignerPublics : m \notin KemSeeds \cup KemPublics \cup Signers \cup Lists
  BY <1>1, <1>2, PathAssumption DEF KemSeeds, KemPublics, Signers, SignerPublics
<1> QED
  BY <1>3, <1>4, <1>5, <1>6, <1>7, <1>8 DEF Lists

\* What it stands for.
LEMMA ContentIs ==
  ASSUME NEW c, NEW k
  PROVE  /\ \A m \in KemSeeds : IsContent(m, c, k) <=> c \in Half("kem_seed", k)
         /\ \A m \in KemPublics : IsContent(m, c, k) <=> c \in Half("kem_public", k)
         /\ \A m \in Roots : IsContent(m, c, k) <=> c \in RootFile(k)
         /\ \A m \in Signers : IsContent(m, c, k) <=> c \in SigningHalfFile("signing_seed", k)
         /\ \A m \in SignerPublics : IsContent(m, c, k) <=> c \in SigningHalfFile("signing_public", k)
         /\ \A m \in Archives : IsContent(m, c, k) <=> c \in ArchiveFile(k)
         /\ IsContent(Inventory, c, k) <=> c \in ListFile(RootRecords(k))
         /\ IsContent(Policy, c, k) <=> c \in ListFile(SignerRecords(k))
         /\ IsContent(Restored, c, k) <=> c = [type |-> "plain"]
BY Kinds DEF IsContent

\* What is in the files of each kind.
LEMMA TypedContent ==
  ASSUME Typed
  PROVE  /\ fresh \in Nat
         /\ \A n \in NamesOf(Kem) : /\ Seed(n) \in File /\ Public(n) \in File
                                    /\ files[Seed(n)] # Absent => files[Seed(n)] \in Half("kem_seed", fresh)
                                    /\ files[Public(n)] # Absent => files[Public(n)] \in Half("kem_public", fresh)
         /\ \A r \in Roots : r \in File /\ (files[r] # Absent => files[r] \in RootFile(fresh))
         /\ \A a \in Archives : a \in File /\ (files[a] # Absent => files[a] \in ArchiveFile(fresh))
         /\ \A s \in Signers : s \in File /\ (files[s] # Absent => files[s] \in SigningHalfFile("signing_seed", fresh))
         /\ \A s \in SignerPublics :
               s \in File /\ (files[s] # Absent => files[s] \in SigningHalfFile("signing_public", fresh))
         /\ Inventory \in File /\ (files[Inventory] # Absent => files[Inventory] \in ListFile(RootRecords(fresh)))
         /\ Policy \in File /\ (files[Policy] # Absent => files[Policy] \in ListFile(SignerRecords(fresh)))
         /\ Restored \in File
<1>1. /\ fresh \in Nat
      /\ \A n \in File : files[n] # Absent => IsContent(n, files[n], fresh)
  BY DEF Typed
<1>2. ASSUME NEW n \in NamesOf(Kem) PROVE Seed(n) \in KemSeeds /\ Public(n) \in KemPublics
  BY DEF KemSeeds, KemPublics
<1>3. /\ KemSeeds \subseteq File /\ KemPublics \subseteq File /\ Roots \subseteq File /\ Archives \subseteq File
      /\ Signers \subseteq File /\ SignerPublics \subseteq File
      /\ Inventory \in File /\ Policy \in File /\ Restored \in File
  BY DEF File
<1> QED
  BY <1>1, <1>2, <1>3, ContentIs

\* What was drawn stays drawn.
LEMMA MoreContent ==
  ASSUME NEW k \in Nat, NEW n, NEW c, IsContent(n, c, k)
  PROVE  IsContent(n, c, k + 1)
<1>1. 1..k \subseteq 1..k + 1
  OBVIOUS
<1>2. \A type : Half(type, k) \subseteq Half(type, k + 1)
  BY <1>1 DEF Half
<1>3. RootFile(k) \subseteq RootFile(k + 1)
  BY <1>1 DEF RootFile
<1>4. \A type : SigningHalfFile(type, k) \subseteq SigningHalfFile(type, k + 1)
  BY <1>1 DEF SigningHalfFile
<1>5. Signatures(k) \subseteq Signatures(k + 1)
  BY <1>1 DEF Signatures
<1>6. Keks(k) \subseteq Keks(k + 1)
  BY <1>1 DEF Keks
<1>7. ArchiveFile(k) \subseteq ArchiveFile(k + 1)
  BY <1>1, <1>5, <1>6 DEF ArchiveFile
<1>8. RootRecords(k) \subseteq RootRecords(k + 1) /\ SignerRecords(k) \subseteq SignerRecords(k + 1)
  BY <1>1 DEF RootRecords, SignerRecords
<1>9. /\ ListFile(RootRecords(k)) \subseteq ListFile(RootRecords(k + 1))
      /\ ListFile(SignerRecords(k)) \subseteq ListFile(SignerRecords(k + 1))
  BY <1>8 DEF ListFile
<1> QED
  BY <1>2, <1>3, <1>4, <1>7, <1>9 DEF IsContent

\* One file changes.
LEMMA OneFileChanges ==
  ASSUME Typed, NEW m \in File, NEW c, files' = [files EXCEPT ![m] = c],
         fresh' = fresh \/ fresh' = fresh + 1, c = Absent \/ IsContent(m, c, fresh')
  PROVE  Typed' /\ files'[m] = c /\ \A n \in File : n # m => files'[n] = files[n]
<1>1. fresh' \in Nat /\ DOMAIN files' = File
  BY DEF Typed
<1>2. files'[m] = c /\ \A n \in File : n # m => files'[n] = files[n]
  BY DEF Typed
<1>3. ASSUME NEW n \in File, files'[n] # Absent PROVE IsContent(n, files'[n], fresh')
  <2>1. CASE n = m
    BY <1>2, <1>3, <2>1
  <2>2. CASE n # m
    <3>1. fresh \in Nat /\ IsContent(n, files'[n], fresh)
      BY <1>2, <1>3, <2>2 DEF Typed
    <3> QED
      BY <3>1, MoreContent
  <2> QED
    BY <2>1, <2>2
<1> QED
  BY <1>1, <1>2, <1>3 DEF Typed

----------------------------------------------------------------------------
\* x has what y has of the sealing.
SameSealing(x, y) ==
    /\ x.id = y.id /\ x.epoch = y.epoch /\ x.secret = y.secret
    /\ x.kem = y.kem /\ x.kek = y.kek

\* Every archive has been there, perhaps under another name.
ArchivesKept ==
    \A a \in Archives : files'[a] # Absent => \E b \in Archives : files[b] # Absent /\ SameSealing(files'[a], files[b])

\* The steps that generate no pair and seal nothing.
LEMMA SamePairs ==
  ASSUME Typed, KemInv, ArchivesKept,
         \A n \in NamesOf(Kem) : files'[Public(n)] = files[Public(n)] /\ files'[Seed(n)] \in {files[Seed(n)], Absent}
  PROVE  KemInv'
<1>1. Halves'
  BY DEF KemInv, Halves
<1>2. OnePair'
  BY DEF KemInv, OnePair
<1>3. ASSUME NEW a \in Archives, files'[a] # Absent
      PROVE  /\ files'[Public(files'[a].kem)] # Absent
             /\ files'[a].kek = <<Shared(files'[Public(files'[a].kem)]), files'[a].secret>>
  <2>1. PICK b \in Archives : files[b] # Absent /\ SameSealing(files'[a], files[b])
    BY <1>3 DEF ArchivesKept
  <2>2. files[b].kem \in NamesOf(Kem)
    BY <2>1, TypedContent DEF ArchiveFile
  <2>3. /\ files[Public(files[b].kem)] # Absent
        /\ files[b].kek = <<Shared(files[Public(files[b].kem)]), files[b].secret>>
    BY <2>1 DEF KemInv, Wrapped, Sealed
  <2>4. files'[Public(files[b].kem)] = files[Public(files[b].kem)]
    BY <2>2
  <2>5. files'[a].kem = files[b].kem /\ files'[a].kek = files[b].kek /\ files'[a].secret = files[b].secret
    BY <2>1 DEF SameSealing
  <2> QED
    BY <2>3, <2>4, <2>5
<1>4. Wrapped'
  BY <1>3 DEF Wrapped, Sealed
<1> QED
  BY <1>1, <1>2, <1>4 DEF KemInv

\* The steps that tell of no other root secret.
LEMMA SameIdentities ==
  ASSUME RootInv, ArchivesKept,
         \A r \in Roots : files'[r] \in {files[r], Absent},
         files'[Inventory] = files[Inventory]
  PROVE  RootInv'
<1>1. Identities' \subseteq Identities
  <2>1. ASSUME NEW a \in Archives, files'[a] # Absent
        PROVE  \E b \in Archives : /\ files[b] # Absent /\ files'[a].secret = files[b].secret
                                   /\ files'[a].id = files[b].id /\ files'[a].epoch = files[b].epoch
    BY <2>1 DEF ArchivesKept, SameSealing
  <2>2. {<<files'[a].secret, files'[a].id, files'[a].epoch>> : a \in Sealed'}
          \subseteq {<<files[a].secret, files[a].id, files[a].epoch>> : a \in Sealed}
    BY <2>1 DEF Sealed
  <2>3. {<<files'[r].secret, files'[r].id, files'[r].epoch>> : r \in {n \in Roots : files'[n] # Absent}}
          \subseteq {<<files[r].secret, files[r].id, files[r].epoch>> : r \in {n \in Roots : files[n] # Absent}}
    OBVIOUS
  <2> QED
    BY <2>2, <2>3 DEF Identities
<1>2. OneIdentity'
  BY <1>1 DEF RootInv, OneIdentity
<1>3. OneRecord'
  BY DEF RootInv, OneRecord
<1> QED
  BY <1>2, <1>3 DEF RootInv

----------------------------------------------------------------------------
(* The commands, one by one.                                               *)

GoodFiles == Typed /\ KemInv /\ RootInv

\* A file that is neither an archive nor of a key pair for archives nor of a root
\* key nor the inventory changes.
LEMMA OtherFileChanges ==
  ASSUME GoodFiles, NEW m \in Signers \cup SignerPublics \cup {Policy, Restored}, NEW c,
         files' = [files EXCEPT ![m] = c], fresh' = fresh \/ fresh' = fresh + 1,
         c = Absent \/ IsContent(m, c, fresh')
  PROVE  GoodFiles'
<1>1. m \in File /\ m \notin KemSeeds \cup KemPublics \cup Roots \cup Archives \cup {Inventory}
  BY Kinds DEF File
<1>2. Typed' /\ \A n \in File : n # m => files'[n] = files[n]
  BY <1>1, OneFileChanges DEF GoodFiles
<1>3. /\ \A n \in NamesOf(Kem) : files'[Public(n)] = files[Public(n)] /\ files'[Seed(n)] = files[Seed(n)]
      /\ \A r \in Roots \cup Archives \cup {Inventory} : files'[r] = files[r]
  BY <1>1, <1>2 DEF File, KemSeeds, KemPublics
<1>4. ArchivesKept
  BY <1>3 DEF ArchivesKept, SameSealing
<1> QED
  BY <1>2, <1>3, <1>4, SamePairs, SameIdentities DEF GoodFiles

\* What write_key_pair leaves.
LEMMA PairCreated ==
  ASSUME NEW f, NEW name, NEW public, NEW seed, NEW g \in CreatePair(f, name, public, seed)
  PROVE  /\ f[Public(name)] = Absent
         /\ [f EXCEPT ![Public(name)] = public][Seed(name)] = Absent
         /\ g = [[f EXCEPT ![Public(name)] = public] EXCEPT ![Seed(name)] = seed]
<1>1. PICK S \in {Create(h, Seed(name), seed) : h \in Create(f, Public(name), public)} : g \in S
  BY DEF CreatePair
<1>2. PICK h \in Create(f, Public(name), public) : g \in Create(h, Seed(name), seed)
  BY <1>1
<1>3. f[Public(name)] = Absent /\ h = [f EXCEPT ![Public(name)] = public]
  BY <1>2 DEF Create
<1>4. h[Seed(name)] = Absent /\ g = [h EXCEPT ![Seed(name)] = seed]
  BY <1>2 DEF Create
<1> QED
  BY <1>3, <1>4

\* keygen-kem: the pair is a new one.
LEMMA KeygenKemKeeps ==
  ASSUME GoodFiles, NEW c, c.name \in NamesOf(Kem), files' \in KeygenKem(files, c, fresh + 1), fresh' = fresh + 1
  PROVE  GoodFiles'
<1> DEFINE n == c.name
           public == [type |-> "kem_public", pair |-> fresh + 1]
           seed == [type |-> "kem_seed", pair |-> fresh + 1]
           half == [files EXCEPT ![Public(n)] = public]
<1>1. files[Public(n)] = Absent /\ half[Seed(n)] = Absent /\ files' = [half EXCEPT ![Seed(n)] = seed]
  <2>1. files' \in CreatePair(files, n, public, seed)
    BY DEF KeygenKem, ItsHalf
  <2> HIDE DEF public, seed, n
  <2> QED
    BY <2>1, PairCreated
<1>2. /\ Typed /\ fresh \in Nat /\ DOMAIN files = File
      /\ Public(n) \in KemPublics /\ Seed(n) \in KemSeeds /\ Public(n) \in File /\ Seed(n) \in File
      /\ Public(n) # Seed(n)
  BY Kinds DEF GoodFiles, Typed, KemPublics, KemSeeds, File
<1>3. /\ files'[Public(n)] = public /\ files'[Seed(n)] = seed /\ DOMAIN files' = File
      /\ \A m \in File : m \notin {Public(n), Seed(n)} => files'[m] = files[m]
  BY <1>1, <1>2
<1>4. /\ IsContent(Public(n), public, fresh + 1) /\ IsContent(Seed(n), seed, fresh + 1)
      /\ public # Absent /\ seed # Absent /\ public.pair = fresh + 1 /\ seed.pair = fresh + 1
  <2>1. fresh + 1 \in 1..fresh + 1
    BY <1>2
  <2>2. public \in Half("kem_public", fresh + 1) /\ seed \in Half("kem_seed", fresh + 1)
    BY <2>1 DEF Half
  <2> QED
    BY <1>2, <2>2, ContentIs DEF Absent
<1> HIDE DEF public, seed, half, n
<1>5. Typed'
  <2>1. ASSUME NEW m \in File, files'[m] # Absent PROVE IsContent(m, files'[m], fresh + 1)
    <3>1. CASE m \in {Public(n), Seed(n)}
      BY <1>3, <1>4, <3>1
    <3>2. CASE m \notin {Public(n), Seed(n)}
      <4>1. IsContent(m, files'[m], fresh)
        BY <1>2, <1>3, <2>1, <3>2 DEF Typed
      <4> QED
        BY <1>2, <4>1, MoreContent
    <3> QED
      BY <3>1, <3>2
  <2> QED
    BY <1>2, <1>3, <2>1 DEF Typed
<1>6. \A r \in Roots \cup Archives \cup {Inventory} : files'[r] = files[r]
  BY <1>2, <1>3, Kinds DEF File
<1>7. RootInv'
  <2>1. ArchivesKept
    BY <1>6 DEF ArchivesKept, SameSealing
  <2> QED
    BY <1>6, <2>1, SameIdentities DEF GoodFiles
<1>8. /\ n \in NamesOf(Kem)
      /\ \A m \in NamesOf(Kem) : /\ m # n => files'[Public(m)] = files[Public(m)] /\ files'[Seed(m)] = files[Seed(m)]
                                 /\ files[Public(m)] # Absent => files[Public(m)].pair # fresh + 1
  <2>1. n \in NamesOf(Kem)
    BY DEF n
  <2>2. ASSUME NEW m \in NamesOf(Kem), m # n PROVE files'[Public(m)] = files[Public(m)] /\ files'[Seed(m)] = files[Seed(m)]
    <3>1. Public(m) \in File /\ Seed(m) \in File
      BY <1>2, TypedContent
    <3>2. Public(m) \notin {Public(n), Seed(n)} /\ Seed(m) \notin {Public(n), Seed(n)}
      BY <2>2 DEF Public, Seed
    <3> QED
      BY <1>3, <3>1, <3>2
  <2>3. ASSUME NEW m \in NamesOf(Kem), files[Public(m)] # Absent PROVE files[Public(m)].pair # fresh + 1
    <3>1. files[Public(m)].pair \in 1..fresh
      BY <1>2, <2>3, TypedContent DEF Half
    <3> QED
      BY <1>2, <3>1
  <2> QED
    BY <2>1, <2>2, <2>3
<1>9. Halves' /\ OnePair'
  <2>1. Halves'
    BY <1>3, <1>4, <1>8 DEF GoodFiles, KemInv, Halves
  <2>2. OnePair'
    BY <1>3, <1>4, <1>8 DEF GoodFiles, KemInv, OnePair
  <2> QED
    BY <2>1, <2>2
<1>10. Wrapped'
  <2> SUFFICES ASSUME NEW a \in Archives, files[a] # Absent, files'[a] = files[a]
               PROVE  /\ files'[Public(files[a].kem)] # Absent
                      /\ files[a].kek = <<Shared(files'[Public(files[a].kem)]), files[a].secret>>
    BY <1>6 DEF Wrapped, Sealed
  <2>1. /\ files[Public(files[a].kem)] # Absent
        /\ files[a].kek = <<Shared(files[Public(files[a].kem)]), files[a].secret>>
    BY DEF GoodFiles, KemInv, Wrapped, Sealed
  <2>2. files[a].kem \in NamesOf(Kem)
    BY <1>2, TypedContent DEF ArchiveFile
  <2>3. files[a].kem # n
    BY <1>1, <2>1 DEF n
  <2> QED
    BY <1>8, <2>1, <2>2, <2>3
<1> QED
  BY <1>5, <1>7, <1>9, <1>10 DEF GoodFiles, KemInv

\* keygen-root: the secret is a new one.
LEMMA KeygenRootKeeps ==
  ASSUME GoodFiles, NEW c, c.name \in Roots, c.id \in {NoOption} \cup (1..fresh), c.epoch \in Epoch,
         files' \in KeygenRoot(files, c, fresh + 1), fresh' = fresh + 1
  PROVE  GoodFiles'
<1> DEFINE id == Id(c.id, fresh + 1)
<1>1. PICK root : root = [type |-> "root", id |-> id, epoch |-> c.epoch, secret |-> fresh + 1]
  OBVIOUS
<1>2. files[c.name] = Absent /\ files' = [files EXCEPT ![c.name] = root]
  BY <1>1 DEF KeygenRoot, Create
<1>3. Typed /\ fresh \in Nat /\ c.name \in File
  BY DEF GoodFiles, Typed, File
<1>4. id \in 1..fresh + 1 /\ fresh + 1 \in 1..fresh + 1
  BY <1>3 DEF Id, NoOption
<1> HIDE DEF id
<1>5. IsContent(c.name, root, fresh + 1) /\ root.id = id /\ root.epoch = c.epoch /\ root.secret = fresh + 1
  <2>1. root \in RootFile(fresh + 1)
    BY <1>1, <1>4 DEF RootFile
  <2> QED
    BY <1>1, <2>1, ContentIs
<1>6. Typed' /\ files'[c.name] = root /\ \A n \in File : n # c.name => files'[n] = files[n]
  BY <1>2, <1>3, <1>5, OneFileChanges
<1>7. /\ \A n \in NamesOf(Kem) : files'[Public(n)] = files[Public(n)] /\ files'[Seed(n)] = files[Seed(n)]
      /\ \A m \in Archives \cup {Inventory} : files'[m] = files[m]
  BY <1>6, Kinds DEF File, KemSeeds, KemPublics
<1>8. KemInv'
  <2>1. ArchivesKept
    BY <1>7 DEF ArchivesKept, SameSealing
  <2> QED
    BY <1>7, <2>1, SamePairs DEF GoodFiles
<1>9. Identities' \subseteq Identities \cup {<<fresh + 1, id, c.epoch>>}
  <2>1. {<<files'[r].secret, files'[r].id, files'[r].epoch>> : r \in {n \in Roots : files'[n] # Absent}}
          \subseteq {<<files[r].secret, files[r].id, files[r].epoch>> : r \in {n \in Roots : files[n] # Absent}}
                      \cup {<<fresh + 1, id, c.epoch>>}
    <3> SUFFICES ASSUME NEW r \in Roots, files'[r] # Absent, r # c.name PROVE files'[r] = files[r]
      BY <1>5, <1>6
    <3> QED
      BY <1>6 DEF File
  <2>2. {<<files'[a].secret, files'[a].id, files'[a].epoch>> : a \in Sealed'}
          \subseteq {<<files[a].secret, files[a].id, files[a].epoch>> : a \in Sealed}
    BY <1>7 DEF Sealed
  <2>3. files'[Inventory] = files[Inventory]
    BY <1>7
  <2> QED
    BY <2>1, <2>2, <2>3 DEF Identities
<1>10. \A x \in Identities : x[1] # fresh + 1
  <2>1. ASSUME NEW r \in Roots, files[r] # Absent PROVE files[r].secret \in 1..fresh
    BY <1>3, <2>1, TypedContent DEF RootFile
  <2>2. ASSUME NEW a \in Sealed PROVE files[a].secret \in 1..fresh
    BY <1>3, <2>2, TypedContent DEF ArchiveFile, Sealed
  <2>3. ASSUME files[Inventory] # Absent, NEW r \in files[Inventory].records PROVE r.of \in 1..fresh
    BY <1>3, <2>3, TypedContent DEF ListFile, RootRecords
  <2>4. \A x \in Identities : x[1] \in 1..fresh
    BY <2>1, <2>2, <2>3 DEF Identities
  <2> QED
    BY <1>3, <2>4
<1>11. OneIdentity'
  <2> SUFFICES ASSUME NEW x \in Identities', NEW y \in Identities', x[1] = y[1] PROVE x = y
    BY DEF OneIdentity
  <2> DEFINE new == <<fresh + 1, id, c.epoch>>
  <2>1. new[1] = fresh + 1
    OBVIOUS
  <2>2. (x \in Identities \/ x = new) /\ (y \in Identities \/ y = new)
    BY <1>9
  <2> HIDE DEF new
  <2> QED
    BY <1>10, <2>1, <2>2 DEF GoodFiles, RootInv, OneIdentity
<1>12. OneRecord'
  BY <1>7 DEF GoodFiles, RootInv, OneRecord
<1> QED
  BY <1>6, <1>8, <1>11, <1>12 DEF GoodFiles, RootInv

\* keygen-signing
LEMMA KeygenSigningKeeps ==
  ASSUME GoodFiles, NEW c, c.name \in NamesOf(Signing), c.id \in {NoOption} \cup (1..fresh), c.epoch \in Epoch,
         files' \in KeygenSigning(files, c, fresh + 1), fresh' = fresh + 1
  PROVE  GoodFiles'
<1> DEFINE n == c.name
           id == Id(c.id, fresh + 1)
           half(type) == [type |-> type, id |-> id, epoch |-> c.epoch, key |-> fresh + 1]
           first == [files EXCEPT ![Public(n)] = half("signing_public")]
<1>1. first[Seed(n)] = Absent /\ files' = [first EXCEPT ![Seed(n)] = half("signing_seed")]
  <2>1. files' \in CreatePair(files, n, half("signing_public"), half("signing_seed"))
    BY DEF KeygenSigning, SigningHalf
  <2> HIDE DEF half, n
  <2> QED
    BY <2>1, PairCreated
<1>2. /\ Typed /\ fresh \in Nat /\ DOMAIN files = File
      /\ Public(n) \in SignerPublics /\ Seed(n) \in Signers /\ Public(n) \in File /\ Seed(n) \in File
      /\ Public(n) # Seed(n)
  BY Kinds DEF GoodFiles, Typed, SignerPublics, Signers, File
<1>3. /\ files'[Public(n)] = half("signing_public") /\ files'[Seed(n)] = half("signing_seed") /\ DOMAIN files' = File
      /\ \A m \in File : m \notin {Public(n), Seed(n)} => files'[m] = files[m]
  BY <1>1, <1>2
<1>4. IsContent(Public(n), half("signing_public"), fresh + 1) /\ IsContent(Seed(n), half("signing_seed"), fresh + 1)
  <2>1. id \in 1..fresh + 1 /\ fresh + 1 \in 1..fresh + 1
    BY <1>2 DEF Id, NoOption
  <2>2. /\ half("signing_public") \in SigningHalfFile("signing_public", fresh + 1)
        /\ half("signing_seed") \in SigningHalfFile("signing_seed", fresh + 1)
    <3> HIDE DEF id
    <3> QED
      BY <2>1 DEF SigningHalfFile
  <2> QED
    BY <1>2, <2>2, ContentIs
<1> HIDE DEF half, first, n
<1>5. Typed'
  <2>1. ASSUME NEW m \in File, files'[m] # Absent PROVE IsContent(m, files'[m], fresh + 1)
    <3>1. CASE m \in {Public(n), Seed(n)}
      BY <1>3, <1>4, <3>1
    <3>2. CASE m \notin {Public(n), Seed(n)}
      <4>1. IsContent(m, files'[m], fresh)
        BY <1>2, <1>3, <2>1, <3>2 DEF Typed
      <4> QED
        BY <1>2, <4>1, MoreContent
    <3> QED
      BY <3>1, <3>2
  <2> QED
    BY <1>2, <1>3, <2>1 DEF Typed
<1>6. \A m \in KemSeeds \cup KemPublics \cup Roots \cup Archives \cup {Inventory} : files'[m] = files[m]
  BY <1>2, <1>3, Kinds DEF File
<1>7. /\ \A m \in NamesOf(Kem) : files'[Public(m)] = files[Public(m)] /\ files'[Seed(m)] = files[Seed(m)]
      /\ ArchivesKept
  BY <1>6 DEF ArchivesKept, SameSealing, KemSeeds, KemPublics
<1> QED
  BY <1>5, <1>6, <1>7, SamePairs, SameIdentities DEF GoodFiles

\* The inventory changes: its records are typed, there is one for an ID and an
\* epoch, and they tell of no root secret otherwise than what was there.
LEMMA InventoryChanges ==
  ASSUME GoodFiles, NEW R \in SUBSET RootRecords(fresh), NEW c, c = [type |-> "records", records |-> R],
         files' = [files EXCEPT ![Inventory] = c], fresh' = fresh,
         \A r \in R : <<r.of, r.id, r.epoch>> \in Identities,
         \A r, s \in R : r.id = s.id /\ r.epoch = s.epoch => r = s
  PROVE  GoodFiles'
<1>1. IsContent(Inventory, c, fresh) /\ c.records = R
  <2>1. c \in ListFile(RootRecords(fresh))
    BY DEF ListFile
  <2> QED
    BY <2>1, ContentIs
<1>2. Inventory \in File
  BY DEF File
<1>3. Typed' /\ files'[Inventory] = c /\ \A n \in File : n # Inventory => files'[n] = files[n]
  BY <1>1, <1>2, OneFileChanges DEF GoodFiles
<1>4. /\ \A n \in NamesOf(Kem) : files'[Public(n)] = files[Public(n)] /\ files'[Seed(n)] = files[Seed(n)]
      /\ \A m \in Archives \cup Roots : files'[m] = files[m]
  BY <1>3, Kinds DEF File, KemSeeds, KemPublics
<1>5. KemInv'
  <2>1. ArchivesKept
    BY <1>4 DEF ArchivesKept, SameSealing
  <2> QED
    BY <1>4, <2>1, SamePairs DEF GoodFiles
<1>6. Identities' \subseteq Identities
  <2>1. {<<files'[r].secret, files'[r].id, files'[r].epoch>> : r \in {n \in Roots : files'[n] # Absent}}
          \subseteq {<<files[r].secret, files[r].id, files[r].epoch>> : r \in {n \in Roots : files[n] # Absent}}
    BY <1>4
  <2>2. {<<files'[a].secret, files'[a].id, files'[a].epoch>> : a \in Sealed'}
          \subseteq {<<files[a].secret, files[a].id, files[a].epoch>> : a \in Sealed}
    BY <1>4 DEF Sealed
  <2>3. {<<r.of, r.id, r.epoch>> : r \in files'[Inventory].records} \subseteq Identities
    BY <1>1, <1>3
  <2>4. {<<files[r].secret, files[r].id, files[r].epoch>> : r \in {n \in Roots : files[n] # Absent}} \subseteq Identities
    BY DEF Identities
  <2>5. {<<files[a].secret, files[a].id, files[a].epoch>> : a \in Sealed} \subseteq Identities
    BY DEF Identities
  <2> QED
    BY <2>1, <2>2, <2>3, <2>4, <2>5 DEF Identities
<1>7. OneIdentity'
  BY <1>6 DEF GoodFiles, RootInv, OneIdentity
<1>8. OneRecord'
  BY <1>1, <1>3 DEF OneRecord
<1> QED
  BY <1>3, <1>5, <1>7, <1>8 DEF GoodFiles, RootInv

\* The policy changes: its records are typed.
LEMMA PolicyChangesKeep ==
  ASSUME GoodFiles, NEW R \in SUBSET SignerRecords(fresh), NEW c, c = [type |-> "records", records |-> R],
         files' = [files EXCEPT ![Policy] = c], fresh' = fresh
  PROVE  GoodFiles'
<1>1. c \in ListFile(SignerRecords(fresh))
  BY DEF ListFile
<1>2. IsContent(Policy, c, fresh)
  BY <1>1, ContentIs
<1> QED
  BY <1>2, OtherFileChanges

\* Store replaces the records of a list that is there.
LEMMA StoreIs ==
  ASSUME Typed, NEW list \in {Inventory, Policy}, files[list] # Absent, NEW R,
         files' \in Store(files, list, R)
  PROVE  files' = [files EXCEPT ![list] = [type |-> "records", records |-> R]]
<1>1. PICK S : files[list] \in ListFile(S)
  BY TypedContent
<1>2. [files[list] EXCEPT !.records = R] = [type |-> "records", records |-> R]
  BY <1>1 DEF ListFile
<1>3. files' = [files EXCEPT ![list] = [files[list] EXCEPT !.records = R]]
  BY DEF Store
<1> QED
  BY <1>2, <1>3

\* inventory init and signer-policy init
LEMMA InitRecordsKeeps ==
  ASSUME GoodFiles, NEW c, c.list \in {Inventory, Policy}, files' \in InitRecords(files, c), fresh' = fresh
  PROVE  GoodFiles'
<1>1. files' = [files EXCEPT ![c.list] = [type |-> "records", records |-> {}]]
  BY DEF InitRecords, Create
<1> DEFINE new == [type |-> "records", records |-> {}]
<1>2. CASE c.list = Inventory
  <2>1. files' = [files EXCEPT ![Inventory] = new] /\ {} \in SUBSET RootRecords(fresh)
    BY <1>1, <1>2
  <2> QED
    BY <2>1, InventoryChanges
<1>3. CASE c.list = Policy
  <2>1. files' = [files EXCEPT ![Policy] = new] /\ {} \in SUBSET SignerRecords(fresh)
    BY <1>1, <1>3
  <2> QED
    BY <2>1, PolicyChangesKeep
<1> QED
  BY <1>2, <1>3

\* inventory add: the record tells of a root key what its file tells.
LEMMA AddRootKeeps ==
  ASSUME GoodFiles, NEW c, c.list = Inventory, c.key \in Roots, c.status \in RootStatus,
         files' \in Add(files, c), fresh' = fresh
  PROVE  GoodFiles'
<1> DEFINE key == files[c.key]
           old == files[Inventory].records
<1>1. PICK r : r = [id |-> key.id, epoch |-> key.epoch, status |-> c.status, of |-> key.secret]
  OBVIOUS
<1>2. files[Inventory] # Absent /\ key # Absent /\ RecordsFor(files, Inventory, key) = {}
  BY DEF Add
<1>3. key \in RootFile(fresh) /\ old \subseteq RootRecords(fresh)
  BY <1>2, TypedContent DEF GoodFiles, ListFile
<1>4. key.type = "root" /\ key.id \in 1..fresh /\ key.epoch \in Epoch /\ key.secret \in 1..fresh
  BY <1>3 DEF RootFile
<1>5. files' \in Store(files, Inventory, old \cup {r})
  BY <1>1, <1>2, <1>4 DEF Add, Record
<1>6. files' = [files EXCEPT ![Inventory] = [type |-> "records", records |-> old \cup {r}]]
  BY <1>2, <1>5, StoreIs DEF GoodFiles
<1>7. r.id = key.id /\ r.epoch = key.epoch /\ r.of = key.secret /\ r \in RootRecords(fresh)
  <2>1. r.id = key.id /\ r.epoch = key.epoch /\ r.of = key.secret
    BY <1>1
  <2>2. r \in RootRecords(fresh)
    BY <1>1, <1>4 DEF RootRecords
  <2> QED
    BY <2>1, <2>2
<1>8. \A s \in old \cup {r} : <<s.of, s.id, s.epoch>> \in Identities
  <2>1. <<key.secret, key.id, key.epoch>> \in Identities
    BY <1>2 DEF Identities
  <2>2. \A s \in old : <<s.of, s.id, s.epoch>> \in Identities
    BY <1>2 DEF Identities
  <2> QED
    BY <1>7, <2>1, <2>2
<1>9. \A s, t \in old \cup {r} : s.id = t.id /\ s.epoch = t.epoch => s = t
  <2>1. \A s \in old : ~ (s.id = key.id /\ s.epoch = key.epoch)
    BY <1>2 DEF RecordsFor
  <2>2. \A s, t \in old : s.id = t.id /\ s.epoch = t.epoch => s = t
    BY <1>2 DEF GoodFiles, RootInv, OneRecord
  <2> QED
    BY <1>7, <2>1, <2>2
<1>10. old \cup {r} \in SUBSET RootRecords(fresh)
  BY <1>3, <1>7
<1> HIDE DEF old
<1> QED
  BY <1>6, <1>8, <1>9, <1>10, InventoryChanges

\* signer-policy add
LEMMA AddSignerKeeps ==
  ASSUME GoodFiles, NEW c, c.list = Policy, c.key \in SignerPublics, c.status \in SignerStatus,
         files' \in Add(files, c), fresh' = fresh
  PROVE  GoodFiles'
<1> DEFINE key == files[c.key]
           old == files[Policy].records
<1>1. PICK r : r = [id |-> key.id, epoch |-> key.epoch, status |-> c.status, sha256 |-> key.key]
  OBVIOUS
<1>2. files[Policy] # Absent /\ key # Absent
  BY DEF Add
<1>3. key \in SigningHalfFile("signing_public", fresh) /\ old \subseteq SignerRecords(fresh)
  BY <1>2, TypedContent DEF GoodFiles, ListFile
<1>4. key.type # "root" /\ key.id \in 1..fresh /\ key.epoch \in Epoch /\ key.key \in 1..fresh
  BY <1>3 DEF SigningHalfFile
<1>5. files' \in Store(files, Policy, old \cup {r})
  BY <1>1, <1>2, <1>4 DEF Add, Record
<1>6. files' = [files EXCEPT ![Policy] = [type |-> "records", records |-> old \cup {r}]]
  BY <1>2, <1>5, StoreIs DEF GoodFiles
<1>7. r \in SignerRecords(fresh)
  BY <1>1, <1>4 DEF SignerRecords
<1>8. old \cup {r} \in SUBSET SignerRecords(fresh)
  BY <1>3, <1>7
<1> HIDE DEF old
<1> QED
  BY <1>6, <1>8, PolicyChangesKeep

\* inventory set-status and signer-policy set-status: nothing but the status of
\* one record changes.
LEMMA SetStatusIs ==
  ASSUME NEW c, files' \in SetStatus(files, c)
  PROVE  /\ files[c.list] # Absent
         /\ \E r \in files[c.list].records :
               files' \in Store(files, c.list, (files[c.list].records \ {r}) \cup {[r EXCEPT !.status = c.status]})
<1>1. PICK r \in {s \in RecordsFor(files, c.list, c) : MayMove(s.status, c.status)} :
         files' \in Store(files, c.list, (files[c.list].records \ {r}) \cup {[r EXCEPT !.status = c.status]})
  BY DEF SetStatus
<1> QED
  BY <1>1 DEF RecordsFor

LEMMA SetRootStatusKeeps ==
  ASSUME GoodFiles, NEW c, c.list = Inventory, c.status \in RootStatus, files' \in SetStatus(files, c), fresh' = fresh
  PROVE  GoodFiles'
<1> DEFINE old == files[Inventory].records
<1>1. PICK r \in old : /\ files[Inventory] # Absent
                       /\ files' \in Store(files, Inventory, (old \ {r}) \cup {[r EXCEPT !.status = c.status]})
  BY SetStatusIs
<1>2. PICK s : s = [r EXCEPT !.status = c.status]
  OBVIOUS
<1> DEFINE new == (old \ {r}) \cup {s}
<1>3. files' = [files EXCEPT ![Inventory] = [type |-> "records", records |-> new]]
  BY <1>1, <1>2, StoreIs DEF GoodFiles
<1>4. old \subseteq RootRecords(fresh)
  BY <1>1, TypedContent DEF GoodFiles, ListFile
<1>5. s \in RootRecords(fresh) /\ s.id = r.id /\ s.epoch = r.epoch /\ s.of = r.of
  BY <1>1, <1>2, <1>4 DEF RootRecords
<1>6. new \in SUBSET RootRecords(fresh)
  BY <1>4, <1>5
<1>7. \A t \in new : <<t.of, t.id, t.epoch>> \in Identities
  <2>1. \A t \in old : <<t.of, t.id, t.epoch>> \in Identities
    BY <1>1 DEF Identities
  <2> QED
    BY <1>1, <1>5, <2>1
<1>8. \A t, u \in new : t.id = u.id /\ t.epoch = u.epoch => t = u
  <2>1. \A t, u \in old : t.id = u.id /\ t.epoch = u.epoch => t = u
    BY <1>1 DEF GoodFiles, RootInv, OneRecord
  <2> QED
    BY <1>1, <1>5, <2>1
<1> HIDE DEF old, new
<1> QED
  BY <1>3, <1>6, <1>7, <1>8, InventoryChanges

LEMMA SetSignerStatusKeeps ==
  ASSUME GoodFiles, NEW c, c.list = Policy, c.status \in SignerStatus, files' \in SetStatus(files, c), fresh' = fresh
  PROVE  GoodFiles'
<1> DEFINE old == files[Policy].records
<1>1. PICK r \in old : /\ files[Policy] # Absent
                       /\ files' \in Store(files, Policy, (old \ {r}) \cup {[r EXCEPT !.status = c.status]})
  BY SetStatusIs
<1>2. PICK s : s = [r EXCEPT !.status = c.status]
  OBVIOUS
<1> DEFINE new == (old \ {r}) \cup {s}
<1>3. files' = [files EXCEPT ![Policy] = [type |-> "records", records |-> new]]
  BY <1>1, <1>2, StoreIs DEF GoodFiles
<1>4. old \subseteq SignerRecords(fresh)
  BY <1>1, TypedContent DEF GoodFiles, ListFile
<1>5. s \in SignerRecords(fresh)
  BY <1>1, <1>2, <1>4 DEF SignerRecords
<1>6. new \in SUBSET SignerRecords(fresh)
  BY <1>4, <1>5
<1> HIDE DEF old, new
<1> QED
  BY <1>3, <1>6, PolicyChangesKeep

\* seal: the archive is for the pair whose public half was given, and names the
\* root key whose secret goes into the key that wraps it.
LEMMA SealKeeps ==
  ASSUME GoodFiles, NEW c, c.kem \in NamesOf(Kem), c.root \in Roots, c.out \in Archives,
         files' \in Seal(files, c), fresh' = fresh
  PROVE  GoodFiles'
<1> DEFINE half == files[Public(c.kem)]
           root == files[c.root]
           kek == <<Shared(half), root.secret>>
<1>1. PICK x : x = [type |-> "archive", id |-> root.id, epoch |-> root.epoch, kek |-> kek, signature |-> Unsigned,
                    kem |-> c.kem, secret |-> root.secret]
  OBVIOUS
<1>2. half # Absent /\ root # Absent /\ files' \in Create(files, c.out, x)
  BY <1>1 DEF Seal, Kek
<1>3. files[c.out] = Absent /\ files' = [files EXCEPT ![c.out] = x]
  BY <1>2 DEF Create
<1>4. /\ Typed /\ half.pair \in 1..fresh
      /\ root.id \in 1..fresh /\ root.epoch \in Epoch /\ root.secret \in 1..fresh
  BY <1>2, TypedContent DEF GoodFiles, Half, RootFile
<1>5. kek \in Keks(fresh) /\ Unsigned \in Signatures(fresh)
  BY <1>4 DEF Keks, Shared, Signatures
<1>6. x \in ArchiveFile(fresh)
  <2> HIDE DEF kek, root, half
  <2> QED
    BY <1>1, <1>4, <1>5 DEF ArchiveFile
<1>7. x.id = root.id /\ x.epoch = root.epoch /\ x.secret = root.secret /\ x.kem = c.kem /\ x.kek = kek
  BY <1>1
<1>8. IsContent(c.out, x, fresh) /\ c.out \in File
  BY <1>6, ContentIs DEF File
<1>9. Typed' /\ files'[c.out] = x /\ \A n \in File : n # c.out => files'[n] = files[n]
  BY <1>3, <1>4, <1>8, OneFileChanges
<1>10. /\ \A n \in NamesOf(Kem) : files'[Public(n)] = files[Public(n)] /\ files'[Seed(n)] = files[Seed(n)]
       /\ \A m \in Roots \cup {Inventory} : files'[m] = files[m]
       /\ \A a \in Archives : a # c.out => files'[a] = files[a]
  BY <1>9, Kinds DEF File, KemSeeds, KemPublics
<1>11. KemInv'
  <2>1. Halves' /\ OnePair'
    BY <1>10 DEF GoodFiles, KemInv, Halves, OnePair
  <2>2. ASSUME NEW a \in Archives, files'[a] # Absent
        PROVE  /\ files'[Public(files'[a].kem)] # Absent
               /\ files'[a].kek = <<Shared(files'[Public(files'[a].kem)]), files'[a].secret>>
    <3>1. CASE a = c.out
      BY <1>2, <1>7, <1>9, <1>10, <3>1
    <3>2. CASE a # c.out
      <4>1. files[a].kem \in NamesOf(Kem)
        BY <1>4, <1>10, <2>2, <3>2, TypedContent DEF ArchiveFile
      <4>2. /\ files[Public(files[a].kem)] # Absent
            /\ files[a].kek = <<Shared(files[Public(files[a].kem)]), files[a].secret>>
        BY <1>10, <2>2, <3>2 DEF GoodFiles, KemInv, Wrapped, Sealed
      <4> QED
        BY <1>10, <3>2, <4>1, <4>2
    <3> QED
      BY <3>1, <3>2
  <2>3. Wrapped'
    BY <2>2 DEF Wrapped, Sealed
  <2> QED
    BY <2>1, <2>3 DEF KemInv
<1>12. Identities' \subseteq Identities
  <2>1. <<root.secret, root.id, root.epoch>> \in Identities
    BY <1>2 DEF Identities
  <2>2. ASSUME NEW a \in Archives, files'[a] # Absent
        PROVE  <<files'[a].secret, files'[a].id, files'[a].epoch>> \in Identities
    <3>1. CASE a = c.out
      BY <1>7, <1>9, <2>1, <3>1
    <3>2. CASE a # c.out
      BY <1>10, <2>2, <3>2 DEF Identities, Sealed
    <3> QED
      BY <3>1, <3>2
  <2>3. {<<files'[a].secret, files'[a].id, files'[a].epoch>> : a \in Sealed'} \subseteq Identities
    BY <2>2 DEF Sealed
  <2>4. {<<files'[r].secret, files'[r].id, files'[r].epoch>> : r \in {n \in Roots : files'[n] # Absent}} \subseteq Identities
    BY <1>10 DEF Identities
  <2>5. files'[Inventory] = files[Inventory]
    BY <1>10
  <2> QED
    BY <2>3, <2>4, <2>5 DEF Identities
<1>13. RootInv'
  BY <1>10, <1>12 DEF GoodFiles, RootInv, OneIdentity, OneRecord
<1> QED
  BY <1>9, <1>11, <1>13 DEF GoodFiles

\* provenance-sign: the envelope is the one that was signed.
LEMMA SignKeeps ==
  ASSUME GoodFiles, NEW c, c.archive \in Archives, c.signer \in Signers, c.out \in Archives,
         files' \in Sign(files, c), fresh' = fresh
  PROVE  GoodFiles'
<1> DEFINE old == files[c.archive]
           key == files[c.signer]
<1>1. PICK signature : signature = [id |-> key.id, epoch |-> key.epoch, key |-> key.key]
  OBVIOUS
<1>2. PICK x : x = [old EXCEPT !.signature = signature]
  OBVIOUS
<1>3. old # Absent /\ key # Absent /\ files[c.out] = Absent /\ files' = [files EXCEPT ![c.out] = x]
  BY <1>1, <1>2 DEF Sign, Create
<1>4. Typed /\ old \in ArchiveFile(fresh) /\ key \in SigningHalfFile("signing_seed", fresh)
  BY <1>3, TypedContent DEF GoodFiles
<1>5. signature \in Signatures(fresh)
  BY <1>1, <1>4 DEF SigningHalfFile, Signatures
<1>6. x \in ArchiveFile(fresh) /\ SameSealing(x, old)
  <2> HIDE DEF old
  <2> QED
    BY <1>2, <1>4, <1>5 DEF ArchiveFile, SameSealing
<1>7. IsContent(c.out, x, fresh) /\ c.out \in File
  BY <1>6, ContentIs DEF File
<1>8. Typed' /\ files'[c.out] = x /\ \A n \in File : n # c.out => files'[n] = files[n]
  BY <1>3, <1>4, <1>7, OneFileChanges
<1>9. /\ \A n \in NamesOf(Kem) : files'[Public(n)] = files[Public(n)] /\ files'[Seed(n)] = files[Seed(n)]
      /\ \A m \in Roots \cup {Inventory} : files'[m] = files[m]
      /\ \A a \in Archives : a # c.out => files'[a] = files[a]
  BY <1>8, Kinds DEF File, KemSeeds, KemPublics
<1>10. ArchivesKept
  <2> SUFFICES ASSUME NEW a \in Archives, files'[a] # Absent
               PROVE  \E b \in Archives : files[b] # Absent /\ SameSealing(files'[a], files[b])
    BY DEF ArchivesKept
  <2>1. CASE a = c.out
    BY <1>3, <1>6, <1>8, <2>1
  <2>2. CASE a # c.out
    BY <1>9, <2>2 DEF SameSealing
  <2> QED
    BY <2>1, <2>2
<1> QED
  BY <1>8, <1>9, <1>10, SamePairs, SameIdentities DEF GoodFiles

\* open: the restored file is a new one.
LEMMA OpenKeeps ==
  ASSUME GoodFiles, NEW c, files' \in Open(files, c), fresh' = fresh
  PROVE  GoodFiles'
<1> DEFINE plain == [type |-> "plain"]
<1>1. files' = [files EXCEPT ![Restored] = plain]
  BY DEF Open, Create
<1>2. IsContent(Restored, plain, fresh)
  BY ContentIs
<1> HIDE DEF plain
<1> QED
  BY <1>1, <1>2, OtherFileChanges

\* The loss of a secret.
LEMMA LoseKeeps ==
  ASSUME GoodFiles, NEW n \in Secrets, files' = [files EXCEPT ![n] = Absent], fresh' = fresh
  PROVE  GoodFiles'
<1>1. CASE n \in Signers
  BY <1>1, OtherFileChanges
<1>2. CASE n \in KemSeeds \cup Roots
  <2>1. n \in File /\ n \notin KemPublics \cup Archives \cup {Inventory}
    BY <1>2, Kinds DEF File
  <2>2. Typed' /\ files'[n] = Absent /\ \A m \in File : m # n => files'[m] = files[m]
    BY <2>1, OneFileChanges DEF GoodFiles
  <2>3. /\ \A m \in NamesOf(Kem) : files'[Public(m)] = files[Public(m)] /\ files'[Seed(m)] \in {files[Seed(m)], Absent}
        /\ \A r \in Roots : files'[r] \in {files[r], Absent}
        /\ \A a \in Archives \cup {Inventory} : files'[a] = files[a]
    BY <2>1, <2>2 DEF File, KemSeeds, KemPublics
  <2>4. ArchivesKept
    BY <2>3 DEF ArchivesKept, SameSealing
  <2> QED
    BY <2>2, <2>3, <2>4, SamePairs, SameIdentities DEF GoodFiles
<1> QED
  BY <1>1, <1>2 DEF Secrets

----------------------------------------------------------------------------
(* The steps.                                                              *)

\* A command does what it is called.
LEMMA AfterIs ==
  ASSUME NEW f, NEW c, NEW new
  PROVE  /\ c.op = "keygen-kem" => After(f, c, new) = KeygenKem(f, c, new)
         /\ c.op = "keygen-root" => After(f, c, new) = KeygenRoot(f, c, new)
         /\ c.op = "keygen-signing" => After(f, c, new) = KeygenSigning(f, c, new)
         /\ c.op = "init" => After(f, c, new) = InitRecords(f, c)
         /\ c.op = "add" => After(f, c, new) = Add(f, c)
         /\ c.op = "set-status" => After(f, c, new) = SetStatus(f, c)
         /\ c.op = "seal" => After(f, c, new) = Seal(f, c)
         /\ c.op = "provenance-sign" => After(f, c, new) = Sign(f, c)
         /\ c.op = "open" => After(f, c, new) = Open(f, c)
         /\ c.op \in {"inspect", "provenance-verify", "locate", "verify"} => After(f, c, new) = Reads(f, c)
BY DEF After

\* An operator's command keeps the files good.
LEMMA CommandKeeps ==
  ASSUME GoodFiles, NEW c \in Commands, Runs(c)
  PROVE  GoodFiles'
<1>1. files' \in After(files, c, fresh + 1)
  BY DEF Runs
<1>2. /\ c.op \in {"keygen-kem", "keygen-root", "keygen-signing"} => fresh' = fresh + 1
      /\ c.op \in {"init", "add", "set-status", "seal", "provenance-sign", "open"} => fresh' = fresh
  BY DEF Runs, Generates
<1>3. CASE c \in [op : {"keygen-kem"}, name : NamesOf(Kem)]
  <2>1. c.op = "keygen-kem" /\ c.name \in NamesOf(Kem)
    BY <1>3
  <2>2. files' \in KeygenKem(files, c, fresh + 1) /\ fresh' = fresh + 1
    BY <1>1, <1>2, <2>1, AfterIs
  <2> QED
    BY <2>1, <2>2, KeygenKemKeeps
<1>4. CASE c \in [op : {"keygen-root"}, name : Roots, id : GivenId, epoch : Epoch]
  <2>1. c.op = "keygen-root" /\ c.name \in Roots /\ c.id \in {NoOption} \cup (1..fresh) /\ c.epoch \in Epoch
    BY <1>4 DEF GivenId, Random
  <2>2. files' \in KeygenRoot(files, c, fresh + 1) /\ fresh' = fresh + 1
    BY <1>1, <1>2, <2>1, AfterIs
  <2> QED
    BY <2>1, <2>2, KeygenRootKeeps
<1>5. CASE c \in [op : {"keygen-signing"}, name : NamesOf(Signing), id : GivenId, epoch : Epoch]
  <2>1. c.op = "keygen-signing" /\ c.name \in NamesOf(Signing) /\ c.id \in {NoOption} \cup (1..fresh) /\ c.epoch \in Epoch
    BY <1>5 DEF GivenId, Random
  <2>2. files' \in KeygenSigning(files, c, fresh + 1) /\ fresh' = fresh + 1
    BY <1>1, <1>2, <2>1, AfterIs
  <2> QED
    BY <2>1, <2>2, KeygenSigningKeeps
<1>6. CASE c \in [op : {"init"}, list : {Inventory, Policy}]
  <2>1. c.op = "init" /\ c.list \in {Inventory, Policy}
    BY <1>6
  <2>2. files' \in InitRecords(files, c) /\ fresh' = fresh
    BY <1>1, <1>2, <2>1, AfterIs
  <2> QED
    BY <2>1, <2>2, InitRecordsKeeps
<1>7. CASE c \in [op : {"add"}, list : {Inventory}, key : Roots, status : RootStatus]
  <2>1. c.op = "add" /\ c.list = Inventory /\ c.key \in Roots /\ c.status \in RootStatus
    BY <1>7
  <2>2. files' \in Add(files, c) /\ fresh' = fresh
    BY <1>1, <1>2, <2>1, AfterIs
  <2> QED
    BY <2>1, <2>2, AddRootKeeps
<1>8. CASE c \in [op : {"add"}, list : {Policy}, key : SignerPublics, status : SignerStatus]
  <2>1. c.op = "add" /\ c.list = Policy /\ c.key \in SignerPublics /\ c.status \in SignerStatus
    BY <1>8
  <2>2. files' \in Add(files, c) /\ fresh' = fresh
    BY <1>1, <1>2, <2>1, AfterIs
  <2> QED
    BY <2>1, <2>2, AddSignerKeeps
<1>9. CASE c \in [op : {"set-status"}, list : {Inventory}, id : Random, epoch : Epoch, status : RootStatus]
  <2>1. c.op = "set-status" /\ c.list = Inventory /\ c.status \in RootStatus
    BY <1>9
  <2>2. files' \in SetStatus(files, c) /\ fresh' = fresh
    BY <1>1, <1>2, <2>1, AfterIs
  <2> QED
    BY <2>1, <2>2, SetRootStatusKeeps
<1>10. CASE c \in [op : {"set-status"}, list : {Policy}, id : Random, epoch : Epoch, status : SignerStatus]
  <2>1. c.op = "set-status" /\ c.list = Policy /\ c.status \in SignerStatus
    BY <1>10
  <2>2. files' \in SetStatus(files, c) /\ fresh' = fresh
    BY <1>1, <1>2, <2>1, AfterIs
  <2> QED
    BY <2>1, <2>2, SetSignerStatusKeeps
<1>11. CASE c \in [op : {"seal"}, kem : NamesOf(Kem), root : Roots, id : GivenId,
                   epoch : Epoch \cup {NoOption}, out : Archives]
  <2>1. c.op = "seal" /\ c.kem \in NamesOf(Kem) /\ c.root \in Roots /\ c.out \in Archives
    BY <1>11
  <2>2. files' \in Seal(files, c) /\ fresh' = fresh
    BY <1>1, <1>2, <2>1, AfterIs
  <2> QED
    BY <2>1, <2>2, SealKeeps
<1>12. CASE c \in [op : {"provenance-sign"}, archive : Archives, signer : Signers, out : Archives]
  <2>1. c.op = "provenance-sign" /\ c.archive \in Archives /\ c.signer \in Signers /\ c.out \in Archives
    BY <1>12
  <2>2. files' \in Sign(files, c) /\ fresh' = fresh
    BY <1>1, <1>2, <2>1, AfterIs
  <2> QED
    BY <2>1, <2>2, SignKeeps
<1>13. CASE c \in [op : {"open"}, archive : Archives, seed : KemSeeds, root : Roots]
  <2>1. c.op = "open"
    BY <1>13
  <2>2. files' \in Open(files, c) /\ fresh' = fresh
    BY <1>1, <1>2, <2>1, AfterIs
  <2> QED
    BY <2>2, OpenKeeps
<1> QED
  BY <1>3, <1>4, <1>5, <1>6, <1>7, <1>8, <1>9, <1>10, <1>11, <1>12, <1>13 DEF Commands

\* The commands that only read change no file.
Reading == {"inspect", "provenance-verify", "locate", "verify"}

LEMMA ReadingKeeps ==
  ASSUME GoodFiles, NEW c, c.op \in Reading, Runs(c)
  PROVE  GoodFiles'
<1>1. files' \in Reads(files, c) /\ fresh' = fresh
  BY AfterIs DEF Runs, Reading, Generates
<1>2. files' = files
  BY <1>1 DEF Reads
<1>3. ArchivesKept
  BY <1>2 DEF ArchivesKept, SameSealing
<1> QED
  BY <1>1, <1>2, <1>3, SamePairs, SameIdentities DEF GoodFiles, Typed

\* demo gives no command that an operator could not give.
LEMMA ScriptIsCommands ==
  /\ Len(DemoScript) = 14
  /\ \A i \in 1..14 : DemoScript[i] \in Commands \/ DemoScript[i].op \in Reading
<1>1. /\ Kem[1] \in NamesOf(Kem) /\ Root[1] \in Roots /\ Signing[1] \in NamesOf(Signing)
      /\ SealedName \in Archives /\ SignedName \in Archives
  <2>1. 1 \in DOMAIN Kem /\ 1 \in DOMAIN Root /\ 1 \in DOMAIN Signing
    BY NamesAssumption
  <2>2. 1 \in DOMAIN Archive /\ 2 \in DOMAIN Archive
    BY NamesAssumption
  <2> QED
    BY <2>1, <2>2 DEF NamesOf, Roots, Archives, SealedName, SignedName
<1>2. /\ Public(Signing[1]) \in SignerPublics /\ Seed(Signing[1]) \in Signers /\ Seed(Kem[1]) \in KemSeeds
  BY <1>1 DEF SignerPublics, Signers, KemSeeds
<1>3. NoOption \in GivenId /\ 1 \in Epoch /\ "active" \in RootStatus /\ "trusted" \in SignerStatus
  BY DEF GivenId, Epoch, RootStatus, SignerStatus
<1> DEFINE c1 == [op |-> "keygen-kem", name |-> Kem[1]]
           c2 == [op |-> "keygen-root", name |-> Root[1], id |-> NoOption, epoch |-> 1]
           c3 == [op |-> "init", list |-> Inventory]
           c4 == [op |-> "add", list |-> Inventory, key |-> Root[1], status |-> "active"]
           c5 == [op |-> "keygen-signing", name |-> Signing[1], id |-> NoOption, epoch |-> 1]
           c6 == [op |-> "init", list |-> Policy]
           c7 == [op |-> "add", list |-> Policy, key |-> Public(Signing[1]), status |-> "trusted"]
           c8 == [op |-> "seal", kem |-> Kem[1], root |-> Root[1], id |-> NoOption, epoch |-> NoOption,
                  out |-> SealedName]
           c9 == [op |-> "provenance-sign", archive |-> SealedName, signer |-> Seed(Signing[1]), out |-> SignedName]
           c10 == [op |-> "inspect", archive |-> SignedName]
           c11 == [op |-> "provenance-verify", archive |-> DemoVerified, public |-> Public(Signing[1])]
           c12 == [op |-> "locate", archive |-> SignedName]
           c13 == [op |-> "verify", archive |-> SignedName, seed |-> Seed(Kem[1]), root |-> Root[1]]
           c14 == [op |-> "open", archive |-> SignedName, seed |-> Seed(Kem[1]), root |-> Root[1]]
<1>4. DemoScript = <<c1, c2, c3, c4, c5, c6, c7, c8, c9, c10, c11, c12, c13, c14>>
  BY DEF DemoScript
<1>5. /\ c1 \in [op : {"keygen-kem"}, name : NamesOf(Kem)]
      /\ c2 \in [op : {"keygen-root"}, name : Roots, id : GivenId, epoch : Epoch]
      /\ c3 \in [op : {"init"}, list : {Inventory, Policy}]
      /\ c4 \in [op : {"add"}, list : {Inventory}, key : Roots, status : RootStatus]
      /\ c5 \in [op : {"keygen-signing"}, name : NamesOf(Signing), id : GivenId, epoch : Epoch]
      /\ c6 \in [op : {"init"}, list : {Inventory, Policy}]
      /\ c7 \in [op : {"add"}, list : {Policy}, key : SignerPublics, status : SignerStatus]
  BY <1>1, <1>2, <1>3
<1>6. /\ c8 \in [op : {"seal"}, kem : NamesOf(Kem), root : Roots, id : GivenId, epoch : Epoch \cup {NoOption}, out : Archives]
      /\ c9 \in [op : {"provenance-sign"}, archive : Archives, signer : Signers, out : Archives]
      /\ c14 \in [op : {"open"}, archive : Archives, seed : KemSeeds, root : Roots]
  BY <1>1, <1>2, <1>3
<1>7. \A c \in {c1, c2, c3, c4, c5, c6, c7, c8, c9, c14} : c \in Commands
  <2> HIDE DEF c1, c2, c3, c4, c5, c6, c7, c8, c9, c14
  <2> QED
    BY <1>5, <1>6 DEF Commands
<1>8. \A c \in {c10, c11, c12, c13} : c.op \in Reading
  BY DEF Reading
<1> HIDE DEF c1, c2, c3, c4, c5, c6, c7, c8, c9, c10, c11, c12, c13, c14
<1>9. Len(DemoScript) = 14
  BY <1>4
<1>10. \A i \in 1..14 : DemoScript[i] \in {c1, c2, c3, c4, c5, c6, c7, c8, c9, c10, c11, c12, c13, c14}
  BY <1>4
<1> QED
  BY <1>7, <1>8, <1>9, <1>10

\* The policy keeps its records, or what happens to them leaves one for an ID and
\* an epoch.
LEMMA CommandKeepsSigners ==
  ASSUME Typed, OneSigner, NEW c, Runs(c), c \in Commands \/ c.op \in Reading
  PROVE  OneSigner'
<1> DEFINE old == files[Policy].records
<1>1. files' \in After(files, c, fresh + 1)
  BY DEF Runs
<1>2. Policy \in DOMAIN files /\ DOMAIN files = File
  BY TypedContent DEF Typed
<1>3. ASSUME files'[Policy] = files[Policy] PROVE OneSigner'
  BY <1>3 DEF OneSigner
<1>4. ASSUME NEW n, NEW content, n # Policy, files' \in Create(files, n, content) PROVE OneSigner'
  <2>1. files' = [files EXCEPT ![n] = content]
    BY <1>4 DEF Create
  <2> QED
    BY <1>2, <1>3, <1>4, <2>1
<1>5. ASSUME NEW n, NEW public, NEW seed, files' \in CreatePair(files, n, public, seed) PROVE OneSigner'
  <2>1. Public(n) # Policy /\ Seed(n) # Policy
    BY DEF Public, Seed, Policy
  <2>2. files' = [[files EXCEPT ![Public(n)] = public] EXCEPT ![Seed(n)] = seed]
    BY <1>5, PairCreated
  <2> QED
    BY <1>2, <1>3, <2>1, <2>2
<1>6. ASSUME NEW R, files' \in Store(files, Inventory, R) PROVE OneSigner'
  <2>1. files' = [files EXCEPT ![Inventory].records = R]
    BY <1>6 DEF Store
  <2> QED
    BY <1>2, <1>3, <2>1, Kinds
<1>7. ASSUME NEW R, files[Policy] # Absent, files' \in Store(files, Policy, R),
             \A r, s \in R : r.id = s.id /\ r.epoch = s.epoch => r = s
      PROVE  OneSigner'
  <2>1. files' = [files EXCEPT ![Policy] = [type |-> "records", records |-> R]]
    BY <1>7, StoreIs
  <2>2. files'[Policy].records = R
    BY <1>2, <2>1
  <2> QED
    BY <1>7, <2>2 DEF OneSigner
<1>8. CASE c.op \in {"keygen-kem", "keygen-root", "keygen-signing"} /\ c \in Commands
  <2>1. CASE c.op = "keygen-kem"
    <3>1. files' \in KeygenKem(files, c, fresh + 1)
      BY <1>1, <2>1, AfterIs
    <3> QED
      BY <1>5, <3>1 DEF KeygenKem
  <2>2. CASE c.op = "keygen-root"
    <3>1. files' \in KeygenRoot(files, c, fresh + 1)
      BY <1>1, <2>2, AfterIs
    <3>2. c.name \in Roots
      BY <1>8, <2>2 DEF Commands
    <3>3. c.name # Policy
      BY <3>2, Kinds
    <3> QED
      BY <1>4, <3>1, <3>3 DEF KeygenRoot
  <2>3. CASE c.op = "keygen-signing"
    <3>1. files' \in KeygenSigning(files, c, fresh + 1)
      BY <1>1, <2>3, AfterIs
    <3> QED
      BY <1>5, <3>1 DEF KeygenSigning
  <2> QED
    BY <1>8, <2>1, <2>2, <2>3
<1>9. CASE c.op = "init" /\ c \in Commands
  <2>1. files' \in InitRecords(files, c)
    BY <1>1, <1>9, AfterIs
  <2>2. CASE c.list = Policy
    <3>1. files' = [files EXCEPT ![Policy] = [type |-> "records", records |-> {}]]
      BY <2>1, <2>2 DEF InitRecords, Create
    <3>2. files'[Policy].records = {}
      BY <1>2, <3>1
    <3> QED
      BY <3>2 DEF OneSigner
  <2>3. CASE c.list # Policy
    BY <1>4, <2>1, <2>3 DEF InitRecords
  <2> QED
    BY <2>2, <2>3
<1>10. CASE c.op = "add" /\ c \in Commands
  <2>1. files' \in Add(files, c)
    BY <1>1, <1>10, AfterIs
  <2>2. c.list \in {Inventory, Policy} /\ (c.list = Policy => c.key \in SignerPublics)
    BY <1>10, Kinds DEF Commands
  <2>3. /\ files[c.list] # Absent /\ files[c.key] # Absent /\ RecordsFor(files, c.list, files[c.key]) = {}
        /\ files' \in Store(files, c.list, files[c.list].records \cup {Record(files[c.key], c.status)})
    BY <2>1 DEF Add
  <2>4. CASE c.list = Policy
    <3> DEFINE new == Record(files[c.key], c.status)
    <3>1. files[c.key].type # "root"
      BY <2>2, <2>3, <2>4, TypedContent DEF SigningHalfFile
    <3>2. new.id = files[c.key].id /\ new.epoch = files[c.key].epoch
      BY <3>1 DEF Record
    <3>3. \A r \in old : ~ (r.id = files[c.key].id /\ r.epoch = files[c.key].epoch)
      BY <2>3, <2>4 DEF RecordsFor
    <3>4. \A r, s \in old : r.id = s.id /\ r.epoch = s.epoch => r = s
      BY <2>3, <2>4 DEF OneSigner
    <3>5. files' \in Store(files, Policy, old \cup {new})
      BY <2>3, <2>4
    <3> HIDE DEF old, new
    <3>6. \A r, s \in old \cup {new} : r.id = s.id /\ r.epoch = s.epoch => r = s
      BY <3>2, <3>3, <3>4
    <3> QED
      BY <1>7, <2>3, <2>4, <3>5, <3>6
  <2>5. CASE c.list = Inventory
    BY <1>6, <2>3, <2>5
  <2> QED
    BY <2>2, <2>4, <2>5
<1>11. CASE c.op = "set-status" /\ c \in Commands
  <2>1. files' \in SetStatus(files, c)
    BY <1>1, <1>11, AfterIs
  <2>2. c.list \in {Inventory, Policy}
    BY <1>11 DEF Commands
  <2>3. PICK r \in files[c.list].records :
           /\ files[c.list] # Absent
           /\ files' \in Store(files, c.list, (files[c.list].records \ {r}) \cup {[r EXCEPT !.status = c.status]})
    BY <2>1, SetStatusIs
  <2>4. CASE c.list = Policy
    <3>1. PICK s : s = [r EXCEPT !.status = c.status]
      OBVIOUS
    <3>2. r \in SignerRecords(fresh)
      BY <2>3, <2>4, TypedContent DEF ListFile
    <3>3. s.id = r.id /\ s.epoch = r.epoch
      BY <3>1, <3>2 DEF SignerRecords
    <3>4. \A t, u \in old : t.id = u.id /\ t.epoch = u.epoch => t = u
      BY <2>3, <2>4 DEF OneSigner
    <3>5. files' \in Store(files, Policy, (old \ {r}) \cup {s}) /\ r \in old
      BY <2>3, <2>4, <3>1
    <3> HIDE DEF old
    <3>6. \A t, u \in (old \ {r}) \cup {s} : t.id = u.id /\ t.epoch = u.epoch => t = u
      BY <3>3, <3>4, <3>5
    <3> QED
      BY <1>7, <2>3, <2>4, <3>5, <3>6
  <2>5. CASE c.list = Inventory
    BY <1>6, <2>3, <2>5
  <2> QED
    BY <2>2, <2>4, <2>5
<1>12. CASE c.op = "seal" /\ c \in Commands
  <2>1. files' \in Seal(files, c) /\ c.out \in Archives
    BY <1>1, <1>12, AfterIs DEF Commands
  <2>2. c.out # Policy
    BY <2>1, Kinds
  <2> QED
    BY <1>4, <2>1, <2>2 DEF Seal
<1>13. CASE c.op = "provenance-sign" /\ c \in Commands
  <2>1. files' \in Sign(files, c) /\ c.out \in Archives
    BY <1>1, <1>13, AfterIs DEF Commands
  <2>2. c.out # Policy
    BY <2>1, Kinds
  <2> QED
    BY <1>4, <2>1, <2>2 DEF Sign
<1>14. CASE c.op = "open" /\ c \in Commands
  <2>1. files' \in Open(files, c)
    BY <1>1, <1>14, AfterIs
  <2> QED
    BY <1>4, <2>1, Kinds DEF Open
<1>15. CASE c.op \in Reading
  <2>1. files' \in Reads(files, c)
    BY <1>1, <1>15, AfterIs DEF Reading
  <2> QED
    BY <1>3, <2>1 DEF Reads
<1>16. c \in Commands => c.op \in {"keygen-kem", "keygen-root", "keygen-signing", "init", "add", "set-status", "seal",
                                 "provenance-sign", "open"}
  BY DEF Commands
<1> QED
  BY <1>8, <1>9, <1>10, <1>11, <1>12, <1>13, <1>14, <1>15, <1>16

LEMMA InitFilesInv == Init => FilesInv
<1> SUFFICES ASSUME Init PROVE FilesInv
  OBVIOUS
<1>1. /\ fresh = 0 /\ DOMAIN files = File /\ \A n \in File : files[n] = Absent
  BY DEF Init
<1>2. Typed
  BY <1>1 DEF Typed
<1>3. /\ KemSeeds \subseteq File /\ KemPublics \subseteq File /\ Roots \subseteq File /\ Archives \subseteq File
      /\ Inventory \in File
  BY DEF File
<1>4. KemInv
  BY <1>1, <1>3 DEF KemInv, Halves, OnePair, Wrapped, Sealed, KemSeeds, KemPublics
<1>5. Identities = {}
  BY <1>1, <1>3 DEF Identities, Sealed
<1>6. RootInv
  BY <1>1, <1>3, <1>5 DEF RootInv, OneIdentity, OneRecord
<1>7. OneSigner
  <2>1. Policy \in File
    BY DEF File
  <2> QED
    BY <1>1, <2>1 DEF OneSigner
<1>8. Counted
  BY BoundAssumption DEF Init, Counted
<1> QED
  BY <1>2, <1>4, <1>6, <1>7, <1>8 DEF FilesInv

LEMMA NextFilesInv == FilesInv /\ [Next]_vars => FilesInv'
<1> SUFFICES ASSUME FilesInv, [Next]_vars PROVE FilesInv'
  OBVIOUS
<1>1. GoodFiles /\ OneSigner /\ Counted
  BY DEF FilesInv, GoodFiles
<1>2. ASSUME UNCHANGED <<files, fresh>> PROVE GoodFiles' /\ OneSigner'
  <2>1. ArchivesKept
    BY <1>2 DEF ArchivesKept, SameSealing
  <2> QED
    BY <1>1, <1>2, <2>1, SamePairs, SameIdentities DEF GoodFiles, Typed, OneSigner
<1>3. CASE DemoStep
  <2> DEFINE c == DemoScript[step]
  <2>1. step \in 1..14
    BY <1>1, <1>3, ScriptIsCommands DEF DemoStep, Counted
  <2>2. CASE After(files, c, fresh + 1) = {}
    <3>1. UNCHANGED <<files, fresh, step, used>> /\ demo' = "refused"
      BY <1>3, <2>2 DEF DemoStep
    <3> QED
      BY <1>1, <1>2, <3>1 DEF FilesInv, GoodFiles, Counted
  <2>3. CASE After(files, c, fresh + 1) # {}
    <3>1. Runs(c) /\ step' = step + 1 /\ UNCHANGED <<demo, used>>
      BY <1>3, <2>3 DEF DemoStep
    <3>2. c \in Commands \/ c.op \in Reading
      BY <2>1, ScriptIsCommands
    <3> HIDE DEF c
    <3>3. GoodFiles' /\ OneSigner'
      BY <1>1, <3>1, <3>2, CommandKeeps, ReadingKeeps, CommandKeepsSigners DEF GoodFiles
    <3>4. Counted'
      BY <1>1, <2>1, <3>1 DEF Counted
    <3> QED
      BY <3>3, <3>4 DEF FilesInv, GoodFiles
  <2> QED
    BY <2>2, <2>3
<1>4. CASE DemoDone
  <2>1. UNCHANGED <<files, fresh, step, used>> /\ demo' \in {"done", "refused"}
    BY <1>4 DEF DemoDone
  <2> QED
    BY <1>1, <1>2, <2>1 DEF FilesInv, GoodFiles, Counted
<1>5. CASE CallFails
  <2>1. UNCHANGED <<files, fresh, step, used>> /\ demo' = "failed"
    BY <1>5 DEF CallFails
  <2> QED
    BY <1>1, <1>2, <2>1 DEF FilesInv, GoodFiles, Counted
<1>6. ASSUME Acts PROVE Counted'
  BY <1>1, <1>6, BoundAssumption DEF Acts, Counted
<1>7. CASE Operate
  <2>1. Acts
    BY <1>7 DEF Operate
  <2>2. PICK c \in Commands : Runs(c)
    BY <1>7 DEF Operate
  <2> QED
    BY <1>1, <1>6, <2>1, <2>2, CommandKeeps, CommandKeepsSigners DEF FilesInv, GoodFiles
<1>8. CASE Lose
  <2>1. Acts /\ fresh' = fresh
    BY <1>8 DEF Lose
  <2>2. PICK n \in Secrets : files' = [files EXCEPT ![n] = Absent]
    BY <1>8 DEF Lose
  <2>3. GoodFiles'
    BY <1>1, <2>1, <2>2, LoseKeeps
  <2>4. files'[Policy] = files[Policy]
    BY <1>1, <2>2, Kinds DEF GoodFiles, Typed, Secrets, File
  <2> QED
    BY <1>1, <1>6, <2>1, <2>3, <2>4 DEF FilesInv, GoodFiles, OneSigner
<1>9. CASE UNCHANGED vars
  BY <1>1, <1>2, <1>9 DEF vars, FilesInv, GoodFiles, Counted
<1> QED
  BY <1>3, <1>4, <1>5, <1>7, <1>8, <1>9 DEF Next

LEMMA SpecFilesInv == Spec => []FilesInv
BY InitFilesInv, NextFilesInv, PTL DEF Spec

----------------------------------------------------------------------------
(* What the invariant says of the keys.                                    *)

LEMMA FilesAreTyped == FilesInv => TypeOK
<1> SUFFICES ASSUME FilesInv PROVE TypeOK
  OBVIOUS
<1>1. Typed /\ Random = 1..fresh
  BY DEF FilesInv, Random
<1>2. \A n \in KemSeeds : IsFile(n, "kem_seed")
  <2> SUFFICES ASSUME NEW n \in KemSeeds, files[n] # Absent PROVE files[n] \in Types["kem_seed"]
    BY DEF IsFile
  <2>1. files[n] \in Half("kem_seed", fresh)
    BY <1>1, TypedContent DEF KemSeeds
  <2> QED
    BY <1>1, <2>1 DEF Half, Types
<1>3. \A n \in KemPublics : IsFile(n, "kem_public")
  <2> SUFFICES ASSUME NEW n \in KemPublics, files[n] # Absent PROVE files[n] \in Types["kem_public"]
    BY DEF IsFile
  <2>1. files[n] \in Half("kem_public", fresh)
    BY <1>1, TypedContent DEF KemPublics
  <2> QED
    BY <1>1, <2>1 DEF Half, Types
<1>4. \A n \in Roots : IsFile(n, "root")
  <2> SUFFICES ASSUME NEW n \in Roots, files[n] # Absent PROVE files[n] \in Types["root"]
    BY DEF IsFile
  <2>1. files[n] \in RootFile(fresh)
    BY <1>1, TypedContent
  <2> QED
    BY <1>1, <2>1 DEF RootFile, Types
<1>5. \A n \in Signers : IsFile(n, "signing_seed")
  <2> SUFFICES ASSUME NEW n \in Signers, files[n] # Absent PROVE files[n] \in Types["signing_seed"]
    BY DEF IsFile
  <2>1. files[n] \in SigningHalfFile("signing_seed", fresh)
    BY <1>1, TypedContent
  <2> QED
    BY <1>1, <2>1 DEF SigningHalfFile, Types
<1>6. \A n \in SignerPublics : IsFile(n, "signing_public")
  <2> SUFFICES ASSUME NEW n \in SignerPublics, files[n] # Absent PROVE files[n] \in Types["signing_public"]
    BY DEF IsFile
  <2>1. files[n] \in SigningHalfFile("signing_public", fresh)
    BY <1>1, TypedContent
  <2> QED
    BY <1>1, <2>1 DEF SigningHalfFile, Types
<1>7. ASSUME NEW n \in Archives, files[n] # Absent
      PROVE  /\ files[n].type = "archive"
             /\ files[n].id \in Random /\ files[n].epoch \in Epoch
             /\ files[n].signature \in Signature
             /\ files[n].kem \in NamesOf(Kem) /\ files[n].secret \in Random
  <2>1. files[n] \in ArchiveFile(fresh)
    BY <1>1, <1>7, TypedContent
  <2>2. Signature = Signatures(fresh)
    BY <1>1 DEF Signature, Signatures
  <2> QED
    BY <1>1, <2>1, <2>2 DEF ArchiveFile
<1>8. files[Inventory] # Absent => files[Inventory].records \subseteq RootRecord
  <2>1. RootRecord = RootRecords(fresh)
    BY <1>1 DEF RootRecord, RootRecords
  <2> QED
    BY <1>1, <2>1, TypedContent DEF ListFile
<1>9. files[Policy] # Absent => files[Policy].records \subseteq SignerRecord
  <2>1. SignerRecord = SignerRecords(fresh)
    BY <1>1 DEF SignerRecord, SignerRecords
  <2> QED
    BY <1>1, <2>1, TypedContent DEF ListFile
<1>10. IsFile(Restored, "plain")
  <2>1. Restored \in File
    BY DEF File
  <2>2. files[Restored] # Absent => files[Restored] = [type |-> "plain"]
    BY <1>1, <2>1, ContentIs DEF Typed
  <2> QED
    BY <2>2 DEF IsFile, Types
<1>11. DOMAIN files = File /\ fresh \in Nat
  BY <1>1 DEF Typed
<1>12. Counted
  BY DEF FilesInv
<1> QED
  BY <1>2, <1>3, <1>4, <1>5, <1>6, <1>7, <1>8, <1>9, <1>10, <1>11, <1>12 DEF TypeOK, Counted

\* A seed that opens an archive is the one of its pair, and the root secret its own.
LEMMA OpensWithItsOwn ==
  ASSUME FilesInv, NEW a \in Sealed, NEW s \in KemSeeds, NEW r \in Roots, Opens(files, a, s, r)
  PROVE  s = Seed(files[a].kem) /\ files[r].secret = files[a].secret
<1> DEFINE k == files[a].kem
<1>1. Typed /\ Halves /\ OnePair /\ Wrapped
  BY DEF FilesInv, KemInv
<1>2. PICK n \in NamesOf(Kem) : s = Seed(n)
  BY DEF KemSeeds
<1>3. k \in NamesOf(Kem) /\ files[Public(k)] # Absent
  <2>1. a \in Archives /\ files[a] # Absent
    BY DEF Sealed
  <2>2. files[a] \in ArchiveFile(fresh)
    BY <1>1, <2>1, TypedContent
  <2> QED
    BY <1>1, <2>2 DEF ArchiveFile, Wrapped
<1>4. <<Shared(files[s]), files[r].secret>> = <<Shared(files[Public(k)]), files[a].secret>>
  BY <1>1 DEF Wrapped, Opens, Kek
<1>5. files[r].secret = files[a].secret /\ files[s].pair = files[Public(k)].pair
  BY <1>4 DEF Shared
<1>6. files[Public(n)] # Absent /\ files[Seed(n)].pair = files[Public(n)].pair
  BY <1>1, <1>2 DEF Halves, Opens
<1>7. n = k
  BY <1>1, <1>2, <1>3, <1>5, <1>6 DEF OnePair
<1> QED
  BY <1>2, <1>5, <1>7

\* Every recovery needs both: the key that wraps an archive is made of its own
\* pair and its own root secret, and no seed and no root key that were generated
\* otherwise, with whatever ID and epoch, make it (seal, derive_kek,
\* decrypt_archive_reader).
THEOREM NothingOpensWithLess == Spec => []RecoveryInv
<1>1. FilesInv => RecoveryInv
  <2> SUFFICES ASSUME FilesInv PROVE BothSecretsNeeded
    BY FilesAreTyped DEF RecoveryInv
  <2> QED
    BY OpensWithItsOwn DEF BothSecretsNeeded
<1> QED
  BY <1>1, SpecFilesInv, PTL

\* Both are enough: while the seed and the root secret of an archive are kept,
\* it opens, whatever was generated, recorded, revoked, signed or lost since, and
\* the seed is told to belong to its public half (open, key-info).
THEOREM KeptSecretsSuffice == Spec => []KeptIsRecoverable
<1>1. FilesInv => KeptIsRecoverable
  <2> SUFFICES ASSUME FilesInv, NEW a \in Sealed, NEW r \in Roots,
                      files[Seed(files[a].kem)] # Absent, files[r] # Absent, files[r].secret = files[a].secret
               PROVE  /\ Opens(files, a, Seed(files[a].kem), r)
                      /\ Fingerprint(files[Seed(files[a].kem)]) = Fingerprint(files[Public(files[a].kem)])
    BY DEF KeptIsRecoverable
  <2> DEFINE k == files[a].kem
  <2>1. a \in Archives /\ files[a] # Absent /\ Typed /\ Halves /\ Wrapped /\ OneIdentity
    BY DEF Sealed, FilesInv, KemInv, RootInv
  <2>2. k \in NamesOf(Kem)
    BY <2>1, TypedContent DEF ArchiveFile
  <2>3. files[Seed(k)].pair = files[Public(k)].pair
    BY <2>1, <2>2 DEF Halves
  <2>4. files[a].kek = <<Shared(files[Public(k)]), files[a].secret>>
    BY <2>1 DEF Wrapped
  <2>5. files[a].kek = Kek(Shared(files[Seed(k)]), files[r])
    BY <2>3, <2>4 DEF Kek, Shared
  <2>6. <<files[r].secret, files[r].id, files[r].epoch>> = <<files[a].secret, files[a].id, files[a].epoch>>
    <3>1. /\ <<files[r].secret, files[r].id, files[r].epoch>> \in Identities
          /\ <<files[a].secret, files[a].id, files[a].epoch>> \in Identities
      BY DEF Identities
    <3> QED
      BY <2>1, <3>1 DEF OneIdentity
  <2> QED
    BY <2>1, <2>3, <2>5, <2>6 DEF Opens, RootMatches, Fingerprint
<1> QED
  BY <1>1, SpecFilesInv, PTL

\* The record of the root key that an archive was sealed with is the one record
\* that inventory-locate finds for it, however many keys were recorded (add,
\* set-status, locate).
THEOREM RegisteredIsFound == Spec => []RegisteredIsLocated
<1>1. FilesInv => RegisteredIsLocated
  <2> SUFFICES ASSUME FilesInv, files[Inventory] # Absent, NEW a \in Sealed, NEW record \in files[Inventory].records,
                      record.of = files[a].secret
               PROVE  Located(files, a) = {record}
    BY DEF RegisteredIsLocated
  <2>1. <<record.of, record.id, record.epoch>> = <<files[a].secret, files[a].id, files[a].epoch>>
    <3>1. /\ <<record.of, record.id, record.epoch>> \in Identities
          /\ <<files[a].secret, files[a].id, files[a].epoch>> \in Identities
      BY DEF Identities
    <3> QED
      BY <3>1 DEF FilesInv, RootInv, OneIdentity
  <2>2. \A r, s \in files[Inventory].records : r.id = s.id /\ r.epoch = s.epoch => r = s
    BY DEF FilesInv, RootInv, OneRecord
  <2>3. Located(files, a) = {r \in files[Inventory].records : r.id = files[a].id /\ r.epoch = files[a].epoch}
    BY DEF Located, RecordsFor
  <2> QED
    BY <2>1, <2>2, <2>3
<1> QED
  BY <1>1, SpecFilesInv, PTL

\* The record that vets a signature is the only one for its key: what becomes of
\* that record, a revocation too, becomes of every signature by the key.
OneRecordVets ==
    \A a \in Sealed, p \in SignerPublics, historical \in BOOLEAN :
        Accepts(files, a, p, historical) =>
            \E record \in files[Policy].records :
                /\ RecordsFor(files, Policy, files[p]) = {record}
                /\ record.sha256 = files[a].signature.key /\ Permits(record, historical)

\* A signature that is accepted was made with the very key of a record that is
\* not revoked, and there is no other record for its ID and its epoch, whatever
\* keys were added (verify_provenance_reader, signer-policy add, set-status).
THEOREM AcceptedKeysAreVetted == Spec => [](AcceptedIsVetted /\ OneRecordVets)
<1>1. FilesInv => OneRecordVets
  <2> SUFFICES ASSUME FilesInv, NEW a \in Sealed, NEW p \in SignerPublics, NEW historical \in BOOLEAN,
                      Accepts(files, a, p, historical)
               PROVE  \E record \in files[Policy].records :
                         /\ RecordsFor(files, Policy, files[p]) = {record}
                         /\ record.sha256 = files[a].signature.key /\ Permits(record, historical)
    BY DEF OneRecordVets
  <2>1. PICK r \in RecordsFor(files, Policy, files[p]) : SameKey(r, files[p]) /\ Permits(r, historical)
    BY DEF Accepts
  <2>2. /\ files[Policy] # Absent /\ r \in files[Policy].records
        /\ \A s \in RecordsFor(files, Policy, files[p]) : s \in files[Policy].records /\ s.id = r.id /\ s.epoch = r.epoch
    BY <2>1 DEF RecordsFor
  <2>3. \A s, t \in files[Policy].records : s.id = t.id /\ s.epoch = t.epoch => s = t
    BY <2>2 DEF FilesInv, OneSigner
  <2>4. RecordsFor(files, Policy, files[p]) = {r}
    BY <2>1, <2>2, <2>3
  <2>5. files[a].signature.key = files[p].key
    BY DEF Accepts
  <2> QED
    BY <2>1, <2>2, <2>4, <2>5 DEF SameKey
<1>2. OneRecordVets => AcceptedIsVetted
  BY DEF OneRecordVets, AcceptedIsVetted, Permits
<1> QED
  BY <1>1, <1>2, SpecFilesInv, PTL
============================================================================

------------------------------ MODULE Recovery ------------------------------
(***************************************************************************)
(* The commands of pqbackup on one set of files, from the generation of    *)
(* keys to the restored backup.  demo runs twelve of them in order; then,  *)
(* wherever it got to, an operator gives commands in any order: keys of    *)
(* another epoch, or with an ID and an epoch that are already in use, take *)
(* their places in the inventory and the policy beside the old ones, and   *)
(* secrets are lost.  A command either does all it has to do or changes no *)
(* file: how it fails half way is in Publication, KeyPair and Registry,    *)
(* how an archive is read and written in the other modules.                *)
(***************************************************************************)
EXTENDS Naturals, Sequences

CONSTANTS
    Kem,         \* the names of ML-KEM key pairs
    Root,        \* those of root-key files
    Signing,     \* those of signing-key pairs
    Archive,     \* those of archives
    MaxCommands  \* bound: what the operator does

NamesOf(seq) == {seq[i] : i \in DOMAIN seq}

\* The names that demo uses come first.
ASSUME NamesAssumption ==
    /\ \A names \in {Kem, Root, Signing, Archive} : names \in Seq(NamesOf(names))
    /\ {Len(Kem), Len(Root), Len(Signing)} \subseteq Nat \ {0}
    /\ Len(Archive) >= 2
ASSUME BoundAssumption == MaxCommands \in Nat

Public(name) == <<name, "public">>
Seed(name) == <<name, "seed">>
Inventory == <<"inventory", "toml">>
Policy == <<"policy", "toml">>
Restored == <<"restored", "plain">>

KemSeeds == {Seed(n) : n \in NamesOf(Kem)}
KemPublics == {Public(n) : n \in NamesOf(Kem)}
Roots == NamesOf(Root)
Signers == {Seed(n) : n \in NamesOf(Signing)}
SignerPublics == {Public(n) : n \in NamesOf(Signing)}
Archives == NamesOf(Archive)
File == KemSeeds \cup KemPublics \cup Roots \cup Signers \cup SignerPublics \cup Archives
            \cup {Inventory, Policy, Restored}
Secrets == KemSeeds \cup Roots \cup Signers

\* A path is the place of one kind of file: where another kind is expected it
\* does not decode, and the command is refused.
ASSUME PathAssumption ==
    /\ NamesOf(Kem) \cap NamesOf(Signing) = {}
    /\ Roots \cap Archives = {}
    /\ (Roots \cup Archives)
          \cap (KemSeeds \cup KemPublics \cup Signers \cup SignerPublics \cup {Inventory, Policy, Restored}) = {}

VARIABLES
    files,  \* what is in each file
    fresh,  \* the number of values drawn at random; the next one is one more
    step,   \* demo: the command it has come to
    demo,   \* "runs", "done", "failed" by a call that failed, "refused"
    used    \* the number of commands and losses after demo

vars == <<files, fresh, step, demo, used>>

Absent == [type |-> "absent"]
Random == 1..fresh
Epoch == {1, 2}
RootStatus == {"active", "retired", "compromised", "destroyed"}
SignerStatus == {"trusted", "retired", "revoked"}
NoOption == 0
Unsigned == [id |-> 0, epoch |-> 0, key |-> 0]

\* An archive is its header and its signature; what seal was given is history,
\* and so are the secret and the key a record was added from.
Types ==
    [absent |-> {Absent},
     kem_public |-> [type : {"kem_public"}, pair : Random],
     kem_seed |-> [type : {"kem_seed"}, pair : Random],
     root |-> [type : {"root"}, id : Random, epoch : Epoch, secret : Random],
     signing_public |-> [type : {"signing_public"}, id : Random, epoch : Epoch, key : Random],
     signing_seed |-> [type : {"signing_seed"}, id : Random, epoch : Epoch, key : Random],
     plain |-> {[type |-> "plain"]}]

IsFile(n, type) == files[n] \in Types[type] \cup {Absent}

RootRecord == [id : Random, epoch : Epoch, status : RootStatus, of : Random]
SignerRecord == [id : Random, epoch : Epoch, status : SignerStatus, sha256 : Random]
Signature == [id : Random, epoch : Epoch, key : Random] \cup {Unsigned}

TypeOK ==
    /\ DOMAIN files = File
    /\ \A n \in KemSeeds : IsFile(n, "kem_seed")
    /\ \A n \in KemPublics : IsFile(n, "kem_public")
    /\ \A n \in Roots : IsFile(n, "root")
    /\ \A n \in Signers : IsFile(n, "signing_seed")
    /\ \A n \in SignerPublics : IsFile(n, "signing_public")
    /\ \A n \in Archives :
          files[n] # Absent =>
              /\ files[n].type = "archive"
              /\ files[n].id \in Random /\ files[n].epoch \in Epoch
              /\ files[n].signature \in Signature
              /\ files[n].kem \in NamesOf(Kem) /\ files[n].secret \in Random
    /\ files[Inventory] # Absent => files[Inventory].records \subseteq RootRecord
    /\ files[Policy] # Absent => files[Policy].records \subseteq SignerRecord
    /\ IsFile(Restored, "plain")
    /\ fresh \in Nat
    /\ step \in 1..15
    /\ demo \in {"runs", "done", "failed", "refused"}
    /\ used \in 0..MaxCommands

----------------------------------------------------------------------------
(* The keys of an archive.                                                 *)

\* encapsulate and decapsulate: another seed gives another secret, not an error.
Shared(half) == <<"shared", half.pair>>

\* derive_kek: both secrets together; a variant leaves the root secret out.
KekOfShared(shared, root) == <<shared>>
Kek(shared, root) == <<shared, root.secret>>

\* ensure_root_metadata
RootMatches(archive, root) == archive.id = root.id /\ archive.epoch = root.epoch

\* decrypt_archive_reader, up to the data key: the files are what they should
\* be, the header names the root key and the key wraps the data key.
Opens(f, archive, seed, root) ==
    /\ f[archive] # Absent /\ f[seed] # Absent /\ f[root] # Absent
    /\ RootMatches(f[archive], f[root])
    /\ f[archive].kek = Kek(Shared(f[seed]), f[root])

\* key-info: what it prints of the two halves of a pair.
Fingerprint(half) == half.pair

----------------------------------------------------------------------------
(* The records.                                                            *)

RecordsFor(f, list, key) ==
    IF f[list] = Absent THEN {}
    ELSE {r \in f[list].records : r.id = key.id /\ r.epoch = key.epoch}

\* inventory-locate: the record an archive asks for; a variant looks for the ID.
LocatedById(f, archive) == {r \in f[Inventory].records : r.id = f[archive].id}
Located(f, archive) == RecordsFor(f, Inventory, f[archive])

\* verify_provenance_reader, after the envelope was found to be whole: the
\* public key is the one of the trailer, the signature is by it, and the record
\* is one of that very key; a variant does not compare the key.
Permits(record, allow_retired) ==
    record.status = "trusted" \/ (record.status = "retired" /\ allow_retired)

AnyKey(record, public) == TRUE
SameKey(record, public) == record.sha256 = public.key

Accepts(f, archive, public, allow_retired) ==
    /\ f[archive] # Absent /\ f[public] # Absent
    /\ f[archive].signature = [id |-> f[public].id, epoch |-> f[public].epoch, key |-> f[public].key]
    /\ \E r \in RecordsFor(f, Policy, f[public]) :
          SameKey(r, f[public]) /\ Permits(r, allow_retired)

\* ensure_root_key_status_transition, ensure_signer_status_transition
MayMove(from, to) ==
    \/ from = to \/ from \in {"active", "trusted"}
    \/ from = "retired" /\ to \in {"compromised", "destroyed", "revoked"}
    \/ from = "compromised" /\ to = "destroyed"

----------------------------------------------------------------------------
(* The commands: what the files may be afterwards, nothing if the command  *)
(* is refused.  new is the next random value.                              *)

\* write_new_file, write_key_pair
Create(f, n, content) == IF f[n] = Absent THEN {[f EXCEPT ![n] = content]} ELSE {}

CreatePair(f, name, public, seed) ==
    UNION {Create(g, Seed(name), seed) : g \in Create(f, Public(name), public)}

\* keygen-kem: the public half is the one of the seed; in a variant it is not.
OtherHalf(new) == [type |-> "kem_public", pair |-> new - 1]
ItsHalf(new) == [type |-> "kem_public", pair |-> new]

KeygenKem(f, c, new) ==
    CreatePair(f, c.name, ItsHalf(new), [type |-> "kem_seed", pair |-> new])

\* --root-key-id, --signer-key-id: the ID is drawn unless it is given.
Id(option, new) == IF option = NoOption THEN new ELSE option

KeygenRoot(f, c, new) ==
    Create(f, c.name, [type |-> "root", id |-> Id(c.id, new), epoch |-> c.epoch, secret |-> new])

SigningHalf(type, c, new) == [type |-> type, id |-> Id(c.id, new), epoch |-> c.epoch, key |-> new]

KeygenSigning(f, c, new) ==
    CreatePair(f, c.name, SigningHalf("signing_public", c, new), SigningHalf("signing_seed", c, new))

\* inventory init and signer-policy init
InitRecords(f, c) == Create(f, c.list, [type |-> "records", records |-> {}])

Store(f, list, records) == {[f EXCEPT ![list].records = records]}

\* inventory add and signer-policy add: there is one record for an ID and an epoch.
Record(content, status) ==
    IF content.type = "root"
    THEN [id |-> content.id, epoch |-> content.epoch, status |-> status, of |-> content.secret]
    ELSE [id |-> content.id, epoch |-> content.epoch, status |-> status, sha256 |-> content.key]

Add(f, c) ==
    IF f[c.list] = Absent \/ f[c.key] = Absent \/ RecordsFor(f, c.list, f[c.key]) # {} THEN {}
    ELSE Store(f, c.list, f[c.list].records \cup {Record(f[c.key], c.status)})

SetStatus(f, c) ==
    UNION {Store(f, c.list, (f[c.list].records \ {r}) \cup {[r EXCEPT !.status = c.status]}) :
              r \in {s \in RecordsFor(f, c.list, c) : MayMove(s.status, c.status)}}

\* ensure_expected_root
Expected(root, c) ==
    /\ c.id \in {NoOption, root.id}
    /\ c.epoch \in {NoOption, root.epoch}

Seal(f, c) ==
    IF f[Public(c.kem)] = Absent \/ f[c.root] = Absent \/ ~ Expected(f[c.root], c) THEN {}
    ELSE Create(f, c.out,
                [type |-> "archive", id |-> f[c.root].id, epoch |-> f[c.root].epoch,
                 kek |-> Kek(Shared(f[Public(c.kem)]), f[c.root]), signature |-> Unsigned,
                 kem |-> c.kem, secret |-> f[c.root].secret])

Sign(f, c) ==
    IF f[c.archive] = Absent \/ f[c.signer] = Absent \/ f[c.archive].signature # Unsigned THEN {}
    ELSE Create(f, c.out,
                [f[c.archive] EXCEPT !.signature =
                    [id |-> f[c.signer].id, epoch |-> f[c.signer].epoch, key |-> f[c.signer].key]])

Open(f, c) ==
    IF Opens(f, c.archive, c.seed, c.root) THEN Create(f, Restored, [type |-> "plain"]) ELSE {}

\* The commands that only read: inspect, provenance-verify, inventory locate,
\* verify.
Reads(f, c) ==
    IF \/ c.op = "inspect" /\ f[c.archive] # Absent
       \/ c.op = "provenance-verify" /\ Accepts(f, c.archive, c.public, FALSE)
       \/ c.op = "locate" /\ Located(f, c.archive) # {}
       \/ c.op = "verify" /\ Opens(f, c.archive, c.seed, c.root)
    THEN {f} ELSE {}

\* main
Generates == {"keygen-kem", "keygen-root", "keygen-signing"}

After(f, c, new) ==
    CASE c.op = "keygen-kem" -> KeygenKem(f, c, new)
      [] c.op = "keygen-root" -> KeygenRoot(f, c, new)
      [] c.op = "keygen-signing" -> KeygenSigning(f, c, new)
      [] c.op = "init" -> InitRecords(f, c)
      [] c.op = "add" -> Add(f, c)
      [] c.op = "set-status" -> SetStatus(f, c)
      [] c.op = "seal" -> Seal(f, c)
      [] c.op = "provenance-sign" -> Sign(f, c)
      [] c.op = "open" -> Open(f, c)
      [] OTHER -> Reads(f, c)

----------------------------------------------------------------------------
(* demo: its steps, from the second on, with the names in the order of the *)
(* constants; a variant verifies the archive before it was signed.         *)

SealedName == Archive[1]
SignedName == Archive[2]
DemoVerified == SignedName

DemoScript ==
    <<[op |-> "keygen-kem", name |-> Kem[1]],
      [op |-> "keygen-root", name |-> Root[1], id |-> NoOption, epoch |-> 1],
      [op |-> "init", list |-> Inventory],
      [op |-> "add", list |-> Inventory, key |-> Root[1], status |-> "active"],
      [op |-> "keygen-signing", name |-> Signing[1], id |-> NoOption, epoch |-> 1],
      [op |-> "init", list |-> Policy],
      [op |-> "add", list |-> Policy, key |-> Public(Signing[1]), status |-> "trusted"],
      [op |-> "seal", kem |-> Kem[1], root |-> Root[1], id |-> NoOption, epoch |-> NoOption,
       out |-> SealedName],
      [op |-> "provenance-sign", archive |-> SealedName, signer |-> Seed(Signing[1]),
       out |-> SignedName],
      [op |-> "inspect", archive |-> SignedName],
      [op |-> "provenance-verify", archive |-> DemoVerified, public |-> Public(Signing[1])],
      [op |-> "locate", archive |-> SignedName],
      [op |-> "verify", archive |-> SignedName, seed |-> Seed(Kem[1]), root |-> Root[1]],
      [op |-> "open", archive |-> SignedName, seed |-> Seed(Kem[1]), root |-> Root[1]]>>

Init ==
    /\ files = [n \in File |-> Absent]
    /\ fresh = 0
    /\ step = 1
    /\ demo = "runs"
    /\ used = 0

Runs(c) ==
    /\ files' \in After(files, c, fresh + 1)
    /\ fresh' = IF c.op \in Generates THEN fresh + 1 ELSE fresh

\* The next command; if it is refused, demo ends.
DemoStep ==
    /\ demo = "runs" /\ step <= Len(DemoScript)
    /\ IF After(files, DemoScript[step], fresh + 1) = {}
       THEN demo' = "refused" /\ UNCHANGED <<files, fresh, step>>
       ELSE Runs(DemoScript[step]) /\ step' = step + 1 /\ UNCHANGED demo
    /\ UNCHANGED used

\* The restored file is compared with the input.
DemoDone ==
    /\ demo = "runs" /\ step > Len(DemoScript)
    /\ demo' = IF files[Restored] # Absent THEN "done" ELSE "refused"
    /\ UNCHANGED <<files, fresh, step, used>>

\* A file cannot be written or read: what is there stays.
CallFails ==
    /\ demo = "runs"
    /\ demo' = "failed"
    /\ UNCHANGED <<files, fresh, step, used>>

----------------------------------------------------------------------------
(* The operator.                                                           *)

GivenId == {NoOption} \cup Random

Commands ==
    [op : {"keygen-kem"}, name : NamesOf(Kem)]
    \cup [op : {"keygen-root"}, name : Roots, id : GivenId, epoch : Epoch]
    \cup [op : {"keygen-signing"}, name : NamesOf(Signing), id : GivenId, epoch : Epoch]
    \cup [op : {"init"}, list : {Inventory, Policy}]
    \cup [op : {"add"}, list : {Inventory}, key : Roots, status : RootStatus]
    \cup [op : {"add"}, list : {Policy}, key : SignerPublics, status : SignerStatus]
    \cup [op : {"set-status"}, list : {Inventory}, id : Random, epoch : Epoch, status : RootStatus]
    \cup [op : {"set-status"}, list : {Policy}, id : Random, epoch : Epoch, status : SignerStatus]
    \cup [op : {"seal"}, kem : NamesOf(Kem), root : Roots, id : GivenId,
          epoch : Epoch \cup {NoOption}, out : Archives]
    \cup [op : {"provenance-sign"}, archive : Archives, signer : Signers, out : Archives]
    \cup [op : {"open"}, archive : Archives, seed : KemSeeds, root : Roots]

Acts ==
    /\ demo # "runs" /\ used < MaxCommands
    /\ used' = used + 1
    /\ UNCHANGED <<step, demo>>

Operate == Acts /\ \E c \in Commands : Runs(c)

\* A medium is lost or destroyed with the secret on it.
Lose ==
    /\ Acts
    /\ \E n \in Secrets : files[n] # Absent /\ files' = [files EXCEPT ![n] = Absent]
    /\ UNCHANGED fresh

Next == DemoStep \/ DemoDone \/ CallFails \/ Operate \/ Lose

\* demo runs; no call has to fail.
Spec == Init /\ [][Next]_vars /\ WF_vars(DemoStep \/ DemoDone)

----------------------------------------------------------------------------
(* Properties.                                                             *)

Sealed == {n \in Archives : files[n] # Absent}

\* "Recovery requires BOTH the ML-KEM secret seed and the independent root
\* secret" (seal): whatever opens an archive is the seed of the pair it was
\* sealed with and that very root secret, never another one that was generated
\* with the same ID and epoch.
BothSecretsNeeded ==
    \A a \in Sealed, s \in KemSeeds, r \in Roots :
        Opens(files, a, s, r) =>
            s = Seed(files[a].kem) /\ files[r].secret = files[a].secret

\* The variables keep their types, and no archive opens with one secret of two.
RecoveryInv == TypeOK /\ BothSecretsNeeded

\* Nothing else is needed: while the two secrets exist the archive opens, signed
\* or not, whatever keys were generated since, whatever became of the records
\* and whatever signature is on it; and key-info shows the two halves to match.
KeptIsRecoverable ==
    \A a \in Sealed, r \in Roots :
        LET s == Seed(files[a].kem)
        IN  files[s] # Absent /\ files[r] # Absent /\ files[r].secret = files[a].secret =>
                /\ Opens(files, a, s, r)
                /\ Fingerprint(files[s]) = Fingerprint(files[Public(files[a].kem)])

\* "Locate the matching custody record" (README.md): if the root key an archive
\* was sealed with is in the inventory, that record is the one that is found,
\* also when another key has its ID, or both its ID and its epoch.
RegisteredIsLocated ==
    files[Inventory] # Absent =>
        \A a \in Sealed, record \in files[Inventory].records :
            record.of = files[a].secret => Located(files, a) = {record}

\* "Substitute public key with same ID/epoch | Provenance verification fails"
\* (docs/CONTROLLED_PILOT.md): an accepted signature was made with a key that
\* was added to the policy and is not revoked, not with one that has its ID and
\* its epoch.
AcceptedIsVetted ==
    \A a \in Sealed, p \in SignerPublics, historical \in BOOLEAN :
        Accepts(files, a, p, historical) =>
            \E record \in files[Policy].records :
                record.sha256 = files[a].signature.key /\ record.status # "revoked"

\* demo comes to its end unless a call fails: none of its commands is refused,
\* with what those before it have written (demo).
DemoFinishes == <>(demo \in {"done", "failed"})
============================================================================

# A TLA+ model of pqbackup

`pqbackup` (`src/src/main.rs`) encrypts a file into a `.pqbk` archive for an
ML-KEM key and an independent root secret, restores it, signs archives, and
keeps two small record files: the trust policy of signers and the inventory of
root keys. It has no server and no threads. What is hard in it happens between
*invocations*: several may run on one directory, each may be killed or fail at
any call, the power may fail, and the files it reads may change while it reads
them. These modules model that.

## 1. Inventory

| Part (lines of `main.rs`) | State | Operations | Interacts through | What is hard | What makes it correct |
|---|---|---|---|---|---|
| Publication: `TemporaryFile`, `stage_file_with`, `temporary_output_path` (118-185, 2261-2278, 2790-2864) | the directory, a temporary file, the output, a guard in memory | create, write, sync, `commit` (link, sync, unlink, sync), `drop` | the output path and the temporary names, shared by all invocations | names drawn without reservation, the output checked long before it is linked, every call can fail, power loss | complete, never replaced, durable once reported; truthful errors; only own files removed |
| Key pair: `create_key_directory`, `write_key_pair` (742-837, 2866-2929) | a directory, two files | mkdir, stage public, stage secret, commit secret, commit public | the two paths | two publications with no atomicity | a public key never without its secret; nothing published is removed |
| Registry: signer policy and root inventory (933-1179, 1201-1365) | one TOML file of records with a lifecycle | init, add, set-status; list, check and locate only read | the file, replaced by rename | read-modify-write without a lock; acknowledged but not durable; the limit bounds the text that is read and, separately, the text that is written | lifecycles only advance; a reader finds one valid version; a signer can be revoked |
| Sealing (1388-1605, 2691-2751, 3267-3284) | header, index, total, output | seal | the input file, Publication | input that changes under it, short reads, limits | well-formed archive of the declared length, unique nonces, ends |
| Restoring: `open`, `verify`, `provenance-verify` (1703-2248, 2301-2449, 2753-2788) | one pass over the archive: header, index, total, digest, temporary plaintext | open, verify, provenance-verify | the archive file, the policy, the output | plaintext is written before anything is known of the rest; medium, policy and output change | `open` and `verify` accept all of a sealed archive or nothing; the signature covers what was read, also where nothing is decrypted (`provenance-verify`); revocations count; good archives open |
| Signing (1607-1701) | two descriptors of the input, the temporary copy, the signing key | provenance-sign | the input archive, Publication | the input changes between and during scan and copy | signs the whole of one file that was at the input and has the form of an archive (it does not decrypt); does not refuse one that stays as it is |
| Material files (2931-3085) | a descriptor, what was read | `open_material`, `read_bounded`, the exact reads of keys | key, policy and inventory files | the path, the file and its mode change between open, inspection and read; a FIFO | reads a bounded, whole, inspected file, and returns |
| Codecs (header, frame, statement, keys, `Cursor`; 2451-2690, 2753-2788) | position in the bytes | encode, decode, the two lists of authenticated data | called by the above | field order in two places, lengths with and without the tag, bits that nothing reads | what is written is read; one encoding of what is read; every field is authenticated |
| Recovery: key generation, `inventory locate`, `key-info`, `demo` (600-931, 1061-1179) | all files of an operator | every command | the files the commands write for each other | IDs and epochs that are reused, rotation, losses | both secrets are needed and sufficient; records are found; only vetted signers |
| Command line, reports, scripts, fuzz targets, CI, vectors | none | | | | |

Calls: `seal`, `open`, `provenance-sign`, `keygen-root`, `*-init` publish with
`commit`; `keygen-kem` and `keygen-signing` publish twice; `add` and
`set-status` replace. Every key, policy and inventory file is read as in
`Material` and decoded as in `Codec`. `open --require-provenance` and
`provenance-verify` read the policy that `Registry` writes and the archives that `SealStream` makes.

## 2. Modules

| Module | Models | State and actions |
|---|---|---|
| `FileStore` | the directory as the program uses it | `cached` are the entries everybody sees, `disk` those a power loss leaves, `content` and `pages` what is in the files and whether it is durable. One operator per call; `Writeback` and `PowerLoss` are the operating system and the power supply |
| `Publication` | `TemporaryFile` on one output path | `pc[p]` is the next call of invocation `p`; `Pick`, `Create`, `Write`, `Sync`, `Link`, `DirSync1`, `Unlink`, `DirSync2` are the calls in source order, `...Fails` their failures with what the error path does, `Drop`, `DropSync` are `impl Drop`. `Checked` are the commands that look at the output first |
| `WriteOnce` | what an output path promises | publish, acknowledge, deny, lose |
| `...Proofs` | theorems about `Publication`, `KeyPair`, `Registry`, `SealStream`, `OpenArchive`, `SignArchive` and `Recovery`; `ReadingProofs` about `Material` and `Codec`, whose names are kept apart for it (section 4) | |
| `KeyPair` | `create_key_directory`, `write_key_pair` | `at[p]` and `kind[p]` say which call on which file comes next; `guards[p]` are the live `TemporaryFile` values, dropped in reverse order of creation; `CommitOrder` is the order of publication |
| `Registry` | init, add and set-status of either record file | `Read` opens the file once and computes the records to be written (`Changes`); `Create` to `DirSync` are `replace_signer_policy` / `replace_inventory` and `TemporaryFile::replace`, `LinkInto` and `Unlink` the publication of `init`. `lifecycle` is which of the two files it is, `edited` the length of the text of the first one, which an editor may have laid out otherwise than the program does, `overlapped` remembers that two commands ran at the same time |
| `SealStream` | the loop of `seal` | `Metadata` takes the length; `Fill` is one `read` of `read_chunk`, of any length; `Chunk`, `EndOfInput`, `TooLong`, `Probe`, `Finish` are the branches of the loop in order. `InputChanges` is another program |
| `OpenArchive` | `open`, `verify`, `provenance-verify` | `ReadHeader`, `ReadFrame`, `ReadTrailer` take whatever the medium returns; `InSequence` are the checks both readers make, `Authenticates` the AEAD; `CheckSignature`, `CheckPolicy`, `Recheck`, `Commit` follow in source order. `Envelopes` are what `provenance-sign` may have signed: the sealed archives, and framed ones nobody sealed (`Unsealed`). `Commit` may publish and still not answer with success. `sound` and `seen` are history, as `grown` and `shrunk` are in `SealStream` |
| `Restoration` | what a restore promises | `Publish` one whole archive and approve it, `Verify` one, `VerifyProvenance` of one signed envelope, turn down, and another program that takes the path |
| `SignArchive` | `provenance-sign` | `ReadOn` is one read of the scan or of the copy; `Scanned`, `CheckOutput`, `Copied`, `CheckCopy`, `ReadSecret`, `Sign`, `AppendTrailer`, `Confirm`, `Commit` are the statements of `sign_archive` in order. `Replace`, `Truncate`, `Overwrite`, `Extend` are another program; a descriptor keeps the file it opened. `was` and `torn` are history: the contents the files have had, and that one was cut or overwritten while it was copied |
| `Material` | `open_material`, `read_bounded` | `Open`, `Inspect`, `ReadSome`, `Stop` for the three kinds of requests; `Others` moves the path, writes the files and changes their modes |
| `Codec` | the header, a frame, the trailer, the root key, the two halves of a signing key | the order of the fields as the writer has them (`Written...`) and as the reader has them (`Decoded...`) are separate definitions. `WriteField` takes every value the program may write, `ReadField` what was written or any bytes, and stops at the first that does not fit |
| `Recovery` | the commands together, on one set of files | `After` is what a command makes of the files. `DemoStep` runs the commands of `demo`; `Operate` any command, `Lose` the loss of a secret |

Every module with actions but `Codec`, whose constants are numbers, has an `MC`
module that names its finite sets. A definition that its comment calls a variant
is a plausible mistake in the definition after it; no specification uses it, and
each property is shown to fail when one of them takes the place of the definition
it varies. `Publication` and the other modules do not import each other: each
takes from the others the promise that is stated there (an output is published
whole or not at all, an archive has a valid sequence of frames, a record file is
replaced as a whole), and `Recovery` composes the commands on top of all of them.

In every module but `Publication` the type invariant is checked together with the
property that is closest to the data, as one conjunction: `KeyPairInv`,
`RegistryInv`, `StreamInv`, `RestoreInv`, `SigningInv`, `MaterialInv`,
`CodecInv`, `RecoveryInv`.

### Abstractions

* File content is "none", "partial" or "full"; a failed or unsynchronized write
  may leave any prefix. A power loss may keep any entry of the directory that was
  changed since its last synchronization, one by one (`BackgroundWriteback`).
  That `fsync` of a directory makes all its entries durable is assumed, as the
  code assumes it.
* Temporary names collide in `Publication` and are distinct in `KeyPair` and
  `Registry`, which rely on what `Publication` shows of them.
* Several missing levels of a key directory are one.
* A registry record is a key, a status and the rest; its length is 10 and that of
  the word for its status. An ID is in lower case, as the program writes it, or in
  mixed case, as an editor may leave it. The text of the TOML files, and its
  parser, are left out but for its length: that of what a command writes follows
  from the records (`EncodedLen`), that of a file edited by hand does not
  (`TextLen`), so it may be shorter (less white space) or longer (comments).
* `SealStream` counts bytes and leaves their values out; `MAX_DATA_CHUNKS` and
  `u32::MAX` are scaled down to `MaxChunks` and `MaxIndex`, which keep their order.
* `OpenArchive` takes the cryptography as ideal and the archives as `SealStream`
  publishes them within the limit. Signatures may also exist over any framed
  envelope that nobody sealed, one with damaged ciphertext or frames of several
  archives. A header, frame or trailer that does not parse
  is one case of rejection. The name inside the header, when no output is
  requested, is the output path. Sizes of envelopes count headers and frame
  overheads as 1.
* In `SignArchive` a file is a sequence of pieces (header, frame, trailer, junk)
  whose ciphertext is intact or not, a scan accepts or rejects whole pieces, and the
  temporary file and its publication are those of `Publication`.
* In `Material` a file is the number of bytes still to be read. An interrupted
  read changes nothing and is a stutter.
* In `Codec` an integer or a constant is one cell, an array one or two, a tag one;
  the limits are scaled down and keep their relations. A file of another kind is
  an arbitrary sequence of bytes to a reader, which refuses its magic. The
  comparison of a frame's length with the chunk size, which is in another format,
  is `FitsChunk` of `OpenArchive`.
* In `Recovery` a command happens at once or not at all, and a secret is the
  random number it was made from. `kem` and `secret` in an archive and `of` in a
  record are history.
* Memory hygiene is left out everywhere.

## 3. What the runs show

| Run | Instance | Shows |
|---|---|---|
| `publication_faults` | 2 invocations, 2 names, 2 faults, 2 power losses | `DestComplete`, `OkIsDurable`, `ReportHonest`, `TempsAreOurs`, `OutputIsWriteOnce` (the calls implement `WriteOnce`, and `NoReplace`), `RaceHasWinner` |
| `keypair_faults` | 2 invocations, directory there or not, 2 faults, 1 loss | `KeyPairInv` (`PublicImpliesSecret`), `NoStrayKey`, `ReportsHold` (`OkIsDurable`, `ReportHonest`), `KeysAreKept` |
| `keypair_retry` | the same | violates `EveryOkIsDurable` (section 5) |
| `registry_commands` | either file, absent, empty, with a record, full or edited by hand; its text at the limit or one byte over it; 2 commands, overlapping or not, 3 keys, 1 fault, 1 loss | `RegistryInv` (`AlwaysReadable`), `AcknowledgedStays`, `RefusedIsUnchanged`, `RevocationPossible`, `NoAuthorityRegainedInTurn`, `CommandsInTurn` (`StatusesAdvance`, `AtomicInTurn`) |
| `registry_lost_update` | the same with 2 keys, no faults | violates `NoAuthorityRegained` (section 5) |
| `seal_change` | chunks of 1 to 3, inputs up to 7, 3 chunks, indexes up to 4 | `StreamInv` (`SealedIsWellFormed`), `NoncesAreUnique`, `GrowthIsNoticed`, `GrowingWithinLimit`, `Terminates` |
| `seal_limit` | the same | violates `SealedWithinLimit` (section 5) |
| `open_medium` | 3 archives (equal frames, unequal frames, empty), 2 signed envelopes nobody sealed (a damaged frame, frames of another archive), 2 signers, every sequence of items | `RestoreInv` (`AuthenticPrefix`, `WholeOrNothing`), `SignatureCovers`, `RevocationInTime`, `NoFalseAlarm`, and that the reader implements `Restoration` |
| `sign_changes` | 3 archives, 2 of them of one length, a damaged one and a mixture, signed or not, cut or followed by junk; 2 changes | `SigningInv` (`SignedIsWhole`), `SignsInput`, `NoFalseAlarm` |
| `material_changes` | 2 inodes of every kind and mode, maximum 2, up to 3 bytes to come | `MaterialInv` (`WholeFile`, `ReadFromVetted`), `Terminates` |
| `codec_formats` | 5 kinds of integers, arrays of bits, limits of 1 to 3 | `CodecInv` (`Canonical`), `WrittenIsRead`, `AadBinds` |
| `recovery_rotation` | demo, completed or cut short, then any 3 commands or losses; 2 key pairs, 2 root keys, 2 signing pairs, 3 archives | `RecoveryInv` (`BothSecretsNeeded`), `KeptIsRecoverable`, `RegisteredIsLocated`, `AcceptedIsVetted`, `DemoFinishes` |

Deadlock is not checked: invocations end.

**Bounds.** Two invocations make every pairwise race, and the second one, when it
follows the first, a retry. Two faults allow an error and a failed clean-up, or
an error of one invocation and a kill of the other; two power losses allow one
after the recovery from another. Two temporary names for two invocations let them
collide or not. `registry_commands` has two commands, which is all a lost update
or a race of two `init` needs; longer histories come in through the initial file,
which may hold a record of any status; its limit of 34 holds two records of the
longest signer status and refuses a root record that outgrows it. The text that is
there in the beginning is exactly as long as may be or one byte longer, whatever
its records; three of them are over the limit when they are written again, so a
readable policy whose changes are all refused is among the initial ones. One archive in
`open_medium` has frames of one length, which only the index tells apart, one has
exactly as many frames as the limit, one is empty. In `seal_*` the frame limit
and the index limit are reached; inputs of up to 7 bytes include those that need
one chunk too many. In `sign_changes` two archives have equal lengths, so that a
replacement between scan and copy goes unnoticed by the length, and every place of
a file may be overwritten by any piece that a scan accepts there. In
`material_changes` the file can hold one byte more than the maximum when it is
opened and any number more later. In `codec_formats` every integer can be out of
its range on both sides and every array has two values; the greatest integer, 4, is
one more than any field may have. Three commands after
`demo` are enough to generate a key with an ID and epoch in use, register it and
use it; four were also run, with 1.7 million states and the same result.

**Fairness.** A fault or a change by somebody else is a possible step, never a
required one, and never part of a fairness condition. `Publication` assumes weak
fairness of the steps of each invocation that was started, except those that
count as a fault (`Work`): a process that is not killed keeps running, and nobody
has to start one; `RaceHasWinner` excludes behaviours with a fault. `SealStream`
assumes it of `seal`, not of the program that changes the input; `Material` of
the reads, which `O_NONBLOCK` lets return; `Recovery` of `demo`, which runs its
commands one after the other. The other modules state safety only.

## 4. What is proved

Every invariant, action property and refinement that a passing run checks is also
proved for every value of the constants: any set of invocations, names, keys and
archives, any lengths and limits, any number of faults, power losses, changes and
commands.

| Module | Theorems |
|---|---|
| `PublicationProofs` | `TypeCorrect`, `OutputIsComplete`, `SuccessIsDurable`, `ReportsAreHonest`, `GuardsAreExclusive`, `OutputPromise` (`Publication` implements `WriteOnce`, and replaces nothing) |
| `KeyPairProofs` | `PublicNeverAlone`, `ReportsAreTrue`, `NoStrayTemporaries`, `PublishedKeysAreKept` |
| `RegistryProofs` | `AlwaysReadableByAnyone`, `RefusalsAreTrue` (whatever overlaps); `SuccessStays`, `OneCommandAtATime`, `AuthorityStaysLost` (while commands do not overlap); `AnyoneCanBeRevoked` |
| `SealStreamProofs` | `PublishedIsWellFormed`, `NoNonceTwice`, `GrowthIsAlwaysNoticed`, `GrowingKeepsLimit` |
| `OpenArchiveProofs` | `OneWholeArchiveIsReleased`, `SignedAsRead`, `RevokedIsRefused`, `UnchangedIsRestored`, `OneDecision` (`OpenArchive` implements `Restoration`) |
| `SignArchiveProofs` | `PublishedIsSignedWhole`, `OneFileIsSigned`, `UnchangedIsAccepted` |
| `ReadingProofs` | `AcceptedWholeAndInspected` (`Material`); `DecodingIsCanonical`, `WhatIsWrittenIsRead`, `HeaderIsBound` (`Codec`) |
| `RecoveryProofs` | `NothingOpensWithLess`, `KeptSecretsSuffice`, `RegisteredIsFound`, `AcceptedKeysAreVetted` |

**Assumptions.** Only what the modules say of their constants. Bounds are natural
numbers; inodes of the program are not the name for none (`InodeAssumption`,
`NamesAssumption`), damaged or appended bytes are not a piece of an archive
(`NamesAssumption` of `OpenArchive`, `JunkAssumption` of `SignArchive`); the sets
of keys of a registry and of archives are finite, as they are on a disk
(`KeyAssumption`, `ArchiveAssumption`). The length of an edited text is a number
(`TextAssumption`), and what nobody sealed has the form of an archive
(`UnsealedAssumption` of `OpenArchive` and of `SignArchive`), which is all that the
code has looked at when it signs. In `OpenArchive` the archives have the
lengths that `SealStream` publishes within the limit (`ArchiveAssumption`). In
`Codec` an integer can hold one more than any field may have (`LimitsAssumption`):
the limits of the code are below the greatest values of the types they bound. In
`Recovery` a path is the place of one kind of file (`PathAssumption`): a command
that is given another kind does not decode it and is refused. TLC evaluates all
of them on the instances it checks.

**The arguments.** No property is inductive by itself. Each module defines an
invariant that is, made of named parts, proves that the initial states have it
and that every action keeps it, and derives the properties from it.

* `Publication`, `IndInv`. `Unlinked` and `Unborn`: an invocation is nowhere at
  the output before its link, and under no name at all before it creates its
  file. `Named`: a file is only ever under the temporary name its invocation
  picked, on disk too, so what a power loss brings back cannot be taken for
  somebody else's. `Linkable`: what reaches the link was written and
  synchronized, in that order. `DestStable`: an output entry on disk is the one
  in memory, so a power loss can take an output back but not exchange it.
  `AfterLink`: what each step of `commit` has made true for the next. `OkIsOver`:
  a successful invocation does nothing more, so nothing it reported can be undone
  by it.
* `KeyPair`, `IndInv`. The same for two files of one invocation (`ProcInv`), and
  the order between them: `Committed` says that while the public key is being
  published the secret is at its final path on disk, `Backed` that this stays so
  once the public key is visible to anybody. `Reported` needs to know that an
  invocation made the directory durable itself, or found it so.
* `Registry`, `Inv`. `FileInv` holds whatever overlaps: what gets to the path was
  checked, written and synchronized before (`Checked`, `Publishable`), so every
  version a reader can find, also after a power loss, is a whole one. `TurnInv`
  adds, while no two commands have overlapped, that what is durable is continued
  by what is visible and that by the version about to be renamed (`InTurn`); it
  fails as soon as two overlap, which is the finding `registry_lost_update`.
  `Current` says more of the version about to be renamed: it is what the command
  makes of the one it replaces, so that the rename is the whole effect of the
  command. `AnyoneCanBeRevoked` is about lengths: what a command has written was
  within the limit when it was encoded (`Acceptable`), and the word for a revoked
  status is never the longer one. It says nothing of an edited file that is within
  the limit as it is and over it when it is encoded again (section 6).
* `SealStream`, `FramesInv`. The frames are numbered from 0, none is final before
  the length in the header is complete, and their lengths add up to the bytes
  consumed. `LimitInv` is about inputs that do not become shorter: every frame
  but the last is full, which bounds their number by `Admitted`, the check made
  before the loop. `GrowthInv` places the end of a grown input after what is read.
* `OpenArchive`, `RestoringInv`. The header names an archive and the index of a
  frame its place in it, so what was decrypted is the beginning of that archive
  (`Decrypted`), and a final frame is its end (`Complete`). `Signed` keeps what
  the signature covers unchanged until the output is released; `Timely` keeps the
  accepted status among those that the policy showed since the reading ended.
  `SoundInv` follows a medium that changes nothing, and shows that no check the
  readers make then fails: indices, lengths and their sum, limits, trailer.
  `OneDecision` maps what is at the path and what was answered; all steps before
  the end are stutters. `ReleasedIsWhole` names the archive of the last one for
  `open` and `verify`; for `provenance-verify` it is the signed envelope that
  `SignatureCovers` speaks of, which need not be one.
* `SignArchive`, `SignInv`. `InputInv`: `was` remembers what every file is
  (`Remembered`); what has been read consists of pieces that were at their places in
  one of them (`Reading`), and is the beginning of the file that is copied unless
  that was cut or overwritten meanwhile (`Faithful`), for whoever writes on leaves the
  beginning alone. `CopyInv`: what the second scan accepted is what the signature and
  the trailer cover.
* `Material`, `ReadingInv`. The descriptor that is read is the one that was
  inspected.
* `Codec`, `DecodingInv`. The bytes read so far are the encoding of the fields
  decoded so far (`Encoded`), and if they come from a writer the fields are those
  it wrote (`Same`), so that what is left to read begins with its next field. The
  lengths of the variable fields are read before the fields. `HeaderIsBound` takes
  two headers that differ in one field: their authenticated data agree before it
  and after it, and cancel from both ends.
* `Recovery`, `FilesInv`. `KemInv` follows the shared secret from a key pair to
  the key that wraps an archive: no two names have one pair, a seed has its own
  public half. `RootInv`: wherever a root secret is mentioned, in a key file, an
  archive or the inventory, it comes with the same ID and epoch (`OneIdentity`),
  and an ID and an epoch have one record; `OneSigner` is the latter for the policy.
  `AcceptedKeysAreVetted` proves more than the run checks: the record that vets a
  signature is the only one for its key, so that to revoke it is enough.

The sums of lengths in `Registry`, `SealStream` and `OpenArchive`, and the
concatenation of fields in `Codec`, are folds. That they grow by what is appended
is shown with a function from sets or prefixes to results that the invariant
carries along, or that exists because there would otherwise be a least
counterexample; no induction over data is used.

**Only model-checked.** Liveness (`RaceHasWinner`, `Terminates` of `SealStream`
and of `Material`, `DemoFinishes`), which the proof system does not cover. The
three properties of section 5 are violated, and so there is nothing to prove of
them.

## 5. Where the code and the documents disagree

1. *Lost update* (`registry_lost_update`). Nothing locks the policy or the
   inventory. A command that read the file before a revocation was renamed into
   place renames its own version over it, and the signer is trusted again, though
   `docs/PROVENANCE_POLICY.md:104-106` calls changes through the CLI monotonic.
   One command at a time is safe (`NoAuthorityRegainedInTurn`, `CommandsInTurn`).
2. *Frame limit* (`seal_limit`). `seal` bounds the number of frames by the length
   it read once. An input truncated and written again meanwhile makes short
   buffers, hence more frames than `docs/PQBACK02_FORMAT.md:135` permits, and the
   archive is refused by every reader. An input that only grows is safe
   (`GrowingWithinLimit`).
3. *Key directory* (`keypair_retry`). The entry of a key directory that exists is
   not synchronized, although an earlier invocation may have been killed before it
   did, against `docs/SECRET_HANDLING.md:89-90`. An invocation that makes the directory,
   or finds one whose entry is durable, reports a durable success
   (`ReportsHold`).

## 6. Not modelled

* `list`, `check`, `inspect`, the printing of `key-info`, and the parsing of
  arguments: they decide nothing once a modelled reader has accepted its file.
  What `key-info` prints of two halves of a pair is compared in
  `KeptIsRecoverable`.
* The text of the policy and the inventory: parsing is the `toml` crate's.
* The cryptographic crates are taken as ideal.
* Scripts, CI and test vectors hold no logic of the program; the fuzz targets call
  the readers of `Codec`, `OpenArchive` and `Registry`.
* Memory zeroization, which leaves no trace in the state, and permissions of
  outputs.
* A FIFO given as an *archive*: unlike key files it is opened without
  `O_NONBLOCK`, and the program waits before it can see that it is not a regular
  file.

Limits of the results, which the models show or the code implies:

* `provenance-sign` does not decrypt. A file with damaged ciphertext, or with the
  frames of one archive after the header of another, is signed if it has the form of
  an archive, and `provenance-verify` approves it; `open` and `verify` refuse it. This
  is documented (`docs/PROVENANCE_POLICY.md:41-43`).
* `provenance-sign` compares the lengths of the input it scanned and of its copy. A
  file of equal length renamed to the path between the two is signed: all of it
  (`SignsInput`), but it is not the one that was scanned. If the input is overwritten
  in place during the copy, the copy may be a mixture that was never in the file as
  a whole; every piece of it was (`Gathered`).
* `decode_signer_policy` bounds the text it reads, `replace_signer_policy` the text it
  writes, in the layout of the program. A policy that was edited by hand to a more
  compact layout, and is near the limit, is accepted by verification, while every
  change to it, even a revocation, can be refused. `RevocationPossible` excepts such
  a file. The inventory is bounded in the same way.
* `decode_header` accepts an encrypted name that is only a tag, of length 16; the
  documented range starts at 17 (`docs/PQBACK02_FORMAT.md`). No writer makes one,
  and the name is refused when it is decrypted.

## 7. What is left

* Three invocations in `Publication` and `KeyPair` on small instances; the proofs
  are for any number.
* Two record files and an archive that is read while they change, in one model:
  `OpenArchive` sees the status of one signer, `Recovery` commands that do not
  overlap.
* A directory of keys as the abstraction of `KeyPair`, two write-once paths of which
  the public one appears last, in the manner of `WriteOnce` and `Restoration`.

---------------------------- MODULE OpenArchive ----------------------------
(***************************************************************************)
(* open, verify and provenance-verify: one pass over an archive, read as a *)
(* stream, that checks it, decrypts it into a temporary file (open),       *)
(* hashes it for the signature and, at the end, looks the signer up in the *)
(* trust policy.  The medium decides what every read returns: the archive  *)
(* may be damaged, cut, put together from several, or changed while it is  *)
(* read.  The policy and the output path may change as well.               *)
(*                                                                         *)
(* The cryptography is ideal: a ciphertext authenticates only as the frame *)
(* it was sealed as, and a signature verifies only for the envelope, the   *)
(* statement and the key it was made for.  provenance-sign does not        *)
(* decrypt: it signs what is framed as an archive, sealed or not.          *)
(***************************************************************************)
EXTENDS Naturals, Sequences, SequencesExt

CONSTANTS
    Archive,    \* the archives ever sealed for these keys
    Lens,       \* Lens[a]: the lengths of the frames of a
    ChunkSize,  \* the chunk size in every header
    MaxChunks,  \* MAX_DATA_CHUNKS, scaled down
    Signer,     \* the signing keys: an ID and epoch, and the key itself
    Unsealed,   \* framed envelopes nobody sealed: damaged ones, and mixtures
    Damaged     \* a ciphertext or signature nobody made

\* What SealStream publishes within the limit.
ASSUME ArchiveAssumption ==
    /\ ChunkSize \in Nat \ {0} /\ MaxChunks \in Nat \ {0}
    /\ \A a \in Archive :
          /\ Lens[a] \in Seq(0..ChunkSize)
          /\ Len(Lens[a]) \in 1..MaxChunks
          /\ Lens[a] = <<0>> \/ \A i \in DOMAIN Lens[a] : Lens[a][i] > 0

----------------------------------------------------------------------------
(* The archives as they were sealed and signed.                            *)

SumOf(lens) == FoldSeq(LAMBDA n, sum : n + sum, 0, lens)

\* The plaintext of frame i of archive a is <<a, i>>.
Plaintext(a) == [i \in DOMAIN Lens[a] |-> <<a, i>>]

Header(a) == [archive |-> a, original_len |-> SumOf(Lens[a])]

Frames(a) == [i \in DOMAIN Lens[a] |->
    [body |-> <<a, i>>, index |-> i - 1, plain_len |-> Lens[a][i], is_final |-> i = Len(Lens[a])]]

Envelope(a) == [header |-> Header(a), frames |-> Frames(a)]

\* What the medium may return: a header some archive could have, a frame and a
\* trailer that parse.  Anything else is rejected like the end of the file.
MaxLen == ChunkSize * MaxChunks
Headers == [archive : Archive, original_len : {SumOf(Lens[a]) : a \in Archive}]
Frame == [body : (UNION {{<<a, i>> : i \in DOMAIN Lens[a]} : a \in Archive}) \cup {Damaged},
          index : 0..MaxChunks, plain_len : 0..ChunkSize + 1, is_final : BOOLEAN]

\* What scan_archive_layout lets sign_archive sign, which has no keys.
Framed(e) ==
    /\ e \in [header : Headers, frames : Seq(Frame)] /\ Len(e.frames) \in 1..MaxChunks
    /\ e.header.original_len = SumOf([i \in DOMAIN e.frames |-> e.frames[i].plain_len])
    /\ \A i \in DOMAIN e.frames :
          /\ e.frames[i].index = i - 1
          /\ e.frames[i].plain_len <= ChunkSize
          /\ e.frames[i].is_final <=> i = Len(e.frames)
          /\ e.frames[i].plain_len = 0 => e.frames[i].is_final /\ e.header.original_len = 0

ASSUME UnsealedAssumption == \A e \in Unsealed : Framed(e)

\* The envelopes the signing keys may have signed.
Envelopes == {Envelope(a) : a \in Archive} \cup Unsealed

ASSUME NamesAssumption == Damaged \notin (Archive \X Nat) \cup (Signer \X Envelopes)

\* The length of an envelope; a header and the overhead of a frame count as 1.
EnvelopeLen(e) == 1 + e.header.original_len + Len(e.frames)

Trailer == [signer : Signer, signed_len : {EnvelopeLen(e) : e \in Envelopes},
            signature : (Signer \X Envelopes) \cup {Damaged}]
Nothing == [absent |-> TRUE]

----------------------------------------------------------------------------
VARIABLES
    options,  \* the command line and whether the given keys fit the archives
    pc,
    header,   \* the header that was read
    frames,   \* the frames that were read and accepted, and hashed
    total,    \* their plaintext length
    staged,   \* the plaintext written to the temporary file, or the sink
    trailer,  \* the provenance trailer
    outcome,
    dest,     \* the output path
    status,   \* the policy record of the given public key
    sound,    \* history: the medium has returned one sealed archive, in order
    seen      \* history: the values of status since the last read of the archive

readerVars == <<pc, header, frames, total, staged, trailer, outcome>>
vars == <<options, pc, header, frames, total, staged, trailer, outcome, dest, status, sound, seen>>

SignerStatus == {"trusted", "retired", "revoked"}
Recorded == SignerStatus \cup {"absent", "other key"}

Options ==
    {o \in [mode : {"open", "verify", "provenance-verify"}, requested : BOOLEAN, keys_fit : BOOLEAN,
            require_provenance : BOOLEAN, allow_retired : BOOLEAN, public : Signer] :
        /\ o.requested => o.mode = "open"
        /\ o.allow_retired => o.require_provenance
        /\ o.mode = "provenance-verify" => o.require_provenance /\ o.keys_fit}

Outcomes == {"none", "ok", "exists", "failed", "unconfirmed", "damaged", "untrusted"}

Decrypts == options.mode # "provenance-verify"

TypeOK ==
    /\ options \in Options
    /\ pc \in {"start", "header", "frames", "trailer", "signature", "policy", "recheck", "commit", "end"}
    /\ header \in Headers \cup {Nothing}
    /\ frames \in Seq({f \in Frame : f.plain_len <= ChunkSize})
    /\ Len(frames) <= MaxChunks
    /\ total \in 0..MaxLen
    /\ staged \in Seq(UNION {Range(Plaintext(a)) : a \in Archive})
    /\ trailer \in Trailer \cup {Nothing}
    /\ outcome \in Outcomes
    /\ dest \in {"absent", "other", "ours"}
    /\ status \in Recorded
    /\ sound \in BOOLEAN
    /\ seen \subseteq Recorded

Init ==
    /\ options \in Options
    /\ pc = "start"
    /\ header = Nothing
    /\ frames = <<>>
    /\ total = 0
    /\ staged = <<>>
    /\ trailer = Nothing
    /\ outcome = "none"
    /\ dest \in IF options.mode = "open" THEN {"absent", "other"} ELSE {"absent"}
    /\ status \in IF options.require_provenance THEN Recorded ELSE {"absent"}
    /\ sound = TRUE
    /\ seen = {}

----------------------------------------------------------------------------
Goto(from, to) == pc = from /\ pc' = to

Fail(from, error) == Goto(from, "end") /\ outcome' = error

\* open looks at a requested output before it does anything else.
Begin ==
    /\ IF options.requested /\ dest # "absent"
       THEN Fail("start", "exists")
       ELSE Goto("start", "header") /\ UNCHANGED outcome
    /\ UNCHANGED <<options, header, frames, total, staged, trailer, dest, status, sound, seen>>

\* decrypt_archive_reader derives the KEK from the keys and the header, and
\* authenticates the file name and the data key with all other fields of the
\* header; scan_archive_reader has no keys.
HeaderAccepted(h) == Decrypts => options.keys_fit /\ h = Header(h.archive)

ReadHeader ==
    /\ pc = "header"
    /\ \E h \in Headers :
          /\ header' = h
          /\ sound' = (h = Header(h.archive))
          /\ IF HeaderAccepted(h)
             THEN Goto("header", "frames") /\ UNCHANGED outcome
             ELSE Fail("header", "damaged")
    /\ UNCHANGED <<options, frames, total, staged, trailer, dest, status, seen>>

\* read_encrypted_frame
FitsChunk(f) == f.plain_len <= ChunkSize

\* A variant does not look at the index.
AnyIndex(f) == TRUE
NextIndex(f) == f.index = Len(frames)

\* One more frame may follow; the limit of a variant is one too low.
RoomForTwo == Len(frames) + 1 < MaxChunks
RoomForFrame == Len(frames) < MaxChunks

\* The checks both readers make in one turn of the loop, and of the total after
\* the last one.
InSequence(f) ==
    /\ RoomForFrame
    /\ FitsChunk(f)
    /\ NextIndex(f)
    /\ f.plain_len = 0 => f.is_final /\ header.original_len = 0
    /\ total + f.plain_len <= header.original_len
    /\ f.is_final => total + f.plain_len = header.original_len

\* A ciphertext authenticates under the data key, and the hash of the header,
\* with the index, the length and the final flag it was sealed with.
Authenticates(f) == \E a \in Archive : header = Header(a) /\ f \in Range(Frames(a))

FrameAccepted(f) == InSequence(f) /\ (Decrypts => Authenticates(f))

\* The medium has returned the next frame of the archive it began with.
NextInOrder(f) ==
    LET sealed == Frames(header.archive)
    IN  Len(frames) < Len(sealed) /\ f = sealed[Len(frames) + 1]

ReadFrame ==
    /\ pc = "frames"
    /\ \E f \in Frame :
          /\ FrameAccepted(f)
          /\ sound' = (sound /\ NextInOrder(f))
          /\ frames' = Append(frames, f)
          /\ total' = total + f.plain_len
          /\ staged' = IF Decrypts THEN Append(staged, f.body) ELSE staged
          /\ Goto("frames", IF f.is_final THEN "trailer" ELSE "frames")
    /\ UNCHANGED <<options, header, trailer, outcome, dest, status, seen>>

\* A frame that is not accepted, or the end of the file, or something that is
\* not a frame.
RejectFrame ==
    /\ Fail("frames", "damaged")
    /\ \/ \E f \in Frame : ~ FrameAccepted(f) /\ sound' = (sound /\ NextInOrder(f))
       \/ sound' = FALSE
    /\ UNCHANGED <<options, header, frames, total, staged, trailer, dest, status, seen>>

\* What follows when the archive, and the signer if required, were accepted.
Proceed(from) ==
    IF options.mode = "open"
    THEN Goto(from, "recheck") /\ UNCHANGED outcome
    ELSE Goto(from, "end") /\ outcome' = "ok"

TrailerInOrder(t) ==
    t # Nothing => \E k \in Signer :
        t = [signer |-> k, signed_len |-> EnvelopeLen(Envelope(header.archive)),
             signature |-> <<k, Envelope(header.archive)>>]

\* read_optional_provenance: nothing, or a trailer for an envelope of this
\* length with nothing after it.
ReadTrailer ==
    /\ pc = "trailer"
    /\ \E t \in Trailer \cup {Nothing} :
          /\ t # Nothing => t.signed_len = 1 + total + Len(frames)
          /\ trailer' = t
          /\ sound' = (sound /\ TrailerInOrder(t))
          /\ IF ~ options.require_provenance THEN Proceed("trailer")
             ELSE IF t = Nothing THEN Fail("trailer", "untrusted")
             ELSE Goto("trailer", "signature") /\ UNCHANGED outcome
    /\ seen' = {status}
    /\ UNCHANGED <<options, header, frames, total, staged, dest, status>>

RejectTrailer ==
    /\ Fail("trailer", "damaged")
    /\ \/ \E t \in Trailer :
             t.signed_len # 1 + total + Len(frames) /\ sound' = (sound /\ TrailerInOrder(t))
       \/ sound' = FALSE
    /\ UNCHANGED <<options, header, frames, total, staged, trailer, dest, status, seen>>

\* The envelope that was read and hashed; a variant leaves out the frames.
HeaderIs(e) == header = e.header
EnvelopeIs(e) == header = e.header /\ frames = e.frames

\* The digest is over the envelope and the statement that were read.  Whether the
\* frames authenticate makes no difference to it.
Verifies ==
    /\ trailer.signer = options.public
    /\ \E e \in Envelopes :
          /\ trailer.signature = <<options.public, e>>
          /\ trailer.signed_len = EnvelopeLen(e)
          /\ EnvelopeIs(e)

CheckSignature ==
    /\ pc = "signature"
    /\ IF Verifies
       THEN Goto("signature", "policy") /\ UNCHANGED outcome
       ELSE Fail("signature", "untrusted")
    /\ UNCHANGED <<options, header, frames, total, staged, trailer, dest, status, sound, seen>>

\* --allow-retired accepts a signer that was once trusted; in a variant whatever
\* became of it.
EverTrusted == {"retired", "revoked"}
Historical == {"retired"}

Acceptable(s) == s = "trusted" \/ (s \in Historical /\ options.allow_retired)

\* The policy is read after the archive.
CheckPolicy ==
    /\ IF Acceptable(status) THEN Proceed("policy") ELSE Fail("policy", "untrusted")
    /\ UNCHANGED <<options, header, frames, total, staged, trailer, dest, status, sound, seen>>

\* open looks at the output path again, now that it knows the name.
Recheck ==
    /\ IF dest # "absent"
       THEN Fail("recheck", "exists")
       ELSE Goto("recheck", "commit") /\ UNCHANGED outcome
    /\ UNCHANGED <<options, header, frames, total, staged, trailer, dest, status, sound, seen>>

\* Variant: the output is renamed to its path, whatever is there.
CommitByRename ==
    /\ Goto("commit", "end")
    /\ dest' = "ours" /\ outcome' \in {"ok", "unconfirmed"}
    /\ UNCHANGED <<options, header, frames, total, staged, trailer, status, sound, seen>>

\* flush, sync_all and TemporaryFile::commit (Publication), which may fail, or be
\* killed, after the link.
Commit ==
    /\ Goto("commit", "end")
    /\ IF dest = "absent"
       THEN dest' = "ours" /\ outcome' \in {"ok", "unconfirmed"}
       ELSE outcome' = "exists" /\ UNCHANGED dest
    /\ UNCHANGED <<options, header, frames, total, staged, trailer, status, sound, seen>>

\* A file cannot be created, read or written, or the process is killed.
IOFails ==
    /\ pc \in {"start", "header", "frames", "trailer", "policy", "commit"}
    /\ Fail(pc, "failed")
    /\ UNCHANGED <<options, header, frames, total, staged, trailer, dest, status, sound, seen>>

Restore ==
    \/ Begin \/ ReadHeader \/ ReadFrame \/ RejectFrame \/ ReadTrailer \/ RejectTrailer
    \/ CheckSignature \/ CheckPolicy \/ Recheck \/ Commit \/ IOFails

----------------------------------------------------------------------------
\* Another program creates the output path.
OtherCreates ==
    /\ options.mode = "open" /\ pc # "end" /\ dest = "absent"
    /\ dest' = "other"
    /\ UNCHANGED <<options, readerVars, status, sound, seen>>

\* signer-policy add and set-status (Registry).
PolicyChanges ==
    /\ options.require_provenance /\ pc # "end"
    /\ \/ status = "absent" /\ status' \in Recorded \ {"absent"}
       \/ status = "trusted" /\ status' \in {"retired", "revoked"}
       \/ status = "retired" /\ status' = "revoked"
    /\ seen' = IF pc \in {"signature", "policy"} THEN seen \cup {status'} ELSE seen
    /\ UNCHANGED <<options, readerVars, dest, sound>>

Next == Restore \/ OtherCreates \/ PolicyChanges

Spec == Init /\ [][Next]_vars

----------------------------------------------------------------------------
(* Properties.                                                             *)

Released == outcome = "ok" \/ dest = "ours"

\* At every instant the temporary file holds a prefix of the plaintext of one
\* archive, in order: what an interrupted restore leaves behind was
\* authenticated (docs/SECRET_HANDLING.md, "Abandoned plaintext temporary files").
AuthenticPrefix ==
    staged # <<>> =>
        /\ options.keys_fit
        /\ \E a \in Archive : IsPrefix(staged, Plaintext(a))

\* Implementations "MUST NOT expose a completed output file before all frames
\* authenticate and the total length is checked" (docs/PQBACK02_FORMAT.md): what
\* open publishes and verify reports is all of one archive, whatever the medium
\* returned.
WholeOrNothing ==
    Released /\ Decrypts =>
        \E a \in Archive : staged = Plaintext(a) /\ total = SumOf(Lens[a])

\* The variables keep their types, only authentic data is staged, and only a
\* whole archive is released (decrypt_archive_reader).
RestoreInv == TypeOK /\ AuthenticPrefix /\ WholeOrNothing

\* With --require-provenance, and in provenance-verify, the accepted signature
\* is one the given key made for exactly the envelope that was read, in the same
\* pass, sealed or not: a trailer moved from another envelope is of no use.
SignatureCovers ==
    Released /\ options.require_provenance =>
        trailer.signature = <<options.public, [header |-> header, frames |-> frames]>>

\* The signer was acceptable at some time after the last read of the archive: a
\* revocation that was in force when the reading ended is never missed, however
\* long the restore took.
RevocationInTime ==
    Released /\ options.require_provenance =>
        \/ "trusted" \in seen
        \/ "retired" \in seen /\ options.allow_retired

\* An archive within the limits that the medium returns unchanged is never
\* called damaged when the keys fit, and never untrusted when the policy accepts
\* its signer: a backup can be restored.
NoFalseAlarm ==
    /\ outcome = "damaged" => ~ (sound /\ options.keys_fit)
    /\ outcome = "untrusted" =>
         \/ ~ sound
         \/ trailer = Nothing \/ trailer.signer # options.public
         \/ seen \ {"trusted"} # {} /\ ~ (options.allow_retired /\ seen \subseteq {"trusted", "retired"})

\* What the owner of the archives sees of a restore.
Answer ==
    CASE outcome = "none" -> "none"
      [] outcome = "ok" -> "approved"
      [] outcome \in {"exists", "damaged", "untrusted"} -> "refused"
      [] outcome \in {"failed", "unconfirmed"} -> "failed"

Promise == INSTANCE Restoration WITH
    Sealed <- [a \in Archive |-> Envelope(a)],
    Content <- [a \in Archive |-> Plaintext(a)],
    Signed <- Envelopes,
    request <- options.mode,
    output <- dest,
    restored <- IF dest = "ours" THEN {staged} ELSE {},
    answer <- Answer,
    approved <- IF outcome = "ok" THEN {[header |-> header, frames |-> frames]} ELSE {}

\* One pass over whatever the medium returns is as good as one decision.  open and
\* verify decide about a sealed archive: the path and the answer never disagree, and
\* what was put together from several archives, cut or changed while it was read is
\* refused.  provenance-verify does not decrypt: it decides about an envelope that
\* somebody signed as it was read, also if its ciphertext was damaged before
\* (docs/PROVENANCE_POLICY.md, "A valid signature over damaged encrypted contents").
ImplementsRestoration == Promise!Spec
============================================================================

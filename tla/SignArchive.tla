---------------------------- MODULE SignArchive ----------------------------
(***************************************************************************)
(* provenance-sign: the input is scanned, copied to a temporary file next  *)
(* to the output, and the copy is scanned, signed, completed with the      *)
(* trailer, scanned once more and published.  The input is opened twice    *)
(* and read piece by piece, and another program may replace, cut, extend   *)
(* or overwrite it at any time; the temporary file is private              *)
(* (Publication).  Nothing is decrypted: what has the form of an archive   *)
(* is signed, whether it was sealed, damaged since, or put together from   *)
(* several.                                                                *)
(***************************************************************************)
EXTENDS Naturals, Sequences, SequencesExt

CONSTANTS
    Archive,    \* the archives ever sealed
    Frames,     \* Frames[a]: the number of frames of a, each of length 1
    Key,        \* the signing keys, each with its ID and epoch
    Unsealed,   \* files with the form of an archive that nobody sealed
    Junk,       \* bytes that are neither a header, a frame nor a trailer
    MaxChanges  \* bound: changes of the input

ASSUME ArchiveAssumption ==
    IsFiniteSet(Archive) /\ Archive # {} /\ Frames \in [Archive -> Nat \ {0}]
ASSUME BoundAssumption == MaxChanges \in Nat

----------------------------------------------------------------------------
(* The content of a file: a header, frames, a trailer, in pieces a scan    *)
(* accepts or rejects as a whole.                                          *)

\* Piece 0 of an archive is its header, with the length the frames must have.  The
\* ciphertext in a piece may have been damaged, which no scan looks for.
Pieces == UNION {[of : {a}, at : 0..Frames[a], intact : BOOLEAN] : a \in Archive}
Sealed(a) == [i \in 1..Frames[a] + 1 |-> [of |-> a, at |-> i - 1, intact |-> TRUE]]

\* encode_provenance_statement with the signature: who signed, and what.
Trailer(key, envelope) == [signer |-> key, signed_len |-> Len(envelope), covers |-> envelope]

\* scan_archive_reader up to the final frame: the indices ascend from the first,
\* the final flag is on the last frame the declared length has room for.
Framed(s) ==
    /\ s # <<>>
    /\ \A i \in DOMAIN s :
          /\ s[i] \in Pieces
          /\ s[i].at = i - 1
          /\ (i > 1 /\ s[i].at = Frames[s[i].of]) <=> i = Len(s)
    /\ Len(s) = Frames[s[1].of] + 1

ASSUME UnsealedAssumption == \A e \in Unsealed : e \in Seq(Pieces) /\ Framed(e)

Whole == {Sealed(a) : a \in Archive}
Envelopes == Whole \cup Unsealed
Trailers == {Trailer(k, e) : k \in Key, e \in Envelopes}
ASSUME JunkAssumption == Junk \notin Pieces \cup Trailers

\* What a file consists of.
Item == Pieces \cup {Junk} \cup Trailers

\* read_optional_provenance: nothing more, or one trailer for that length.
SignedBy(s) ==
    {k \in Key : /\ s # <<>> /\ Last(s) \notin Pieces \cup {Junk}
                 /\ Framed(Front(s))
                 /\ Last(s).signer = k /\ Last(s).signed_len = Len(s) - 1}

\* scan_archive_layout accepts the file.
Scans(s) == Framed(s) \/ SignedBy(s) # {}

----------------------------------------------------------------------------
VARIABLES
    file,      \* the files that are, or were, at the input path
    path,      \* the one that is there now
    pc,
    fd,        \* the one the open descriptor leads to
    read,      \* what has been read from it
    scanned,   \* source_layout.envelope_len
    temp,      \* the temporary file
    key,       \* the signing key that was read
    signature, \* what it has signed
    out,       \* the output path
    outcome,
    changes,
    was,       \* history: the contents those files have had
    torn       \* history: a file was cut or overwritten while it was being copied

inputVars == <<file, path, changes, was, torn>>
vars == <<file, path, pc, fd, read, scanned, temp, key, signature, out, outcome, changes, was, torn>>

Nothing == [absent |-> TRUE]
Longest == 2 + (CHOOSE n \in {Frames[a] : a \in Archive} : \A a \in Archive : n >= Frames[a])

TypeOK ==
    /\ path \in 0..MaxChanges /\ fd \in 0..MaxChanges
    /\ file \in [0..MaxChanges -> Seq(Item)] /\ was \subseteq Seq(Item)
    /\ pc \in {"scan", "output", "copy", "check", "key", "sign", "append", "confirm", "commit", "end"}
    /\ scanned \in 0..Longest
    /\ temp \in Seq(Item \cup {signature})
    /\ Len(temp) <= Longest
    /\ key \in Key \cup {Nothing}
    /\ out \in {"absent", "other", "ours"}
    /\ outcome \in {"none", "ok", "unconfirmed", "invalid", "signed", "exists", "changed", "failed"}
    /\ changes \in 0..MaxChanges
    /\ torn \in BOOLEAN

\* What may be at the path: an archive or what has the form of one, signed or
\* followed by something else or not, or the beginning of one.
Contents ==
    (UNION {{SubSeq(s, 1, n) : n \in 0..Len(s)} : s \in Envelopes})
        \cup {Append(s, Junk) : s \in Envelopes}
        \cup {Append(t.covers, t) : t \in Trailers}

Init ==
    /\ file \in {[i \in 0..MaxChanges |-> IF i = 0 THEN s ELSE <<>>] : s \in Contents}
    /\ path = 0
    /\ was = {file[0]}
    /\ pc = "scan"
    /\ fd = 0
    /\ read = <<>>
    /\ scanned = 0
    /\ temp = <<>>
    /\ key = Nothing
    /\ signature = Nothing
    /\ out \in {"absent", "other"}
    /\ outcome = "none"
    /\ changes = 0
    /\ torn = FALSE

----------------------------------------------------------------------------
(* sign_archive                                                            *)

Goto(from, to) == pc = from /\ pc' = to /\ UNCHANGED outcome
Finish(from, error) == pc = from /\ pc' = "end" /\ outcome' = error

\* The file that is read: the one that was opened; a variant opens the path
\* again for every read.
FileAtPath == file[path]
OpenFile == file[fd]

\* One read of a pass over the input, by the scan or by the copy.
ReadOn ==
    /\ pc \in {"scan", "copy"}
    /\ Len(read) < Len(OpenFile)
    /\ read' = Append(read, OpenFile[Len(read) + 1])
    /\ UNCHANGED <<pc, fd, scanned, temp, key, signature, out, outcome, inputVars>>

\* The end of the pass: there is nothing more to read now.
AtEnd == Len(read) >= Len(OpenFile)

\* scan_archive_layout(input); an archive that is signed is not signed again.
Scanned ==
    /\ AtEnd
    /\ \/ Framed(read) /\ Goto("scan", "output")
       \/ SignedBy(read) # {} /\ Finish("scan", "signed")
       \/ ~ Scans(read) /\ Finish("scan", "invalid")
    /\ scanned' = Len(read)
    /\ UNCHANGED <<fd, read, temp, key, signature, out, inputVars>>

\* The output must not exist; then the temporary file is created and the input
\* is opened again.
CheckOutput ==
    /\ \/ out = "absent" /\ Goto("output", "copy")
       \/ out # "absent" /\ Finish("output", "exists")
    /\ fd' = path
    /\ read' = <<>>
    /\ UNCHANGED <<scanned, temp, key, signature, out, inputVars>>

\* std::io::copy, and the synchronization of the copy.
Copied ==
    /\ AtEnd
    /\ Goto("copy", "check")
    /\ temp' = read
    /\ UNCHANGED <<fd, read, scanned, key, signature, out, inputVars>>

\* The copy is acceptable: a variant compares the number of bytes before the
\* last write.
UnlessLastWrite == Framed(temp) /\ Len(temp) - 1 = scanned
AsScanned == Framed(temp) /\ Len(temp) = scanned

CheckCopy ==
    /\ \/ AsScanned /\ Goto("check", "key")
       \/ ~ AsScanned /\ Scans(temp) /\ Finish("check", "changed")
       \/ ~ Scans(temp) /\ Finish("check", "invalid")
    /\ UNCHANGED <<fd, read, scanned, temp, key, signature, out, inputVars>>

ReadSecret ==
    /\ Goto("key", "sign")
    /\ \E k \in Key : key' = k
    /\ UNCHANGED <<fd, read, scanned, temp, signature, out, inputVars>>

\* feed_provenance_message: the copy up to signed_len, which is all of it; a
\* variant takes the input itself.
OfInput == file[path]
Message == temp

\* The signature, and its verification with the public half of the key.
Sign ==
    /\ Goto("sign", "append")
    /\ signature' = [Trailer(key, temp) EXCEPT !.covers = Message]
    /\ UNCHANGED <<fd, read, scanned, temp, key, out, inputVars>>

AppendTrailer ==
    /\ Goto("append", "confirm")
    /\ temp' = Append(temp, signature)
    /\ UNCHANGED <<fd, read, scanned, key, signature, out, inputVars>>

\* The signed copy is scanned, its signer compared, and hashed.
Confirm ==
    /\ \/ key \in SignedBy(temp) /\ Goto("confirm", "commit")
       \/ key \notin SignedBy(temp) /\ Finish("confirm", "failed")
    /\ UNCHANGED <<fd, read, scanned, temp, key, signature, out, inputVars>>

\* TemporaryFile::commit (Publication), which may fail, or be killed, after the
\* link.
Commit ==
    /\ \/ /\ out = "absent" /\ out' = "ours"
          /\ \E result \in {"ok", "unconfirmed"} : Finish("commit", result)
       \/ out # "absent" /\ Finish("commit", "exists") /\ UNCHANGED out
    /\ UNCHANGED <<fd, read, scanned, temp, key, signature, inputVars>>

\* A file cannot be opened, created, read, written or synchronized, or signing
\* or its self-check fails; the temporary file is dropped.
CallFails ==
    /\ pc # "end"
    /\ Finish(pc, "failed")
    /\ UNCHANGED <<fd, read, scanned, temp, key, signature, out, inputVars>>

Work ==
    \/ ReadOn \/ Scanned \/ CheckOutput \/ Copied \/ CheckCopy \/ ReadSecret
    \/ Sign \/ AppendTrailer \/ Confirm \/ Commit

----------------------------------------------------------------------------
(* Another program.                                                        *)

Change ==
    /\ pc # "end" /\ changes < MaxChanges
    /\ changes' = changes + 1
    /\ UNCHANGED <<pc, fd, read, scanned, temp, key, signature, out, outcome>>

Becomes(i, s) == file' = [file EXCEPT ![i] = s] /\ was' = was \cup {s}

\* It renames another file to the path: what is open stays what it was.
Replace ==
    /\ Change
    /\ path' = changes'
    /\ \E s \in Contents : Becomes(path', s)
    /\ UNCHANGED torn

\* What a scan may accept at place n; anything else there is as good as Junk.
Expected(n) == {x \in Pieces : x.at = n - 1}

\* The file at the path, or the one that is read and no longer there, it cuts ...
Truncate ==
    /\ Change
    /\ \E i \in {path, fd} :
          /\ \E n \in 0..Len(file[i]) - 1 : Becomes(i, SubSeq(file[i], 1, n))
          /\ torn' = (torn \/ (pc = "copy" /\ fd = i))
    /\ UNCHANGED path

\* ... or overwrites in part, with something of the same length ...
Overwrite ==
    /\ Change
    /\ \E i \in {path, fd} :
          /\ \E n \in DOMAIN file[i] :
                \E x \in Expected(n) \cup {Junk} : Becomes(i, [file[i] EXCEPT ![n] = x])
          /\ torn' = (torn \/ (pc = "copy" /\ fd = i))
    /\ UNCHANGED path

\* ... or it writes on: the rest of something that may be there.
Extend ==
    /\ Change
    /\ \E i \in {path, fd}, s \in Contents :
          /\ Len(s) > Len(file[i])
          /\ Becomes(i, file[i] \o SubSeq(s, Len(file[i]) + 1, Len(s)))
    /\ UNCHANGED <<path, torn>>

OtherCreates ==
    /\ pc # "end" /\ out = "absent"
    /\ out' = "other"
    /\ UNCHANGED <<pc, fd, read, scanned, temp, key, signature, outcome, inputVars>>

Next == Work \/ CallFails \/ Replace \/ Truncate \/ Overwrite \/ Extend \/ OtherCreates

Spec == Init /\ [][Next]_vars

----------------------------------------------------------------------------
(* Properties.                                                             *)

Published == out = "ours"

\* What is published is an envelope every reader accepts and one trailer that
\* covers all of it and nothing else, made with the key that was read: the
\* signature is over the copy, never over the input as it is by then.
SignedIsWhole ==
    Published =>
        /\ Framed(Front(temp))
        /\ Last(temp) = Trailer(key, Front(temp))

\* The variables keep their types, and what is signed is whole (sign_archive).
SigningInv == TypeOK /\ SignedIsWhole

\* Every piece of s was at its place in one of these contents.
Gathered(s, contents) == \A i \in DOMAIN s : \E t \in contents : i \in DOMAIN t /\ t[i] = s[i]

\* A signer vouches for one file that was at the input path, and for all of it: even
\* if others are renamed to the path between the reads, and files that are open are
\* written on, what is signed is the whole content that one of them had at one time,
\* whether somebody sealed it or not.  Only a file that is cut or overwritten during
\* the copy may end up mixed, of what it was and what it became (sign_archive keeps
\* the descriptor and looks at the copy).
SignsInput ==
    Published =>
        /\ Gathered(Front(temp), was)
        /\ ~ torn => Front(temp) \in was

\* A file with the form of an archive that stays as it is can be signed, damaged
\* ciphertext or not: the scan, and the two comparisons of its lengths, do not
\* reject it.
NoFalseAlarm ==
    changes = 0 /\ file[path] \in Envelopes => outcome \notin {"invalid", "signed", "changed"}
============================================================================

------------------------------- MODULE Codec -------------------------------
(***************************************************************************)
(* The binary formats of pqbackup: the archive header, a frame, the        *)
(* provenance trailer, the root key and the two halves of a signing key.   *)
(* Each is written field by field in one function and read field by field  *)
(* in another; nothing but their order and their widths keeps the two      *)
(* together.  A reader is given what a writer wrote, for this format or    *)
(* another, or bytes that come from anywhere, and stops at the first that  *)
(* does not fit.  Lengths are scaled down: an integer or a constant is one *)
(* cell, an array one or two, an authentication tag one.                   *)
(***************************************************************************)
EXTENDS Naturals, Sequences, SequencesExt

CONSTANTS
    MaxChunk,     \* MAX_CHUNK
    MaxPlaintext, \* MAX_PLAINTEXT_LEN
    MaxChunks,    \* MAX_DATA_CHUNKS
    MaxName,      \* MAX_FILENAME_LEN
    MaxCell       \* bound: the greatest value of an integer

Tag == 1          \* GCM_TAG_LEN
EnvelopeLen == 2  \* the length of the envelope before a trailer

\* An integer is wide enough for one more than any field may have, and for the
\* five magic numbers.
ASSUME LimitsAssumption ==
    /\ {MaxChunk, MaxPlaintext, MaxChunks, MaxName} \subseteq Nat \ {0}
    /\ MaxCell \in Nat
    /\ \A limit \in {MaxChunk + Tag, MaxPlaintext, MaxName + Tag, 3} : limit < MaxCell

Cell == 0..MaxCell
Raw == 0..1       \* those of a byte of an array

----------------------------------------------------------------------------
(* The fields.                                                             *)

\* encode_public_header
PublicHeader ==
    <<"magic", "version", "kem", "kdf", "aead", "chunk_size", "original_len", "root_key_id",
      "root_key_epoch", "hkdf_salt", "data_nonce_prefix", "wrap_nonce", "metadata_nonce",
      "kem_ciphertext">>

\* encode_header, write_encrypted_chunk, encode_provenance_statement with the
\* signature that follows, encode_root_key, encode_signing_secret and
\* encode_signing_public
WrittenHeader == PublicHeader \o <<"encrypted_filename", "wrapped_dek">>
WrittenFrame == <<"index", "plain_len", "flags", "ciphertext">>
WrittenTrailer == <<"magic", "version", "alg", "signer_id", "epoch", "signed_len", "signature">>
WrittenRootKey == <<"magic", "version", "root_id", "epoch", "root_secret">>
WrittenSecret == <<"magic", "version", "alg", "signer_id", "epoch", "seed">>
WrittenPublic == <<"magic", "version", "alg", "signer_id", "epoch", "encoded">>

Written == [header |-> WrittenHeader, frame |-> WrittenFrame, trailer |-> WrittenTrailer,
            root |-> WrittenRootKey, secret |-> WrittenSecret, public |-> WrittenPublic]

\* decode_header, read_encrypted_frame, read_optional_provenance,
\* decode_root_key, decode_signing_secret, decode_signing_public
DecodedHeader ==
    <<"magic", "version", "kem", "kdf", "aead", "chunk_size", "original_len", "root_key_id",
      "root_key_epoch", "hkdf_salt", "data_nonce_prefix", "wrap_nonce", "metadata_nonce",
      "kem_ciphertext", "encrypted_filename", "wrapped_dek">>
DecodedFrame == <<"index", "plain_len", "flags", "ciphertext">>
DecodedTrailer == <<"magic", "version", "alg", "signer_id", "epoch", "signed_len", "signature">>
DecodedRootKey == <<"magic", "version", "root_id", "epoch", "root_secret">>
DecodedSecret == <<"magic", "version", "alg", "signer_id", "epoch", "seed">>
DecodedPublic == <<"magic", "version", "alg", "signer_id", "epoch", "encoded">>

Decoded == [header |-> DecodedHeader, frame |-> DecodedFrame, trailer |-> DecodedTrailer,
            root |-> DecodedRootKey, secret |-> DecodedSecret, public |-> DecodedPublic]

Format == DOMAIN Written

Magic == [header |-> 0, trailer |-> 1, root |-> 2, secret |-> 3, public |-> 4]
Version == [header |-> 2, trailer |-> 1, root |-> 1, secret |-> 1, public |-> 1]
Constants == {"magic", "version", "kem", "kdf", "aead", "alg"}

Constant(format, name) ==
    CASE name = "magic" -> Magic[format] [] name = "version" -> Version[format] [] OTHER -> 1

\* The fields that begin with their length, and the lengths they may have; a
\* variant forgets the tag of the file name.
NameOnly == 1..MaxName
EncryptedName == Tag..MaxName + Tag

Lengths == [kem_ciphertext |-> {1}, encrypted_filename |-> EncryptedName,
            wrapped_dek |-> {1 + Tag}, signature |-> {1}]
Sized == DOMAIN Lengths

\* The integers a reader checks.
Checked == Constants \cup {"chunk_size", "original_len", "plain_len", "flags", "signed_len"}

\* validate_archive_geometry
Geometry(len, size) ==
    /\ size \in 1..MaxChunk
    /\ len <= MaxPlaintext
    /\ IF len = 0 THEN TRUE ELSE (len + size - 1) \div size <= MaxChunks

----------------------------------------------------------------------------
(* Writing.  A value is a function from the names of the fields that vary. *)

Varying(format) == Range(Written[format]) \ Constants

With(fields, name, field) ==
    [n \in DOMAIN fields \cup {name} |-> IF n = name THEN field ELSE fields[n]]

\* EncodedVerifyingKey: decoding reduces what is out of range, so the key that
\* is decoded may be encoded otherwise.
OutOfRange == <<1, 1>>
Reencoded(key) == IF key = OutOfRange THEN <<0, 0>> ELSE key

EncodeField(format, name, value) ==
    CASE name \in Constants -> <<Constant(format, name)>>
      [] name \in Sized -> <<Len(value[name])>> \o value[name]
      [] name = "encoded" -> Reencoded(value[name])
      [] OTHER -> value[name]

EncodeFields(format, names, value) ==
    FlattenSeq([i \in DOMAIN names |-> EncodeField(format, names[i], value)])

Encode(format, value) == EncodeFields(format, Written[format], value)

\* encode_wrap_aad and encode_metadata_aad: what the wrapped key and the file
\* name are authenticated with; a variant leaves the name out.
PublicOnly == PublicHeader
WithName == PublicHeader \o <<"encrypted_filename">>

WrapAad(value) == <<"wrap">> \o EncodeFields("header", WithName, value)
MetadataAad(value) == <<"metadata">> \o EncodeFields("header", PublicHeader, value)

Arrays(n) == [1..n -> Raw]

\* validate_filename, and the encryption of the name.
FileNames == UNION {Arrays(n + Tag) : n \in 1..MaxName}

\* What seal, provenance-sign or a generation of keys puts into a field, after
\* the fields it has written.
Writes(name, before) ==
    CASE name = "encrypted_filename" -> FileNames
      [] name \in Sized \ {"encrypted_filename"} -> UNION {Arrays(n) : n \in Lengths[name]}
      [] name = "signed_len" -> {<<EnvelopeLen>>}
      [] name = "chunk_size" -> {<<n>> : n \in 1..MaxChunk}
      [] name = "original_len" ->
            {<<n>> : n \in {m \in Cell : Geometry(m, before.chunk_size[1])}}
      [] name = "plain_len" -> {<<n>> : n \in 0..MaxChunk}
      [] name = "ciphertext" -> Arrays(before.plain_len[1] + Tag)
      [] name = "encoded" -> Arrays(2) \ {OutOfRange}
      [] OTHER -> Arrays(1)

----------------------------------------------------------------------------
VARIABLES
    format,
    written, \* whether the bytes were written by this program, or come from anywhere
    source,  \* the fields that were written
    pc,
    at,      \* the position of the next field
    bytes,   \* what has been read
    value    \* the fields that were decoded

vars == <<format, written, source, pc, at, bytes, value>>

Fields == [1..1 -> Cell] \cup (UNION {Arrays(n) : n \in 2..MaxCell})

TypeOK ==
    /\ format \in Format
    /\ written \in BOOLEAN
    /\ pc \in {"write", "read", "accepted", "rejected"}
    /\ at \in 1..Len(Written[format]) + 1
    /\ bytes \in Seq(Cell)
    /\ \A fields \in {source, value} :
          /\ DOMAIN fields \subseteq Varying(format)
          /\ Range(fields) \subseteq Fields
    /\ pc = "accepted" => DOMAIN value = Varying(format)

Init ==
    /\ format \in Format
    /\ written \in BOOLEAN
    /\ source = <<>>
    /\ pc = "write"
    /\ at = 1
    /\ bytes = <<>>
    /\ value = <<>>

WriteField ==
    /\ pc = "write" /\ written /\ at <= Len(Written[format])
    /\ LET name == Written[format][at]
       IN  IF name \in Constants THEN UNCHANGED source
           ELSE \E field \in Writes(name, source) : source' = With(source, name, field)
    /\ at' = at + 1
    /\ UNCHANGED <<format, written, pc, bytes, value>>

StartReading ==
    /\ pc = "write" /\ pc' = "read"
    /\ written => at > Len(Written[format])
    /\ at' = 1
    /\ UNCHANGED <<format, written, source, bytes, value>>

----------------------------------------------------------------------------
(* Reading: Cursor::take, or slices of a file of known length.             *)

Name == Decoded[format][at]

\* The cells that may stand where the field is expected; after a length that is
\* refused nothing more is read.
Form ==
    CASE Name \in Checked -> {<<n>> : n \in Cell}
      [] Name \in Sized -> {<<n>> : n \in Cell \ Lengths[Name]}
                              \cup {<<Len(a)>> \o a : a \in UNION {Arrays(n) : n \in Lengths[Name]}}
      [] Name = "ciphertext" -> Arrays(value.plain_len[1] + Tag)
      [] Name = "encoded" -> Arrays(2)
      [] OTHER -> Arrays(1)

\* What is left of a file the program wrote.
Rest == LET file == Encode(format, source) IN SubSeq(file, Len(bytes) + 1, Len(file))

Held == IF written THEN {cells \in Form : IsPrefix(cells, Rest)} ELSE Form

\* The last bit is the final flag, the others must be zero; a variant does not
\* look at them.
AnyFlags == Cell
KnownFlags == 0..1

Fits(cells) ==
    CASE Name \in Constants -> cells[1] = Constant(format, Name)
      [] Name \in Sized -> cells[1] \in Lengths[Name]
      [] Name = "chunk_size" -> Geometry(0, cells[1])
      [] Name = "original_len" -> Geometry(cells[1], value.chunk_size[1])
      [] Name = "plain_len" -> cells[1] <= MaxChunk
      [] Name = "flags" -> cells[1] \in KnownFlags
      [] Name = "signed_len" -> cells[1] = EnvelopeLen
      [] Name = "encoded" -> Reencoded(cells) = cells
      [] OTHER -> TRUE

DecodeField(cells) ==
    CASE Name \in Sized -> Tail(cells)
      [] Name = "flags" -> <<cells[1] % 2>>
      [] OTHER -> cells

ReadField ==
    /\ pc = "read" /\ at <= Len(Decoded[format])
    /\ \E cells \in Held :
          /\ bytes' = bytes \o cells
          /\ \/ /\ Fits(cells)
                /\ at' = at + 1
                /\ value' = IF Name \in Constants THEN value ELSE With(value, Name, DecodeField(cells))
                /\ UNCHANGED pc
             \/ /\ ~ Fits(cells) /\ pc' = "rejected"
                /\ UNCHANGED <<at, value>>
    /\ UNCHANGED <<format, written, source>>

\* "truncated header", "archive truncated inside ..."
Truncated ==
    /\ pc = "read" /\ at <= Len(Decoded[format])
    /\ written => Held = {}
    /\ pc' = "rejected"
    /\ UNCHANGED <<format, written, source, at, bytes, value>>

\* Nothing may follow, except a frame or a trailer after a frame.
Follows == IF written THEN {Rest # <<>>} ELSE BOOLEAN

AtEnd ==
    /\ pc = "read" /\ at > Len(Decoded[format])
    /\ \E more \in Follows :
          pc' = IF more /\ format # "frame" THEN "rejected" ELSE "accepted"
    /\ UNCHANGED <<format, written, source, at, bytes, value>>

Next == WriteField \/ StartReading \/ ReadField \/ Truncated \/ AtEnd

Spec == Init /\ [][Next]_vars

----------------------------------------------------------------------------
(* Properties.                                                             *)

\* There is one encoding of what a reader accepts: writing the decoded fields
\* gives the bytes that were read, so that two files or frames never decode to
\* the same values, and a hash or a signature of the bytes is one of the values.
Canonical == pc = "accepted" => Encode(format, value) = bytes

\* The variables keep their types, and the encoding is unique (decode_header,
\* read_encrypted_frame, read_optional_provenance and the key decoders).
CodecInv == TypeOK /\ Canonical

\* Whatever the program writes it reads again, field by field, at every limit:
\* a backup sealed today is not refused tomorrow.
WrittenIsRead == written => pc # "rejected" /\ (pc = "accepted" => value = source)

\* "Changing algorithms, lengths, root metadata, nonces, KEM ciphertext, or
\* encrypted filename causes DEK unwrap failure" (docs/PQBACK02_FORMAT.md): no
\* field of an accepted header can be another and leave what the data key is
\* wrapped with as it is, nor what the file name is encrypted with, if it is a
\* public field (encode_wrap_aad, encode_metadata_aad).
AadBinds ==
    pc = "accepted" /\ format = "header" =>
        \A name \in Varying("header") \ {"wrapped_dek"} :
            \A field \in Writes(name, value) \ {value[name]} :
                LET other == [value EXCEPT ![name] = field]
                IN  /\ WrapAad(other) # WrapAad(value)
                    /\ name # "encrypted_filename" => MetadataAad(other) # MetadataAad(value)
============================================================================

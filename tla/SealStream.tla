----------------------------- MODULE SealStream -----------------------------
(***************************************************************************)
(* seal: the data frames of an archive, written while the input is read.   *)
(* The length of the input is taken once, from its metadata, and goes into *)
(* the header; the file is opened and read afterwards, one buffer at a     *)
(* time, and another program may append to it, truncate it or write it     *)
(* anew between any two reads.  What is sealed has to be an archive that   *)
(* the reader of the same program accepts.                                 *)
(***************************************************************************)
EXTENDS Naturals, Sequences, SequencesExt

CONSTANTS
    ChunkSizes,  \* the --chunk-size options
    MaxInput,    \* bound: the longest input
    MaxChunks,   \* MAX_DATA_CHUNKS, scaled down
    MaxIndex     \* the largest frame index: u32::MAX, scaled down

ASSUME SizeAssumption == ChunkSizes \subseteq Nat \ {0}
ASSUME BoundAssumption == {MaxInput, MaxChunks, MaxIndex} \subseteq Nat /\ MaxChunks > 0

VARIABLES
    input,        \* the length of the input file, now
    chunk_size,
    original_len, \* its length when its metadata was read
    pc,
    filled,       \* the bytes read_chunk has put into the buffer
    index,        \* the index of the next frame
    total,        \* the bytes in the frames before it
    frames,       \* what is written to the temporary file
    grown,        \* history: the input was longer than original_len before the
                  \* last read of seal
    shrunk        \* history: the input has become shorter

history == <<grown, shrunk>>
vars == <<input, chunk_size, original_len, pc, filled, index, total, frames, grown, shrunk>>

Frame == [index : 0..MaxIndex, plain_len : 0..MaxInput, is_final : BOOLEAN]

TypeOK ==
    /\ input \in 0..MaxInput
    /\ chunk_size \in ChunkSizes
    /\ original_len \in 0..MaxInput
    /\ pc \in {"metadata", "fill", "chunk", "probe", "finish", "published", "failed"}
    /\ filled \in 0..chunk_size
    /\ index \in 0..MaxIndex
    /\ total \in 0..original_len
    /\ frames \in Seq(Frame)
    /\ grown \in BOOLEAN /\ shrunk \in BOOLEAN

Init ==
    /\ input \in 0..MaxInput
    /\ chunk_size \in ChunkSizes
    /\ original_len = 0
    /\ pc = "metadata"
    /\ filled = 0
    /\ index = 0
    /\ total = 0
    /\ frames = <<>>
    /\ grown = FALSE /\ shrunk = FALSE

----------------------------------------------------------------------------
(* The limits of an archive and what its reader accepts.                   *)

\* validate_archive_geometry
ChunkCount(len, size) == IF len = 0 THEN 1 ELSE (len + size - 1) \div size

SumOf(fs) == FoldSeq(LAMBDA f, n : f.plain_len + n, 0, fs)

\* scan_archive_reader and read_encrypted_frame, all but the number of frames.
InSequence(fs, size, len) ==
    /\ fs # <<>>
    /\ \A i \in DOMAIN fs :
          /\ fs[i].index = i - 1
          /\ fs[i].plain_len <= size
          /\ fs[i].plain_len = 0 => fs[i].is_final /\ len = 0
          /\ fs[i].is_final <=> i = Len(fs)
    /\ SumOf(fs) = len

WithinLimit(fs) == Len(fs) <= MaxChunks

----------------------------------------------------------------------------
(* seal                                                                    *)

\* fs::metadata(input), then validate_archive_geometry.
Metadata ==
    /\ pc = "metadata"
    /\ original_len' = input
    /\ pc' = IF ChunkCount(input, chunk_size) <= MaxChunks THEN "fill" ELSE "failed"
    /\ UNCHANGED <<input, chunk_size, filled, index, total, frames, history>>

\* A read of n bytes completes the chunk; a variant makes one read per chunk.
AnyRead(n) == TRUE
CompletesChunk(n) == n = 0 \/ filled + n = chunk_size

\* read_chunk: one read returns anything from one byte to all there is and all
\* there is room for, and nothing only at the end of the file as it is now.
Fill ==
    /\ pc = "fill"
    /\ LET unread == IF input > total + filled THEN input - (total + filled) ELSE 0
           room == chunk_size - filled
       IN  \E n \in 0..(IF unread < room THEN unread ELSE room) :
              /\ (n = 0) <=> (unread = 0)
              /\ filled' = filled + n
              /\ pc' = IF CompletesChunk(n) THEN "chunk" ELSE "fill"
    /\ UNCHANGED <<input, chunk_size, original_len, index, total, frames, history>>

Emit(len, final) ==
    frames' = Append(frames, [index |-> index, plain_len |-> len, is_final |-> final])

\* What follows the end of the file; a variant waits for the bytes that are
\* missing.
UntilComplete == IF total < original_len THEN "fill" ELSE "finish"
AfterEnd == "finish"

\* The end of the file: an input that was empty from the start is one empty
\* final frame.
EndOfInput ==
    /\ pc = "chunk" /\ filled = 0
    /\ IF index = 0 THEN Emit(0, TRUE) ELSE UNCHANGED frames
    /\ pc' = AfterEnd
    /\ UNCHANGED <<input, chunk_size, original_len, filled, index, total, history>>

\* The bytes in the buffer keep within the length in the header.
WithinLength == total + filled <= original_len

TooLong ==
    /\ pc = "chunk" /\ ~ WithinLength
    /\ pc' = "failed"
    /\ UNCHANGED <<input, chunk_size, original_len, filled, index, total, frames, history>>

\* The next index; in a variant it wraps around.
Wrapped == {(index + 1) % (MaxIndex + 1)}
NextIndex == {i \in {index + 1} : i <= MaxIndex}

\* A frame is final when it completes the length in the header; the index is
\* advanced by checked_add, after a final frame too.
Chunk ==
    /\ pc = "chunk" /\ filled > 0 /\ WithinLength
    /\ total' = total + filled
    /\ filled' = 0
    /\ Emit(filled, total' = original_len)
    /\ \/ /\ index' \in NextIndex
          /\ pc' = IF total' = original_len THEN "probe" ELSE "fill"
       \/ /\ NextIndex = {} /\ pc' = "failed"
          /\ UNCHANGED index
    /\ UNCHANGED <<input, chunk_size, original_len, history>>

\* One more byte is asked for after the final frame; a variant does not look.
NoLook == FALSE
OneMoreByte == input > total

Probe ==
    /\ pc = "probe"
    /\ pc' = IF OneMoreByte THEN "failed" ELSE "finish"
    /\ UNCHANGED <<input, chunk_size, original_len, filled, index, total, frames, history>>

\* The length that was read is the one in the header; in a variant any will do.
AnyTotal == TRUE
Complete == total = original_len

\* The total is checked, the file synchronized and published (Publication).
Finish ==
    /\ pc = "finish"
    /\ pc' = IF Complete THEN "published" ELSE "failed"
    /\ UNCHANGED <<input, chunk_size, original_len, filled, index, total, frames, history>>

\* The keys cannot be read, the output exists, or a read or write fails.
CallFails ==
    /\ pc \notin {"published", "failed"}
    /\ pc' = "failed"
    /\ UNCHANGED <<input, chunk_size, original_len, filled, index, total, frames, history>>

Seal == Metadata \/ Fill \/ EndOfInput \/ TooLong \/ Chunk \/ Probe \/ Finish

\* Some read of the input is still to come.
ToBeRead == pc \in {"fill", "probe"} \/ (pc = "chunk" /\ filled > 0)

\* Another program changes the length of the input, as often as it likes.
InputChanges ==
    /\ \E len \in 0..MaxInput :
          /\ len # input
          /\ input' = len
    /\ grown' = (grown \/ (ToBeRead /\ input' > original_len))
    /\ shrunk' = (shrunk \/ input' < input)
    /\ UNCHANGED <<chunk_size, original_len, pc, filled, index, total, frames>>

Next == Seal \/ CallFails \/ InputChanges

\* seal runs; no call has to fail and nobody has to change the input.
Spec == Init /\ [][Next]_vars /\ WF_vars(Seal)

----------------------------------------------------------------------------
(* Properties.                                                             *)

\* A published archive is a well-formed sequence of frames of exactly the
\* declared length, whatever happened to the input and however short its reads
\* were: scan_archive_reader accepts its framing.
SealedIsWellFormed ==
    pc = "published" => InSequence(frames, chunk_size, original_len)

\* The variables keep their types, and what is published can be read.
StreamInv == TypeOK /\ SealedIsWellFormed

\* "This implementation permits at most 1,048,576 frames under one DEK"
\* (docs/PQBACK02_FORMAT.md, docs/SUPPORTED_LIMITS.md), a limit every reader
\* of the program enforces.
SealedWithinLimit == pc = "published" => WithinLimit(frames)

\* As long as nobody makes the input shorter the limit holds, however short the
\* reads are: the buffer is filled before a frame is made of it (read_chunk), so
\* the number of frames follows from the length (validate_archive_geometry).
GrowingWithinLimit == pc = "published" /\ ~ shrunk => WithinLimit(frames)

\* No nonce is used twice under one data key: it is a fixed prefix and the
\* index (chunk_nonce), in the temporary file already.
NoncesAreUnique ==
    \A i, j \in DOMAIN frames : frames[i].index = frames[j].index => i = j

\* An input that is appended to while it is sealed, and never made shorter
\* again, is not published as if it had not been: the header holds the length
\* from before.
GrowthIsNoticed == grown /\ ~ shrunk => pc # "published"

\* seal ends even if the input never stops changing: every turn of the loop
\* uses up some of the declared length.
Terminates == pc = "fill" ~> pc \in {"published", "failed"}
============================================================================

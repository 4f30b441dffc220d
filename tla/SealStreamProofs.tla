-------------------------- MODULE SealStreamProofs --------------------------
(***************************************************************************)
(* What is proved of the data frames that seal writes, for any size of     *)
(* input, chunk and limit, and for any changes of the input.               *)
(*                                                                         *)
(* FramesInv follows the loop of seal: the frames are numbered, none is    *)
(* final before the length in the header is complete, and their lengths    *)
(* add up to the bytes consumed.  The sum is a fold; that it grows with an *)
(* appended frame is shown with a function (Adding) that the invariant     *)
(* carries along, so no induction over sequences is needed.                *)
(***************************************************************************)
EXTENDS SealStream, SequenceTheorems, FiniteSetTheorems, WellFoundedInduction, TLAPS

\* g gives the sum of the lengths of any set of frames of fs, taken in any order.
Adding(g, fs) ==
    /\ g = [s \in SUBSET DOMAIN fs |-> g[s]]
    /\ g[{}] = 0
    /\ \A s \in SUBSET DOMAIN fs : \A i \in s :
          g[s \ {i}] \in Int /\ g[s] = fs[i].plain_len + g[s \ {i}]

Summable(fs) == \E g : Adding(g, fs)

\* The fold computes the sum, in whatever order it takes the frames.
LEMMA SumIs ==
  ASSUME NEW fs \in Seq(Frame), NEW g, Adding(g, fs)
  PROVE  SumOf(fs) = g[DOMAIN fs]
<1> DEFINE D == DOMAIN fs
           Pick(s) == CHOOSE x \in s : TRUE
           Sums(h) == h = [s \in SUBSET D |-> IF s = {} THEN 0 ELSE fs[Pick(s)].plain_len + h[s \ {Pick(s)}]]
           iter == CHOOSE h : Sums(h)
           wrong == {s \in SUBSET D : iter[s] # g[s]}
<1>1. SumOf(fs) = iter[D]
  BY DEF SumOf, FoldSeq, FoldFunction, FoldFunctionOnSet, MapThenFoldSet
<1>2. \A s \in SUBSET D : s # {} => Pick(s) \in s /\ s \ {Pick(s)} \in SUBSET D
  OBVIOUS
<1>3. IsFiniteSet(D)
  BY LenProperties, FS_Interval
<1> HIDE DEF Pick, D
<1>4. Sums(g)
  <2>1. g = [s \in SUBSET D |-> g[s]]
    BY DEF Adding, D
  <2>2. \A s \in SUBSET D : g[s] = IF s = {} THEN 0 ELSE fs[Pick(s)].plain_len + g[s \ {Pick(s)}]
    BY <1>2 DEF Adding, D
  <2>3. [s \in SUBSET D |-> g[s]]
          = [s \in SUBSET D |-> IF s = {} THEN 0 ELSE fs[Pick(s)].plain_len + g[s \ {Pick(s)}]]
    BY <2>2
  <2> QED
    BY <2>1, <2>3
<1>5. Sums(iter)
  BY <1>4
<1> HIDE DEF iter
<1>6. wrong = {}
  <2> SUFFICES ASSUME wrong # {} PROVE FALSE
    OBVIOUS
  <2>1. IsWellFoundedOn(StrictSubsetOrdering(D), SUBSET D)
    BY <1>3, FS_StrictSubsetOrderingWellFounded, FS_FiniteSubsetsOfFinite
  <2>2. wrong \subseteq SUBSET D
    OBVIOUS
  <2> HIDE DEF wrong
  <2>3. PICK s \in wrong : \A t \in wrong : ~ (<<t, s>> \in StrictSubsetOrdering(D))
    BY <2>1, <2>2, WFMin
  <2>4. s \in SUBSET D /\ iter[s] # g[s]
    BY <2>3 DEF wrong
  <2>5. CASE s = {}
    BY <1>4, <1>5, <2>4, <2>5
  <2>6. CASE s # {}
    <3>1. Pick(s) \in s /\ s \ {Pick(s)} \in SUBSET D
      BY <1>2, <2>4, <2>6
    <3>2. <<s \ {Pick(s)}, s>> \in StrictSubsetOrdering(D)
      <4>1. s \ {Pick(s)} # s
        BY <3>1
      <4> QED
        BY <2>4, <3>1, <4>1 DEF StrictSubsetOrdering
    <3>3. iter[s \ {Pick(s)}] = g[s \ {Pick(s)}]
      BY <2>3, <3>1, <3>2 DEF wrong
    <3>4. iter[s] = fs[Pick(s)].plain_len + iter[s \ {Pick(s)}]
      BY <1>5, <2>4, <2>6
    <3>5. g[s] = fs[Pick(s)].plain_len + g[s \ {Pick(s)}]
      BY <1>4, <2>4, <2>6
    <3> QED
      BY <2>4, <3>3, <3>4, <3>5
  <2> QED
    BY <2>5, <2>6
<1>7. D \notin wrong
  BY <1>6
<1> QED
  BY <1>1, <1>7 DEF D

\* No frames hold no bytes.
LEMMA SumOfEmpty == Summable(<<>>) /\ SumOf(<<>>) = 0
<1> DEFINE g == [s \in SUBSET DOMAIN <<>> |-> 0]
<1>1. DOMAIN <<>> = {}
  OBVIOUS
<1>2. Adding(g, <<>>) /\ g[DOMAIN <<>>] = 0
  BY <1>1 DEF Adding
<1>3. <<>> \in Seq(Frame)
  OBVIOUS
<1> HIDE DEF g
<1>4. SumOf(<<>>) = 0
  BY <1>2, <1>3, SumIs
<1> QED
  BY <1>2, <1>4 DEF Summable

\* A frame more adds its length.
LEMMA SumOfAppend ==
  ASSUME NEW fs \in Seq(Frame), NEW f \in Frame, Summable(fs)
  PROVE  Summable(Append(fs, f)) /\ SumOf(Append(fs, f)) = SumOf(fs) + f.plain_len
<1> DEFINE gs == Append(fs, f)
           n == Len(fs) + 1
<1>1. PICK g : Adding(g, fs)
  BY DEF Summable
<1> DEFINE h == [s \in SUBSET DOMAIN gs |-> IF n \in s THEN g[s \ {n}] + f.plain_len ELSE g[s]]
<1>2. /\ DOMAIN fs = 1..Len(fs) /\ Len(fs) \in Nat
      /\ DOMAIN gs = 1..n /\ gs[n] = f /\ gs \in Seq(Frame)
      /\ \A i \in DOMAIN fs : gs[i] = fs[i] /\ fs[i].plain_len \in Int
  <2>1. DOMAIN fs = 1..Len(fs) /\ Len(fs) \in Nat
    BY LenProperties
  <2>2. gs \in Seq(Frame) /\ Len(gs) = n /\ gs[n] = f /\ \A i \in 1..Len(fs) : gs[i] = fs[i]
    BY AppendProperties
  <2>3. DOMAIN gs = 1..n
    BY <2>2, LenProperties
  <2>4. \A i \in DOMAIN fs : fs[i] \in Frame
    BY <2>1, ElementOfSeq
  <2> QED
    BY <2>1, <2>2, <2>3, <2>4 DEF Frame
<1>3. f.plain_len \in Int
  BY DEF Frame
<1>4. DOMAIN gs = DOMAIN fs \cup {n} /\ n \notin DOMAIN fs
  BY <1>2
<1> HIDE DEF gs, n
<1>5. ASSUME NEW s \in SUBSET DOMAIN fs PROVE g[s] \in Int
  <2>1. CASE s = {}
    BY <1>1, <2>1 DEF Adding
  <2>2. CASE s # {}
    <3>1. PICK i \in s : TRUE
      BY <2>2
    <3>2. g[s] = fs[i].plain_len + g[s \ {i}] /\ g[s \ {i}] \in Int /\ fs[i].plain_len \in Int
      BY <1>1, <1>2, <3>1 DEF Adding
    <3> QED
      BY <3>2
  <2> QED
    BY <2>1, <2>2
<1>6. ASSUME NEW s \in SUBSET DOMAIN gs PROVE s \ {n} \in SUBSET DOMAIN fs /\ h[s] \in Int
  BY <1>3, <1>4, <1>5
<1>7. Adding(h, gs)
  <2>1. h[{}] = 0
    BY <1>1 DEF Adding
  <2>2. ASSUME NEW s \in SUBSET DOMAIN gs, NEW i \in s
        PROVE  h[s \ {i}] \in Int /\ h[s] = gs[i].plain_len + h[s \ {i}]
    <3>1. s \ {i} \in SUBSET DOMAIN gs /\ h[s \ {i}] \in Int
      BY <1>6
    <3>2. CASE i = n
      <4>1. h[s] = g[s \ {n}] + f.plain_len /\ h[s \ {i}] = g[s \ {n}]
        BY <3>1, <3>2
      <4>2. g[s \ {n}] \in Int
        BY <1>5, <1>6
      <4> QED
        BY <1>2, <1>3, <3>2, <4>1, <4>2
    <3>3. CASE i # n /\ n \in s
      <4>1. h[s] = g[s \ {n}] + f.plain_len /\ h[s \ {i}] = g[(s \ {i}) \ {n}] + f.plain_len
        BY <3>1, <3>3
      <4>2. (s \ {i}) \ {n} = (s \ {n}) \ {i} /\ i \in s \ {n} /\ s \ {n} \in SUBSET DOMAIN fs
        BY <1>6, <3>3
      <4>3. g[s \ {n}] = fs[i].plain_len + g[(s \ {n}) \ {i}] /\ g[(s \ {n}) \ {i}] \in Int
        BY <1>1, <4>2 DEF Adding
      <4>4. gs[i] = fs[i] /\ fs[i].plain_len \in Int
        BY <1>2, <4>2
      <4> HIDE DEF h
      <4>5. h[s \ {i}] = g[(s \ {n}) \ {i}] + f.plain_len
        BY <4>1, <4>2
      <4> QED
        BY <1>3, <3>1, <4>1, <4>3, <4>4, <4>5
    <3>4. CASE n \notin s
      <4>1. s \in SUBSET DOMAIN fs /\ i \in DOMAIN fs
        BY <1>4, <3>4
      <4>2. h[s] = g[s] /\ h[s \ {i}] = g[s \ {i}]
        BY <3>1, <3>4
      <4>3. g[s] = fs[i].plain_len + g[s \ {i}] /\ g[s \ {i}] \in Int
        BY <1>1, <4>1 DEF Adding
      <4> QED
        BY <1>2, <3>1, <4>1, <4>2, <4>3
    <3> QED
      BY <3>2, <3>3, <3>4
  <2>3. h = [s \in SUBSET DOMAIN gs |-> h[s]]
    OBVIOUS
  <2> HIDE DEF h
  <2> QED
    BY <2>1, <2>2, <2>3 DEF Adding
<1>8. h[DOMAIN gs] = g[DOMAIN fs] + f.plain_len
  <2>1. DOMAIN gs \ {n} = DOMAIN fs /\ n \in DOMAIN gs
    BY <1>4
  <2> QED
    BY <2>1
<1> HIDE DEF h
<1>9. SumOf(gs) = h[DOMAIN gs]
  BY <1>2, <1>7, SumIs
<1>10. SumOf(fs) = g[DOMAIN fs]
  BY <1>1, SumIs
<1>11. SumOf(gs) = SumOf(fs) + f.plain_len /\ Summable(gs)
  BY <1>7, <1>8, <1>9, <1>10 DEF Summable
<1> QED
  BY <1>11 DEF gs

----------------------------------------------------------------------------
\* Before the metadata is read nothing has happened.
Fresh == pc = "metadata" => original_len = 0 /\ filled = 0 /\ index = 0 /\ total = 0 /\ frames = <<>>

\* The index of a frame, which makes its nonce, is its place.
Numbered == \A i \in DOMAIN frames : frames[i].index = i - 1

\* An empty frame is the final one of an empty input.
Sized ==
    \A i \in DOMAIN frames :
        frames[i].plain_len <= chunk_size /\ (frames[i].plain_len = 0 => frames[i].is_final /\ total = 0)

\* total counts what is in the frames.
Measured == Summable(frames) /\ total = SumOf(frames)

\* Until the loop ends no frame is final.
Unfinished ==
    pc \in {"metadata", "fill", "chunk"} =>
        /\ Len(frames) = index
        /\ \A i \in DOMAIN frames : ~ frames[i].is_final
        /\ index = 0 \/ total < original_len

FinalIsLast == frames # <<>> /\ \A i \in DOMAIN frames : frames[i].is_final <=> i = Len(frames)

\* What goes on to be published ends with the only final frame.
Finished ==
    /\ pc \in {"probe", "published"} => total = original_len
    /\ pc \in {"probe", "finish", "published"} /\ total = original_len => FinalIsLast

FramesInv == TypeOK /\ Fresh /\ Numbered /\ Sized /\ Measured /\ Unfinished /\ Finished

\* What write_encrypted_chunk leaves of the frames written before it.
LEMMA FramesAppended ==
  ASSUME NEW fs \in Seq(Frame), NEW f \in Frame
  PROVE  /\ Append(fs, f) \in Seq(Frame) /\ Append(fs, f) # <<>>
         /\ Len(fs) \in Nat /\ Len(Append(fs, f)) = Len(fs) + 1
         /\ DOMAIN fs = 1..Len(fs) /\ DOMAIN Append(fs, f) = 1..(Len(fs) + 1)
         /\ \A i \in DOMAIN fs : Append(fs, f)[i] = fs[i] /\ fs[i] \in Frame
         /\ Append(fs, f)[Len(fs) + 1] = f
<1>1. DOMAIN fs = 1..Len(fs) /\ Len(fs) \in Nat
  BY LenProperties
<1>2. /\ Append(fs, f) \in Seq(Frame) /\ Append(fs, f) # <<>> /\ Len(Append(fs, f)) = Len(fs) + 1
      /\ Append(fs, f)[Len(fs) + 1] = f /\ \A i \in 1..Len(fs) : Append(fs, f)[i] = fs[i]
  BY AppendProperties
<1>3. DOMAIN Append(fs, f) = 1..(Len(fs) + 1)
  BY <1>2, LenProperties
<1>4. \A i \in DOMAIN fs : fs[i] \in Frame
  BY <1>1, ElementOfSeq
<1> QED
  BY <1>1, <1>2, <1>3, <1>4

\* The beginning of seal.
LEMMA InitFramesInv == Init => FramesInv
<1> SUFFICES ASSUME Init PROVE FramesInv
  OBVIOUS
<1>1. TypeOK
  <2>1. <<>> \in Seq(Frame)
    OBVIOUS
  <2>2. chunk_size \in Nat /\ MaxInput \in Nat /\ MaxIndex \in Nat
    BY SizeAssumption, BoundAssumption DEF Init
  <2>3. 0 \in 0..MaxInput /\ 0 \in 0..MaxIndex /\ 0 \in 0..chunk_size /\ 0 \in 0..original_len
    BY <2>2 DEF Init
  <2> QED
    BY <2>1, <2>3 DEF Init, TypeOK
<1>2. frames = <<>> /\ total = 0 /\ pc = "metadata"
  BY DEF Init
<1>3. Measured
  BY <1>2, SumOfEmpty DEF Measured
<1> QED
  BY <1>1, <1>2, <1>3 DEF Init, FramesInv, Fresh, Numbered, Sized, Unfinished, Finished

\* A step that leaves the frames alone.
LEMMA SameFrames ==
  ASSUME FramesInv, TypeOK', Fresh', frames' = frames, total' = total, index' = index, chunk_size' = chunk_size,
         Unfinished', Finished'
  PROVE  FramesInv'
<1>1. Numbered'
  BY DEF FramesInv, Numbered
<1>2. Sized'
  BY DEF FramesInv, Sized
<1>3. Measured'
  BY DEF FramesInv, Measured
<1> QED
  BY <1>1, <1>2, <1>3 DEF FramesInv

\* A chunk becomes the next frame, final when it completes the length in the header.
LEMMA ChunkKeepsFrames ==
  ASSUME FramesInv, Chunk
  PROVE  FramesInv'
<1> DEFINE f == [index |-> index, plain_len |-> filled, is_final |-> total' = original_len]
<1>1. /\ chunk_size \in Nat \ {0} /\ MaxInput \in Nat /\ MaxIndex \in Nat
      /\ total \in Nat /\ filled \in Nat /\ original_len \in Nat /\ index \in Nat
      /\ filled <= chunk_size /\ original_len <= MaxInput /\ index <= MaxIndex /\ total <= original_len
  BY SizeAssumption, BoundAssumption DEF FramesInv, TypeOK
<1>2. /\ pc = "chunk" /\ filled > 0 /\ total + filled <= original_len
      /\ total' = total + filled /\ filled' = 0 /\ frames' = Append(frames, f)
      /\ original_len' = original_len /\ chunk_size' = chunk_size /\ input' = input
      /\ grown' = grown /\ shrunk' = shrunk
  BY DEF Chunk, WithinLength, Emit, history
<1>3. \/ index' = index + 1 /\ index + 1 <= MaxIndex /\ pc' = IF total' = original_len THEN "probe" ELSE "fill"
      \/ pc' = "failed" /\ index' = index
  BY <1>1 DEF Chunk, NextIndex
<1>4. f \in Frame
  BY <1>1, <1>2 DEF Frame
<1>5. frames \in Seq(Frame)
  BY DEF FramesInv, TypeOK
<1>6. Len(frames) = index /\ \A i \in DOMAIN frames : ~ frames[i].is_final
  BY <1>2 DEF FramesInv, Unfinished
<1>7. f.index = index /\ f.plain_len = filled /\ (f.is_final <=> total' = original_len)
  OBVIOUS
<1> HIDE DEF f
<1>8. /\ frames' \in Seq(Frame) /\ frames' # <<>> /\ Len(frames') = index + 1
      /\ DOMAIN frames = 1..index /\ DOMAIN frames' = 1..(index + 1)
      /\ \A i \in DOMAIN frames : frames'[i] = frames[i] /\ frames[i] \in Frame
      /\ frames'[index + 1] = f
  BY <1>2, <1>4, <1>5, <1>6, FramesAppended
<1>9. TypeOK'
  BY <1>1, <1>2, <1>3, <1>8 DEF FramesInv, TypeOK
<1>10. Numbered'
  BY <1>1, <1>7, <1>8 DEF FramesInv, Numbered
<1>11. Sized'
  BY <1>1, <1>2, <1>6, <1>7, <1>8 DEF FramesInv, Sized
<1>12. Measured'
  <2>1. Summable(frames') /\ SumOf(frames') = SumOf(frames) + filled
    BY <1>2, <1>4, <1>5, <1>7, SumOfAppend DEF FramesInv, Measured
  <2> QED
    BY <1>2, <2>1 DEF FramesInv, Measured
<1>13. Unfinished'
  <2> SUFFICES ASSUME pc' \in {"metadata", "fill", "chunk"}
               PROVE  /\ Len(frames') = index'
                      /\ \A i \in DOMAIN frames' : ~ frames'[i].is_final
                      /\ index' = 0 \/ total' < original_len'
    BY DEF Unfinished
  <2>1. index' = index + 1 /\ total' # original_len
    BY <1>3
  <2> QED
    BY <1>1, <1>2, <1>6, <1>7, <1>8, <2>1
<1>14. Finished'
  <2>1. total' = original_len => FinalIsLast'
    BY <1>1, <1>6, <1>7, <1>8 DEF FinalIsLast
  <2>2. pc' \in {"probe", "published"} => total' = original_len
    BY <1>3
  <2> QED
    BY <1>2, <2>1, <2>2 DEF Finished
<1>15. Fresh'
  BY <1>3 DEF Fresh
<1> QED
  BY <1>9, <1>10, <1>11, <1>12, <1>13, <1>14, <1>15 DEF FramesInv

\* The end of the file adds a frame only if there is none.
LEMMA EndKeepsFrames ==
  ASSUME FramesInv, EndOfInput
  PROVE  FramesInv'
<1> DEFINE f == [index |-> index, plain_len |-> 0, is_final |-> TRUE]
<1>1. /\ pc = "chunk" /\ filled = 0 /\ pc' = "finish"
      /\ UNCHANGED <<input, chunk_size, original_len, filled, index, total, grown, shrunk>>
  BY DEF EndOfInput, AfterEnd, history
<1>2. /\ frames \in Seq(Frame) /\ Len(frames) = index /\ \A i \in DOMAIN frames : ~ frames[i].is_final
      /\ index \in Nat /\ (index = 0 \/ total < original_len)
  BY <1>1, BoundAssumption DEF FramesInv, TypeOK, Unfinished
<1>3. CASE index = 0
  <2>1. frames' = Append(frames, f)
    BY <1>3 DEF EndOfInput, Emit
  <2>2. f \in Frame
    BY <1>3, BoundAssumption DEF Frame
  <2>3. f.index = 0 /\ f.plain_len = 0 /\ f.is_final
    BY <1>3
  <2> HIDE DEF f
  <2>4. /\ frames' \in Seq(Frame) /\ frames' # <<>> /\ Len(frames') = 1
        /\ DOMAIN frames' = {1} /\ frames'[1] = f
    BY <1>2, <1>3, <2>1, <2>2, FramesAppended
  <2>5. frames = <<>>
    BY <1>2, <1>3, EmptySeq
  <2>6. total = 0 /\ total' = 0
    BY <1>1, <2>5, SumOfEmpty DEF FramesInv, Measured
  <2>7. Measured'
    <3>1. Summable(frames') /\ SumOf(frames') = SumOf(frames) + 0
      BY <1>2, <2>1, <2>2, <2>3, SumOfAppend DEF FramesInv, Measured
    <3> QED
      BY <2>5, <2>6, <3>1, SumOfEmpty DEF Measured
  <2>8. TypeOK'
    BY <1>1, <2>4 DEF FramesInv, TypeOK
  <2>9. Numbered' /\ Fresh' /\ Unfinished'
    BY <1>1, <2>3, <2>4 DEF Numbered, Fresh, Unfinished
  <2>10. Sized'
    BY <1>1, <2>3, <2>4, <2>6, SizeAssumption DEF Sized, FramesInv, TypeOK
  <2>11. Finished'
    BY <1>1, <2>3, <2>4 DEF Finished, FinalIsLast
  <2> QED
    BY <2>7, <2>8, <2>9, <2>10, <2>11 DEF FramesInv
<1>4. CASE index # 0
  <2>1. frames' = frames
    BY <1>4 DEF EndOfInput
  <2>2. TypeOK' /\ Fresh' /\ Unfinished'
    BY <1>1, <2>1 DEF FramesInv, TypeOK, Fresh, Unfinished
  <2>3. Finished'
    BY <1>1, <1>2, <1>4, BoundAssumption DEF Finished, FramesInv, TypeOK
  <2> QED
    BY <1>1, <2>1, <2>2, <2>3, SameFrames
<1> QED
  BY <1>3, <1>4

\* Every step keeps FramesInv.
LEMMA NextFramesInv == FramesInv /\ [Next]_vars => FramesInv'
<1> SUFFICES ASSUME FramesInv, [Next]_vars PROVE FramesInv'
  OBVIOUS
<1> USE DEF history
<1>1. /\ chunk_size \in Nat \ {0} /\ MaxInput \in Nat /\ MaxIndex \in Nat
      /\ total \in Nat /\ filled \in Nat /\ original_len \in Nat /\ index \in Nat /\ input \in Nat
      /\ filled <= chunk_size /\ total <= original_len
  BY SizeAssumption, BoundAssumption DEF FramesInv, TypeOK
<1>2. TypeOK
  BY DEF FramesInv
<1>3. CASE Metadata
  <2>1. /\ pc = "metadata" /\ original_len' = input /\ pc' \in {"fill", "failed"}
        /\ UNCHANGED <<input, chunk_size, filled, index, total, frames, grown, shrunk>>
    BY <1>3 DEF Metadata
  <2>2. filled = 0 /\ index = 0 /\ total = 0 /\ frames = <<>>
    BY <2>1 DEF FramesInv, Fresh
  <2>3. TypeOK'
    BY <1>1, <1>2, <2>1, <2>2 DEF TypeOK
  <2>4. Unfinished' /\ Fresh' /\ Finished'
    BY <2>1, <2>2 DEF Unfinished, Fresh, Finished
  <2> QED
    BY <2>1, <2>3, <2>4, SameFrames
<1>4. CASE Fill
  <2>1. /\ pc = "fill" /\ pc' \in {"fill", "chunk"}
        /\ UNCHANGED <<input, chunk_size, original_len, index, total, frames, grown, shrunk>>
    BY <1>4 DEF Fill
  <2>2. PICK n \in Nat : n <= chunk_size - filled /\ filled' = filled + n
    BY <1>1, <1>4 DEF Fill
  <2>3. TypeOK'
    BY <1>1, <1>2, <2>1, <2>2 DEF TypeOK
  <2>4. Unfinished' /\ Fresh' /\ Finished'
    BY <2>1 DEF FramesInv, Unfinished, Fresh, Finished
  <2> QED
    BY <2>1, <2>3, <2>4, SameFrames
<1>5. CASE EndOfInput
  BY <1>5, EndKeepsFrames
<1>6. CASE Chunk
  BY <1>6, ChunkKeepsFrames
<1>7. CASE TooLong \/ CallFails
  <2>1. /\ pc' = "failed"
        /\ UNCHANGED <<input, chunk_size, original_len, filled, index, total, frames, grown, shrunk>>
    BY <1>7 DEF TooLong, CallFails
  <2>2. TypeOK' /\ Unfinished' /\ Fresh' /\ Finished'
    BY <1>2, <2>1 DEF TypeOK, Unfinished, Fresh, Finished
  <2> QED
    BY <2>1, <2>2, SameFrames
<1>8. CASE Probe \/ Finish
  <2>1. /\ UNCHANGED <<input, chunk_size, original_len, filled, index, total, frames, grown, shrunk>>
        /\ \/ pc = "probe" /\ pc' \in {"failed", "finish"}
           \/ pc = "finish" /\ pc' = "failed"
           \/ pc = "finish" /\ pc' = "published" /\ total = original_len
    BY <1>8 DEF Probe, Finish, Complete
  <2>2. TypeOK' /\ Unfinished' /\ Fresh'
    BY <1>2, <2>1 DEF TypeOK, Unfinished, Fresh
  <2>3. Finished'
    BY <2>1 DEF FramesInv, Finished, FinalIsLast
  <2> QED
    BY <2>1, <2>2, <2>3, SameFrames
<1>9. CASE InputChanges
  <2>1. /\ input' \in 0..MaxInput /\ grown' \in BOOLEAN /\ shrunk' \in BOOLEAN
        /\ UNCHANGED <<chunk_size, original_len, pc, filled, index, total, frames>>
    BY <1>2, <1>9 DEF InputChanges, TypeOK
  <2>2. TypeOK' /\ Unfinished' /\ Fresh' /\ Finished'
    BY <1>2, <2>1 DEF FramesInv, TypeOK, Unfinished, Fresh, Finished, FinalIsLast
  <2> QED
    BY <2>1, <2>2, SameFrames
<1>10. CASE UNCHANGED vars
  <2>1. TypeOK' /\ Unfinished' /\ Fresh' /\ Finished'
    BY <1>2, <1>10 DEF FramesInv, TypeOK, Unfinished, Fresh, Finished, FinalIsLast, vars
  <2> QED
    BY <1>10, <2>1, SameFrames DEF vars
<1> QED
  BY <1>3, <1>4, <1>5, <1>6, <1>7, <1>8, <1>9, <1>10 DEF Next, Seal

\* The inductive invariant of the loop.
LEMMA FramesInvariance == Spec => []FramesInv
BY InitFramesInv, NextFramesInv, PTL DEF Spec

\* Whatever happens to the input while seal reads it, the frames of an archive that is
\* published are what scan_archive_reader accepts, with exactly the declared length.
THEOREM PublishedIsWellFormed == Spec => []StreamInv
<1>1. FramesInv => StreamInv
  <2> SUFFICES ASSUME FramesInv, pc = "published" PROVE InSequence(frames, chunk_size, original_len)
    BY DEF FramesInv, StreamInv, SealedIsWellFormed
  <2>1. total = original_len /\ FinalIsLast
    BY DEF FramesInv, Finished
  <2> QED
    BY <2>1 DEF FramesInv, InSequence, FinalIsLast, Numbered, Sized, Measured
<1> QED
  BY <1>1, FramesInvariance, PTL

\* No two frames of a temporary file have the same index, and so no nonce is used twice
\* (chunk_nonce), however the input is read: checked_add refuses to wrap around.
THEOREM NoNonceTwice == Spec => []NoncesAreUnique
<1>1. FramesInv => NoncesAreUnique
  <2> SUFFICES ASSUME FramesInv, NEW i \in DOMAIN frames, NEW j \in DOMAIN frames,
                      frames[i].index = frames[j].index
               PROVE  i = j
    BY DEF NoncesAreUnique
  <2>1. i \in Int /\ j \in Int
    BY LenProperties DEF FramesInv, TypeOK
  <2>2. i - 1 = j - 1
    BY DEF FramesInv, Numbered
  <2> QED
    BY <2>1, <2>2
<1> QED
  BY <1>1, FramesInvariance, PTL

----------------------------------------------------------------------------
\* Growth that seal does not know of yet will be seen by a read to come.
GrowthInv == grown /\ ~ shrunk => input > original_len /\ (ToBeRead \/ pc = "failed")

\* Every step keeps GrowthInv: the end of the file comes after all of a longer input, and
\* the probe looks for one more byte.
LEMMA NextGrowthInv == FramesInv /\ GrowthInv /\ [Next]_vars => GrowthInv'
<1> SUFFICES ASSUME FramesInv, GrowthInv, [Next]_vars, grown', ~ shrunk'
             PROVE  input' > original_len' /\ (ToBeRead' \/ pc' = "failed")
  BY DEF GrowthInv
<1> USE DEF history, ToBeRead, GrowthInv
<1>1. /\ chunk_size \in Nat \ {0} /\ total \in Nat /\ filled \in Nat /\ original_len \in Nat /\ index \in Nat
      /\ input \in Nat /\ filled <= chunk_size /\ total <= original_len /\ MaxInput \in Nat
  BY SizeAssumption, BoundAssumption DEF FramesInv, TypeOK
<1>2. CASE Metadata
  BY <1>2 DEF Metadata
<1>3. CASE Fill
  <2>1. /\ pc = "fill" /\ pc' \in {"fill", "chunk"}
        /\ UNCHANGED <<input, chunk_size, original_len, index, total, frames, grown, shrunk>>
    BY <1>3 DEF Fill
  <2>2. PICK n \in Nat :
          /\ n = 0 <=> (IF input > total + filled THEN input - (total + filled) ELSE 0) = 0
          /\ filled' = filled + n
    BY <1>1, <1>3 DEF Fill
  <2>3. input > original_len
    BY <2>1
  <2>4. filled' > 0
    BY <1>1, <2>2, <2>3
  <2> QED
    BY <2>1, <2>3, <2>4
<1>4. CASE EndOfInput
  BY <1>1, <1>4 DEF EndOfInput
<1>5. CASE Chunk
  BY <1>1, <1>5 DEF Chunk
<1>6. CASE TooLong \/ CallFails
  BY <1>6 DEF TooLong, CallFails
<1>7. CASE Probe
  <2>1. pc = "probe" /\ total = original_len
    BY <1>7 DEF Probe, FramesInv, Finished
  <2> QED
    BY <1>7, <2>1 DEF Probe, OneMoreByte
<1>8. CASE Finish
  BY <1>8 DEF Finish
<1>9. CASE InputChanges
  <2>1. /\ input' \in Nat
        /\ UNCHANGED <<chunk_size, original_len, pc, filled, index, total, frames>>
    BY <1>1, <1>9 DEF InputChanges
  <2>2. ~ shrunk /\ ~ (input' < input) /\ (grown \/ (ToBeRead /\ input' > original_len))
    BY <1>9, Zenon DEF InputChanges
  <2>3. input' > original_len /\ (ToBeRead \/ pc = "failed")
    BY <1>1, <2>1, <2>2
  <2> QED
    BY <2>1, <2>3
<1>10. CASE UNCHANGED vars
  BY <1>10 DEF vars
<1> QED
  BY <1>2, <1>3, <1>4, <1>5, <1>6, <1>7, <1>8, <1>9, <1>10 DEF Next, Seal

\* An input that grew before the last read of seal, and was not made shorter, is not
\* published: the final frame is followed by a probe.
THEOREM GrowthIsAlwaysNoticed == Spec => []GrowthIsNoticed
<1>1. Init => GrowthInv
  BY DEF Init, GrowthInv
<1>2. GrowthInv => GrowthIsNoticed
  BY DEF GrowthInv, GrowthIsNoticed, ToBeRead
<1> QED
  BY <1>1, <1>2, NextGrowthInv, FramesInvariance, PTL DEF Spec

----------------------------------------------------------------------------
\* Full chunks that do not complete a length are fewer than its chunk count.
LEMMA RoomForOneMore ==
  ASSUME NEW len \in Nat, NEW size \in Nat \ {0}, NEW n \in Nat, n * size < len
  PROVE  n + 1 <= ChunkCount(len, size)
<1> DEFINE q == (len + size - 1) \div size
<1>1. len # 0
  <2>1. n * size >= 0
    OBVIOUS
  <2> QED
    BY <2>1
<1>2. q \in Nat /\ len + size - 1 < (q + 1) * size
  OBVIOUS
<1> HIDE DEF q
<1>3. (n + 1) * size < (q + 1) * size
  <2>1. (n + 1) * size = n * size + size
    OBVIOUS
  <2>2. n * size \in Nat /\ (q + 1) * size \in Nat
    BY <1>2
  <2> QED
    BY <1>2, <2>1, <2>2
<1>4. n + 1 < q + 1
  <2> SUFFICES ASSUME n + 1 >= q + 1 PROVE FALSE
    BY <1>2
  <2>1. PICK k \in Nat : n = q + k
    BY <1>2
  <2>2. (n + 1) * size = (q + 1) * size + k * size /\ k * size >= 0
    BY <1>2, <2>1
  <2> QED
    BY <1>2, <1>3, <2>2
<1> QED
  BY <1>1, <1>2, <1>4 DEF ChunkCount, q

\* validate_archive_geometry has accepted the length in the header.
Admitted == pc \notin {"metadata", "failed"} => ChunkCount(original_len, chunk_size) <= MaxChunks

\* While the input does not become shorter every frame but the last is full.
LimitInv ==
    ~ shrunk =>
        /\ pc # "metadata" => input >= original_len
        /\ pc \in {"fill", "chunk"} => total = index * chunk_size
        /\ pc = "chunk" => filled = chunk_size \/ total + filled >= original_len
        /\ pc \in {"probe", "finish", "published"} /\ total = original_len => WithinLimit(frames)

\* A chunk that is not full completes the length: read_chunk fills the buffer.
LEMMA ChunkKeepsLimit ==
  ASSUME FramesInv, Admitted, LimitInv, Chunk, ~ shrunk'
  PROVE  LimitInv'
<1> DEFINE f == [index |-> index, plain_len |-> filled, is_final |-> total' = original_len]
<1>1. /\ chunk_size \in Nat \ {0} /\ MaxInput \in Nat /\ MaxIndex \in Nat /\ input \in Nat
      /\ total \in Nat /\ filled \in Nat /\ original_len \in Nat /\ index \in Nat
      /\ filled <= chunk_size /\ original_len <= MaxInput /\ index <= MaxIndex
  BY SizeAssumption, BoundAssumption DEF FramesInv, TypeOK
<1>2. /\ pc = "chunk" /\ filled > 0 /\ total + filled <= original_len
      /\ total' = total + filled /\ filled' = 0 /\ frames' = Append(frames, f)
      /\ original_len' = original_len /\ chunk_size' = chunk_size /\ input' = input /\ shrunk' = shrunk
  BY DEF Chunk, WithinLength, Emit, history
<1>3. \/ index' = index + 1 /\ pc' = IF total' = original_len THEN "probe" ELSE "fill"
      \/ pc' = "failed"
  BY <1>1 DEF Chunk, NextIndex
<1>4. /\ input >= original_len /\ total = index * chunk_size
      /\ filled = chunk_size \/ total + filled >= original_len
  BY <1>2 DEF LimitInv
<1>5. Len(frames') = index + 1
  <2>1. f \in Frame
    BY <1>1, <1>2 DEF Frame
  <2>2. Len(frames) = index /\ frames \in Seq(Frame)
    BY <1>2 DEF FramesInv, Unfinished, TypeOK
  <2> QED
    BY <1>2, <2>1, <2>2, FramesAppended
<1>6. WithinLimit(frames')
  <2>1. index * chunk_size < original_len
    BY <1>1, <1>2, <1>4
  <2>2. index + 1 <= ChunkCount(original_len, chunk_size)
    BY <1>1, <2>1, RoomForOneMore
  <2>3. ChunkCount(original_len, chunk_size) \in Nat
    BY <1>1 DEF ChunkCount
  <2> QED
    BY <1>1, <1>2, <1>5, <2>2, <2>3, BoundAssumption DEF Admitted, WithinLimit
<1>7. ASSUME pc' = "fill" PROVE total' = index' * chunk_size
  <2>1. index' = index + 1 /\ filled = chunk_size
    BY <1>1, <1>2, <1>3, <1>4, <1>7
  <2> QED
    BY <1>1, <1>2, <1>4, <2>1
<1> QED
  BY <1>2, <1>3, <1>4, <1>6, <1>7 DEF LimitInv

\* Every step keeps LimitInv.
LEMMA NextLimitInv == FramesInv /\ Admitted /\ LimitInv /\ [Next]_vars => Admitted' /\ LimitInv'
<1> SUFFICES ASSUME FramesInv, Admitted, LimitInv, [Next]_vars PROVE Admitted' /\ LimitInv'
  OBVIOUS
<1> USE DEF history
<1>1. /\ chunk_size \in Nat \ {0} /\ total \in Nat /\ filled \in Nat /\ original_len \in Nat /\ index \in Nat
      /\ input \in Nat /\ filled <= chunk_size /\ total <= original_len /\ MaxInput \in Nat /\ MaxChunks \in Nat
  BY SizeAssumption, BoundAssumption DEF FramesInv, TypeOK
<1>2. CASE Metadata
  <2>1. /\ pc = "metadata" /\ original_len' = input /\ pc' \in {"fill", "failed"}
        /\ UNCHANGED <<input, chunk_size, filled, index, total, frames, grown, shrunk>>
        /\ pc' = "fill" => ChunkCount(input, chunk_size) <= MaxChunks
    BY <1>2 DEF Metadata
  <2>2. index = 0 /\ total = 0
    BY <2>1 DEF FramesInv, Fresh
  <2>3. 0 = 0 * chunk_size
    BY <1>1
  <2> QED
    BY <1>1, <2>1, <2>2, <2>3 DEF Admitted, LimitInv
<1>3. CASE Fill
  <2>1. /\ pc = "fill" /\ pc' \in {"fill", "chunk"}
        /\ UNCHANGED <<input, chunk_size, original_len, index, total, frames, grown, shrunk>>
    BY <1>3 DEF Fill
  <2>2. PICK n \in Nat :
          /\ n = 0 <=> (IF input > total + filled THEN input - (total + filled) ELSE 0) = 0
          /\ filled' = filled + n
          /\ pc' = "chunk" => n = 0 \/ filled + n = chunk_size
    BY <1>1, <1>3 DEF Fill, CompletesChunk
  <2>3. ASSUME ~ shrunk, pc' = "chunk" PROVE filled' = chunk_size \/ total + filled' >= original_len
    <3>1. input >= original_len
      BY <2>1, <2>3 DEF LimitInv
    <3> QED
      BY <1>1, <2>2, <2>3, <3>1
  <2>4. Admitted'
    BY <2>1 DEF Admitted
  <2>5. LimitInv'
    BY <2>1, <2>3 DEF LimitInv
  <2> QED
    BY <2>4, <2>5
<1>4. CASE EndOfInput
  <2>1. /\ pc = "chunk" /\ filled = 0 /\ pc' = "finish"
        /\ UNCHANGED <<input, chunk_size, original_len, filled, index, total, grown, shrunk>>
    BY <1>4 DEF EndOfInput, AfterEnd
  <2>2. Len(frames) = index /\ frames \in Seq(Frame) /\ (index = 0 \/ total < original_len)
    BY <2>1 DEF FramesInv, Unfinished, TypeOK
  <2>3. ASSUME total = original_len PROVE WithinLimit(frames')
    <3>1. index = 0
      BY <1>1, <2>2, <2>3
    <3>2. frames' = Append(frames, [index |-> 0, plain_len |-> 0, is_final |-> TRUE])
      BY <1>4, <3>1 DEF EndOfInput, Emit
    <3>3. [index |-> 0, plain_len |-> 0, is_final |-> TRUE] \in Frame
      BY BoundAssumption DEF Frame
    <3>4. Len(frames') = 1
      BY <2>2, <3>1, <3>2, <3>3, FramesAppended
    <3> QED
      BY <3>4, BoundAssumption DEF WithinLimit
  <2> QED
    BY <2>1, <2>3 DEF Admitted, LimitInv
<1>5. CASE Chunk
  <2>1. Admitted'
    BY <1>5 DEF Chunk, Admitted
  <2>2. ~ shrunk' => LimitInv'
    BY <1>5, ChunkKeepsLimit
  <2> QED
    BY <2>1, <2>2 DEF LimitInv
<1>6. CASE TooLong \/ CallFails
  <2>1. /\ pc' = "failed" /\ pc # "failed"
        /\ UNCHANGED <<input, chunk_size, original_len, filled, index, total, frames, grown, shrunk>>
    BY <1>6 DEF TooLong, CallFails
  <2>2. ~ shrunk => input >= original_len
    BY <1>1, <2>1 DEF LimitInv, FramesInv, Fresh, TypeOK
  <2> QED
    BY <2>1, <2>2 DEF Admitted, LimitInv
<1>7. CASE Probe \/ Finish
  <2>1. /\ UNCHANGED <<input, chunk_size, original_len, filled, index, total, frames, grown, shrunk>>
        /\ pc \in {"probe", "finish"} /\ pc' \in {"failed", "finish", "published"}
    BY <1>7 DEF Probe, Finish
  <2> QED
    BY <2>1 DEF Admitted, LimitInv, WithinLimit
<1>8. CASE InputChanges
  <2>1. /\ input' \in Nat
        /\ UNCHANGED <<chunk_size, original_len, pc, filled, index, total, frames>>
    BY <1>1, <1>8 DEF InputChanges
  <2>2. ~ shrunk' => ~ shrunk /\ ~ (input' < input)
    BY <1>8, Zenon DEF InputChanges
  <2>3. Admitted'
    BY <2>1 DEF Admitted
  <2>4. LimitInv'
    BY <1>1, <2>1, <2>2 DEF LimitInv, WithinLimit
  <2> QED
    BY <2>3, <2>4
<1>9. CASE UNCHANGED vars
  BY <1>9 DEF vars, Admitted, LimitInv, WithinLimit
<1> QED
  BY <1>2, <1>3, <1>4, <1>5, <1>6, <1>7, <1>8, <1>9 DEF Next, Seal

\* An archive sealed from an input that never becomes shorter has at most MAX_DATA_CHUNKS
\* frames, however short the reads are: read_chunk and validate_archive_geometry.
THEOREM GrowingKeepsLimit == Spec => []GrowingWithinLimit
<1>1. Init => Admitted /\ LimitInv
  BY DEF Init, Admitted, LimitInv
<1>2. FramesInv /\ LimitInv => GrowingWithinLimit
  BY DEF FramesInv, Finished, LimitInv, GrowingWithinLimit
<1> QED
  BY <1>1, <1>2, NextLimitInv, FramesInvariance, PTL DEF Spec
=============================================================================

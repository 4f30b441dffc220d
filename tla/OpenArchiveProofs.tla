------------------------- MODULE OpenArchiveProofs -------------------------
(***************************************************************************)
(* What is proved of open, verify and provenance-verify, for any archives, *)
(* signers and limits, and whatever the medium returns.                    *)
(*                                                                         *)
(* RestoringInv follows the reader: with the keys, the header names the    *)
(* archive and the index of a frame its place in it, so what was decrypted *)
(* is the beginning of one archive, and a final frame is its end.  Signed  *)
(* and Timely add the signature and the policy.  SoundInv is about a       *)
(* medium that returns an archive unchanged; it needs the lengths of the   *)
(* frames to add up.  The sum is a fold: that it grows with an appended    *)
(* length is shown with a function (Adding) that exists for every          *)
(* sequence, or there were a shortest one without it.                      *)
(*                                                                         *)
(* OneDecision maps the reader to Restoration: only its last step shows.   *)
(* With the keys what it approves is one archive; without them it is the   *)
(* envelope that was signed, of which nothing more is known.               *)
(***************************************************************************)
EXTENDS OpenArchive, SequenceTheorems, FiniteSetTheorems, WellFoundedInduction, TLAPS

\* A set of numbers that is not empty has a least one.
LEMMA LeastOf ==
  ASSUME NEW S \in SUBSET Nat, S # {}
  PROVE  \E m \in S : \A k \in S : m <= k
<1> DEFINE below == OpToRel(<, Nat)
<1>1. IsWellFoundedOn(below, Nat)
  BY NatLessThanWellFounded
<1>2. \A k, m \in Nat : k < m => <<k, m>> \in below
  BY DEF OpToRel
<1> HIDE DEF below
<1>3. PICK m \in S : \A k \in S : ~ (<<k, m>> \in below)
  BY <1>1, WFMin
<1>4. ASSUME NEW k \in S PROVE m <= k
  <2>1. k \in Nat /\ m \in Nat /\ ~ (k < m)
    BY <1>2, <1>3
  <2> QED
    BY <2>1
<1> QED
  BY <1>4

\* g gives the sum of any set of the numbers of lens, taken in any order.
Adding(g, lens) ==
    /\ g = [s \in SUBSET DOMAIN lens |-> g[s]]
    /\ g[{}] = 0
    /\ \A s \in SUBSET DOMAIN lens : g[s] \in Nat
    /\ \A s \in SUBSET DOMAIN lens : \A i \in s : g[s] = lens[i] + g[s \ {i}]

Summable(lens) == \E g : Adding(g, lens)

\* The fold computes the sum, in whatever order it takes the numbers.
LEMMA SumIs ==
  ASSUME NEW lens \in Seq(Nat), NEW g, Adding(g, lens)
  PROVE  SumOf(lens) = g[DOMAIN lens]
<1> DEFINE D == DOMAIN lens
           Pick(s) == CHOOSE x \in s : TRUE
           Sums(h) == h = [s \in SUBSET D |-> IF s = {} THEN 0 ELSE lens[Pick(s)] + h[s \ {Pick(s)}]]
           iter == CHOOSE h : Sums(h)
           wrong == {s \in SUBSET D : iter[s] # g[s]}
<1>1. SumOf(lens) = iter[D]
  BY DEF SumOf, FoldSeq, FoldFunction, FoldFunctionOnSet, MapThenFoldSet
<1>2. \A s \in SUBSET D : s # {} => Pick(s) \in s /\ s \ {Pick(s)} \in SUBSET D
  OBVIOUS
<1>3. IsFiniteSet(D)
  BY LenProperties, FS_Interval
<1> HIDE DEF Pick, D
<1>4. Sums(g)
  <2>1. g = [s \in SUBSET D |-> g[s]]
    BY DEF Adding, D
  <2>2. \A s \in SUBSET D : g[s] = IF s = {} THEN 0 ELSE lens[Pick(s)] + g[s \ {Pick(s)}]
    BY <1>2 DEF Adding, D
  <2>3. [s \in SUBSET D |-> g[s]]
          = [s \in SUBSET D |-> IF s = {} THEN 0 ELSE lens[Pick(s)] + g[s \ {Pick(s)}]]
    BY <2>2
  <2> QED
    BY <2>1, <2>3
<1>5. Sums(iter)
  BY <1>4
<1> HIDE DEF iter
<1>6. wrong = {}
  <2> SUFFICES ASSUME wrong # {} PROVE FALSE
    OBVIOUS
  <2>1. IsWellFoundedOn(StrictSubsetOrdering(D), SUBSET D)
    BY <1>3, FS_StrictSubsetOrderingWellFounded, FS_FiniteSubsetsOfFinite
  <2>2. wrong \subseteq SUBSET D
    OBVIOUS
  <2> HIDE DEF wrong
  <2>3. PICK s \in wrong : \A t \in wrong : ~ (<<t, s>> \in StrictSubsetOrdering(D))
    BY <2>1, <2>2, WFMin
  <2>4. s \in SUBSET D /\ iter[s] # g[s]
    BY <2>3 DEF wrong
  <2>5. CASE s = {}
    BY <1>4, <1>5, <2>4, <2>5
  <2>6. CASE s # {}
    <3>1. Pick(s) \in s /\ s \ {Pick(s)} \in SUBSET D
      BY <1>2, <2>4, <2>6
    <3>2. <<s \ {Pick(s)}, s>> \in StrictSubsetOrdering(D)
      <4>1. s \ {Pick(s)} # s
        BY <3>1
      <4> QED
        BY <2>4, <3>1, <4>1 DEF StrictSubsetOrdering
    <3>3. iter[s \ {Pick(s)}] = g[s \ {Pick(s)}]
      BY <2>3, <3>1, <3>2 DEF wrong
    <3>4. iter[s] = lens[Pick(s)] + iter[s \ {Pick(s)}]
      BY <1>5, <2>4, <2>6
    <3>5. g[s] = lens[Pick(s)] + g[s \ {Pick(s)}]
      BY <1>4, <2>4, <2>6
    <3> QED
      BY <2>4, <3>3, <3>4, <3>5
  <2> QED
    BY <2>5, <2>6
<1>7. D \notin wrong
  BY <1>6
<1> QED
  BY <1>1, <1>7 DEF D

\* No lengths add up to nothing.
LEMMA SumOfEmpty == Summable(<<>>) /\ SumOf(<<>>) = 0
<1> DEFINE g == [s \in SUBSET DOMAIN <<>> |-> 0]
<1>1. DOMAIN <<>> = {}
  OBVIOUS
<1>2. Adding(g, <<>>) /\ g[DOMAIN <<>>] = 0
  BY <1>1 DEF Adding
<1>3. <<>> \in Seq(Nat)
  OBVIOUS
<1> HIDE DEF g
<1>4. SumOf(<<>>) = 0
  BY <1>2, <1>3, SumIs
<1> QED
  BY <1>2, <1>4 DEF Summable

\* One more length is added.
LEMMA SummableAppend ==
  ASSUME NEW lens \in Seq(Nat), NEW x \in Nat, Summable(lens)
  PROVE  Summable(Append(lens, x)) /\ SumOf(Append(lens, x)) = SumOf(lens) + x
<1> DEFINE more == Append(lens, x)
           n == Len(lens) + 1
<1>1. PICK g : Adding(g, lens)
  BY DEF Summable
<1> DEFINE h == [s \in SUBSET DOMAIN more |-> IF n \in s THEN g[s \ {n}] + x ELSE g[s]]
<1>2. /\ DOMAIN lens = 1..Len(lens) /\ Len(lens) \in Nat
      /\ DOMAIN more = 1..n /\ more[n] = x /\ more \in Seq(Nat)
      /\ \A i \in DOMAIN lens : more[i] = lens[i] /\ lens[i] \in Nat
  <2>1. DOMAIN lens = 1..Len(lens) /\ Len(lens) \in Nat
    BY LenProperties
  <2>2. more \in Seq(Nat) /\ Len(more) = n /\ more[n] = x /\ \A i \in 1..Len(lens) : more[i] = lens[i]
    BY AppendProperties
  <2>3. DOMAIN more = 1..n
    BY <2>2, LenProperties
  <2>4. \A i \in DOMAIN lens : lens[i] \in Nat
    BY <2>1, ElementOfSeq
  <2> QED
    BY <2>1, <2>2, <2>3, <2>4
<1>3. DOMAIN more = DOMAIN lens \cup {n} /\ n \notin DOMAIN lens
  BY <1>2
<1> HIDE DEF more, n
<1>4. ASSUME NEW s \in SUBSET DOMAIN more PROVE s \ {n} \in SUBSET DOMAIN lens /\ h[s] \in Nat
  <2>1. s \ {n} \in SUBSET DOMAIN lens /\ (n \notin s => s \in SUBSET DOMAIN lens)
    BY <1>3
  <2>2. g[s \ {n}] \in Nat /\ (n \notin s => g[s] \in Nat)
    BY <1>1, <2>1 DEF Adding
  <2> QED
    BY <2>1, <2>2
<1>5. Adding(h, more)
  <2>1. h[{}] = 0
    BY <1>1 DEF Adding
  <2>2. ASSUME NEW s \in SUBSET DOMAIN more, NEW i \in s
        PROVE  h[s] = more[i] + h[s \ {i}]
    <3>1. s \ {i} \in SUBSET DOMAIN more /\ s \ {n} \in SUBSET DOMAIN lens
      BY <1>4
    <3>2. CASE i = n
      <4>1. h[s] = g[s \ {n}] + x /\ h[s \ {i}] = g[s \ {n}]
        BY <3>1, <3>2
      <4>2. g[s \ {n}] \in Nat
        BY <1>1, <3>1 DEF Adding
      <4> QED
        BY <1>2, <3>2, <4>1, <4>2
    <3>3. CASE i # n /\ n \in s
      <4>1. h[s] = g[s \ {n}] + x /\ h[s \ {i}] = g[(s \ {i}) \ {n}] + x
        BY <3>1, <3>3
      <4>2. (s \ {i}) \ {n} = (s \ {n}) \ {i} /\ i \in s \ {n} /\ (s \ {n}) \ {i} \in SUBSET DOMAIN lens
        BY <3>1, <3>3
      <4>3. g[s \ {n}] = lens[i] + g[(s \ {n}) \ {i}] /\ g[(s \ {n}) \ {i}] \in Nat
        BY <1>1, <3>1, <4>2 DEF Adding
      <4>4. more[i] = lens[i] /\ lens[i] \in Nat
        BY <1>2, <3>1, <4>2
      <4> HIDE DEF h
      <4>5. h[s \ {i}] = g[(s \ {n}) \ {i}] + x
        BY <4>1, <4>2
      <4> QED
        BY <4>1, <4>3, <4>4, <4>5
    <3>4. CASE n \notin s
      <4>1. s \in SUBSET DOMAIN lens /\ i \in DOMAIN lens
        BY <1>3, <3>4
      <4>2. h[s] = g[s] /\ h[s \ {i}] = g[s \ {i}]
        BY <3>1, <3>4
      <4>3. g[s] = lens[i] + g[s \ {i}]
        BY <1>1, <4>1 DEF Adding
      <4> QED
        BY <1>2, <4>1, <4>2, <4>3
    <3> QED
      BY <3>2, <3>3, <3>4
  <2>3. h = [s \in SUBSET DOMAIN more |-> h[s]]
    OBVIOUS
  <2>4. \A s \in SUBSET DOMAIN more : h[s] \in Nat
    BY <1>4
  <2> HIDE DEF h
  <2> QED
    BY <2>1, <2>2, <2>3, <2>4 DEF Adding
<1>6. h[DOMAIN more] = g[DOMAIN lens] + x
  <2>1. DOMAIN more \ {n} = DOMAIN lens /\ n \in DOMAIN more
    BY <1>3
  <2> QED
    BY <2>1
<1> HIDE DEF h
<1>7. SumOf(more) = h[DOMAIN more]
  BY <1>2, <1>5, SumIs
<1>8. SumOf(lens) = g[DOMAIN lens]
  BY <1>1, SumIs
<1>9. SumOf(more) = SumOf(lens) + x /\ Summable(more)
  BY <1>5, <1>6, <1>7, <1>8 DEF Summable
<1> QED
  BY <1>9 DEF more

\* All lengths can be added up: a shortest sequence for which they could not is
\* not empty, and without its last element it would be shorter.
LEMMA AllSummable == \A lens \in Seq(Nat) : Summable(lens)
<1> DEFINE bad == {lens \in Seq(Nat) : ~ Summable(lens)}
           S == {Len(lens) : lens \in bad}
<1> SUFFICES ASSUME bad # {} PROVE FALSE
  OBVIOUS
<1>1. S \in SUBSET Nat /\ S # {}
  BY LenProperties
<1>2. PICK m \in S : \A k \in S : m <= k
  BY <1>1, LeastOf
<1>3. PICK lens \in bad : Len(lens) = m
  BY <1>2
<1>4. lens # <<>>
  BY <1>3, SumOfEmpty
<1>5. PICK front \in Seq(Nat), x \in Nat : lens = Append(front, x)
  BY <1>3, <1>4, SequenceEmptyOrAppend
<1>6. Len(front) \in Nat /\ m = Len(front) + 1
  BY <1>3, <1>5, AppendProperties, LenProperties
<1>7. Len(front) \notin S
  <2>1. ASSUME Len(front) \in S PROVE FALSE
    <3>1. m <= Len(front)
      BY <1>2, <2>1
    <3> QED
      BY <1>6, <3>1
  <2> QED
    BY <2>1
<1>8. Summable(front)
  BY <1>7
<1>9. Summable(lens)
  BY <1>5, <1>8, SummableAppend
<1> QED
  BY <1>3, <1>9

\* The sum of lengths is a length.
LEMMA SumProperties ==
  ASSUME NEW lens \in Seq(Nat)
  PROVE  /\ SumOf(lens) \in Nat
         /\ \A x \in Nat : SumOf(Append(lens, x)) = SumOf(lens) + x
<1>1. PICK g : Adding(g, lens)
  BY AllSummable DEF Summable
<1>2. SumOf(lens) = g[DOMAIN lens]
  BY <1>1, SumIs
<1>3. g[DOMAIN lens] \in Nat
  BY <1>1 DEF Adding
<1> QED
  BY <1>2, <1>3, AllSummable, SummableAppend

\* The beginning of a sequence, and what it lacks.
LEMMA PrefixProperties ==
  ASSUME NEW T, NEW s \in Seq(T), NEW n \in 0..Len(s)
  PROVE  /\ SubSeq(s, 1, n) \in Seq(T) /\ Len(SubSeq(s, 1, n)) = n
         /\ \A i \in 1..n : SubSeq(s, 1, n)[i] = s[i]
<1>1. Len(s) \in Nat /\ n \in Nat /\ n <= Len(s)
  BY LenProperties
<1>2. \A i \in 1..n : s[i] \in T
  BY <1>1, ElementOfSeq
<1>3. /\ SubSeq(s, 1, n) \in Seq(T) /\ Len(SubSeq(s, 1, n)) = IF 1 <= n THEN n - 1 + 1 ELSE 0
      /\ \A i \in 1..n - 1 + 1 : SubSeq(s, 1, n)[i] = s[1 + i - 1]
  BY <1>1, <1>2, SubSeqProperties
<1> QED
  BY <1>1, <1>3

\* The plaintext length of the first n frames of an archive.
LenOfFirst(a, n) == SumOf(SubSeq(Lens[a], 1, n))

\* Every frame adds its length to that of the ones before it.
LEMMA FirstLengths ==
  ASSUME NEW a \in Archive
  PROVE  /\ LenOfFirst(a, 0) = 0
         /\ \A n \in 0..Len(Lens[a]) : LenOfFirst(a, n) \in Nat
         /\ \A n \in 0..Len(Lens[a]) - 1 : LenOfFirst(a, n + 1) = LenOfFirst(a, n) + Lens[a][n + 1]
         /\ LenOfFirst(a, Len(Lens[a])) = SumOf(Lens[a])
<1> DEFINE s == Lens[a]
<1>1. s \in Seq(Nat) /\ Len(s) \in Nat
  <2>1. 0..ChunkSize \subseteq Nat
    BY ArchiveAssumption
  <2> QED
    BY <2>1, ArchiveAssumption, SeqMonotonic, LenProperties
<1>2. LenOfFirst(a, 0) = 0
  <2>1. SubSeq(s, 1, 0) = <<>>
    BY SubSeqEmpty
  <2> QED
    BY <2>1, SumOfEmpty DEF LenOfFirst
<1>3. \A n \in 0..Len(s) : LenOfFirst(a, n) \in Nat
  BY <1>1, PrefixProperties, SumProperties DEF LenOfFirst
<1>4. ASSUME NEW n \in 0..Len(s) - 1
      PROVE  LenOfFirst(a, n + 1) = LenOfFirst(a, n) + s[n + 1]
  <2> DEFINE p == SubSeq(s, 1, n)
  <2>1. n \in 0..Len(s) /\ n + 1 \in 0..Len(s) /\ n + 1 \in 1..Len(s) /\ n \in Nat
    BY <1>1
  <2>2. p \in Seq(Nat) /\ Len(p) = n /\ \A i \in 1..n : p[i] = s[i]
    BY <1>1, <2>1, PrefixProperties
  <2>3. s[n + 1] \in Nat
    BY <1>1, <2>1, ElementOfSeq
  <2>4. /\ Append(p, s[n + 1]) \in Seq(Nat) /\ Len(Append(p, s[n + 1])) = n + 1
        /\ Append(p, s[n + 1])[n + 1] = s[n + 1] /\ \A i \in 1..n : Append(p, s[n + 1])[i] = s[i]
    BY <2>2, <2>3, AppendProperties
  <2>5. /\ SubSeq(s, 1, n + 1) \in Seq(Nat) /\ Len(SubSeq(s, 1, n + 1)) = n + 1
        /\ \A i \in 1..n + 1 : SubSeq(s, 1, n + 1)[i] = s[i]
    BY <1>1, <2>1, PrefixProperties
  <2>6. \A i \in 1..n + 1 : Append(p, s[n + 1])[i] = s[i]
    BY <2>1, <2>4
  <2>7. SubSeq(s, 1, n + 1) = Append(p, s[n + 1])
    BY <2>4, <2>5, <2>6, SeqEqual
  <2> QED
    BY <2>2, <2>3, <2>7, SumProperties DEF LenOfFirst
<1>5. LenOfFirst(a, Len(s)) = SumOf(s)
  BY <1>1, SubSeqFull DEF LenOfFirst
<1> QED
  BY <1>2, <1>3, <1>4, <1>5

\* No beginning of an archive is longer than the archive, and it is at most as
\* long as its frames can be.
LEMMA LengthBounds ==
  ASSUME NEW a \in Archive
  PROVE  /\ \A n \in 0..Len(Lens[a]) : LenOfFirst(a, n) <= SumOf(Lens[a])
         /\ SumOf(Lens[a]) \in 0..MaxLen
<1> DEFINE s == Lens[a]
           T(n) == LenOfFirst(a, n)
           B(n) == ChunkSize * n
           longer == {n \in 0..Len(s) : T(n) > SumOf(s)}
           bigger == {n \in 0..Len(s) : T(n) > B(n)}
<1>1. /\ s \in Seq(0..ChunkSize) /\ Len(s) \in Nat /\ Len(s) <= MaxChunks /\ ChunkSize \in Nat /\ MaxChunks \in Nat
      /\ \A n \in 1..Len(s) : s[n] \in Nat /\ s[n] <= ChunkSize
  <2>1. s \in Seq(0..ChunkSize) /\ Len(s) \in Nat /\ Len(s) <= MaxChunks /\ ChunkSize \in Nat /\ MaxChunks \in Nat
    BY ArchiveAssumption, LenProperties
  <2> QED
    BY <2>1, ElementOfSeq
<1>2. /\ T(0) = 0 /\ T(Len(s)) = SumOf(s)
      /\ \A n \in 0..Len(s) : T(n) \in Nat
      /\ \A n \in 0..Len(s) - 1 : T(n + 1) = T(n) + s[n + 1]
  BY FirstLengths
<1> HIDE DEF T
<1>3. \A n \in Nat : B(n) \in Nat /\ B(n + 1) = B(n) + ChunkSize
  BY <1>1
<1>4. ASSUME NEW n \in Nat, NEW d \in Nat PROVE B(n) <= B(n + d)
  <2>1. B(n + d) = B(n) + B(d)
    BY <1>1
  <2>2. B(n) \in Nat /\ B(d) \in Nat
    BY <1>3
  <2> HIDE DEF B
  <2> QED
    BY <2>1, <2>2
<1> HIDE DEF B
<1>5. longer = {}
  <2> SUFFICES ASSUME longer # {} PROVE FALSE
    OBVIOUS
  <2> DEFINE left == {Len(s) - n : n \in longer}
  <2>1. left \in SUBSET Nat /\ left # {}
    <3>1. \A n \in longer : n \in 0..Len(s)
      OBVIOUS
    <3> HIDE DEF longer
    <3>2. \A n \in longer : Len(s) - n \in Nat
      BY <1>1, <3>1
    <3> QED
      BY <3>2
  <2>2. PICK m \in left : \A k \in left : m <= k
    BY <2>1, LeastOf
  <2>3. PICK n \in longer : m = Len(s) - n
    BY <2>2
  <2>4. n # Len(s) /\ n \in 0..Len(s) - 1 /\ n + 1 \in 1..Len(s) /\ n + 1 \in 0..Len(s)
    BY <1>1, <1>2, <2>3
  <2>5. T(n + 1) = T(n) + s[n + 1] /\ T(n) \in Nat /\ s[n + 1] \in Nat /\ T(n + 1) \in Nat
    BY <1>1, <1>2, <2>4
  <2>6. SumOf(s) \in Nat
    BY <1>1, <1>2
  <2>7. n + 1 \in longer
    BY <2>3, <2>4, <2>5, <2>6
  <2>8. Len(s) - (n + 1) \in left
    <3> HIDE DEF longer
    <3> QED
      BY <2>7
  <2>9. m <= Len(s) - (n + 1)
    <3> HIDE DEF left
    <3> QED
      BY <2>2, <2>8
  <2> QED
    BY <1>1, <2>3, <2>4, <2>9
<1>6. bigger = {}
  <2> SUFFICES ASSUME bigger # {} PROVE FALSE
    OBVIOUS
  <2>1. bigger \in SUBSET Nat
    BY <1>1
  <2>2. PICK m \in bigger : \A k \in bigger : m <= k
    BY <2>1, LeastOf
  <2>3. m # 0 /\ m \in Nat /\ m - 1 \in 0..Len(s) - 1 /\ m \in 1..Len(s) /\ m - 1 \in 0..Len(s)
    <3>1. m \in 0..Len(s) /\ T(m) > B(m)
      BY <2>2
    <3>2. B(0) \in Nat
      BY <1>3
    <3> QED
      BY <1>1, <1>2, <3>1, <3>2
  <2>4. T(m) = T(m - 1) + s[m] /\ T(m - 1) \in Nat /\ s[m] \in Nat /\ s[m] <= ChunkSize
    <3>1. T((m - 1) + 1) = T(m - 1) + s[(m - 1) + 1] /\ (m - 1) + 1 = m
      BY <1>2, <2>3
    <3> QED
      BY <1>1, <1>2, <2>3, <3>1
  <2>5. m - 1 \notin bigger
    <3>1. ASSUME m - 1 \in bigger PROVE FALSE
      <4>1. m <= m - 1
        <5> HIDE DEF bigger
        <5> QED
          BY <2>2, <3>1
      <4> QED
        BY <2>3, <4>1
    <3> QED
      BY <3>1
  <2>6. B(m - 1) \in Nat /\ B(m) = B(m - 1) + ChunkSize
    <3>1. (m - 1) + 1 = m /\ m - 1 \in Nat
      BY <2>3
    <3> QED
      BY <1>3, <3>1
  <2>7. T(m - 1) <= B(m - 1)
    BY <2>3, <2>4, <2>5, <2>6
  <2>8. T(m) > B(m)
    BY <2>2
  <2> QED
    BY <1>1, <2>4, <2>6, <2>7, <2>8
<1>7. ASSUME NEW n \in 0..Len(s) PROVE T(n) <= SumOf(s)
  <2>1. ~ (T(n) > SumOf(s))
    BY <1>5
  <2>2. T(n) \in Nat /\ SumOf(s) \in Nat
    <3>1. Len(s) \in 0..Len(s)
      BY <1>1
    <3> QED
      BY <1>2, <3>1
  <2> HIDE DEF s
  <2> QED
    BY <2>1, <2>2
<1>8. SumOf(s) \in 0..MaxLen
  <2>1. Len(s) \in 0..Len(s)
    BY <1>1
  <2>2. SumOf(s) \in Nat /\ B(Len(s)) \in Nat /\ SumOf(s) <= B(Len(s))
    <3>1. SumOf(s) = T(Len(s)) /\ T(Len(s)) \in Nat /\ B(Len(s)) \in Nat
      BY <1>1, <1>2, <1>3, <2>1
    <3>2. ~ (T(Len(s)) > B(Len(s)))
      BY <1>6, <2>1
    <3> QED
      BY <3>1, <3>2
  <2>3. MaxChunks - Len(s) \in Nat /\ Len(s) + (MaxChunks - Len(s)) = MaxChunks
    BY <1>1
  <2>4. B(Len(s)) <= B(MaxChunks) /\ B(MaxChunks) \in Nat
    BY <1>1, <1>3, <1>4, <2>3
  <2> QED
    BY <2>2, <2>4 DEF MaxLen, B
<1> QED
  BY <1>7, <1>8 DEF T

----------------------------------------------------------------------------
(* The invariant.                                                          *)

\* The part of the archive that is read, or was when the reader came to its end.
Accepted == pc \in {"trailer", "signature", "policy", "recheck", "commit"} \/ Released

\* Nothing is reported or published before the end, and only open publishes.
Ended ==
    /\ outcome # "none" => pc = "end"
    /\ dest = "ours" => outcome \in {"ok", "unconfirmed"}
    /\ pc \in {"recheck", "commit"} => options.mode = "open"

\* Before the first frame there is nothing; the first is read after a header
\* that the reader accepts.
Begun ==
    /\ pc \in {"start", "header"} => header = Nothing /\ frames = <<>> /\ total = 0 /\ staged = <<>>
    /\ pc = "frames" => header \in Headers /\ HeaderAccepted(header)
    /\ pc = "start" => sound

\* What is decrypted are the first frames of the archive in the header.
FirstFrames(a) ==
    /\ Len(frames) <= Len(Lens[a])
    /\ \A i \in 1..Len(frames) : frames[i] = Frames(a)[i]

Decrypted ==
    IF Decrypts
    THEN /\ Len(staged) = Len(frames)
         /\ frames # <<>> =>
               /\ options.keys_fit
               /\ \E a \in Archive :
                     header = Header(a) /\ FirstFrames(a) /\ \A i \in 1..Len(frames) : staged[i] = <<a, i>>
    ELSE staged = <<>>

\* What was read is complete when the reader goes on to the trailer.
Complete ==
    Accepted => /\ header \in Headers /\ total = header.original_len
                /\ frames # <<>> /\ frames[Len(frames)].is_final

RestoringInv == TypeOK /\ Ended /\ Begun /\ Decrypted /\ Complete

\* Where a restore stands once the archive, and the signer if required, were
\* accepted.
Vetted == pc \in {"recheck", "commit"} \/ Released

\* A signature that was found good still is: what it covers does not change.
Signed ==
    /\ pc \in {"signature", "policy"} => options.require_provenance
    /\ pc = "policy" \/ (Vetted /\ options.require_provenance) => Verifies

\* The status that the policy shows while the signer has not been looked up is
\* in seen, and so is the one that was accepted.
AcceptableSeen == "trusted" \in seen \/ ("retired" \in seen /\ options.allow_retired)

Timely ==
    /\ pc \in {"signature", "policy"} => status \in seen
    /\ Vetted /\ options.require_provenance => AcceptableSeen

\* A medium that returned the archive unchanged has returned this much of it.
Unchanged ==
    /\ sound /\ pc = "frames" =>
          \E a \in Archive : /\ header = Header(a) /\ FirstFrames(a) /\ Len(frames) < Len(Lens[a])
                             /\ total = LenOfFirst(a, Len(frames))
    /\ sound /\ pc \in {"trailer", "signature"} =>
          \E a \in Archive : /\ header = Header(a) /\ frames = Frames(a) /\ total = SumOf(Lens[a])
    /\ sound /\ pc = "signature" => trailer # Nothing /\ TrailerInOrder(trailer)

SoundInv == Unchanged /\ NoFalseAlarm

\* The frames that both readers take.
Short == {f \in Frame : f.plain_len <= ChunkSize}

\* What is known of a sealed archive.
LEMMA SealedArchive ==
  ASSUME NEW a \in Archive
  PROVE  /\ Len(Lens[a]) \in Nat \ {0} /\ Len(Lens[a]) <= MaxChunks
         /\ Frames(a) \in Seq(Short) /\ Len(Frames(a)) = Len(Lens[a]) /\ DOMAIN Frames(a) = 1..Len(Lens[a])
         /\ \A i \in 1..Len(Lens[a]) :
               /\ Frames(a)[i].body = <<a, i>> /\ Frames(a)[i].index = i - 1
               /\ Frames(a)[i].plain_len = Lens[a][i] /\ Lens[a][i] \in 0..ChunkSize
               /\ Frames(a)[i].is_final <=> i = Len(Lens[a])
<1>1. /\ Lens[a] \in Seq(0..ChunkSize) /\ Len(Lens[a]) \in Nat \ {0} /\ Len(Lens[a]) <= MaxChunks
      /\ MaxChunks \in Nat /\ ChunkSize \in Nat
  BY ArchiveAssumption
<1>2. DOMAIN Lens[a] = 1..Len(Lens[a]) /\ \A i \in 1..Len(Lens[a]) : Lens[a][i] \in 0..ChunkSize
  BY <1>1, LenProperties, ElementOfSeq
<1>3. ASSUME NEW i \in 1..Len(Lens[a])
      PROVE  /\ Frames(a)[i] \in Short
             /\ Frames(a)[i].body = <<a, i>> /\ Frames(a)[i].index = i - 1
             /\ Frames(a)[i].plain_len = Lens[a][i]
             /\ Frames(a)[i].is_final <=> i = Len(Lens[a])
  <2> DEFINE Bodies == (UNION {{<<b, k>> : k \in DOMAIN Lens[b]} : b \in Archive}) \cup {Damaged}
             body == <<a, i>>
             last == i = Len(Lens[a])
  <2>1. PICK f : f = [body |-> body, index |-> i - 1, plain_len |-> Lens[a][i], is_final |-> last]
    OBVIOUS
  <2>2. Frames(a)[i] = f
    BY <1>2, <2>1 DEF Frames
  <2>3. body \in Bodies /\ last \in BOOLEAN
    BY <1>2
  <2>4. i - 1 \in 0..MaxChunks /\ Lens[a][i] \in 0..ChunkSize + 1 /\ Lens[a][i] <= ChunkSize
    BY <1>1, <1>2
  <2>5. Frame = [body : Bodies, index : 0..MaxChunks, plain_len : 0..ChunkSize + 1, is_final : BOOLEAN]
    BY DEF Frame
  <2> HIDE DEF Bodies, body, last
  <2>6. f \in Frame
    BY <2>1, <2>3, <2>4, <2>5
  <2>7. f.body = body /\ f.index = i - 1 /\ f.plain_len = Lens[a][i]
    BY <2>1
  <2>8. f.is_final = last
    BY <2>1
  <2>9. f \in Short
    BY <2>4, <2>6, <2>7 DEF Short
  <2> QED
    BY <2>2, <2>7, <2>8, <2>9 DEF body, last
<1>4. Frames(a) \in Seq(Short) /\ Len(Frames(a)) = Len(Lens[a]) /\ DOMAIN Frames(a) = 1..Len(Lens[a])
  <2>1. Frames(a) = [i \in 1..Len(Lens[a]) |-> Frames(a)[i]]
    BY <1>2 DEF Frames
  <2>2. Frames(a) \in [1..Len(Lens[a]) -> Short]
    BY <1>3, <2>1
  <2> QED
    BY <1>1, <2>2
<1> QED
  BY <1>1, <1>2, <1>3, <1>4

\* What is known of a header.
LEMMA HeaderProperties ==
  /\ \A a \in Archive : /\ Header(a) \in Headers /\ Header(a).archive = a
                        /\ Header(a).original_len = SumOf(Lens[a])
  /\ \A h \in Headers : h.archive \in Archive /\ h.original_len \in 0..MaxLen
<1>1. ASSUME NEW a \in Archive
      PROVE  Header(a) \in Headers /\ Header(a).archive = a /\ Header(a).original_len = SumOf(Lens[a])
  BY DEF Header, Headers
<1>2. \A h \in Headers : h.archive \in Archive /\ h.original_len \in 0..MaxLen
  BY LengthBounds DEF Headers
<1> QED
  BY <1>1, <1>2

\* The end of every step that leaves alone what was read.
LEMMA SameEnvelope ==
  ASSUME Begun, Decrypted, Complete, UNCHANGED <<options, header, frames, total, staged>>,
         pc' \in {"start", "header"} => pc \in {"start", "header"},
         pc' = "frames" => pc = "frames",
         pc' = "start" => pc = "start" /\ sound' = sound,
         Accepted' => Accepted
  PROVE  Begun' /\ Decrypted' /\ Complete'
<1>1. Begun'
  BY DEF Begun, HeaderAccepted, Decrypts
<1>2. Decrypted'
  BY DEF Decrypted, Decrypts, FirstFrames
<1>3. Complete'
  BY DEF Complete
<1> QED
  BY <1>1, <1>2, <1>3

\* The beginning of a restore.
LEMMA InitRestoringInv == Init => RestoringInv
<1> SUFFICES ASSUME Init PROVE RestoringInv
  OBVIOUS
<1>1. /\ frames = <<>> /\ staged = <<>> /\ total = 0 /\ header = Nothing /\ trailer = Nothing /\ seen = {}
      /\ options \in Options /\ pc = "start" /\ outcome = "none" /\ sound = TRUE
      /\ dest \in {"absent", "other"} /\ status \in Recorded
  BY DEF Init, Recorded
<1>2. <<>> \in Seq(Short) /\ <<>> \in Seq(UNION {Range(Plaintext(a)) : a \in Archive}) /\ Len(<<>>) = 0
  OBVIOUS
<1>3. 0 <= MaxChunks /\ 0 \in 0..MaxLen
  BY ArchiveAssumption DEF MaxLen
<1>4. TypeOK
  BY <1>1, <1>2, <1>3 DEF TypeOK, Short, Outcomes
<1>5. Ended /\ Begun /\ Complete
  BY <1>1 DEF Ended, Begun, Complete, Accepted, Released
<1>6. Decrypted
  BY <1>1 DEF Decrypted
<1> QED
  BY <1>4, <1>5, <1>6 DEF RestoringInv

\* One more frame keeps the invariant: its place follows from its index, and with
\* the keys the archive it is of from the header.
LEMMA ReadFrameRestores ==
  ASSUME RestoringInv, ReadFrame
  PROVE  RestoringInv'
<1>1. PICK f \in Frame :
         /\ FrameAccepted(f)
         /\ frames' = Append(frames, f)
         /\ total' = total + f.plain_len
         /\ staged' = IF Decrypts THEN Append(staged, f.body) ELSE staged
         /\ pc = "frames" /\ pc' = IF f.is_final THEN "trailer" ELSE "frames"
         /\ sound' = (sound /\ NextInOrder(f))
         /\ UNCHANGED <<options, header, trailer, outcome, dest, status, seen>>
  BY DEF ReadFrame, Goto
<1> DEFINE n == Len(frames) + 1
<1>2. /\ f.plain_len \in Nat /\ f.plain_len <= ChunkSize /\ f.index = Len(frames) /\ f.is_final \in BOOLEAN
      /\ Len(frames) < MaxChunks /\ total + f.plain_len <= header.original_len
      /\ f.is_final => total + f.plain_len = header.original_len
      /\ f \in Short
  BY <1>1, ArchiveAssumption DEF FrameAccepted, InSequence, RoomForFrame, FitsChunk, NextIndex, Frame, Short
<1>3. /\ frames \in Seq(Short) /\ Len(frames) \in Nat /\ total \in Nat /\ MaxChunks \in Nat
      /\ header \in Headers /\ header.original_len \in 0..MaxLen /\ MaxLen \in Nat
  <2>1. frames \in Seq(Short) /\ total \in 0..MaxLen
    BY DEF RestoringInv, TypeOK, Short
  <2>2. header \in Headers
    BY <1>1 DEF RestoringInv, Begun
  <2>3. MaxLen \in Nat /\ MaxChunks \in Nat
    BY ArchiveAssumption DEF MaxLen
  <2> QED
    BY <2>1, <2>2, <2>3, LenProperties, HeaderProperties
<1>4. /\ frames' \in Seq(Short) /\ frames' # <<>> /\ Len(frames') = n /\ frames'[n] = f
      /\ \A i \in 1..Len(frames) : frames'[i] = frames[i]
  BY <1>1, <1>2, <1>3, AppendProperties
<1>5. outcome = "none" /\ dest # "ours" /\ ~ Released'
  BY <1>1 DEF RestoringInv, Ended, Released
<1>6. Ended' /\ Begun' /\ Complete'
  <2>1. Ended'
    BY <1>1, <1>5 DEF Ended
  <2>2. Begun'
    BY <1>1, <1>3 DEF RestoringInv, Begun, HeaderAccepted, Decrypts
  <2>3. Complete'
    <3> SUFFICES ASSUME Accepted' PROVE /\ header' \in Headers /\ total' = header'.original_len
                                        /\ frames' # <<>> /\ frames'[Len(frames')].is_final
      BY DEF Complete
    <3>1. f.is_final
      BY <1>1, <1>5 DEF Accepted
    <3> QED
      BY <1>1, <1>2, <1>3, <1>4, <3>1
  <2> QED
    BY <2>1, <2>2, <2>3
<1>7. ASSUME Decrypts
      PROVE  /\ options.keys_fit
             /\ \E a \in Archive : /\ header = Header(a) /\ n <= Len(Lens[a]) /\ f = Frames(a)[n]
                                   /\ f.body = <<a, n>> /\ f.body \in Range(Plaintext(a))
  <2>1. PICK a \in Archive : header = Header(a) /\ f \in Range(Frames(a))
    BY <1>1, <1>7 DEF FrameAccepted, Authenticates
  <2>2. PICK i \in 1..Len(Lens[a]) : f = Frames(a)[i]
    BY <2>1, SealedArchive DEF Range
  <2>3. f.index = i - 1 /\ f.body = <<a, i>> /\ Len(Lens[a]) \in Nat
    BY <2>2, SealedArchive
  <2>4. i = n
    BY <1>2, <1>3, <2>3
  <2>5. f.body \in Range(Plaintext(a))
    <3>1. DOMAIN Lens[a] = 1..Len(Lens[a])
      BY ArchiveAssumption, LenProperties
    <3> QED
      BY <2>3, <3>1 DEF Range, Plaintext
  <2>6. options.keys_fit
    BY <1>1, <1>7 DEF RestoringInv, Begun, HeaderAccepted
  <2> QED
    BY <2>1, <2>2, <2>3, <2>4, <2>5, <2>6
<1>8. CASE Decrypts
  <2>1. PICK a \in Archive : /\ header = Header(a) /\ n <= Len(Lens[a]) /\ f = Frames(a)[n]
                             /\ f.body = <<a, n>> /\ f.body \in Range(Plaintext(a))
    BY <1>7, <1>8
  <2> DEFINE T == UNION {Range(Plaintext(b)) : b \in Archive}
  <2>2. f.body \in T /\ staged \in Seq(T) /\ Len(staged) = Len(frames)
    BY <1>8, <2>1 DEF RestoringInv, TypeOK, Decrypted
  <2> HIDE DEF T
  <2>3. /\ staged' \in Seq(T) /\ Len(staged') = n /\ staged'[n] = <<a, n>>
        /\ \A i \in 1..Len(frames) : staged'[i] = staged[i]
    BY <1>1, <1>8, <2>1, <2>2, AppendProperties
  <2>4. \A i \in 1..Len(frames) : frames[i] = Frames(a)[i] /\ staged[i] = <<a, i>>
    <3>1. CASE frames = <<>>
      BY <3>1
    <3>2. CASE frames # <<>>
      <4>1. PICK b \in Archive : header = Header(b) /\ FirstFrames(b) /\ \A i \in 1..Len(frames) : staged[i] = <<b, i>>
        BY <1>8, <3>2 DEF RestoringInv, Decrypted
      <4>2. a = b
        BY <2>1, <4>1, HeaderProperties
      <4> QED
        BY <4>1, <4>2 DEF FirstFrames
    <3> QED
      BY <3>1, <3>2
  <2>5. \A i \in 1..n : frames'[i] = Frames(a)[i] /\ staged'[i] = <<a, i>>
    <3> SUFFICES ASSUME NEW i \in 1..n PROVE frames'[i] = Frames(a)[i] /\ staged'[i] = <<a, i>>
      OBVIOUS
    <3>1. CASE i = n
      BY <1>4, <2>1, <2>3, <3>1
    <3>2. CASE i \in 1..Len(frames)
      BY <1>4, <2>3, <2>4, <3>2
    <3> QED
      BY <1>3, <3>1, <3>2
  <2>6. Decrypted'
    BY <1>1, <1>4, <1>7, <1>8, <2>1, <2>3, <2>5 DEF Decrypted, Decrypts, FirstFrames
  <2>7. TypeOK'
    <3>1. staged' \in Seq(UNION {Range(Plaintext(b)) : b \in Archive})
      BY <2>3 DEF T
    <3>2. frames' \in Seq({g \in Frame : g.plain_len <= ChunkSize}) /\ Len(frames') <= MaxChunks
      BY <1>2, <1>3, <1>4 DEF Short
    <3>3. total' \in 0..MaxLen
      BY <1>1, <1>2, <1>3
    <3>4. sound' \in BOOLEAN
      BY <1>1
    <3> QED
      BY <1>1, <3>1, <3>2, <3>3, <3>4 DEF RestoringInv, TypeOK
  <2> QED
    BY <1>6, <2>6, <2>7 DEF RestoringInv
<1>9. CASE ~ Decrypts
  <2>1. staged' = staged /\ staged = <<>>
    BY <1>1, <1>9 DEF RestoringInv, Decrypted
  <2>2. Decrypted'
    BY <1>1, <1>9, <2>1 DEF Decrypted, Decrypts
  <2>3. frames' \in Seq({g \in Frame : g.plain_len <= ChunkSize}) /\ Len(frames') <= MaxChunks
    BY <1>2, <1>3, <1>4 DEF Short
  <2>4. total' \in 0..MaxLen
    BY <1>1, <1>2, <1>3
  <2>5. sound' \in BOOLEAN
    BY <1>1
  <2>6. TypeOK'
    BY <1>1, <2>1, <2>3, <2>4, <2>5 DEF RestoringInv, TypeOK
  <2> QED
    BY <1>6, <2>2, <2>6 DEF RestoringInv
<1> QED
  BY <1>8, <1>9

\* Every other step leaves what was read alone.
LEMMA NextRestoringInv == RestoringInv /\ [Next]_vars => RestoringInv'
<1> SUFFICES ASSUME RestoringInv, [Next]_vars PROVE RestoringInv'
  OBVIOUS
<1> USE DEF Goto, Fail, Released
<1>1. TypeOK /\ Ended /\ Begun /\ Decrypted /\ Complete
  BY DEF RestoringInv
<1>2. pc # "end" => outcome = "none" /\ dest # "ours"
  BY <1>1 DEF Ended
<1>3. CASE ReadFrame
  BY <1>3, ReadFrameRestores
<1>4. CASE ReadHeader
  <2>1. PICK h \in Headers :
           /\ header' = h /\ pc = "header" /\ sound' = (h = Header(h.archive))
           /\ \/ HeaderAccepted(h) /\ pc' = "frames" /\ outcome' = outcome
              \/ pc' = "end" /\ outcome' = "damaged"
           /\ UNCHANGED <<options, frames, total, staged, trailer, dest, status, seen>>
    BY <1>4 DEF ReadHeader
  <2>2. frames = <<>> /\ total = 0 /\ staged = <<>> /\ ~ Released'
    BY <1>1, <1>2, <2>1 DEF Begun
  <2>3. TypeOK'
    <3>1. sound' \in BOOLEAN
      BY <2>1
    <3> QED
      BY <1>1, <2>1, <3>1 DEF TypeOK, Outcomes
  <2>4. Ended' /\ Complete'
    BY <1>2, <2>1, <2>2 DEF Ended, Complete, Accepted
  <2>5. Begun'
    BY <2>1 DEF Begun, HeaderAccepted, Decrypts
  <2>6. Decrypted'
    BY <2>1, <2>2 DEF Decrypted
  <2> QED
    BY <2>3, <2>4, <2>5, <2>6 DEF RestoringInv
<1>5. CASE Begin
  <2>1. /\ pc = "start" /\ UNCHANGED <<options, header, frames, total, staged, trailer, dest, status, sound, seen>>
        /\ \/ pc' = "end" /\ outcome' = "exists"
           \/ pc' = "header" /\ outcome' = outcome
    BY <1>5 DEF Begin
  <2>2. TypeOK' /\ Ended'
    BY <1>1, <1>2, <2>1 DEF TypeOK, Ended, Outcomes
  <2>3. ~ Accepted'
    BY <1>2, <2>1 DEF Accepted
  <2> QED
    BY <1>1, <2>1, <2>2, <2>3, SameEnvelope DEF RestoringInv
<1>6. CASE RejectFrame
  <2>1. /\ pc = "frames" /\ pc' = "end" /\ outcome' = "damaged"
        /\ UNCHANGED <<options, header, frames, total, staged, trailer, dest, status, seen>>
        /\ sound' \in BOOLEAN
    BY <1>6 DEF RejectFrame
  <2>2. TypeOK' /\ Ended'
    BY <1>1, <1>2, <2>1 DEF TypeOK, Ended, Outcomes
  <2>3. ~ Accepted'
    BY <1>2, <2>1 DEF Accepted
  <2> QED
    BY <1>1, <2>1, <2>2, <2>3, SameEnvelope DEF RestoringInv
<1>7. CASE ReadTrailer
  <2>1. /\ pc = "trailer" /\ trailer' \in Trailer \cup {Nothing} /\ seen' = {status}
        /\ UNCHANGED <<options, header, frames, total, staged, dest, status>>
        /\ sound' \in BOOLEAN
        /\ \/ pc' = "signature" /\ outcome' = outcome
           \/ pc' = "recheck" /\ options.mode = "open" /\ outcome' = outcome
           \/ pc' = "end" /\ outcome' \in {"ok", "untrusted"}
    BY <1>7 DEF ReadTrailer, Proceed
  <2>2. TypeOK' /\ Ended'
    BY <1>1, <1>2, <2>1 DEF TypeOK, Ended, Outcomes
  <2>3. Accepted
    BY <2>1 DEF Accepted
  <2> QED
    BY <1>1, <2>1, <2>2, <2>3, SameEnvelope DEF RestoringInv
<1>8. CASE RejectTrailer
  <2>1. /\ pc = "trailer" /\ pc' = "end" /\ outcome' = "damaged"
        /\ UNCHANGED <<options, header, frames, total, staged, trailer, dest, status, seen>>
        /\ sound' \in BOOLEAN
    BY <1>8 DEF RejectTrailer
  <2>2. TypeOK' /\ Ended'
    BY <1>1, <1>2, <2>1 DEF TypeOK, Ended, Outcomes
  <2>3. Accepted
    BY <2>1 DEF Accepted
  <2> QED
    BY <1>1, <2>1, <2>2, <2>3, SameEnvelope DEF RestoringInv
<1>9. CASE CheckSignature \/ CheckPolicy \/ Recheck
  <2>1. /\ pc \in {"signature", "policy", "recheck"}
        /\ UNCHANGED <<options, header, frames, total, staged, trailer, dest, status, sound, seen>>
        /\ \/ pc' = "policy" /\ outcome' = outcome
           \/ pc' = "recheck" /\ options.mode = "open" /\ outcome' = outcome
           \/ pc = "recheck" /\ pc' = "commit" /\ outcome' = outcome
           \/ pc' = "end" /\ outcome' \in {"ok", "exists", "untrusted"}
    BY <1>9 DEF CheckSignature, CheckPolicy, Recheck, Proceed
  <2>2. TypeOK' /\ Ended'
    BY <1>1, <1>2, <2>1 DEF TypeOK, Ended, Outcomes
  <2>3. Accepted
    BY <2>1 DEF Accepted
  <2> QED
    BY <1>1, <2>1, <2>2, <2>3, SameEnvelope DEF RestoringInv
<1>10. CASE Commit
  <2>1. /\ pc = "commit" /\ pc' = "end"
        /\ UNCHANGED <<options, header, frames, total, staged, trailer, status, sound, seen>>
        /\ \/ dest' = "ours" /\ outcome' \in {"ok", "unconfirmed"}
           \/ dest' = dest /\ outcome' = "exists"
    BY <1>10 DEF Commit
  <2>2. TypeOK' /\ Ended'
    BY <1>1, <1>2, <2>1 DEF TypeOK, Ended, Outcomes
  <2>3. Accepted
    BY <2>1 DEF Accepted
  <2> QED
    BY <1>1, <2>1, <2>2, <2>3, SameEnvelope DEF RestoringInv
<1>11. CASE IOFails
  <2>1. /\ pc # "end" /\ pc' = "end" /\ outcome' = "failed"
        /\ UNCHANGED <<options, header, frames, total, staged, trailer, dest, status, sound, seen>>
    BY <1>11 DEF IOFails
  <2>2. TypeOK' /\ Ended'
    BY <1>1, <1>2, <2>1 DEF TypeOK, Ended, Outcomes
  <2>3. ~ Accepted'
    BY <1>2, <2>1 DEF Accepted
  <2> QED
    BY <1>1, <2>1, <2>2, <2>3, SameEnvelope DEF RestoringInv
<1>12. CASE OtherCreates \/ PolicyChanges \/ UNCHANGED vars
  <2>1. /\ UNCHANGED <<options, readerVars, sound>>
        /\ dest' = dest \/ dest' = "other"
        /\ status' \in Recorded /\ seen' \subseteq Recorded
    <3>1. status \in Recorded /\ seen \subseteq Recorded
      BY <1>1 DEF TypeOK
    <3>2. CASE OtherCreates \/ UNCHANGED vars
      BY <3>1, <3>2 DEF OtherCreates, vars, readerVars
    <3>3. CASE PolicyChanges
      <4>1. status' \in Recorded /\ (seen' = seen \cup {status'} \/ seen' = seen)
        BY <3>3 DEF PolicyChanges, Recorded, SignerStatus
      <4>2. UNCHANGED <<options, readerVars, dest, sound>>
        BY <3>3 DEF PolicyChanges
      <4> QED
        BY <3>1, <4>1, <4>2
    <3> QED
      BY <1>12, <3>2, <3>3
  <2>2. TypeOK' /\ Ended'
    BY <1>1, <1>2, <2>1 DEF TypeOK, Ended, Outcomes, readerVars
  <2>3. Accepted' => Accepted
    BY <2>1 DEF Accepted, readerVars
  <2>4. UNCHANGED <<options, header, frames, total, staged, pc, sound>>
    BY <2>1 DEF readerVars
  <2> QED
    BY <1>1, <2>2, <2>3, <2>4, SameEnvelope DEF RestoringInv
<1> QED
  BY <1>3, <1>4, <1>5, <1>6, <1>7, <1>8, <1>9, <1>10, <1>11, <1>12 DEF Next, Restore

\* What RestoringInv says of the end of a restore.
LEMMA RestoringIsRestore == RestoringInv => RestoreInv
<1> SUFFICES ASSUME RestoringInv PROVE RestoreInv
  OBVIOUS
<1>1. TypeOK
  BY DEF RestoringInv
<1>2. /\ frames \in Seq(Short) /\ Len(frames) \in Nat /\ (frames = <<>> <=> Len(frames) = 0)
      /\ staged \in Seq(UNION {Range(Plaintext(a)) : a \in Archive}) /\ (staged = <<>> <=> Len(staged) = 0)
  <2>1. frames \in Seq(Short) /\ staged \in Seq(UNION {Range(Plaintext(a)) : a \in Archive})
    BY <1>1 DEF TypeOK, Short
  <2> QED
    BY <2>1, EmptySeq, LenProperties
<1>3. ASSUME NEW a \in Archive
      PROVE  /\ Plaintext(a) \in Seq(UNION {Range(Plaintext(b)) : b \in Archive})
             /\ Len(Plaintext(a)) = Len(Lens[a])
             /\ \A i \in 1..Len(Lens[a]) : Plaintext(a)[i] = <<a, i>>
  <2> DEFINE T == UNION {Range(Plaintext(b)) : b \in Archive}
  <2>1. DOMAIN Lens[a] = 1..Len(Lens[a]) /\ Len(Lens[a]) \in Nat
    BY ArchiveAssumption, LenProperties
  <2>2. Plaintext(a) = [i \in 1..Len(Lens[a]) |-> Plaintext(a)[i]]
    BY <2>1 DEF Plaintext
  <2>3. \A i \in 1..Len(Lens[a]) : Plaintext(a)[i] = <<a, i>>
    BY <2>1 DEF Plaintext
  <2>4. \A i \in 1..Len(Lens[a]) : Plaintext(a)[i] \in T
    BY <2>2 DEF Range
  <2> HIDE DEF T
  <2>5. Plaintext(a) \in [1..Len(Lens[a]) -> T]
    BY <2>2, <2>4
  <2>6. Plaintext(a) \in Seq(T) /\ Len(Plaintext(a)) = Len(Lens[a])
    BY <2>1, <2>5
  <2> QED
    BY <2>3, <2>6 DEF T
<1>4. ASSUME Decrypts, frames # <<>>
      PROVE  /\ options.keys_fit /\ Len(staged) = Len(frames)
             /\ \E a \in Archive :
                   /\ header = Header(a) /\ FirstFrames(a)
                   /\ \A i \in 1..Len(frames) : staged[i] = Plaintext(a)[i]
  <2>1. /\ options.keys_fit /\ Len(staged) = Len(frames)
        /\ \E a \in Archive : header = Header(a) /\ FirstFrames(a) /\ \A i \in 1..Len(frames) : staged[i] = <<a, i>>
    BY <1>4 DEF RestoringInv, Decrypted
  <2>2. PICK a \in Archive : header = Header(a) /\ FirstFrames(a) /\ \A i \in 1..Len(frames) : staged[i] = <<a, i>>
    BY <2>1
  <2>3. \A i \in 1..Len(frames) : staged[i] = Plaintext(a)[i]
    <3>1. \A i \in 1..Len(frames) : i \in 1..Len(Lens[a])
      BY <1>2, <2>2, SealedArchive DEF FirstFrames
    <3> QED
      BY <1>3, <2>2, <3>1
  <2> QED
    BY <2>1, <2>2, <2>3
<1>5. AuthenticPrefix
  <2> SUFFICES ASSUME staged # <<>>
               PROVE  options.keys_fit /\ \E a \in Archive : IsPrefix(staged, Plaintext(a))
    BY DEF AuthenticPrefix
  <2>1. Decrypts /\ frames # <<>>
    BY <1>2 DEF RestoringInv, Decrypted
  <2>2. PICK a \in Archive : FirstFrames(a) /\ \A i \in 1..Len(frames) : staged[i] = Plaintext(a)[i]
    BY <1>4, <2>1
  <2> DEFINE T == UNION {Range(Plaintext(b)) : b \in Archive}
             n == Len(staged)
  <2>3. n = Len(frames) /\ n \in Nat /\ n <= Len(Lens[a]) /\ Len(Lens[a]) \in Nat
    BY <1>2, <1>4, <2>1, <2>2, SealedArchive DEF FirstFrames
  <2>4. /\ staged \in Seq(T) /\ Plaintext(a) \in Seq(T) /\ Len(Plaintext(a)) = Len(Lens[a])
        /\ n \in 0..Len(staged) /\ n \in 0..Len(Plaintext(a))
    BY <1>2, <1>3, <2>3
  <2> HIDE DEF T
  <2>5. /\ SubSeq(staged, 1, n) \in Seq(T) /\ Len(SubSeq(staged, 1, n)) = n
        /\ \A i \in 1..n : SubSeq(staged, 1, n)[i] = staged[i]
    BY <2>4, PrefixProperties
  <2>6. /\ SubSeq(Plaintext(a), 1, n) \in Seq(T) /\ Len(SubSeq(Plaintext(a), 1, n)) = n
        /\ \A i \in 1..n : SubSeq(Plaintext(a), 1, n)[i] = Plaintext(a)[i]
    BY <2>4, PrefixProperties
  <2>7. SubSeq(staged, 1, n) = SubSeq(Plaintext(a), 1, n)
    BY <2>2, <2>3, <2>5, <2>6, SeqEqual
  <2>8. IsPrefix(staged, Plaintext(a))
    BY <2>3, <2>4, <2>7 DEF IsPrefix
  <2> QED
    BY <1>4, <2>1, <2>8
<1>6. WholeOrNothing
  <2> SUFFICES ASSUME Released, Decrypts
               PROVE  \E a \in Archive : staged = Plaintext(a) /\ total = SumOf(Lens[a])
    BY DEF WholeOrNothing
  <2>1. total = header.original_len /\ frames # <<>> /\ frames[Len(frames)].is_final
    BY DEF RestoringInv, Complete, Accepted
  <2>2. PICK a \in Archive : /\ header = Header(a) /\ FirstFrames(a)
                             /\ \A i \in 1..Len(frames) : staged[i] = Plaintext(a)[i]
    BY <1>4, <2>1
  <2>3. total = SumOf(Lens[a])
    BY <2>1, <2>2, HeaderProperties
  <2>4. Len(frames) = Len(Lens[a])
    <3>1. Len(frames) \in 1..Len(frames) /\ Len(frames) \in 1..Len(Lens[a])
      BY <1>2, <2>1, <2>2, SealedArchive DEF FirstFrames
    <3>2. Frames(a)[Len(frames)].is_final
      BY <2>1, <2>2, <3>1 DEF FirstFrames
    <3> QED
      BY <3>1, <3>2, SealedArchive
  <2>5. staged = Plaintext(a)
    BY <1>2, <1>3, <1>4, <2>1, <2>2, <2>4, SeqEqual
  <2> QED
    BY <2>3, <2>5
<1> QED
  BY <1>1, <1>5, <1>6 DEF RestoreInv

\* What open publishes and verify reports is the plaintext of one whole archive,
\* and at every instant the temporary file holds a prefix of it
\* (decrypt_archive_reader), whatever the medium returns.
THEOREM OneWholeArchiveIsReleased == Spec => []RestoreInv
<1>1. Spec => []RestoringInv
  BY InitRestoringInv, NextRestoringInv, PTL DEF Spec
<1> QED
  BY <1>1, RestoringIsRestore, PTL

----------------------------------------------------------------------------
\* The signature: every step keeps Signed.
LEMMA NextSigned == RestoringInv /\ Signed /\ [Next]_vars => Signed'
<1> SUFFICES ASSUME RestoringInv, Signed, [Next]_vars PROVE Signed'
  OBVIOUS
<1> USE DEF Goto, Fail, Released
<1>1. pc # "end" => outcome = "none" /\ dest # "ours"
  BY DEF RestoringInv, Ended
<1>2. ASSUME UNCHANGED <<options, header, frames, trailer>> PROVE Verifies' <=> Verifies
  BY <1>2 DEF Verifies, EnvelopeIs
<1>3. ASSUME pc' \notin {"signature", "policy"}, ~ Vetted' \/ ~ options'.require_provenance PROVE Signed'
  BY <1>3 DEF Signed, Vetted
<1>4. CASE Begin \/ ReadHeader \/ ReadFrame \/ RejectFrame \/ RejectTrailer \/ IOFails
  <2>1. pc # "end" /\ dest' = dest /\ pc' \in {"header", "frames", "trailer", "end"}
        /\ outcome' \in {outcome, "exists", "damaged", "failed"}
    BY <1>4 DEF Begin, ReadHeader, ReadFrame, RejectFrame, RejectTrailer, IOFails
  <2> QED
    BY <1>1, <1>3, <2>1 DEF Vetted
<1>5. CASE ReadTrailer
  <2>1. /\ pc = "trailer" /\ options' = options /\ dest' = dest
        /\ \/ ~ options.require_provenance /\ pc' \in {"recheck", "end"}
           \/ options.require_provenance /\ pc' = "end" /\ outcome' = "untrusted"
           \/ options.require_provenance /\ pc' = "signature" /\ outcome' = outcome
    BY <1>5 DEF ReadTrailer, Proceed
  <2>2. CASE pc' = "signature"
    BY <1>1, <2>1, <2>2 DEF Signed, Vetted
  <2>3. CASE pc' # "signature"
    BY <1>1, <1>3, <2>1, <2>3 DEF Vetted
  <2> QED
    BY <2>2, <2>3
<1>6. CASE CheckSignature
  <2>1. /\ pc = "signature" /\ UNCHANGED <<options, header, frames, trailer, dest>>
        /\ \/ pc' = "policy" /\ Verifies
           \/ pc' = "end" /\ outcome' = "untrusted"
    BY <1>6 DEF CheckSignature
  <2>2. CASE pc' = "policy"
    BY <1>2, <2>1, <2>2 DEF Signed
  <2>3. CASE pc' = "end"
    BY <1>1, <1>3, <2>1, <2>3 DEF Vetted
  <2> QED
    BY <2>1, <2>2, <2>3
<1>7. CASE CheckPolicy \/ Recheck \/ Commit \/ OtherCreates \/ PolicyChanges \/ UNCHANGED vars
  <2>1. UNCHANGED <<options, header, frames, trailer>>
    BY <1>7 DEF CheckPolicy, Recheck, Commit, OtherCreates, PolicyChanges, vars, readerVars
  <2>2. /\ pc' \in {"signature", "policy"} => pc' = pc
        /\ Vetted' => pc = "policy" \/ Vetted
    BY <1>1, <1>7 DEF CheckPolicy, Proceed, Recheck, Commit, OtherCreates, PolicyChanges, vars, readerVars, Vetted
  <2> QED
    BY <1>2, <2>1, <2>2 DEF Signed, Vetted
<1> QED
  BY <1>4, <1>5, <1>6, <1>7 DEF Next, Restore

\* An envelope is its header and its frames.
LEMMA EnvelopeAsRead ==
  ASSUME NEW e \in Envelopes, EnvelopeIs(e)
  PROVE  e = [header |-> header, frames |-> frames]
<1>1. CASE e \in Unsealed
  <2>1. e = [header |-> e.header, frames |-> e.frames]
    BY <1>1, UnsealedAssumption DEF Framed
  <2> QED
    BY <2>1 DEF EnvelopeIs
<1>2. CASE \E a \in Archive : e = Envelope(a)
  BY <1>2 DEF Envelope, EnvelopeIs
<1> QED
  BY <1>1, <1>2 DEF Envelopes

\* With --require-provenance what open publishes, and verify and
\* provenance-verify report, is under a signature that the given key made for
\* exactly the envelope that was read (verify_provenance_reader).
THEOREM SignedAsRead == Spec => []SignatureCovers
<1>1. Init => Signed
  BY DEF Init, Signed, Vetted, Released
<1>2. RestoringInv /\ Signed => SignatureCovers
  <2> SUFFICES ASSUME Signed, Released, options.require_provenance
               PROVE  trailer.signature = <<options.public, [header |-> header, frames |-> frames]>>
    BY DEF SignatureCovers
  <2>1. PICK e \in Envelopes : trailer.signature = <<options.public, e>> /\ EnvelopeIs(e)
    BY DEF Signed, Vetted, Verifies
  <2> QED
    BY <2>1, EnvelopeAsRead
<1>3. Spec => [](RestoringInv /\ Signed)
  BY <1>1, InitRestoringInv, NextRestoringInv, NextSigned, PTL DEF Spec
<1> QED
  BY <1>2, <1>3, PTL

\* The policy: every step keeps Timely.
LEMMA NextTimely == RestoringInv /\ Signed /\ Timely /\ [Next]_vars => Timely'
<1> SUFFICES ASSUME RestoringInv, Signed, Timely, [Next]_vars PROVE Timely'
  OBVIOUS
<1> USE DEF Goto, Fail, Released
<1>1. pc # "end" => outcome = "none" /\ dest # "ours"
  BY DEF RestoringInv, Ended
<1>2. ASSUME UNCHANGED <<options, seen>> PROVE AcceptableSeen' <=> AcceptableSeen
  BY <1>2 DEF AcceptableSeen
<1>3. ASSUME pc' \notin {"signature", "policy"}, ~ Vetted' \/ ~ options'.require_provenance PROVE Timely'
  BY <1>3 DEF Timely, Vetted
<1>4. CASE Begin \/ ReadHeader \/ ReadFrame \/ RejectFrame \/ RejectTrailer \/ IOFails
  <2>1. pc # "end" /\ dest' = dest /\ pc' \in {"header", "frames", "trailer", "end"}
        /\ outcome' \in {outcome, "exists", "damaged", "failed"}
    BY <1>4 DEF Begin, ReadHeader, ReadFrame, RejectFrame, RejectTrailer, IOFails
  <2> QED
    BY <1>1, <1>3, <2>1 DEF Vetted
<1>5. CASE ReadTrailer
  <2>1. /\ pc = "trailer" /\ options' = options /\ dest' = dest /\ status' = status /\ seen' = {status}
        /\ \/ ~ options.require_provenance /\ pc' \in {"recheck", "end"}
           \/ options.require_provenance /\ pc' = "end" /\ outcome' = "untrusted"
           \/ options.require_provenance /\ pc' = "signature" /\ outcome' = outcome
    BY <1>5 DEF ReadTrailer, Proceed
  <2>2. CASE pc' = "signature"
    BY <1>1, <2>1, <2>2 DEF Timely, Vetted
  <2>3. CASE pc' # "signature"
    BY <1>1, <1>3, <2>1, <2>3 DEF Vetted
  <2> QED
    BY <2>2, <2>3
<1>6. CASE CheckSignature
  <2>1. /\ pc = "signature" /\ UNCHANGED <<options, dest, status, seen>>
        /\ \/ pc' = "policy" /\ outcome' = outcome
           \/ pc' = "end" /\ outcome' = "untrusted"
    BY <1>6 DEF CheckSignature
  <2> QED
    BY <1>1, <2>1 DEF Timely, Vetted
<1>7. CASE CheckPolicy
  <2>1. /\ pc = "policy" /\ UNCHANGED <<options, dest, status, seen>>
        /\ \/ Acceptable(status) /\ pc' \in {"recheck", "end"}
           \/ pc' = "end" /\ outcome' = "untrusted"
    BY <1>7 DEF CheckPolicy, Proceed
  <2>2. status \in seen
    BY <2>1 DEF Timely
  <2>3. Acceptable(status) => AcceptableSeen
    BY <2>2 DEF Acceptable, Historical, AcceptableSeen
  <2> QED
    BY <1>1, <1>2, <1>3, <2>1, <2>3 DEF Timely, Vetted
<1>8. CASE Recheck \/ Commit
  <2>1. UNCHANGED <<options, seen>> /\ pc' \notin {"signature", "policy"} /\ Vetted
    BY <1>8 DEF Recheck, Commit, Vetted
  <2> QED
    BY <1>2, <2>1 DEF Timely, Vetted
<1>9. CASE OtherCreates \/ UNCHANGED vars
  <2>1. /\ UNCHANGED <<options, pc, outcome, status, seen>>
        /\ Vetted' => Vetted
    BY <1>9 DEF OtherCreates, vars, readerVars, Vetted
  <2> QED
    BY <1>2, <2>1 DEF Timely, Vetted
<1>10. CASE PolicyChanges
  <2>1. UNCHANGED <<options, pc, outcome, dest>> /\ pc # "end"
        /\ seen' = IF pc \in {"signature", "policy"} THEN seen \cup {status'} ELSE seen
    BY <1>10 DEF PolicyChanges, readerVars
  <2>2. CASE pc \in {"signature", "policy"}
    BY <1>1, <2>1, <2>2 DEF Timely, Vetted
  <2>3. CASE pc \notin {"signature", "policy"}
    BY <1>2, <2>1, <2>3 DEF Timely, Vetted
  <2> QED
    BY <2>2, <2>3
<1> QED
  BY <1>4, <1>5, <1>6, <1>7, <1>8, <1>9, <1>10 DEF Next, Restore

\* A signer whose revocation was in force when the reading of the archive ended
\* is not accepted (verify_provenance_reader): the status was acceptable after it.
THEOREM RevokedIsRefused == Spec => []RevocationInTime
<1>1. Init => Signed /\ Timely
  BY DEF Init, Signed, Timely, Vetted, Released
<1>2. Timely => RevocationInTime
  BY DEF Timely, Vetted, RevocationInTime, AcceptableSeen
<1>3. Spec => [](RestoringInv /\ Signed /\ Timely)
  BY <1>1, InitRestoringInv, NextRestoringInv, NextSigned, NextTimely, PTL DEF Spec
<1> QED
  BY <1>2, <1>3, PTL

----------------------------------------------------------------------------
\* The next frame of an unchanged archive, and what it adds.
LEMMA NextFrame ==
  ASSUME RestoringInv, NEW a \in Archive, header = Header(a), FirstFrames(a), Len(frames) < Len(Lens[a]),
         NEW f, f = Frames(a)[Len(frames) + 1]
  PROVE  /\ f \in Short /\ f.index = Len(frames) /\ f.plain_len = Lens[a][Len(frames) + 1]
         /\ f.is_final <=> Len(frames) + 1 = Len(Lens[a])
         /\ Len(frames) < MaxChunks /\ Len(frames) \in Nat /\ Len(Lens[a]) \in Nat
         /\ Len(Append(frames, f)) = Len(frames) + 1
         /\ \A i \in 1..Len(frames) + 1 : Append(frames, f)[i] = Frames(a)[i]
         /\ f.is_final => Append(frames, f) = Frames(a)
<1> DEFINE n == Len(frames) + 1
           more == Append(frames, f)
<1>1. frames \in Seq(Short) /\ Len(frames) \in Nat /\ MaxChunks \in Nat
  <2>1. frames \in Seq(Short)
    BY DEF RestoringInv, TypeOK, Short
  <2> QED
    BY <2>1, LenProperties, ArchiveAssumption
<1>2. Len(Lens[a]) \in Nat /\ Len(Lens[a]) <= MaxChunks /\ n \in 1..Len(Lens[a])
  BY <1>1, SealedArchive
<1>3. f \in Short /\ Frames(a) \in Seq(Short) /\ Len(Frames(a)) = Len(Lens[a])
  BY <1>2, SealedArchive, ElementOfSeq
<1>4. /\ f.index = Len(frames) /\ f.plain_len = Lens[a][n]
      /\ f.is_final <=> n = Len(Lens[a])
  BY <1>1, <1>2, SealedArchive
<1>5. /\ more \in Seq(Short) /\ Len(more) = n /\ more[n] = f
      /\ \A i \in 1..Len(frames) : more[i] = frames[i]
  BY <1>1, <1>3, AppendProperties
<1>6. ASSUME NEW i \in 1..n PROVE more[i] = Frames(a)[i]
  <2>1. CASE i = n
    BY <1>5, <2>1
  <2>2. CASE i \in 1..Len(frames)
    BY <1>5, <2>2 DEF FirstFrames
  <2> QED
    BY <1>1, <2>1, <2>2
<1>7. f.is_final => more = Frames(a)
  BY <1>3, <1>4, <1>5, <1>6, SeqEqual
<1> QED
  BY <1>1, <1>2, <1>3, <1>4, <1>5, <1>6, <1>7

\* The next frame of an unchanged archive is accepted.
LEMMA NextIsAccepted ==
  ASSUME RestoringInv, NEW a \in Archive, header = Header(a), FirstFrames(a), Len(frames) < Len(Lens[a]),
         total = LenOfFirst(a, Len(frames)), NEW f, f = Frames(a)[Len(frames) + 1]
  PROVE  /\ FrameAccepted(f)
         /\ total + f.plain_len = LenOfFirst(a, Len(frames) + 1)
         /\ f.is_final => total + f.plain_len = SumOf(Lens[a])
<1> DEFINE n == Len(frames) + 1
<1>1. /\ f \in Short /\ f.index = Len(frames) /\ f.plain_len = Lens[a][n]
      /\ f.is_final <=> n = Len(Lens[a])
      /\ Len(frames) < MaxChunks /\ Len(frames) \in Nat /\ Len(Lens[a]) \in Nat
  BY NextFrame
<1>2. Len(frames) \in 0..Len(Lens[a]) - 1 /\ n \in 0..Len(Lens[a]) /\ n \in 1..Len(Lens[a])
  BY <1>1
<1>3. total + f.plain_len = LenOfFirst(a, n) /\ LenOfFirst(a, n) <= SumOf(Lens[a])
  BY <1>1, <1>2, FirstLengths, LengthBounds
<1>4. f.is_final => total + f.plain_len = SumOf(Lens[a])
  BY <1>1, <1>3, FirstLengths
<1>5. header.original_len = SumOf(Lens[a])
  BY HeaderProperties
<1>6. f.plain_len = 0 => f.is_final /\ header.original_len = 0
  <2> SUFFICES ASSUME Lens[a][n] = 0 PROVE f.is_final /\ header.original_len = 0
    BY <1>1
  <2>1. DOMAIN Lens[a] = 1..Len(Lens[a])
    BY ArchiveAssumption, LenProperties
  <2>2. Lens[a] = <<0>>
    BY <1>2, <2>1, ArchiveAssumption
  <2>3. Len(Lens[a]) = 1
    BY <2>2
  <2>4. Len(frames) = 0 /\ n = 1
    BY <1>2, <2>3, <1>1
  <2>5. total = 0
    BY <2>4, FirstLengths
  <2> QED
    BY <1>1, <1>4, <1>5, <2>3, <2>4, <2>5
<1>7. InSequence(f)
  BY <1>1, <1>3, <1>4, <1>5, <1>6 DEF InSequence, RoomForFrame, FitsChunk, NextIndex, Short
<1>8. Authenticates(f)
  <2>1. f \in Range(Frames(a))
    BY <1>2, SealedArchive DEF Range
  <2> QED
    BY <2>1 DEF Authenticates
<1> QED
  BY <1>3, <1>4, <1>7, <1>8 DEF FrameAccepted

\* What does not change while nothing is read.
LEMMA SameSound ==
  ASSUME RestoringInv, SoundInv, UNCHANGED <<header, frames, total, sound>>,
         pc' \in {"frames", "trailer", "signature"} => pc' = pc,
         pc' = "signature" => trailer' = trailer
  PROVE  Unchanged'
BY DEF SoundInv, Unchanged, FirstFrames, TrailerInOrder

\* Every step keeps what is known of an unchanged archive.
LEMMA NextSoundInv == RestoringInv /\ Timely /\ SoundInv /\ [Next]_vars => SoundInv'
<1> SUFFICES ASSUME RestoringInv, Timely, SoundInv, [Next]_vars PROVE SoundInv'
  OBVIOUS
<1> USE DEF Goto, Fail
<1>1. pc # "end" => outcome = "none"
  BY DEF RestoringInv, Ended
<1>2. ASSUME outcome' \notin {"damaged", "untrusted"} PROVE NoFalseAlarm'
  BY <1>2 DEF NoFalseAlarm
<1>3. CASE Begin \/ Recheck \/ Commit \/ IOFails
  <2>1. /\ pc # "end" /\ UNCHANGED <<header, frames, total, sound>> /\ pc' \in {"header", "commit", "end"}
        /\ outcome' \in {outcome, "exists", "ok", "unconfirmed", "failed"}
    BY <1>3 DEF Begin, Recheck, Commit, IOFails
  <2> QED
    BY <1>1, <1>2, <2>1, SameSound DEF SoundInv
<1>4. CASE OtherCreates \/ PolicyChanges
  <2>1. pc # "end" /\ UNCHANGED <<pc, header, frames, total, sound, trailer, outcome>>
    BY <1>4 DEF OtherCreates, PolicyChanges, readerVars
  <2> QED
    BY <1>1, <1>2, <2>1, SameSound DEF SoundInv
<1>5. CASE UNCHANGED vars
  <2>1. NoFalseAlarm'
    BY <1>5 DEF SoundInv, NoFalseAlarm, vars
  <2>2. Unchanged'
    BY <1>5, SameSound DEF vars
  <2> QED
    BY <2>1, <2>2 DEF SoundInv
<1>6. CASE ReadHeader
  <2>1. PICK h \in Headers :
           /\ header' = h /\ pc = "header" /\ sound' = (h = Header(h.archive))
           /\ \/ pc' = "frames" /\ outcome' = outcome
              \/ ~ HeaderAccepted(h) /\ pc' = "end" /\ outcome' = "damaged"
           /\ UNCHANGED <<options, frames, total, trailer, seen>>
    BY <1>6 DEF ReadHeader
  <2>2. frames = <<>> /\ total = 0
    BY <2>1 DEF RestoringInv, Begun
  <2>3. Unchanged'
    <3> SUFFICES ASSUME sound', pc' = "frames"
                 PROVE  \E a \in Archive : /\ header' = Header(a) /\ FirstFrames(a)' /\ Len(frames') < Len(Lens[a])
                                           /\ total' = LenOfFirst(a, Len(frames'))
      BY <2>1 DEF Unchanged
    <3>1. h.archive \in Archive /\ header' = Header(h.archive)
      BY <2>1, HeaderProperties
    <3>2. Len(Lens[h.archive]) > 0 /\ LenOfFirst(h.archive, 0) = 0 /\ Len(Lens[h.archive]) \in Nat
      BY <3>1, SealedArchive, FirstLengths
    <3>3. frames' = <<>> /\ Len(frames') = 0 /\ total' = 0
      BY <2>1, <2>2
    <3>4. FirstFrames(h.archive)'
      BY <3>2, <3>3 DEF FirstFrames
    <3> QED
      BY <3>1, <3>2, <3>3, <3>4
  <2>4. NoFalseAlarm'
    <3>1. CASE outcome' = "damaged" /\ ~ HeaderAccepted(h)
      <4>1. ~ (sound' /\ options'.keys_fit)
        BY <2>1, <3>1 DEF HeaderAccepted
      <4> QED
        BY <3>1, <4>1 DEF NoFalseAlarm
    <3>2. CASE outcome' = outcome
      BY <1>1, <1>2, <2>1, <3>2
    <3> QED
      BY <2>1, <3>1, <3>2
  <2> QED
    BY <2>3, <2>4 DEF SoundInv
<1>7. ASSUME pc = "frames", sound, NEW f, NextInOrder(f)
      PROVE  \E a \in Archive :
                /\ header = Header(a) /\ FirstFrames(a) /\ Len(frames) < Len(Lens[a])
                /\ total = LenOfFirst(a, Len(frames)) /\ f = Frames(a)[Len(frames) + 1]
  <2>1. PICK a \in Archive : /\ header = Header(a) /\ FirstFrames(a) /\ Len(frames) < Len(Lens[a])
                             /\ total = LenOfFirst(a, Len(frames))
    BY <1>7 DEF SoundInv, Unchanged
  <2>2. header.archive = a
    BY <2>1, HeaderProperties
  <2> QED
    BY <1>7, <2>1, <2>2 DEF NextInOrder
<1>8. CASE ReadFrame
  <2>1. PICK f \in Frame :
           /\ sound' = (sound /\ NextInOrder(f))
           /\ frames' = Append(frames, f) /\ total' = total + f.plain_len
           /\ pc = "frames" /\ pc' = IF f.is_final THEN "trailer" ELSE "frames"
           /\ UNCHANGED <<options, header, trailer, outcome, seen>>
    BY <1>8 DEF ReadFrame
  <2>2. Unchanged'
    <3> SUFFICES ASSUME sound' PROVE Unchanged'
      BY DEF Unchanged
    <3>1. PICK a \in Archive :
             /\ header = Header(a) /\ FirstFrames(a) /\ Len(frames) < Len(Lens[a])
             /\ total = LenOfFirst(a, Len(frames)) /\ f = Frames(a)[Len(frames) + 1]
      BY <1>7, <2>1
    <3>2. /\ f.is_final <=> Len(frames) + 1 = Len(Lens[a])
          /\ Len(frames) \in Nat /\ Len(Lens[a]) \in Nat
          /\ Len(frames') = Len(frames) + 1
          /\ \A i \in 1..Len(frames) + 1 : frames'[i] = Frames(a)[i]
          /\ f.is_final => frames' = Frames(a)
      BY <2>1, <3>1, NextFrame
    <3>3. /\ total' = LenOfFirst(a, Len(frames'))
          /\ f.is_final => total' = SumOf(Lens[a])
      BY <2>1, <3>1, <3>2, NextIsAccepted
    <3>4. FirstFrames(a)'
      BY <3>1, <3>2 DEF FirstFrames
    <3>5. CASE f.is_final
      BY <2>1, <3>1, <3>2, <3>3, <3>5 DEF Unchanged
    <3>6. CASE ~ f.is_final
      <4>1. Len(frames') < Len(Lens[a]) /\ header' = Header(a) /\ pc' = "frames"
        BY <2>1, <3>1, <3>2, <3>6
      <4> QED
        BY <3>3, <3>4, <4>1 DEF Unchanged
    <3> QED
      BY <3>5, <3>6
  <2> QED
    BY <1>1, <1>2, <2>1, <2>2 DEF SoundInv
<1>9. CASE RejectFrame
  <2>1. /\ pc = "frames" /\ pc' = "end" /\ outcome' = "damaged"
        /\ \/ \E f \in Frame : ~ FrameAccepted(f) /\ sound' = (sound /\ NextInOrder(f))
           \/ sound' = FALSE
    BY <1>9 DEF RejectFrame
  <2>2. ASSUME NEW f \in Frame, ~ FrameAccepted(f), sound' = (sound /\ NextInOrder(f)) PROVE ~ sound'
    <3>1. ASSUME sound, NextInOrder(f) PROVE FALSE
      BY <1>7, <2>1, <2>2, <3>1, NextIsAccepted
    <3> QED
      BY <2>2, <3>1
  <2>3. ~ sound'
    BY <2>1, <2>2
  <2> QED
    BY <2>1, <2>3 DEF SoundInv, Unchanged, NoFalseAlarm
<1>10. CASE ReadTrailer
  <2>1. PICK t \in Trailer \cup {Nothing} :
           /\ trailer' = t /\ sound' = (sound /\ TrailerInOrder(t)) /\ pc = "trailer"
           /\ UNCHANGED <<options, header, frames, total>>
           /\ \/ pc' \in {"recheck", "end"} /\ outcome' \in {outcome, "ok"}
              \/ pc' = "end" /\ outcome' = "untrusted" /\ t = Nothing
              \/ pc' = "signature" /\ outcome' = outcome /\ t # Nothing
    BY <1>10 DEF ReadTrailer, Proceed
  <2>2. NoFalseAlarm'
    BY <1>1, <2>1 DEF NoFalseAlarm
  <2>3. Unchanged'
    <3> SUFFICES ASSUME sound', pc' = "signature"
                 PROVE  /\ \E a \in Archive : header' = Header(a) /\ frames' = Frames(a) /\ total' = SumOf(Lens[a])
                        /\ trailer' # Nothing /\ TrailerInOrder(trailer)'
      BY <2>1 DEF Unchanged
    <3>1. \E a \in Archive : header = Header(a) /\ frames = Frames(a) /\ total = SumOf(Lens[a])
      BY <2>1 DEF SoundInv, Unchanged
    <3>2. TrailerInOrder(trailer)'
      BY <2>1 DEF TrailerInOrder
    <3> QED
      BY <2>1, <3>1, <3>2
  <2> QED
    BY <2>2, <2>3 DEF SoundInv
<1>11. CASE RejectTrailer
  <2>1. /\ pc = "trailer" /\ pc' = "end" /\ outcome' = "damaged"
        /\ \/ \E t \in Trailer : t.signed_len # 1 + total + Len(frames) /\ sound' = (sound /\ TrailerInOrder(t))
           \/ sound' = FALSE
    BY <1>11 DEF RejectTrailer
  <2>2. ASSUME NEW t \in Trailer, t.signed_len # 1 + total + Len(frames), sound, TrailerInOrder(t) PROVE FALSE
    <3>1. PICK a \in Archive : header = Header(a) /\ frames = Frames(a) /\ total = SumOf(Lens[a])
      BY <2>1, <2>2 DEF SoundInv, Unchanged
    <3>2. header.archive = a /\ Len(frames) = Len(Lens[a])
      BY <3>1, HeaderProperties, SealedArchive
    <3>3. t # Nothing
      <4>1. "signer" \in DOMAIN t /\ DOMAIN Nothing = {"absent"}
        BY DEF Trailer, Nothing
      <4> QED
        BY <4>1
    <3>4. t.signed_len = EnvelopeLen(Envelope(a))
      BY <2>2, <3>2, <3>3 DEF TrailerInOrder
    <3>5. Envelope(a).header.original_len = SumOf(Lens[a]) /\ Envelope(a).frames = Frames(a)
      BY HeaderProperties DEF Envelope
    <3> QED
      BY <2>2, <3>1, <3>4, <3>5 DEF EnvelopeLen
  <2>3. ~ sound'
    BY <2>1, <2>2
  <2> QED
    BY <2>1, <2>3 DEF SoundInv, Unchanged, NoFalseAlarm
<1>12. CASE CheckSignature
  <2>1. /\ pc = "signature" /\ UNCHANGED <<options, header, frames, total, trailer, sound>>
        /\ \/ pc' = "policy" /\ outcome' = outcome
           \/ ~ Verifies /\ pc' = "end" /\ outcome' = "untrusted"
    BY <1>12 DEF CheckSignature
  <2>2. ASSUME sound, trailer.signer = options.public PROVE Verifies
    <3>1. PICK a \in Archive : header = Header(a) /\ frames = Frames(a)
      BY <2>1, <2>2 DEF SoundInv, Unchanged
    <3>2. trailer # Nothing /\ TrailerInOrder(trailer) /\ header.archive = a
      BY <2>1, <2>2, <3>1, HeaderProperties DEF SoundInv, Unchanged
    <3> DEFINE e == Envelope(a)
    <3>3. PICK k \in Signer : trailer = [signer |-> k, signed_len |-> EnvelopeLen(e), signature |-> <<k, e>>]
      BY <3>2 DEF TrailerInOrder
    <3>4. trailer.signer = k /\ trailer.signed_len = EnvelopeLen(e) /\ trailer.signature = <<k, e>>
      BY <3>3
    <3>5. e \in Envelopes /\ EnvelopeIs(e)
      BY <3>1 DEF Envelopes, Envelope, EnvelopeIs
    <3> HIDE DEF e
    <3> QED
      BY <2>2, <3>4, <3>5 DEF Verifies
  <2>3. NoFalseAlarm'
    BY <1>1, <2>1, <2>2 DEF NoFalseAlarm
  <2>4. Unchanged'
    BY <2>1 DEF Unchanged
  <2> QED
    BY <2>3, <2>4 DEF SoundInv
<1>13. CASE CheckPolicy
  <2>1. /\ pc = "policy" /\ UNCHANGED <<options, seen>> /\ pc' \in {"recheck", "end"}
        /\ \/ outcome' \in {outcome, "ok"}
           \/ ~ Acceptable(status) /\ outcome' = "untrusted"
    BY <1>13 DEF CheckPolicy, Proceed
  <2>2. status \in seen
    BY <2>1 DEF Timely
  <2>3. ASSUME ~ Acceptable(status)
        PROVE  seen \ {"trusted"} # {} /\ ~ (options.allow_retired /\ seen \subseteq {"trusted", "retired"})
    BY <2>2, <2>3 DEF Acceptable, Historical
  <2>4. NoFalseAlarm'
    BY <1>1, <2>1, <2>3 DEF NoFalseAlarm
  <2>5. Unchanged'
    BY <2>1 DEF Unchanged
  <2> QED
    BY <2>4, <2>5 DEF SoundInv
<1> QED
  BY <1>3, <1>4, <1>5, <1>6, <1>8, <1>9, <1>10, <1>11, <1>12, <1>13 DEF Next, Restore

\* An archive that the medium returns unchanged is not called damaged when the
\* keys fit (decrypt_archive_reader), nor untrusted when it is signed with the
\* given key and the policy accepts it (verify_provenance_reader): a backup can be
\* restored, whatever the number and the lengths of its frames.
THEOREM UnchangedIsRestored == Spec => []NoFalseAlarm
<1>1. Init => Signed /\ Timely /\ SoundInv
  BY DEF Init, Signed, Timely, Vetted, Released, SoundInv, Unchanged, NoFalseAlarm
<1>2. SoundInv => NoFalseAlarm
  BY DEF SoundInv
<1>3. Spec => [](RestoringInv /\ Signed /\ Timely /\ SoundInv)
  BY <1>1, InitRestoringInv, NextRestoringInv, NextSigned, NextTimely, NextSoundInv, PTL DEF Spec
<1> QED
  BY <1>2, <1>3, PTL

----------------------------------------------------------------------------
(* One decision about one envelope.                                        *)

\* What is released was read in full: all of a sealed archive, its plaintext
\* included, or, without the keys, all of a signed envelope.
Read == [header |-> header, frames |-> frames]
WholeOf(a) == Read = Envelope(a) /\ staged = Plaintext(a)
ReleasesWhole ==
    Released => IF Decrypts THEN \E a \in Archive : WholeOf(a) ELSE Read \in Envelopes

LEMMA ReleasedIsWhole == RestoringInv /\ Signed => ReleasesWhole
<1> SUFFICES ASSUME RestoringInv, Signed, Released
             PROVE  IF Decrypts THEN \E a \in Archive : WholeOf(a) ELSE Read \in Envelopes
  BY DEF ReleasesWhole
<1>1. TypeOK /\ Decrypted /\ Complete /\ WholeOrNothing
  BY RestoringIsRestore DEF RestoringInv, RestoreInv
<1>2. frames # <<>> /\ frames \in Seq(Short)
  BY <1>1 DEF Complete, Accepted, TypeOK, Short
<1>3. CASE Decrypts
  <2>1. PICK a \in Archive : /\ header = Header(a) /\ FirstFrames(a)
                             /\ \A i \in 1..Len(frames) : staged[i] = <<a, i>>
    BY <1>1, <1>2, <1>3 DEF Decrypted
  <2>2. PICK b \in Archive : staged = Plaintext(b)
    BY <1>1, <1>3 DEF WholeOrNothing
  <2>3. /\ Len(frames) \in Nat \ {0}
        /\ Len(Lens[b]) \in Nat \ {0} /\ DOMAIN Lens[b] = 1..Len(Lens[b])
    BY <1>2, EmptySeq, LenProperties, ArchiveAssumption
  <2>4. Len(staged) = Len(Lens[b]) /\ \A i \in 1..Len(Lens[b]) : staged[i] = <<b, i>>
    BY <2>2, <2>3 DEF Plaintext
  <2>5. Len(staged) = Len(frames)
    BY <1>1, <1>3 DEF Decrypted
  <2>6. a = b
    <3>1. 1 \in 1..Len(frames) /\ 1 \in 1..Len(Lens[b])
      BY <2>3
    <3>2. <<a, 1>> = <<b, 1>>
      BY <2>1, <2>4, <3>1
    <3> QED
      BY <3>2
  <2>7. Frames(a) \in Seq(Short) /\ Len(Frames(a)) = Len(frames)
    BY <2>4, <2>5, <2>6, SealedArchive
  <2>8. frames = Frames(a)
    BY <1>2, <2>1, <2>7, SeqEqual DEF FirstFrames
  <2> QED
    BY <1>3, <2>1, <2>2, <2>6, <2>8 DEF WholeOf, Read, Envelope
<1>4. CASE ~ Decrypts
  <2>1. options.require_provenance
    BY <1>1, <1>4 DEF TypeOK, Options, Decrypts
  <2>2. Verifies
    BY <2>1 DEF Signed, Vetted
  <2>3. PICK e \in Envelopes : EnvelopeIs(e)
    BY <2>2 DEF Verifies
  <2> QED
    BY <1>4, <2>3, EnvelopeAsRead DEF Read
<1> QED
  BY <1>3, <1>4

\* The answer, for each outcome.
LEMMA Answers ==
  /\ outcome = "none" => Answer = "none"
  /\ outcome = "ok" => Answer = "approved"
  /\ outcome \in {"exists", "damaged", "untrusted"} => Answer = "refused"
  /\ outcome \in {"failed", "unconfirmed"} => Answer = "failed"
BY DEF Answer

LEMMA InitPromise == Init => Promise!Init
<1> SUFFICES ASSUME Init PROVE Promise!Init
  OBVIOUS
<1>1. outcome = "none" /\ dest \in {"absent", "other"}
  BY DEF Init
<1>2. Answer = "none"
  BY <1>1, Answers
<1>3. options.mode \in {"open", "verify", "provenance-verify"}
  BY DEF Init, Options
<1> QED
  BY <1>1, <1>2, <1>3 DEF Promise!Init

\* The steps before the end, and those of others, do not show.
StillOpen == options' = options /\ outcome = "none" /\ outcome' = "none" /\ dest # "ours"

LEMMA Undecided ==
  ASSUME StillOpen, dest' = dest \/ (dest = "absent" /\ dest' = "other")
  PROVE  [Promise!Next]_(Promise!vars)
<1>1. Answer = "none" /\ Answer' = "none"
  BY Answers DEF StillOpen, Answer
<1>2. CASE dest' = dest
  BY <1>1, <1>2 DEF StillOpen, Promise!vars
<1>3. CASE dest = "absent" /\ dest' = "other"
  <2>1. Promise!Occupy
    BY <1>1, <1>3 DEF StillOpen, Promise!Occupy
  <2> QED
    BY <2>1 DEF Promise!Next
<1> QED
  BY <1>2, <1>3

\* A step to the end decides, and leaves the path alone.
LEMMA Rejected ==
  ASSUME outcome = "none", outcome' \in {"exists", "damaged", "untrusted", "failed"},
         dest' = dest, dest # "ours", options' = options
  PROVE  [Promise!Next]_(Promise!vars)
<1>1. Answer = "none" /\ Answer' \in {"refused", "failed"}
  BY Answers DEF Answer
<1>2. Promise!TurnDown
  BY <1>1 DEF Promise!TurnDown
<1> QED
  BY <1>2 DEF Promise!Next

LEMMA Confirmed ==
  ASSUME outcome = "none", outcome' = "ok", dest' = dest, dest # "ours",
         options' = options, options.mode # "open", ReleasesWhole', TypeOK
  PROVE  [Promise!Next]_(Promise!vars)
<1>1. Answer = "none" /\ Answer' = "approved"
  BY Answers DEF Answer
<1>2. options.mode \in {"verify", "provenance-verify"}
  BY DEF TypeOK, Options
<1>3. CASE options.mode = "verify"
  <2>1. PICK a \in Archive : WholeOf(a)'
    BY <1>3 DEF ReleasesWhole, Released, Decrypts
  <2>2. Promise!Verify
    BY <1>1, <1>3, <2>1 DEF Promise!Verify, Promise!Approve, WholeOf, Read
  <2> QED
    BY <2>2 DEF Promise!Next
<1>4. CASE options.mode = "provenance-verify"
  <2>1. Read' \in Envelopes
    BY <1>4 DEF ReleasesWhole, Released, Decrypts
  <2>2. Promise!VerifyProvenance
    BY <1>1, <1>4, <2>1 DEF Promise!VerifyProvenance, Promise!Approve, Read
  <2> QED
    BY <2>2 DEF Promise!Next
<1> QED
  BY <1>2, <1>3, <1>4

LEMMA Published ==
  ASSUME outcome = "none", outcome' \in {"ok", "unconfirmed"}, dest = "absent", dest' = "ours",
         options' = options, options.mode = "open", ReleasesWhole'
  PROVE  [Promise!Next]_(Promise!vars)
<1>1. PICK a \in Archive : WholeOf(a)'
  BY DEF ReleasesWhole, Released, Decrypts
<1>2. staged' = Plaintext(a)
  BY <1>1 DEF WholeOf
<1>3. Answer = "none" /\ Answer' = IF outcome' = "ok" THEN "approved" ELSE "failed"
  BY Answers DEF Answer
<1>4. Promise!Publish(a)
  BY <1>1, <1>2, <1>3 DEF Promise!Publish, WholeOf, Read
<1> QED
  BY <1>4 DEF Promise!Next

\* Every step is a decision or does not show.
LEMMA StepPromise ==
  RestoringInv /\ ReleasesWhole' /\ [Next]_vars => [Promise!Next]_(Promise!vars)
<1> SUFFICES ASSUME RestoringInv, ReleasesWhole', [Next]_vars
             PROVE  [Promise!Next]_(Promise!vars)
  OBVIOUS
<1> USE DEF Goto, Fail
<1>1. /\ pc # "end" => outcome = "none" /\ dest # "ours"
      /\ pc \in {"recheck", "commit"} => options.mode = "open"
  BY DEF RestoringInv, Ended
<1>2. CASE Begin \/ ReadHeader \/ ReadFrame \/ RejectFrame \/ RejectTrailer \/ CheckSignature \/ Recheck \/ IOFails
  <2>1. /\ pc # "end" /\ dest' = dest /\ options' = options
        /\ outcome' \in {outcome, "exists", "damaged", "untrusted", "failed"}
    BY <1>2 DEF Begin, ReadHeader, ReadFrame, RejectFrame, RejectTrailer, CheckSignature, Recheck, IOFails
  <2> QED
    BY <1>1, <2>1, Undecided, Rejected DEF StillOpen
<1>3. CASE ReadTrailer \/ CheckPolicy
  <2>1. /\ pc # "end" /\ dest' = dest /\ options' = options
        /\ \/ outcome' \in {outcome, "untrusted"}
           \/ outcome' = "ok" /\ options.mode # "open"
    BY <1>3 DEF ReadTrailer, CheckPolicy, Proceed
  <2> QED
    BY <1>1, <2>1, Undecided, Rejected, Confirmed DEF StillOpen, RestoringInv
<1>4. CASE Commit
  <2>1. /\ pc = "commit" /\ options' = options
        /\ \/ dest = "absent" /\ dest' = "ours" /\ outcome' \in {"ok", "unconfirmed"}
           \/ dest' = dest /\ outcome' = "exists"
    BY <1>4 DEF Commit
  <2> QED
    BY <1>1, <2>1, Rejected, Published
<1>5. CASE OtherCreates
  <2>1. pc # "end" /\ options' = options /\ outcome' = outcome /\ dest = "absent" /\ dest' = "other"
    BY <1>5 DEF OtherCreates, readerVars
  <2> QED
    BY <1>1, <2>1, Undecided DEF StillOpen
<1>6. CASE PolicyChanges \/ UNCHANGED vars
  <2>1. UNCHANGED <<options, header, frames, staged, outcome, dest>>
    BY <1>6 DEF PolicyChanges, vars, readerVars
  <2>2. Answer' = Answer
    BY <2>1 DEF Answer
  <2> QED
    BY <2>1, <2>2 DEF Promise!vars
<1> QED
  BY <1>2, <1>3, <1>4, <1>5, <1>6 DEF Next, Restore

\* open, verify and provenance-verify keep the promise of Restoration: one pass
\* over whatever the medium returns is one decision. open and verify approve all of
\* one sealed archive, provenance-verify, which has no keys, all of one envelope
\* that somebody signed. The output path is never replaced, gets the whole plaintext
\* of the archive that is approved, in one step, and nothing after a refusal
\* (open_archive_with_policy, verify_archive_with_policy, verify_provenance).
THEOREM OneDecision == Spec => ImplementsRestoration
<1>1. Init => Promise!Init
  BY InitPromise
<1>2. Init => Signed
  BY DEF Init, Signed, Vetted, Released
<1>3. Spec => [](RestoringInv /\ Signed)
  BY <1>2, InitRestoringInv, NextRestoringInv, NextSigned, PTL DEF Spec
<1>4. RestoringInv /\ Signed => ReleasesWhole
  BY ReleasedIsWhole
<1>5. RestoringInv /\ ReleasesWhole' /\ [Next]_vars => [Promise!Next]_(Promise!vars)
  BY StepPromise
<1> QED
  BY <1>1, <1>3, <1>4, <1>5, PTL DEF Spec, ImplementsRestoration, Promise!Spec
============================================================================

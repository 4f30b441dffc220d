-------------------------- MODULE SignArchiveProofs --------------------------
(***************************************************************************)
(* What is proved of provenance-sign, for any archives, keys and number of *)
(* changes of the input.                                                   *)
(*                                                                         *)
(* InputInv is about the input, which other programs change: what every    *)
(* file contains is remembered, what has been read comes from such         *)
(* contents, and what is copied from a file that was neither cut nor       *)
(* overwritten is a prefix of it.  CopyInv follows the private copy from   *)
(* the last byte read to the trailer.  The lemmas before them say what     *)
(* the pieces of a file, its prefixes and the framing rules have to do     *)
(* with each other.                                                        *)
(***************************************************************************)
EXTENDS SignArchive, SequenceTheorems, FiniteSetTheorems, WellFoundedInduction, TLAPS

\* A finite set of numbers that is not empty has a greatest one.
LEMMA FiniteHasGreatest ==
  ASSUME NEW S \in SUBSET Nat, IsFiniteSet(S), S # {}
  PROVE  \E m \in S : \A x \in S : m >= x
<1> DEFINE HasGreatest(s) == \E m \in s : \A x \in s : m >= x
           bad == {s \in SUBSET S : s # {} /\ ~ HasGreatest(s)}
<1> SUFFICES ASSUME bad # {} PROVE FALSE
  <2>1. S \notin bad
    OBVIOUS
  <2> QED
    BY <2>1
<1>1. IsWellFoundedOn(StrictSubsetOrdering(S), SUBSET S)
  BY FS_StrictSubsetOrderingWellFounded, FS_FiniteSubsetsOfFinite
<1>2. bad \subseteq SUBSET S
  OBVIOUS
<1>3. PICK s \in bad : \A t \in bad : ~ (<<t, s>> \in StrictSubsetOrdering(S))
  <2> HIDE DEF bad
  <2> QED
    BY <1>1, <1>2, WFMin
<1>4. PICK x \in s : TRUE
  OBVIOUS
<1>5. s \in SUBSET S /\ ~ HasGreatest(s) /\ s \ {x} \in SUBSET S
  OBVIOUS
<1>6. <<s \ {x}, s>> \in StrictSubsetOrdering(S)
  <2>1. s \ {x} # s
    BY <1>4
  <2> QED
    BY <1>5, <2>1 DEF StrictSubsetOrdering
<1>7. s \ {x} = {} \/ HasGreatest(s \ {x})
  BY <1>3, <1>5, <1>6
<1>8. CASE s \ {x} = {}
  BY <1>4, <1>5, <1>8
<1>9. CASE HasGreatest(s \ {x})
  <2>1. PICK m \in s \ {x} : \A y \in s \ {x} : m >= y
    BY <1>9
  <2>2. m \in Nat /\ x \in Nat /\ \A y \in s : y \in Nat
    BY <1>5
  <2>3. CASE m >= x
    BY <1>5, <2>1, <2>2, <2>3
  <2>4. CASE x >= m
    <3>1. \A y \in s : x >= y
      BY <2>1, <2>2, <2>4
    <3> QED
      BY <1>4, <1>5, <3>1
  <2> QED
    BY <2>2, <2>3, <2>4
<1> QED
  BY <1>7, <1>8, <1>9

\* No file is longer than Longest, with a trailer.
LEMMA LongestIsLongest == Longest \in Nat /\ \A a \in Archive : Frames[a] + 2 <= Longest
<1> DEFINE S == {Frames[a] : a \in Archive}
           m == CHOOSE n \in S : \A a \in Archive : n >= Frames[a]
<1>1. S \in SUBSET Nat /\ S # {} /\ \A a \in Archive : Frames[a] \in Nat
  BY ArchiveAssumption
<1>2. IsFiniteSet(S)
  <2> DEFINE f == [a \in Archive |-> Frames[a]]
  <2>1. f \in Surjection(Archive, S)
    BY DEF Surjection
  <2> QED
    BY <2>1, ArchiveAssumption, FS_Surjection
<1>3. \E n \in S : \A a \in Archive : n >= Frames[a]
  BY <1>1, <1>2, FiniteHasGreatest
<1>4. m \in S /\ \A a \in Archive : m >= Frames[a]
  BY <1>3
<1>5. Longest = 2 + m
  BY DEF Longest
<1>6. m \in Nat
  BY <1>1, <1>4
<1> HIDE DEF m, S
<1> QED
  BY <1>1, <1>4, <1>5, <1>6

----------------------------------------------------------------------------
\* What seal writes is what scan_archive_reader accepts.
LEMMA SealedIsFramed ==
  ASSUME NEW a \in Archive
  PROVE  /\ Sealed(a) \in Seq(Pieces) /\ Len(Sealed(a)) = Frames[a] + 1 /\ Frames[a] \in Nat \ {0}
         /\ \A i \in 1..Frames[a] + 1 : Sealed(a)[i] = [of |-> a, at |-> i - 1, intact |-> TRUE]
         /\ Framed(Sealed(a))
<1>1. Frames[a] \in Nat \ {0}
  BY ArchiveAssumption
<1>2. ASSUME NEW i \in 1..Frames[a] + 1 PROVE [of |-> a, at |-> i - 1, intact |-> TRUE] \in Pieces
  <2>1. i - 1 \in 0..Frames[a]
    BY <1>1
  <2>2. [of |-> a, at |-> i - 1, intact |-> TRUE] \in [of : {a}, at : 0..Frames[a], intact : BOOLEAN]
    BY <2>1
  <2> QED
    BY <2>2 DEF Pieces
<1>3. Sealed(a) \in Seq(Pieces) /\ Len(Sealed(a)) = Frames[a] + 1
  BY <1>1, <1>2 DEF Sealed
<1>4. \A i \in 1..Frames[a] + 1 : Sealed(a)[i] = [of |-> a, at |-> i - 1, intact |-> TRUE]
  BY DEF Sealed
<1>5. DOMAIN Sealed(a) = 1..Frames[a] + 1 /\ Sealed(a) # <<>>
  BY <1>1, <1>3, LenProperties DEF Sealed
<1>6. \A i \in 1..Frames[a] + 1 : /\ Sealed(a)[i] \in Pieces
                                   /\ Sealed(a)[i].of = a /\ Sealed(a)[i].at = i - 1
  <2> TAKE i \in 1..Frames[a] + 1
  <2>1. PICK r : r = [of |-> a, at |-> i - 1, intact |-> TRUE]
    OBVIOUS
  <2>2. r.of = a /\ r.at = i - 1 /\ Sealed(a)[i] = r
    BY <1>4, <2>1
  <2> QED
    BY <1>2, <2>1, <2>2
<1>7. 1 \in 1..Frames[a] + 1
  BY <1>1
<1>8. Framed(Sealed(a))
  <2> SUFFICES ASSUME NEW i \in 1..Frames[a] + 1
               PROVE  (i > 1 /\ Sealed(a)[i].at = Frames[Sealed(a)[i].of]) <=> i = Len(Sealed(a))
    BY <1>3, <1>5, <1>6, <1>7 DEF Framed
  <2> QED
    BY <1>1, <1>3, <1>6
<1> QED
  BY <1>1, <1>3, <1>4, <1>8

\* The beginning of a file.
LEMMA PrefixProperties ==
  ASSUME NEW T, NEW s \in Seq(T), NEW n \in 0..Len(s)
  PROVE  /\ SubSeq(s, 1, n) \in Seq(T) /\ Len(SubSeq(s, 1, n)) = n /\ n \in Nat
         /\ \A i \in 1..n : SubSeq(s, 1, n)[i] = s[i]
<1>1. Len(s) \in Nat /\ n \in Nat /\ n <= Len(s)
  BY LenProperties
<1>2. \A i \in 1..n : s[i] \in T
  BY <1>1, ElementOfSeq
<1>3. /\ SubSeq(s, 1, n) \in Seq(T) /\ Len(SubSeq(s, 1, n)) = IF 1 <= n THEN n - 1 + 1 ELSE 0
      /\ \A i \in 1..n - 1 + 1 : SubSeq(s, 1, n)[i] = s[1 + i - 1]
  BY <1>1, <1>2, SubSeqProperties
<1> QED
  BY <1>1, <1>3

\* What the trailer is appended to, and the trailer.
LEMMA FrontAndLast ==
  ASSUME NEW T, NEW s \in Seq(T), NEW x
  PROVE  Front(Append(s, x)) = s /\ Last(Append(s, x)) = x
<1> DEFINE U == T \cup {x}
           t == Append(s, x)
<1>1. s \in Seq(U)
  BY SeqMonotonic
<1>2. /\ t \in Seq(U) /\ Len(t) = Len(s) + 1 /\ Len(s) \in Nat
      /\ \A i \in 1..Len(s) : t[i] = s[i]
      /\ t[Len(s) + 1] = x
  BY <1>1, AppendProperties, LenProperties
<1> HIDE DEF t, U
<1>3. Len(s) \in 0..Len(t) /\ Front(t) = SubSeq(t, 1, Len(s))
  BY <1>2 DEF Front
<1>4. SubSeq(t, 1, Len(s)) = s
  BY <1>1, <1>2, <1>3, PrefixProperties, SeqEqual
<1> QED
  BY <1>2, <1>3, <1>4 DEF Last, t

\* A file with the form of an archive leaves room for a trailer.
LEMMA FramedIsShort ==
  ASSUME NEW s \in Seq(Item), Framed(s)
  PROVE  Len(s) + 1 <= Longest /\ Len(s) \in Nat
<1>1. 1 \in DOMAIN s /\ Len(s) \in Nat
  <2>1. s # <<>>
    BY DEF Framed
  <2> QED
    BY <2>1, EmptySeq, LenProperties
<1>2. s[1] \in Pieces
  BY <1>1 DEF Framed
<1>3. PICK a \in Archive : s[1] \in [of : {a}, at : 0..Frames[a], intact : BOOLEAN]
  BY <1>2 DEF Pieces
<1>4. s[1].of = a
  BY <1>3
<1>5. Len(s) = Frames[a] + 1
  BY <1>4 DEF Framed
<1> QED
  BY <1>1, <1>5, LongestIsLongest, ArchiveAssumption

\* What may be signed has the form of an archive, whoever made it.
LEMMA EnvelopeIsFramed ==
  ASSUME NEW s \in Envelopes
  PROVE  s \in Seq(Pieces) /\ s \in Seq(Item) /\ Framed(s)
<1>1. s \in Seq(Pieces) /\ Framed(s)
  BY SealedIsFramed, UnsealedAssumption DEF Envelopes, Whole
<1> QED
  BY <1>1, SeqMonotonic DEF Item

\* A file consists of pieces, and is not too long.
LEMMA ContentTypes ==
  ASSUME NEW s \in Contents
  PROVE  s \in Seq(Item) /\ Len(s) <= Longest /\ Len(s) \in Nat
<1>1. \A e \in Envelopes : e \in Seq(Item) /\ Len(e) + 1 <= Longest /\ Len(e) \in Nat
  BY EnvelopeIsFramed, FramedIsShort
<1>2. Longest \in Nat
  BY LongestIsLongest
<1>3. ASSUME NEW e \in Envelopes, NEW n \in 0..Len(e), s = SubSeq(e, 1, n)
      PROVE  s \in Seq(Item) /\ Len(s) <= Longest /\ Len(s) \in Nat
  <2>1. e \in Seq(Item) /\ Len(e) + 1 <= Longest /\ Len(e) \in Nat
    BY <1>1
  <2> QED
    BY <1>2, <1>3, <2>1, PrefixProperties
<1>4. ASSUME NEW e \in Envelopes, NEW x \in Item, s = Append(e, x)
      PROVE  s \in Seq(Item) /\ Len(s) <= Longest /\ Len(s) \in Nat
  <2>1. e \in Seq(Item) /\ Len(e) + 1 <= Longest /\ Len(e) \in Nat
    BY <1>1
  <2> QED
    BY <1>2, <1>4, <2>1, AppendProperties
<1>5. CASE s \in UNION {{SubSeq(w, 1, n) : n \in 0..Len(w)} : w \in Envelopes}
  BY <1>3, <1>5
<1>6. CASE s \in {Append(w, Junk) : w \in Envelopes}
  <2>1. Junk \in Item
    BY DEF Item
  <2> QED
    BY <1>4, <1>6, <2>1
<1>7. CASE s \in {Append(t.covers, t) : t \in Trailers}
  <2>1. PICK k \in Key, e \in Envelopes : s = Append(Trailer(k, e).covers, Trailer(k, e))
    BY <1>7 DEF Trailers
  <2>2. Trailer(k, e).covers = e /\ Trailer(k, e) \in Item
    BY DEF Trailer, Trailers, Item
  <2> QED
    BY <1>4, <2>1, <2>2
<1> QED
  BY <1>5, <1>6, <1>7 DEF Contents

\* A file that is cut, overwritten in part, or written on still consists of such pieces.
LEMMA CutTypes ==
  ASSUME NEW f \in Seq(Item), Len(f) <= Longest, NEW n \in 0..Len(f) - 1
  PROVE  SubSeq(f, 1, n) \in Seq(Item) /\ Len(SubSeq(f, 1, n)) <= Longest
<1>1. Len(f) \in Nat /\ Longest \in Nat
  BY LenProperties, LongestIsLongest
<1>2. n \in 0..Len(f)
  BY <1>1
<1> QED
  BY <1>1, <1>2, PrefixProperties

LEMMA OverwrittenTypes ==
  ASSUME NEW f \in Seq(Item), Len(f) <= Longest, NEW n \in DOMAIN f, NEW x \in Item
  PROVE  [f EXCEPT ![n] = x] \in Seq(Item) /\ Len([f EXCEPT ![n] = x]) <= Longest
<1>1. /\ Len(f) \in Nat /\ DOMAIN f = 1..Len(f)
      /\ [f EXCEPT ![n] = x] \in Seq(Item) /\ DOMAIN [f EXCEPT ![n] = x] = DOMAIN f
  BY LenProperties, ExceptSeq
<1> DEFINE g == [f EXCEPT ![n] = x]
<1>2. g \in Seq(Item) /\ DOMAIN g = 1..Len(f)
  BY <1>1
<1> HIDE DEF g
<1>3. Len(g) = Len(f)
  BY <1>1, <1>2, LenProperties
<1> QED
  BY <1>2, <1>3 DEF g

LEMMA ExtendedProperties ==
  ASSUME NEW f \in Seq(Item), NEW s \in Contents, Len(s) > Len(f)
  PROVE  LET g == f \o SubSeq(s, Len(f) + 1, Len(s))
         IN  g \in Seq(Item) /\ Len(g) = Len(s) /\ \A i \in 1..Len(f) : g[i] = f[i]
<1> DEFINE tail == SubSeq(s, Len(f) + 1, Len(s))
<1>1. Len(f) \in Nat /\ s \in Seq(Item) /\ Len(s) \in Nat
  BY ContentTypes, LenProperties
<1>2. \A i \in Len(f) + 1..Len(s) : s[i] \in Item
  BY <1>1, ElementOfSeq
<1>3. tail \in Seq(Item) /\ Len(tail) = Len(s) - Len(f)
  BY <1>1, <1>2, SubSeqProperties
<1> HIDE DEF tail
<1>4. /\ f \o tail \in Seq(Item) /\ Len(f \o tail) = Len(f) + Len(tail)
      /\ \A i \in 1..Len(f) : (f \o tail)[i] = f[i]
  BY <1>1, <1>3, ConcatProperties
<1> QED
  BY <1>1, <1>3, <1>4 DEF tail

\* What comes from some contents comes from more of them, and one more piece may come.
LEMMA GatheredGrows ==
  ASSUME NEW s, NEW A, NEW B, A \subseteq B, Gathered(s, A) PROVE Gathered(s, B)
BY DEF Gathered

LEMMA GatheredAppend ==
  ASSUME NEW s \in Seq(Item), NEW A, Gathered(s, A),
         NEW f \in A, f \in Seq(Item), Len(s) < Len(f)
  PROVE  Gathered(Append(s, f[Len(s) + 1]), A)
<1> DEFINE n == Len(s) + 1
           x == f[n]
           t == Append(s, x)
<1>1. Len(s) \in Nat /\ Len(f) \in Nat /\ DOMAIN f = 1..Len(f) /\ DOMAIN s = 1..Len(s)
  BY LenProperties
<1>2. n \in DOMAIN f /\ x \in Item
  BY <1>1, ElementOfSeq
<1> HIDE DEF x
<1>3. t \in Seq(Item) /\ Len(t) = n /\ t[n] = x /\ \A i \in 1..Len(s) : t[i] = s[i]
  BY <1>2, AppendProperties
<1> HIDE DEF t
<1>4. DOMAIN t = 1..n
  BY <1>3, LenProperties
<1>5. ASSUME NEW i \in DOMAIN t PROVE \E g \in A : i \in DOMAIN g /\ g[i] = t[i]
  <2>1. CASE i = n
    BY <1>2, <1>3, <2>1 DEF x
  <2>2. CASE i # n
    <3>1. i \in DOMAIN s /\ t[i] = s[i]
      BY <1>1, <1>3, <1>4, <2>2
    <3> QED
      BY <3>1 DEF Gathered
  <2> QED
    BY <2>1, <2>2
<1>6. Gathered(t, A)
  BY <1>5 DEF Gathered
<1> QED
  BY <1>6 DEF t, x

----------------------------------------------------------------------------
\* What has been read agrees with the file as far as it goes.
PrefixOf(r, f) == Len(r) <= Len(f) /\ \A i \in 1..Len(r) : r[i] = f[i]

\* No file is longer than what may be there.
FilesOK == \A i \in 0..MaxChanges : file[i] \in Seq(Item) /\ Len(file[i]) <= Longest

\* What is open was at the path no later than what is there now.
Ordered == fd <= path /\ path <= changes

\* What these two contain is remembered.
Remembered == {file[path], file[fd]} \subseteq was

\* What is read consists of pieces that have been there.
Reading == read \in Seq(Item) /\ Len(read) <= Longest /\ Gathered(read, was)

\* A file that has been neither cut nor overwritten during the copy is copied as it is.
Faithful == pc = "copy" /\ ~ torn => PrefixOf(read, file[fd])

InputInv == FilesOK /\ Ordered /\ Remembered /\ Reading /\ Faithful

\* A file that is changed in place keeps InputInv, except perhaps for the last part.
LEMMA InPlaceKeeps ==
  ASSUME TypeOK, InputInv, NEW i \in {path, fd}, NEW s \in Seq(Item), Len(s) <= Longest,
         Becomes(i, s), Change, path' = path, Faithful'
  PROVE  InputInv'
<1>1. /\ path \in 0..MaxChanges /\ MaxChanges \in Nat /\ i \in {path, fd} /\ changes \in 0..MaxChanges
      /\ fd \in 0..MaxChanges /\ DOMAIN file = 0..MaxChanges
  BY BoundAssumption DEF TypeOK
<1>2. file' = [file EXCEPT ![i] = s] /\ was' = was \cup {s} /\ changes' = changes + 1 /\ UNCHANGED <<fd, read>>
  BY DEF Becomes, Change
<1>3. FilesOK'
  BY <1>1, <1>2 DEF InputInv, FilesOK
<1>4. Ordered' /\ Remembered'
  BY <1>1, <1>2 DEF InputInv, Ordered, Remembered
<1>5. Reading'
  BY <1>2, GatheredGrows DEF InputInv, Reading
<1> QED
  BY <1>3, <1>4, <1>5 DEF InputInv

\* Every step, the other program's too, keeps InputInv.
LEMMA NextInputInv == TypeOK /\ InputInv /\ [Next]_vars => InputInv'
<1> SUFFICES ASSUME TypeOK, InputInv, [Next]_vars PROVE InputInv'
  OBVIOUS
<1> USE DEF inputVars
<1>1. /\ path \in 0..MaxChanges /\ fd \in 0..MaxChanges /\ changes \in 0..MaxChanges /\ MaxChanges \in Nat
      /\ DOMAIN file = 0..MaxChanges
  BY BoundAssumption DEF TypeOK, InputInv, Ordered
<1>2. /\ file[fd] \in was
      /\ file[fd] \in Seq(Item) /\ Len(file[fd]) <= Longest /\ Len(file[fd]) \in Nat
      /\ Longest \in Nat /\ read \in Seq(Item) /\ Len(read) \in Nat /\ Gathered(read, was)
  BY <1>1, LongestIsLongest, LenProperties DEF InputInv, FilesOK, Reading, Remembered
<1>3. CASE ReadOn
  <2>1. /\ Len(read) < Len(file[fd]) /\ read' = Append(read, file[fd][Len(read) + 1])
        /\ UNCHANGED <<pc, fd, file, path, changes, was, torn>>
    BY <1>3 DEF ReadOn, OpenFile
  <2>2. file[fd][Len(read) + 1] \in Item
    BY <1>2, <2>1, ElementOfSeq
  <2>3. /\ read' \in Seq(Item) /\ Len(read') = Len(read) + 1 /\ read'[Len(read) + 1] = file[fd][Len(read) + 1]
        /\ \A i \in 1..Len(read) : read'[i] = read[i]
    BY <1>2, <2>1, <2>2, AppendProperties
  <2>4. FilesOK' /\ Ordered' /\ Remembered'
    BY <2>1 DEF InputInv, FilesOK, Ordered, Remembered
  <2>5. Reading'
    <3>1. Gathered(read', was)
      BY <1>2, <2>1, GatheredAppend
    <3> QED
      BY <1>2, <2>1, <2>3, <3>1 DEF Reading
  <2>6. Faithful'
    BY <1>2, <2>1, <2>3 DEF InputInv, Faithful, PrefixOf
  <2> QED
    BY <2>4, <2>5, <2>6 DEF InputInv
<1>4. CASE Scanned \/ CheckCopy \/ ReadSecret \/ Sign \/ AppendTrailer \/ Confirm \/ Commit \/ Copied
           \/ OtherCreates \/ CallFails \/ UNCHANGED vars
  <2>1. UNCHANGED <<fd, read, file, path, changes, was, torn>> /\ (pc' = "copy" => pc = "copy")
    BY <1>4 DEF Scanned, CheckCopy, ReadSecret, Sign, AppendTrailer, Confirm, Commit, Copied,
                OtherCreates, CallFails, Goto, Finish, vars
  <2> QED
    BY <2>1 DEF InputInv, FilesOK, Ordered, Remembered, Reading, Faithful
<1>5. CASE CheckOutput
  <2>1. fd' = path /\ read' = <<>> /\ UNCHANGED <<file, path, changes, was, torn>>
    BY <1>5 DEF CheckOutput
  <2>2. read' \in Seq(Item) /\ Len(read') = 0 /\ Gathered(read', was)
    BY <2>1 DEF Gathered
  <2> QED
    BY <1>1, <1>2, <2>1, <2>2 DEF InputInv, FilesOK, Ordered, Remembered, Reading, Faithful, PrefixOf
<1>6. CASE Replace
  <2>1. PICK s \in Contents : file' = [file EXCEPT ![path'] = s] /\ was' = was \cup {s}
    BY <1>6 DEF Replace, Becomes
  <2>2. changes' = changes + 1 /\ changes < MaxChanges /\ path' = changes' /\ UNCHANGED <<pc, fd, read, torn>>
    BY <1>6 DEF Replace, Change
  <2>3. path' # fd /\ file'[fd] = file[fd]
    BY <1>1, <2>1, <2>2 DEF InputInv, Ordered
  <2>4. s \in Seq(Item) /\ Len(s) <= Longest
    BY ContentTypes
  <2>5. FilesOK'
    BY <1>1, <2>1, <2>2, <2>4 DEF InputInv, FilesOK
  <2>6. Ordered' /\ Faithful'
    BY <1>1, <2>2, <2>3 DEF InputInv, Ordered, Faithful
  <2>7. Remembered'
    <3>1. path' \in 0..MaxChanges
      BY <1>1, <2>2
    <3>2. file'[path'] = s
      BY <1>1, <2>1, <3>1
    <3> QED
      BY <1>2, <2>1, <2>2, <2>3, <3>2 DEF Remembered
  <2>8. Reading'
    BY <2>1, <2>2, GatheredGrows DEF InputInv, Reading
  <2> QED
    BY <2>5, <2>6, <2>7, <2>8 DEF InputInv
<1>7. ASSUME NEW i \in {path, fd}
      PROVE  file[i] \in Seq(Item) /\ Len(file[i]) <= Longest /\ Len(file[i]) \in Nat
  BY <1>1, LenProperties DEF InputInv, FilesOK
<1>8. ASSUME NEW i \in {path, fd}, UNCHANGED <<pc, fd, read>>, NEW s, Becomes(i, s),
             torn' = (torn \/ (pc = "copy" /\ fd = i))
      PROVE  Faithful'
  <2> SUFFICES ASSUME pc' = "copy", ~ torn' PROVE PrefixOf(read, file'[fd])
    BY <1>8 DEF Faithful
  <2>1. fd # i /\ ~ torn /\ pc = "copy"
    BY <1>8
  <2>2. file'[fd] = file[fd]
    BY <1>1, <1>8, <2>1 DEF Becomes
  <2> QED
    BY <2>1, <2>2 DEF InputInv, Faithful
<1>9. CASE Truncate
  <2>1. PICK i \in {path, fd} :
           /\ \E n \in 0..Len(file[i]) - 1 : Becomes(i, SubSeq(file[i], 1, n))
           /\ torn' = (torn \/ (pc = "copy" /\ fd = i))
    BY <1>9 DEF Truncate
  <2>2. PICK n \in 0..Len(file[i]) - 1 : Becomes(i, SubSeq(file[i], 1, n))
    BY <2>1
  <2>3. Change /\ UNCHANGED <<pc, fd, read, path>>
    BY <1>9 DEF Truncate, Change
  <2>4. SubSeq(file[i], 1, n) \in Seq(Item) /\ Len(SubSeq(file[i], 1, n)) <= Longest
    BY <1>7, CutTypes
  <2>5. Faithful'
    BY <1>8, <2>1, <2>2, <2>3
  <2> QED
    BY <1>7, <2>2, <2>3, <2>4, <2>5, InPlaceKeeps
<1>10. CASE Overwrite
  <2>1. PICK i \in {path, fd} :
           /\ \E n \in DOMAIN file[i] :
                 \E x \in Expected(n) \cup {Junk} : Becomes(i, [file[i] EXCEPT ![n] = x])
           /\ torn' = (torn \/ (pc = "copy" /\ fd = i))
    BY <1>10 DEF Overwrite
  <2>2. PICK n \in DOMAIN file[i] : \E x \in Expected(n) \cup {Junk} : Becomes(i, [file[i] EXCEPT ![n] = x])
    BY <2>1
  <2>3. PICK x \in Expected(n) \cup {Junk} : Becomes(i, [file[i] EXCEPT ![n] = x])
    BY <2>2
  <2>4. x \in Item
    BY DEF Expected, Item
  <2>5. Change /\ UNCHANGED <<pc, fd, read, path>>
    BY <1>10 DEF Overwrite, Change
  <2>6. [file[i] EXCEPT ![n] = x] \in Seq(Item) /\ Len([file[i] EXCEPT ![n] = x]) <= Longest
    BY <1>7, <2>4, OverwrittenTypes
  <2>7. Faithful'
    BY <1>8, <2>1, <2>3, <2>5
  <2> QED
    BY <1>7, <2>3, <2>5, <2>6, <2>7, InPlaceKeeps
<1>11. CASE Extend
  <2>1. PICK i \in {path, fd}, s \in Contents :
           Len(s) > Len(file[i]) /\ Becomes(i, file[i] \o SubSeq(s, Len(file[i]) + 1, Len(s)))
    BY <1>11 DEF Extend
  <2> DEFINE g == file[i] \o SubSeq(s, Len(file[i]) + 1, Len(s))
  <2>2. Change /\ UNCHANGED <<pc, fd, read, path, torn>>
    BY <1>11 DEF Extend, Change
  <2>3. g \in Seq(Item) /\ Len(g) = Len(s) /\ \A j \in 1..Len(file[i]) : g[j] = file[i][j]
    BY <1>7, <2>1, ExtendedProperties
  <2>4. Len(s) <= Longest /\ Len(s) \in Nat
    BY ContentTypes
  <2>5. Becomes(i, g)
    BY <2>1
  <2> HIDE DEF g
  <2>6. Faithful'
    <3> SUFFICES ASSUME pc = "copy", ~ torn PROVE PrefixOf(read, file'[fd])
      BY <2>2 DEF Faithful
    <3>1. PrefixOf(read, file[fd])
      BY DEF InputInv, Faithful
    <3>2. CASE fd = i
      <4>1. file'[fd] = g
        BY <1>1, <2>5, <3>2 DEF Becomes
      <4> QED
        BY <1>2, <1>7, <2>1, <2>3, <2>4, <3>1, <3>2, <4>1 DEF PrefixOf
    <3>3. CASE fd # i
      BY <1>1, <2>5, <3>1, <3>3 DEF Becomes
    <3> QED
      BY <3>2, <3>3
  <2>7. Len(g) <= Longest
    BY <2>3, <2>4
  <2> QED
    BY <1>7, <2>2, <2>3, <2>5, <2>6, <2>7, InPlaceKeeps
<1> QED
  BY <1>3, <1>4, <1>5, <1>6, <1>9, <1>10, <1>11 DEF Next, Work

----------------------------------------------------------------------------
\* The temporary file is empty until the copy is complete.
Unstaged == pc \in {"scan", "output", "copy"} => temp = <<>>

\* The copy, until the trailer is appended to it.
Staged ==
    pc \in {"check", "key", "sign", "append"} =>
        temp \in Seq(Item) /\ Gathered(temp, was) /\ (~ torn => temp \in was)

\* Only a framed copy is signed.
Vetted == pc \in {"key", "sign", "append"} => Framed(temp)

\* A key has been read before anything is signed.
Chosen == pc \in {"sign", "append", "confirm", "commit"} => key \in Key

\* The signature is over the copy.
Signed == pc = "append" => signature = Trailer(key, temp)

\* What goes on to be published is the copy and the signature of it.
Completed ==
    pc \in {"confirm", "commit"} \/ Published =>
        /\ Framed(Front(temp)) /\ Last(temp) = Trailer(key, Front(temp))
        /\ Gathered(Front(temp), was)
        /\ ~ torn => Front(temp) \in was

CopyInv == Unstaged /\ Staged /\ Vetted /\ Chosen /\ Signed /\ Completed /\ (Published => pc = "end")

\* Every step keeps the types and CopyInv.
LEMMA NextCopyInv ==
  TypeOK /\ InputInv /\ InputInv' /\ CopyInv /\ [Next]_vars => TypeOK' /\ CopyInv'
<1> SUFFICES ASSUME TypeOK, InputInv, InputInv', CopyInv, [Next]_vars PROVE TypeOK' /\ CopyInv'
  OBVIOUS
<1> USE DEF inputVars, Goto, Finish, Published
<1>1. TypeOK /\ MaxChanges \in Nat /\ Longest \in Nat
  BY BoundAssumption, LongestIsLongest
<1>2. temp \in Seq(Item \cup {signature})
  BY DEF TypeOK
<1>3. CASE ReadOn
  <2>1. UNCHANGED <<file, path, pc, fd, scanned, temp, key, signature, out, outcome, changes, was, torn>>
    BY <1>3 DEF ReadOn
  <2>2. TypeOK'
    BY <1>1, <2>1 DEF TypeOK
  <2>3. CopyInv'
    BY <2>1 DEF CopyInv, Unstaged, Staged, Vetted, Chosen, Signed, Completed
  <2> QED
    BY <2>2, <2>3
<1>4. CASE Scanned
  <2>1. /\ scanned' = Len(read) /\ pc = "scan" /\ pc' \in {"output", "end"} /\ outcome' \in {outcome, "signed", "invalid"}
        /\ UNCHANGED <<file, path, fd, read, temp, key, signature, out, changes, was, torn>>
    BY <1>4 DEF Scanned
  <2>2. Len(read) \in 0..Longest
    BY <1>1, LenProperties DEF InputInv, Reading
  <2>3. TypeOK'
    BY <1>1, <2>1, <2>2 DEF TypeOK
  <2>4. CopyInv'
    BY <2>1 DEF CopyInv, Unstaged, Staged, Vetted, Chosen, Signed, Completed
  <2> QED
    BY <2>3, <2>4
<1>5. CASE CheckOutput
  <2>1. /\ fd' = path /\ pc = "output" /\ pc' \in {"copy", "end"} /\ outcome' \in {outcome, "exists"}
        /\ UNCHANGED <<file, path, scanned, temp, key, signature, out, changes, was, torn>>
    BY <1>5 DEF CheckOutput
  <2>2. TypeOK'
    BY <1>1, <2>1 DEF TypeOK
  <2>3. CopyInv'
    BY <2>1 DEF CopyInv, Unstaged, Staged, Vetted, Chosen, Signed, Completed
  <2> QED
    BY <2>2, <2>3
<1>6. CASE Copied
  <2>1. /\ temp' = read /\ pc = "copy" /\ pc' = "check" /\ Len(read) >= Len(file[fd])
        /\ UNCHANGED <<file, path, fd, read, scanned, key, signature, out, outcome, changes, was, torn>>
    BY <1>6 DEF Copied, AtEnd, OpenFile
  <2>2. read \in Seq(Item) /\ Len(read) <= Longest
    BY DEF InputInv, Reading
  <2>3. read \in Seq(Item \cup {signature})
    BY <2>2, SeqMonotonic
  <2>4. TypeOK'
    BY <1>1, <1>2, <2>1, <2>2, <2>3 DEF TypeOK
  <2>5. ASSUME ~ torn PROVE read \in was
    <3>1. file[fd] \in was
      BY <1>1 DEF TypeOK, InputInv, Remembered, Ordered
    <3>2. file[fd] \in Seq(Item) /\ Len(file[fd]) \in Nat /\ Len(read) \in Nat
      BY <1>1, <2>2, LenProperties DEF TypeOK
    <3>3. PrefixOf(read, file[fd])
      BY <2>1, <2>5 DEF InputInv, Faithful
    <3>4. read = file[fd]
      BY <2>1, <2>2, <3>2, <3>3, SeqEqual DEF PrefixOf
    <3> QED
      BY <3>1, <3>4
  <2>6. Gathered(read, was)
    BY DEF InputInv, Reading
  <2>7. CopyInv'
    BY <2>1, <2>2, <2>5, <2>6 DEF CopyInv, Unstaged, Staged, Vetted, Chosen, Signed, Completed
  <2> QED
    BY <2>4, <2>7
<1>7. CASE CheckCopy
  <2>1. /\ pc = "check" /\ pc' \in {"key", "end"} /\ (pc' = "key" => Framed(temp))
        /\ outcome' \in {outcome, "changed", "invalid"}
        /\ UNCHANGED <<file, path, fd, read, scanned, temp, key, signature, out, changes, was, torn>>
    BY <1>7 DEF CheckCopy, AsScanned
  <2>2. TypeOK'
    BY <1>1, <2>1 DEF TypeOK
  <2>3. CopyInv'
    BY <2>1 DEF CopyInv, Unstaged, Staged, Vetted, Chosen, Signed, Completed
  <2> QED
    BY <2>2, <2>3
<1>8. CASE ReadSecret
  <2>1. /\ pc = "key" /\ pc' = "sign" /\ key' \in Key
        /\ UNCHANGED <<file, path, fd, read, scanned, temp, signature, out, outcome, changes, was, torn>>
    BY <1>8 DEF ReadSecret
  <2>2. TypeOK'
    BY <1>1, <2>1 DEF TypeOK
  <2>3. CopyInv'
    BY <2>1 DEF CopyInv, Unstaged, Staged, Vetted, Chosen, Signed, Completed
  <2> QED
    BY <2>2, <2>3
<1>9. CASE Sign
  <2>1. /\ pc = "sign" /\ pc' = "append" /\ signature' = [Trailer(key, temp) EXCEPT !.covers = Message]
        /\ UNCHANGED <<file, path, fd, read, scanned, temp, key, out, outcome, changes, was, torn>>
    BY <1>9 DEF Sign
  <2>2. signature' = Trailer(key, temp)
    BY <2>1 DEF Trailer, Message
  <2>3. temp \in Seq(Item \cup {signature'})
    BY <2>1, SeqMonotonic DEF CopyInv, Staged
  <2>4. TypeOK'
    BY <1>1, <2>1, <2>3 DEF TypeOK
  <2>5. CopyInv'
    BY <2>1, <2>2 DEF CopyInv, Unstaged, Staged, Vetted, Chosen, Signed, Completed
  <2> QED
    BY <2>4, <2>5
<1>10. CASE AppendTrailer
  <2>1. /\ pc = "append" /\ pc' = "confirm" /\ temp' = Append(temp, signature)
        /\ UNCHANGED <<file, path, fd, read, scanned, key, signature, out, outcome, changes, was, torn>>
    BY <1>10 DEF AppendTrailer
  <2>2. temp \in Seq(Item) /\ Framed(temp) /\ signature = Trailer(key, temp)
    BY <2>1 DEF CopyInv, Staged, Vetted, Signed
  <2>3. temp' \in Seq(Item \cup {signature}) /\ Len(temp') = Len(temp) + 1
    BY <1>2, <2>1, AppendProperties
  <2>4. Len(temp') <= Longest
    BY <2>2, <2>3, FramedIsShort
  <2>5. TypeOK'
    BY <1>1, <1>2, <2>1, <2>3, <2>4 DEF TypeOK
  <2>6. Front(temp') = temp /\ Last(temp') = signature
    BY <2>1, <2>2, FrontAndLast
  <2>7. Gathered(temp, was) /\ (~ torn => temp \in was)
    BY <2>1 DEF CopyInv, Staged
  <2>8. CopyInv'
    BY <2>1, <2>2, <2>6, <2>7 DEF CopyInv, Unstaged, Staged, Vetted, Chosen, Signed, Completed
  <2> QED
    BY <2>5, <2>8
<1>11. CASE Confirm
  <2>1. /\ pc = "confirm" /\ pc' \in {"commit", "end"} /\ outcome' \in {outcome, "failed"}
        /\ UNCHANGED <<file, path, fd, read, scanned, temp, key, signature, out, changes, was, torn>>
    BY <1>11 DEF Confirm
  <2>2. TypeOK'
    BY <1>1, <2>1 DEF TypeOK
  <2>3. CopyInv'
    BY <2>1 DEF CopyInv, Unstaged, Staged, Vetted, Chosen, Signed, Completed
  <2> QED
    BY <2>2, <2>3
<1>12. CASE Commit
  <2>1. /\ pc = "commit" /\ pc' = "end" /\ outcome' \in {"ok", "unconfirmed", "exists"} /\ out' \in {out, "ours"}
        /\ UNCHANGED <<file, path, fd, read, scanned, temp, key, signature, changes, was, torn>>
    BY <1>12 DEF Commit
  <2>2. TypeOK'
    BY <1>1, <2>1 DEF TypeOK
  <2>3. CopyInv'
    BY <2>1 DEF CopyInv, Unstaged, Staged, Vetted, Chosen, Signed, Completed
  <2> QED
    BY <2>2, <2>3
<1>13. CASE CallFails
  <2>1. /\ pc # "end" /\ pc' = "end" /\ outcome' = "failed"
        /\ UNCHANGED <<file, path, fd, read, scanned, temp, key, signature, out, changes, was, torn>>
    BY <1>13 DEF CallFails
  <2>2. TypeOK'
    BY <1>1, <2>1 DEF TypeOK
  <2>3. CopyInv'
    BY <2>1 DEF CopyInv, Unstaged, Staged, Vetted, Chosen, Signed, Completed
  <2> QED
    BY <2>2, <2>3
<1>14. CASE OtherCreates
  <2>1. /\ pc # "end" /\ out' = "other"
        /\ UNCHANGED <<file, path, pc, fd, read, scanned, temp, key, signature, outcome, changes, was, torn>>
    BY <1>14 DEF OtherCreates
  <2>2. TypeOK'
    BY <1>1, <2>1 DEF TypeOK
  <2>3. CopyInv'
    BY <2>1 DEF CopyInv, Unstaged, Staged, Vetted, Chosen, Signed, Completed
  <2> QED
    BY <2>2, <2>3
<1>15. CASE Replace \/ Truncate \/ Overwrite \/ Extend
  <2>1. /\ pc # "end" /\ changes' = changes + 1 /\ changes < MaxChanges
        /\ UNCHANGED <<pc, fd, read, scanned, temp, key, signature, out, outcome>>
        /\ path' \in {path, changes'}
    BY <1>15 DEF Replace, Truncate, Overwrite, Extend, Change
  <2>2. torn' \in BOOLEAN /\ (torn => torn')
    <3>1. torn \in BOOLEAN
      BY DEF TypeOK
    <3>2. CASE torn' = torn
      BY <3>1, <3>2
    <3>3. CASE \E i \in {path, fd} : torn' = (torn \/ (pc = "copy" /\ fd = i))
      BY <3>3, Zenon
    <3> QED
      BY <1>15, <3>2, <3>3 DEF Replace, Truncate, Overwrite, Extend
  <2>3. PICK i, s : i \in 0..MaxChanges /\ Becomes(i, s)
    <3>1. path' \in 0..MaxChanges /\ path \in 0..MaxChanges /\ fd \in 0..MaxChanges
      BY <1>1, <2>1 DEF TypeOK
    <3> QED
      BY <1>15, <3>1 DEF Replace, Truncate, Overwrite, Extend
  <2>4. was \subseteq was' /\ s \in was' /\ file' = [file EXCEPT ![i] = s] /\ was' = was \cup {s}
    BY <2>3 DEF Becomes
  <2>5. file' \in [0..MaxChanges -> Seq(Item)]
    <3>1. \A j \in 0..MaxChanges : file'[j] \in Seq(Item)
      BY DEF InputInv, FilesOK
    <3>2. file' = [j \in 0..MaxChanges |-> file'[j]]
      BY <1>1, <2>4 DEF TypeOK
    <3> QED
      BY <3>1, <3>2
  <2>6. was' \subseteq Seq(Item)
    <3>1. s = file'[i]
      BY <1>1, <2>3, <2>4 DEF TypeOK
    <3> QED
      BY <1>1, <2>4, <2>5, <3>1 DEF TypeOK
  <2>7. TypeOK'
    BY <1>1, <2>1, <2>2, <2>5, <2>6 DEF TypeOK
  <2>8. CopyInv'
    BY <2>1, <2>2, <2>4, GatheredGrows DEF CopyInv, Unstaged, Staged, Vetted, Chosen, Signed, Completed
  <2> QED
    BY <2>7, <2>8
<1>16. CASE UNCHANGED vars
  BY <1>1, <1>16 DEF vars, TypeOK, CopyInv, Unstaged, Staged, Vetted, Chosen, Signed, Completed
<1> QED
  BY <1>3, <1>4, <1>5, <1>6, <1>7, <1>8, <1>9, <1>10, <1>11, <1>12, <1>13, <1>14, <1>15, <1>16 DEF Next, Work

SignInv == TypeOK /\ InputInv /\ CopyInv

\* The beginning of provenance-sign.
LEMMA InitSignInv == Init => SignInv
<1> SUFFICES ASSUME Init PROVE SignInv
  OBVIOUS
<1>1. PICK s \in Contents : file = [i \in 0..MaxChanges |-> IF i = 0 THEN s ELSE <<>>]
  BY DEF Init
<1>2. MaxChanges \in Nat /\ Longest \in Nat
  BY BoundAssumption, LongestIsLongest
<1>3. s \in Seq(Item) /\ Len(s) <= Longest
  BY ContentTypes
<1>4. <<>> \in Seq(Item) /\ Len(<<>>) = 0 /\ <<>> \in Seq(Item \cup {signature})
  OBVIOUS
<1>5. TypeOK
  BY <1>1, <1>2, <1>3, <1>4 DEF Init, TypeOK
<1>6. InputInv
  BY <1>1, <1>2, <1>3, <1>4 DEF Init, InputInv, FilesOK, Ordered, Remembered, Reading, Gathered, Faithful
<1>7. CopyInv
  BY DEF Init, CopyInv, Unstaged, Staged, Vetted, Chosen, Signed, Completed, Published
<1> QED
  BY <1>5, <1>6, <1>7 DEF SignInv

\* The inductive invariant.
LEMMA Invariance == Spec => []SignInv
<1>1. SignInv /\ [Next]_vars => SignInv'
  BY NextInputInv, NextCopyInv DEF SignInv
<1> QED
  BY <1>1, InitSignInv, PTL DEF Spec

\* What provenance-sign publishes is one framed envelope and one trailer that covers all of
\* it, made with the key that was read, whatever happens to the input: the signature is over
\* the private copy.
THEOREM PublishedIsSignedWhole == Spec => []SigningInv
<1>1. SignInv => SigningInv
  BY DEF SignInv, CopyInv, Completed, SigningInv, SignedIsWhole
<1> QED
  BY <1>1, Invariance, PTL

\* What is signed comes from the input, and, unless a file is cut or overwritten while it is
\* copied, is the whole content that one of the files at the input path had at one time, even
\* if others are renamed to the path between the reads: sign_archive keeps the descriptor, and
\* a file that is written on still begins with what has been read of it.
THEOREM OneFileIsSigned == Spec => []SignsInput
<1>1. SignInv => SignsInput
  BY DEF SignInv, CopyInv, Completed, SignsInput
<1> QED
  BY <1>1, Invariance, PTL

----------------------------------------------------------------------------
\* A file with the form of an archive that stays as it is has passed every check so far.
Accepted ==
    changes = 0 /\ file[path] \in Envelopes =>
        /\ pc \in {"scan", "copy"} => PrefixOf(read, file[path])
        /\ pc \in {"output", "copy", "check"} => scanned = Len(file[path])
        /\ pc = "check" => temp = file[path]
        /\ outcome \notin {"invalid", "signed", "changed"}

\* The scan accepts what has the form of an archive, and finds no signature.
LEMMA EnvelopeIsAccepted ==
  ASSUME NEW s \in Envelopes
  PROVE  Framed(s) /\ SignedBy(s) = {} /\ s \in Seq(Item)
<1>1. Framed(s) /\ s \in Seq(Pieces) /\ s \in Seq(Item)
  BY EnvelopeIsFramed
<1>2. Len(s) \in DOMAIN s
  BY <1>1, EmptySeq, LenProperties DEF Framed
<1>3. Last(s) \in Pieces
  BY <1>1, <1>2 DEF Framed, Last
<1> QED
  BY <1>1, <1>3 DEF SignedBy

\* Every step keeps Accepted.
LEMMA NextAccepted == SignInv /\ Accepted /\ [Next]_vars => Accepted'
<1> SUFFICES ASSUME SignInv, Accepted, [Next]_vars, changes' = 0, file'[path'] \in Envelopes
             PROVE  /\ pc' \in {"scan", "copy"} => PrefixOf(read', file'[path'])
                    /\ pc' \in {"output", "copy", "check"} => scanned' = Len(file'[path'])
                    /\ pc' = "check" => temp' = file'[path']
                    /\ outcome' \notin {"invalid", "signed", "changed"}
  BY DEF Accepted, PrefixOf
<1> USE DEF inputVars, Goto, Finish
<1>1. UNCHANGED <<file, path, changes, was, torn>>
  BY BoundAssumption DEF SignInv, TypeOK, Next, Work, ReadOn, Scanned, CheckOutput, Copied, CheckCopy, ReadSecret,
     Sign, AppendTrailer, Confirm, Commit, CallFails, Replace, Truncate, Overwrite, Extend, Change, OtherCreates, vars
<1> DEFINE s == file[path]
<1>2. s \in Envelopes /\ changes = 0 /\ fd = 0 /\ path = 0 /\ Framed(s) /\ SignedBy(s) = {} /\ s \in Seq(Item)
  BY <1>1, BoundAssumption, EnvelopeIsAccepted DEF SignInv, TypeOK, InputInv, Ordered
<1>3. /\ pc \in {"scan", "copy"} => PrefixOf(read, s)
      /\ pc \in {"output", "copy", "check"} => scanned = Len(s)
      /\ pc = "check" => temp = s
      /\ outcome \notin {"invalid", "signed", "changed"}
  BY <1>2 DEF Accepted
<1>4. /\ read \in Seq(Item) /\ Len(read) \in Nat /\ Len(s) \in Nat /\ file'[path'] = s /\ file[fd] = s
      /\ file[0] = s
  BY <1>1, <1>2, LenProperties DEF SignInv, InputInv, Reading
<1>5. ASSUME pc \in {"scan", "copy"}, Len(read) >= Len(s) PROVE read = s
  <2>1. Len(read) = Len(s) /\ \A i \in 1..Len(read) : read[i] = s[i]
    BY <1>3, <1>4, <1>5 DEF PrefixOf
  <2> QED
    BY <1>2, <1>4, <2>1, SeqEqual
<1> HIDE DEF s
<1>6. CASE ReadOn
  <2>1. /\ pc \in {"scan", "copy"} /\ Len(read) < Len(s) /\ read' = Append(read, s[Len(read) + 1])
        /\ UNCHANGED <<pc, scanned, temp, outcome>>
    BY <1>4, <1>6 DEF ReadOn, OpenFile
  <2>2. s[Len(read) + 1] \in Item
    BY <1>2, <1>4, <2>1, ElementOfSeq
  <2>3. /\ Len(read') = Len(read) + 1 /\ read'[Len(read) + 1] = s[Len(read) + 1]
        /\ \A i \in 1..Len(read) : read'[i] = read[i]
    BY <1>4, <2>1, <2>2, AppendProperties
  <2>4. PrefixOf(read', s)
    BY <1>3, <1>4, <2>1, <2>3 DEF PrefixOf
  <2> QED
    BY <1>3, <1>4, <2>1, <2>4
<1>7. CASE Scanned
  <2>1. pc = "scan" /\ Len(read) >= Len(s) /\ scanned' = Len(read)
    BY <1>4, <1>7 DEF Scanned, AtEnd, OpenFile
  <2>2. read = s
    BY <1>5, <2>1
  <2>3. pc' = "output" /\ outcome' = outcome
    BY <1>2, <1>7, <2>2 DEF Scanned, Scans
  <2> QED
    BY <1>3, <1>4, <2>1, <2>2, <2>3
<1>8. CASE CheckOutput
  <2>1. read' = <<>> /\ UNCHANGED <<scanned, temp>> /\ pc = "output" /\ pc' \in {"copy", "end"}
        /\ outcome' \in {outcome, "exists"}
    BY <1>8 DEF CheckOutput
  <2>2. Len(read') = 0
    BY <2>1
  <2>3. PrefixOf(read', s)
    BY <1>4, <2>2 DEF PrefixOf
  <2> QED
    BY <1>3, <1>4, <2>1, <2>3
<1>9. CASE Copied
  <2>1. pc = "copy" /\ Len(read) >= Len(s) /\ temp' = read /\ UNCHANGED <<scanned, outcome>> /\ pc' = "check"
    BY <1>4, <1>9 DEF Copied, AtEnd, OpenFile
  <2>2. read = s
    BY <1>5, <2>1
  <2> QED
    BY <1>3, <1>4, <2>1, <2>2
<1>10. CASE CheckCopy
  <2>1. AsScanned
    BY <1>2, <1>3, <1>10 DEF CheckCopy, AsScanned
  <2>2. pc' = "key" /\ outcome' = outcome
    BY <1>10, <2>1 DEF CheckCopy, Scans, AsScanned
  <2> QED
    BY <1>3, <2>2
<1>11. CASE ReadSecret \/ Sign \/ AppendTrailer \/ Confirm \/ Commit \/ CallFails
  BY <1>3, <1>11 DEF ReadSecret, Sign, AppendTrailer, Confirm, Commit, CallFails
<1>12. CASE Replace \/ Truncate \/ Overwrite \/ Extend
  BY <1>1, <1>12, BoundAssumption DEF Replace, Truncate, Overwrite, Extend, Change, SignInv, TypeOK
<1>13. CASE OtherCreates \/ UNCHANGED vars
  <2>1. UNCHANGED <<pc, read, scanned, temp, outcome>>
    BY <1>13 DEF OtherCreates, vars
  <2> QED
    BY <1>3, <1>4, <2>1 DEF PrefixOf
<1> QED
  BY <1>6, <1>7, <1>8, <1>9, <1>10, <1>11, <1>12, <1>13 DEF Next, Work

\* The scan and the comparison of the lengths never reject an unsigned file with the form of
\* an archive that nobody changes, damaged ciphertext or not.
THEOREM UnchangedIsAccepted == Spec => []NoFalseAlarm
<1>1. Init => Accepted
  <2> SUFFICES ASSUME Init PROVE Accepted
    OBVIOUS
  <2>1. pc = "scan" /\ outcome = "none" /\ Len(read) = 0 /\ (file[path] \in Envelopes => Len(file[path]) \in Nat)
    BY EnvelopeIsAccepted, LenProperties DEF Init
  <2> QED
    BY <2>1 DEF Accepted, PrefixOf
<1>2. Accepted => NoFalseAlarm
  BY DEF Accepted, NoFalseAlarm
<1> QED
  BY <1>1, <1>2, NextAccepted, Invariance, PTL DEF Spec
=============================================================================

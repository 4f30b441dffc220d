--------------------------- MODULE ReadingProofs ---------------------------
(***************************************************************************)
(* What is proved of how a file comes in: that it is read whole and from   *)
(* the descriptor that was inspected (Material), for any number of files,  *)
(* any bound on their size and any maximum; and that its bytes are decoded *)
(* as they are encoded (Codec), for any limits.                            *)
(*                                                                         *)
(* An encoding is a concatenation of as many fields as a format has.       *)
(* Joined gives the encodings of the first fields of a value, each the one *)
(* before with a field appended; that there is such a function, and that   *)
(* the encoders compute its last value, is shown with the least number of  *)
(* fields for which it would not hold.  DecodingInv follows the reader:    *)
(* the bytes it has read are the encoding of the fields it has decoded,    *)
(* and when the program wrote them, these fields are the ones written, so  *)
(* that what is left begins with the next field, which is then the only    *)
(* thing that can stand there.                                             *)
(***************************************************************************)
EXTENDS Codec, Material, SequenceTheorems, FiniteSetTheorems, WellFoundedInduction, TLAPS

----------------------------------------------------------------------------
(***************************************************************************)
(* The inductive invariant: MaterialInv, that nothing is read before the   *)
(* file that is open has been inspected, and that it is the one inspected. *)
(***************************************************************************)

Inspected ==
    /\ call \in {"inspect", "read"} => fd \in Inode
    /\ call \in {"open", "inspect"} => used = 0
    /\ call = "read" => fd \in vetted

ReadingInv == MaterialInv /\ Inspected

----------------------------------------------------------------------------
\* Nothing is open and nothing has been read.
LEMMA InitReadingInv == MaterialInit => ReadingInv
<1>1. Maximum \in Nat /\ MaxLen \in Nat
  BY BoundAssumption
<1>2. 0 \in 0..Maximum + 1
  BY <1>1
<1>3. MaterialInit => MaterialTypeOK
  BY <1>2 DEF MaterialInit, MaterialTypeOK
<1>4. MaterialInit => WholeFile /\ ReadFromVetted /\ Inspected
  BY DEF MaterialInit, WholeFile, ReadFromVetted, Inspected
<1> QED
  BY <1>3, <1>4 DEF ReadingInv, MaterialInv

\* Every call of open_material and read_bounded, and every change another
\* program makes to the path and to the files, keeps the invariant.
LEMMA NextReadingInv == ReadingInv /\ [MaterialNext]_materialVars => ReadingInv'
<1> SUFFICES ASSUME ReadingInv, [MaterialNext]_materialVars PROVE ReadingInv'
  OBVIOUS
<1> USE BoundAssumption
        DEF ReadingInv, MaterialInv, MaterialTypeOK, WholeFile, ReadFromVetted, Inspected, Finish, fileVars
<1>1. CASE Open
  BY <1>1 DEF Open, CanOpen
<1>2. CASE OpenRefused
  BY <1>2 DEF OpenRefused
<1>3. CASE Inspect
  BY <1>3 DEF Inspect, Acceptable, Opened
<1>4. CASE ReadSome
  <2>1. PICK n \in 1..left[fd] : /\ used + n <= Limit
                                 /\ used' = used + n
                                 /\ left' = [left EXCEPT ![fd] = @ - n]
    BY <1>4 DEF ReadSome
  <2>2. used' \in 0..Maximum + 1 /\ left' \in [Inode -> 0..MaxLen]
    BY <1>4, <2>1 DEF ReadSome, Limit
  <2> QED
    BY <1>4, <2>2 DEF ReadSome
<1>5. CASE Stop
  <2>1. Complete => left[fd] = 0
    BY <1>5 DEF Stop, Complete, Limit
  <2> QED
    BY <1>5, <2>1 DEF Stop
<1>6. CASE CallFails
  BY <1>6 DEF CallFails
<1>7. CASE Others
  BY <1>7 DEF Others, MovesPath, ChangesMode, Rewrites
<1>8. CASE UNCHANGED materialVars
  BY <1>8 DEF materialVars
<1> QED
  BY <1>1, <1>2, <1>3, <1>4, <1>5, <1>6, <1>7, <1>8 DEF MaterialNext, Read

----------------------------------------------------------------------------
\* However the path, the permissions and the files change under the program,
\* what it reads comes from the very file it inspected, never exceeds the bound
\* by more than the one byte that reveals a longer file, and is accepted only
\* when the end of that file was seen (open_material, read_bounded).
THEOREM AcceptedWholeAndInspected == MaterialSpec => []MaterialInv
<1>1. MaterialInit => ReadingInv
  BY InitReadingInv
<1>2. ReadingInv /\ [MaterialNext]_materialVars => ReadingInv'
  BY NextReadingInv
<1>3. ReadingInv => MaterialInv
  BY DEF ReadingInv
<1> QED
  BY <1>1, <1>2, <1>3, PTL DEF MaterialSpec

----------------------------------------------------------------------------
\* A set of numbers that is not empty has a least one.
LEMMA LeastOf ==
  ASSUME NEW S \in SUBSET Nat, S # {}
  PROVE  \E m \in S : \A k \in S : m <= k
<1> DEFINE below == OpToRel(<, Nat)
<1>1. IsWellFoundedOn(below, Nat)
  BY NatLessThanWellFounded
<1>2. \A k, m \in Nat : k < m => <<k, m>> \in below
  BY DEF OpToRel
<1> HIDE DEF below
<1>3. PICK m \in S : \A k \in S : ~ (<<k, m>> \in below)
  BY <1>1, WFMin
<1>4. ASSUME NEW k \in S PROVE m <= k
  <2>1. k \in Nat /\ m \in Nat /\ ~ (k < m)
    BY <1>2, <1>3
  <2> QED
    BY <2>1
<1> QED
  BY <1>4

\* The sixteen names of a header, in the order they are written and decoded in.
LEMMA HeaderNames ==
  /\ WrittenHeader = DecodedHeader
  /\ Len(PublicHeader) = 14 /\ DOMAIN PublicHeader = 1..14
  /\ \A i \in 1..14 : PublicHeader[i] = DecodedHeader[i]
  /\ Len(WithName) = 15 /\ DOMAIN WithName = 1..15
  /\ \A i \in 1..15 : WithName[i] = DecodedHeader[i]
<1> DEFINE S == {PublicHeader[i] : i \in 1..14} \cup {"encrypted_filename", "wrapped_dek"}
           two == <<"encrypted_filename", "wrapped_dek">>
           one == <<"encrypted_filename">>
<1>1. /\ PublicHeader = [i \in 1..14 |-> PublicHeader[i]]
      /\ Len(PublicHeader) = 14 /\ DOMAIN PublicHeader = 1..14
  BY DEF PublicHeader
<1>2. \A i \in 1..14 : PublicHeader[i] = DecodedHeader[i]
  BY DEF PublicHeader, DecodedHeader
<1>3. /\ DecodedHeader = [i \in 1..16 |-> DecodedHeader[i]] /\ Len(DecodedHeader) = 16
      /\ DecodedHeader[15] = "encrypted_filename" /\ DecodedHeader[16] = "wrapped_dek"
  BY DEF DecodedHeader
<1>4. /\ two \in Seq(S) /\ Len(two) = 2
      /\ one \in Seq(S) /\ Len(one) = 1
  OBVIOUS
<1>5. /\ two[1] = "encrypted_filename" /\ two[2] = "wrapped_dek"
      /\ one[1] = "encrypted_filename"
  OBVIOUS
<1>6. PublicHeader \in Seq(S)
  BY <1>1
<1> HIDE DEF S, two, one
<1>7. /\ WrittenHeader \in Seq(S) /\ Len(WrittenHeader) = 16
      /\ \A i \in 1..16 : WrittenHeader[i] = IF i <= 14 THEN PublicHeader[i] ELSE two[i - 14]
  BY <1>1, <1>4, <1>6, ConcatProperties DEF WrittenHeader, two
<1>8. /\ WithName \in Seq(S) /\ Len(WithName) = 15
      /\ \A i \in 1..15 : WithName[i] = IF i <= 14 THEN PublicHeader[i] ELSE one[i - 14]
  BY <1>1, <1>4, <1>6, ConcatProperties DEF WithName, one
<1>9. \A i \in 1..16 : WrittenHeader[i] = DecodedHeader[i]
  BY <1>2, <1>3, <1>5, <1>7
<1>10. \A i \in 1..15 : WithName[i] = DecodedHeader[i]
  BY <1>2, <1>3, <1>5, <1>8
<1>11. WrittenHeader = [i \in 1..16 |-> WrittenHeader[i]] /\ DOMAIN WithName = 1..15
  BY <1>7, <1>8, LenProperties
<1>12. WrittenHeader = DecodedHeader
  BY <1>3, <1>9, <1>11
<1> QED
  BY <1>1, <1>2, <1>8, <1>10, <1>11, <1>12

\* What is used of the order of the names of a format.
Ordered(names) ==
    /\ Len(names) \in Nat \ {0}
    /\ DOMAIN names = 1..Len(names)
    /\ \A i, j \in 1..Len(names) : names[i] = names[j] => i = j
    /\ \A i \in 1..Len(names) : names[i] = "original_len" => \E j \in 1..i - 1 : names[j] = "chunk_size"
    /\ \A i \in 1..Len(names) : names[i] = "ciphertext" => \E j \in 1..i - 1 : names[j] = "plain_len"

\* Each format is decoded in the order in which it is written.
LEMMA FormatNames ==
  ASSUME NEW f \in Format
  PROVE  /\ Decoded[f] = Written[f]
         /\ Ordered(Written[f])
<1>1. f \in {"header", "frame", "trailer", "root", "secret", "public"}
  BY DEF Format, Written
<1>2. CASE f = "header"
  <2>1. Written[f] = DecodedHeader /\ Decoded[f] = DecodedHeader
    BY <1>2, HeaderNames DEF Written, Decoded
  <2>2. Len(DecodedHeader) = 16 /\ DOMAIN DecodedHeader = 1..16
    BY DEF DecodedHeader
  <2>3. \A i, j \in 1..16 : DecodedHeader[i] = DecodedHeader[j] => i = j
    BY DEF DecodedHeader
  <2>4. \A i \in 1..16 : DecodedHeader[i] = "original_len" => i = 7
    BY DEF DecodedHeader
  <2>5. DecodedHeader[6] = "chunk_size" /\ \A i \in 1..16 : DecodedHeader[i] # "ciphertext"
    BY DEF DecodedHeader
  <2>6. 6 \in 1..7 - 1
    OBVIOUS
  <2> QED
    BY <2>1, <2>2, <2>3, <2>4, <2>5, <2>6 DEF Ordered
<1>3. CASE f = "frame"
  <2>1. Written[f] = DecodedFrame /\ Decoded[f] = DecodedFrame
    BY <1>3 DEF Written, Decoded, WrittenFrame, DecodedFrame
  <2>2. Len(DecodedFrame) = 4 /\ DOMAIN DecodedFrame = 1..4
    BY DEF DecodedFrame
  <2>3. \A i, j \in 1..4 : DecodedFrame[i] = DecodedFrame[j] => i = j
    BY DEF DecodedFrame
  <2>4. \A i \in 1..4 : DecodedFrame[i] = "ciphertext" => i = 4
    BY DEF DecodedFrame
  <2>5. DecodedFrame[2] = "plain_len" /\ \A i \in 1..4 : DecodedFrame[i] # "original_len"
    BY DEF DecodedFrame
  <2>6. 2 \in 1..4 - 1
    OBVIOUS
  <2> QED
    BY <2>1, <2>2, <2>3, <2>4, <2>5, <2>6 DEF Ordered
<1>4. CASE f = "trailer"
  BY <1>4 DEF Written, Decoded, WrittenTrailer, DecodedTrailer, Ordered
<1>5. CASE f = "root"
  BY <1>5 DEF Written, Decoded, WrittenRootKey, DecodedRootKey, Ordered
<1>6. CASE f = "secret"
  BY <1>6 DEF Written, Decoded, WrittenSecret, DecodedSecret, Ordered
<1>7. CASE f = "public"
  BY <1>7 DEF Written, Decoded, WrittenPublic, DecodedPublic, Ordered
<1> QED
  BY <1>1, <1>2, <1>3, <1>4, <1>5, <1>6, <1>7

\* A frame has no constant; every other constant is the value of an integer.
LEMMA ConstantCells ==
  ASSUME NEW f \in Format, NEW i \in 1..Len(Written[f]), Written[f][i] \in Constants
  PROVE  Constant(f, Written[f][i]) \in Cell
<1>1. f # "frame"
  BY DEF Written, WrittenFrame, Constants
<1>2. f \in {"header", "trailer", "root", "secret", "public"}
  BY <1>1 DEF Format, Written
<1>3. Magic[f] \in 0..4 /\ Version[f] \in 0..4
  BY <1>2 DEF Magic, Version
<1>4. \A k \in 0..4 : k \in Cell
  BY LimitsAssumption DEF Cell
<1> QED
  BY <1>3, <1>4 DEF Constant

\* An array that is not too long is a field.
LEMMA ArrayIsField ==
  ASSUME NEW n \in Nat, NEW a \in Arrays(n)
  PROVE  /\ a \in Seq(Cell) /\ Len(a) = n
         /\ n \in 1..MaxCell => a \in Fields
<1>1. Raw \subseteq Cell
  BY LimitsAssumption DEF Raw, Cell
<1>2. a \in [1..n -> Cell]
  BY <1>1 DEF Arrays
<1>3. a \in Seq(Cell) /\ Len(a) = n
  BY <1>2
<1>4. ASSUME n \in 1..MaxCell PROVE a \in Fields
  <2>1. CASE n = 1
    BY <1>2, <2>1 DEF Fields
  <2>2. CASE n # 1
    <3>1. n \in 2..MaxCell
      BY <1>4, <2>2, LimitsAssumption
    <3> QED
      BY <3>1 DEF Fields
  <2> QED
    BY <2>1, <2>2
<1> QED
  BY <1>3, <1>4

\* A field is a short sequence of cells.
LEMMA FieldIsSeq ==
  ASSUME NEW x \in Fields
  PROVE  x \in Seq(Cell) /\ Len(x) \in 1..MaxCell
<1>1. CASE x \in [1..1 -> Cell]
  <2>1. x \in Seq(Cell) /\ Len(x) = 1
    BY <1>1
  <2> QED
    BY <2>1, LimitsAssumption
<1>2. CASE \E n \in 2..MaxCell : x \in Arrays(n)
  <2>1. PICK n \in 2..MaxCell : x \in Arrays(n)
    BY <1>2
  <2>2. n \in Nat /\ n \in 1..MaxCell
    BY LimitsAssumption
  <2> QED
    BY <2>1, <2>2, ArrayIsField
<1> QED
  BY <1>1, <1>2 DEF Fields

\* A length that begins a field fits a cell.
LEMMA LengthRange ==
  ASSUME NEW name \in Sized, NEW n \in Lengths[name]
  PROVE  n \in 1..MaxCell
<1>1. name \in {"kem_ciphertext", "encrypted_filename", "wrapped_dek", "signature"}
  BY DEF Sized, Lengths
<1>2. MaxName + 1 < MaxCell /\ 3 < MaxCell /\ MaxName \in Nat /\ MaxCell \in Nat
  BY LimitsAssumption DEF Tag
<1>3. CASE name = "encrypted_filename"
  <2>1. n \in 1..MaxName + 1
    BY <1>3 DEF Lengths, EncryptedName, Tag
  <2> QED
    BY <1>2, <2>1
<1>4. CASE name # "encrypted_filename"
  <2>1. n \in {1, 1 + 1}
    BY <1>1, <1>4 DEF Lengths, Tag
  <2> QED
    BY <1>2, <2>1
<1> QED
  BY <1>3, <1>4

\* The cells that stand for a field that varies.
Cells(name, x) ==
    IF name \in Sized THEN <<Len(x)>> \o x ELSE IF name = "encoded" THEN Reencoded(x) ELSE x

\* A field is encoded as its constant or as its cells.
LEMMA EncodeFieldIs ==
  ASSUME NEW f, NEW name, NEW v
  PROVE  EncodeField(f, name, v)
           = IF name \in Constants THEN <<Constant(f, name)>> ELSE Cells(name, v[name])
<1>1. "encoded" \notin Sized /\ "encoded" \notin Constants
  BY DEF Sized, Lengths, Constants
<1>2. \A n \in Sized : n \notin Constants
  BY DEF Sized, Lengths, Constants
<1>3. CASE name \in Constants
  BY <1>1, <1>2, <1>3 DEF EncodeField
<1>4. CASE name \in Sized
  BY <1>1, <1>2, <1>4 DEF EncodeField, Cells
<1>5. CASE name = "encoded"
  BY <1>1, <1>5 DEF EncodeField, Cells
<1>6. CASE name \notin Constants /\ name \notin Sized /\ name # "encoded"
  BY <1>6 DEF EncodeField, Cells
<1> QED
  BY <1>3, <1>4, <1>5, <1>6

\* A length in front of a sequence.
LEMMA Prefixed ==
  ASSUME NEW x \in Seq(Cell), Len(x) \in Cell
  PROVE  /\ <<Len(x)>> \o x \in Seq(Cell)
         /\ Len(<<Len(x)>> \o x) = Len(x) + 1
         /\ (<<Len(x)>> \o x)[1] = Len(x)
         /\ Tail(<<Len(x)>> \o x) = x
<1> DEFINE one == <<Len(x)>>
           all == one \o x
<1>1. one \in Seq(Cell) /\ Len(one) = 1 /\ one[1] = Len(x) /\ Len(x) \in Nat
  BY LenProperties
<1> HIDE DEF one
<1>2. /\ all \in Seq(Cell) /\ Len(all) = Len(x) + 1
      /\ \A i \in 1..Len(x) + 1 : all[i] = IF i <= 1 THEN one[i] ELSE x[i - 1]
  <2>1. /\ all \in Seq(Cell) /\ Len(all) = Len(one) + Len(x)
        /\ \A i \in 1..Len(one) + Len(x) : all[i] = IF i <= Len(one) THEN one[i] ELSE x[i - Len(one)]
    BY <1>1, ConcatProperties
  <2>2. Len(one) + Len(x) = Len(x) + 1
    BY <1>1
  <2> QED
    BY <1>1, <2>1, <2>2
<1> HIDE DEF all
<1>3. all # <<>> /\ all[1] = Len(x)
  BY <1>1, <1>2
<1>4. /\ Tail(all) \in Seq(Cell) /\ Len(Tail(all)) = Len(x)
      /\ \A i \in 1..Len(x) : Tail(all)[i] = all[i + 1]
  BY <1>1, <1>2, <1>3, HeadTailProperties
<1>5. \A i \in 1..Len(x) : Tail(all)[i] = x[i]
  BY <1>1, <1>2, <1>4
<1>6. Tail(all) = x
  BY <1>4, <1>5, SeqEqual
<1> QED
  BY <1>2, <1>3, <1>6 DEF all, one

\* The cells of a field are cells.
LEMMA CellsAreCells ==
  ASSUME NEW name, NEW x \in Fields
  PROVE  Cells(name, x) \in Seq(Cell)
<1>1. x \in Seq(Cell) /\ Len(x) \in Cell
  BY FieldIsSeq DEF Cell
<1>2. <<0, 0>> \in Seq(Cell)
  <2>1. 0 \in Cell
    BY LimitsAssumption DEF Cell
  <2> QED
    BY <2>1
<1> QED
  BY <1>1, <1>2, Prefixed DEF Cells, Reencoded

\* No two fields of a header are encoded alike.
LEMMA CellsDiffer ==
  ASSUME NEW name, name # "encoded", NEW x \in Fields, NEW y \in Fields,
         Cells(name, x) = Cells(name, y)
  PROVE  x = y
<1>1. \A z \in {x, y} : z \in Seq(Cell) /\ Len(z) \in Cell
  BY FieldIsSeq DEF Cell
<1>2. Tail(<<Len(x)>> \o x) = x /\ Tail(<<Len(y)>> \o y) = y
  BY <1>1, Prefixed
<1> QED
  BY <1>2 DEF Cells

\* The names of the fields that vary and come before the nth.
Before(f, n) == {Written[f][i] : i \in 1..n - 1} \ Constants

\* A field that varies adds its name, which was not there before.
LEMMA BeforeNext ==
  ASSUME NEW f \in Format, NEW n \in 1..Len(Written[f])
  PROVE  /\ Before(f, n + 1) = Before(f, n) \cup ({Written[f][n]} \ Constants)
         /\ Written[f][n] \notin Before(f, n)
<1>1. /\ Len(Written[f]) \in Nat
      /\ \A i, j \in 1..Len(Written[f]) : Written[f][i] = Written[f][j] => i = j
  BY FormatNames DEF Ordered
<1>2. n \in Nat /\ (n + 1) - 1 = n
  BY <1>1
<1>3. \A i : i \in 1..n <=> i \in 1..n - 1 \/ i = n
  BY <1>1
<1>4. Before(f, n + 1) = Before(f, n) \cup ({Written[f][n]} \ Constants)
  BY <1>2, <1>3 DEF Before
<1>5. \A i \in 1..n - 1 : i \in 1..Len(Written[f]) /\ i # n
  BY <1>1
<1>6. ASSUME Written[f][n] \in Before(f, n) PROVE FALSE
  <2>1. PICK i \in 1..n - 1 : Written[f][i] = Written[f][n]
    BY <1>6 DEF Before
  <2> QED
    BY <1>1, <1>5, <2>1
<1> QED
  BY <1>4, <1>6

\* At first no field has been met, and in the end all that vary have.
LEMMA BeforeAll ==
  ASSUME NEW f \in Format
  PROVE  /\ Before(f, 1) = {}
         /\ Before(f, Len(Written[f]) + 1) = Varying(f)
         /\ \A n \in 1..Len(Written[f]) + 1 : Before(f, n) \subseteq Varying(f)
<1>1. Len(Written[f]) \in Nat /\ DOMAIN Written[f] = 1..Len(Written[f])
  BY FormatNames DEF Ordered
<1>2. Varying(f) = {Written[f][i] : i \in 1..Len(Written[f])} \ Constants
  BY <1>1 DEF Varying, Range
<1>3. (Len(Written[f]) + 1) - 1 = Len(Written[f])
  BY <1>1
<1>4. \A n \in 1..Len(Written[f]) + 1 : \A i \in 1..n - 1 : i \in 1..Len(Written[f])
  BY <1>1
<1>5. Before(f, Len(Written[f]) + 1) = Varying(f)
  BY <1>2, <1>3 DEF Before
<1>6. \A n \in 1..Len(Written[f]) + 1 : Before(f, n) \subseteq Varying(f)
  BY <1>2, <1>4 DEF Before
<1> QED
  BY <1>5, <1>6 DEF Before

\* The cells of field i of a value.
Field(f, v, i) == EncodeField(f, Written[f][i], v)

\* A field that is a constant or has a value is encoded as cells.
LEMMA FieldIsCells ==
  ASSUME NEW f \in Format, NEW i \in 1..Len(Written[f]), NEW v,
         Written[f][i] \notin Constants => v[Written[f][i]] \in Fields
  PROVE  Field(f, v, i) \in Seq(Cell)
<1>1. CASE Written[f][i] \in Constants
  <2>1. Constant(f, Written[f][i]) \in Cell
    BY <1>1, ConstantCells
  <2>2. <<Constant(f, Written[f][i])>> \in Seq(Cell)
    BY <2>1
  <2> QED
    BY <1>1, <2>2, EncodeFieldIs DEF Field
<1>2. CASE Written[f][i] \notin Constants
  BY <1>2, EncodeFieldIs, CellsAreCells DEF Field
<1> QED
  BY <1>1, <1>2

\* g gives the encoding of the first fields of v, up to n of them.
Joined(g, f, n, v) ==
    /\ g \in [0..n -> Seq(Cell)]
    /\ g[0] = <<>>
    /\ \A i \in 1..n : g[i] = g[i - 1] \o Field(f, v, i)

\* Cells are concatenated in any order.
LEMMA Associative == \A s, t, u \in Seq(Cell) : (s \o t) \o u = s \o (t \o u)
BY ConcatAssociative

\* All of the first n fields can be encoded.
Encodable(f, v, n) == \A i \in 1..n : Field(f, v, i) \in Seq(Cell)

\* The cells begin with start.
Continues(cells, start) == \E t \in Seq(Cell) : cells = start \o t

\* The encoding of the first m fields begins with the cells start.
Begins(f, v, m, start) == \E h : Joined(h, f, m, v) /\ Continues(h[m], start)

\* Before the first field nothing is encoded.
LEMMA JoinedNone ==
  ASSUME NEW f, NEW v
  PROVE  \E g : Joined(g, f, 0, v) /\ g[0] = <<>>
<1> DEFINE g == [i \in 0..0 |-> <<>>]
<1>1. <<>> \in Seq(Cell)
  OBVIOUS
<1>2. g \in [0..0 -> Seq(Cell)] /\ g[0] = <<>>
  BY <1>1
<1>3. \A i \in 1..0 : FALSE
  OBVIOUS
<1> HIDE DEF g
<1>4. Joined(g, f, 0, v)
  BY <1>2, <1>3 DEF Joined
<1> QED
  BY <1>2, <1>4

\* The next field is appended to the encoding.
LEMMA JoinedNext ==
  ASSUME NEW f, NEW v, NEW n \in Nat, NEW g, Joined(g, f, n, v),
         Field(f, v, n + 1) \in Seq(Cell)
  PROVE  \E h : Joined(h, f, n + 1, v) /\ h[n + 1] = g[n] \o Field(f, v, n + 1)
<1> DEFINE h == [i \in 0..n + 1 |-> IF i <= n THEN g[i] ELSE g[n] \o Field(f, v, n + 1)]
<1>1. g \in [0..n -> Seq(Cell)] /\ g[0] = <<>> /\ n \in 0..n
  BY DEF Joined
<1>2. g[n] \o Field(f, v, n + 1) \in Seq(Cell)
  BY <1>1, ConcatProperties
<1>3. \A i \in 0..n + 1 : i <= n => g[i] \in Seq(Cell)
  BY <1>1
<1>4. h \in [0..n + 1 -> Seq(Cell)]
  BY <1>2, <1>3
<1>5. h[0] = <<>> /\ h[n + 1] = g[n] \o Field(f, v, n + 1) /\ \A i \in 0..n : h[i] = g[i]
  BY <1>1
<1> HIDE DEF h
<1>6. ASSUME NEW i \in 1..n + 1 PROVE h[i] = h[i - 1] \o Field(f, v, i)
  <2>1. i - 1 \in 0..n
    OBVIOUS
  <2>2. CASE i = n + 1
    <3>1. i - 1 = n
      BY <2>2
    <3> QED
      BY <1>1, <1>5, <2>2, <3>1
  <2>3. CASE i # n + 1
    <3>1. i \in 1..n /\ i \in 0..n
      BY <2>3
    <3>2. g[i] = g[i - 1] \o Field(f, v, i)
      BY <3>1 DEF Joined
    <3> QED
      BY <1>5, <2>1, <3>1, <3>2
  <2> QED
    BY <2>2, <2>3
<1> QED
  BY <1>4, <1>5, <1>6 DEF Joined

\* Fields that are alike give the same encoding.
LEMMA JoinedAgain ==
  ASSUME NEW f, NEW v, NEW w, NEW n \in Nat, NEW g, Joined(g, f, n, v),
         \A i \in 1..n : Field(f, v, i) = Field(f, w, i)
  PROVE  Joined(g, f, n, w)
BY DEF Joined

\* The encoding of the first m fields begins with that of the first n.
LEMMA JoinedOnwards ==
  ASSUME NEW f, NEW v, NEW n \in Nat, NEW m \in Nat, n <= m, NEW g, Joined(g, f, n, v),
         Encodable(f, v, m)
  PROVE  Begins(f, v, m, g[n])
<1> DEFINE Reaches(k) == Begins(f, v, k, g[n])
           bad == {k \in n..m : ~ Reaches(k)}
<1>1. g[n] \in Seq(Cell) /\ n \in n..m
  BY DEF Joined
<1>2. Reaches(n)
  <2>1. <<>> \in Seq(Cell) /\ g[n] = g[n] \o <<>>
    BY <1>1, ConcatEmptySeq
  <2> QED
    BY <2>1 DEF Begins, Continues
<1>3. ASSUME NEW k \in n..m, k + 1 \in n..m, Reaches(k) PROVE Reaches(k + 1)
  <2>1. PICK h : Joined(h, f, k, v) /\ \E t \in Seq(Cell) : h[k] = g[n] \o t
    BY <1>3 DEF Begins, Continues
  <2>2. PICK t \in Seq(Cell) : h[k] = g[n] \o t
    BY <2>1
  <2>3. k \in Nat /\ k + 1 \in 1..m
    BY <1>3
  <2>4. Field(f, v, k + 1) \in Seq(Cell)
    BY <2>3 DEF Encodable
  <2>5. PICK h2 : Joined(h2, f, k + 1, v) /\ h2[k + 1] = h[k] \o Field(f, v, k + 1)
    BY <2>1, <2>3, <2>4, JoinedNext
  <2>6. (g[n] \o t) \o Field(f, v, k + 1) = g[n] \o (t \o Field(f, v, k + 1))
    BY <1>1, <2>4, Associative
  <2>7. t \o Field(f, v, k + 1) \in Seq(Cell)
    BY <2>4, ConcatProperties
  <2> QED
    BY <2>2, <2>5, <2>6, <2>7 DEF Begins, Continues
<1> HIDE DEF Reaches
<1>4. bad = {}
  <2> SUFFICES ASSUME bad # {} PROVE FALSE
    OBVIOUS
  <2>1. bad \in SUBSET Nat
    OBVIOUS
  <2>2. PICK k \in bad : \A j \in bad : k <= j
    BY <2>1, LeastOf
  <2>3. k \in n..m /\ ~ Reaches(k)
    OBVIOUS
  <2>4. k # n
    BY <1>2, <2>3
  <2>5. k - 1 \in n..m /\ (k - 1) + 1 = k /\ ~ (k <= k - 1)
    BY <2>3, <2>4
  <2>6. k - 1 \notin bad
    BY <2>2, <2>5
  <2>7. Reaches(k - 1)
    BY <2>5, <2>6
  <2>8. Reaches((k - 1) + 1)
    BY <1>3, <2>3, <2>5, <2>7
  <2> QED
    BY <2>3, <2>5, <2>8
<1>5. m \in n..m
  OBVIOUS
<1>6. Reaches(m)
  BY <1>4, <1>5
<1> QED
  BY <1>6 DEF Reaches

\* There is an encoding of any fields that can be encoded.
LEMMA JoinedExists ==
  ASSUME NEW f, NEW v, NEW m \in Nat, Encodable(f, v, m)
  PROVE  \E h : Joined(h, f, m, v)
<1>1. PICK g : Joined(g, f, 0, v)
  BY JoinedNone
<1>2. 0 \in Nat /\ 0 <= m
  OBVIOUS
<1>3. Begins(f, v, m, g[0])
  BY <1>1, <1>2, JoinedOnwards
<1> QED
  BY <1>3 DEF Begins, Continues

\* names are the first n names of the format.
Names(f, names, n) == DOMAIN names = 1..n /\ \A i \in 1..n : names[i] = Written[f][i]

\* FlattenSeq concatenates from the left.
LEMMA EncodeIsJoined ==
  ASSUME NEW f, NEW v, NEW n \in Nat \ {0}, NEW names, Names(f, names, n),
         NEW g, Joined(g, f, n, v), Encodable(f, v, n)
  PROVE  EncodeFields(f, names, v) = g[n]
<1> DEFINE seqs == [i \in DOMAIN names |-> EncodeField(f, names[i], v)]
           Flat(h) == h = [i \in 1..Len(seqs) |-> IF i = 1 THEN seqs[i] ELSE h[i - 1] \o seqs[i]]
           iter == CHOOSE h : Flat(h)
           wrong == {i \in 1..n : iter[i] # g[i]}
           h0 == [i \in 1..n |-> g[i]]
<1>1. EncodeFields(f, names, v) = IF Len(seqs) = 0 THEN seqs ELSE iter[Len(seqs)]
  BY DEF EncodeFields, FlattenSeq
<1>2. seqs = [i \in 1..n |-> Field(f, v, i)]
  BY DEF Field, Names
<1> HIDE DEF seqs
<1>3. Len(seqs) = n
  <2>1. seqs \in Seq(Seq(Cell))
    BY <1>2 DEF Encodable
  <2> QED
    BY <1>2, <2>1, LenProperties
<1>4. g \in [0..n -> Seq(Cell)] /\ g[0] = <<>> /\ \A i \in 1..n : g[i] = g[i - 1] \o Field(f, v, i)
  BY DEF Joined
<1>5. \A i \in 1..n : g[i] = IF i = 1 THEN seqs[i] ELSE g[i - 1] \o seqs[i]
  <2> SUFFICES ASSUME NEW i \in 1..n PROVE g[i] = IF i = 1 THEN seqs[i] ELSE g[i - 1] \o seqs[i]
    OBVIOUS
  <2>1. seqs[i] = Field(f, v, i) /\ Field(f, v, i) \in Seq(Cell)
    BY <1>2 DEF Encodable
  <2>2. CASE i = 1
    <3>1. i - 1 = 0
      BY <2>2
    <3>2. g[i] = g[i - 1] \o Field(f, v, i)
      BY <1>4
    <3>3. g[i] = <<>> \o Field(f, v, i)
      BY <1>4, <3>1, <3>2
    <3> QED
      BY <2>1, <2>2, <3>3, ConcatEmptySeq
  <2>3. CASE i # 1
    BY <1>4, <2>1, <2>3
  <2> QED
    BY <2>2, <2>3
<1>6. Flat(h0)
  <2>1. \A i \in 1..n : i # 1 => i - 1 \in 1..n
    OBVIOUS
  <2>2. \A i \in 1..n : h0[i] = IF i = 1 THEN seqs[i] ELSE h0[i - 1] \o seqs[i]
    BY <1>5, <2>1
  <2>3. h0 = [i \in 1..n |-> h0[i]]
    OBVIOUS
  <2> HIDE DEF h0
  <2>4. h0 = [i \in 1..n |-> IF i = 1 THEN seqs[i] ELSE h0[i - 1] \o seqs[i]]
    BY <2>2, <2>3
  <2> QED
    BY <1>3, <2>4
<1>7. Flat(iter)
  BY <1>6
<1> HIDE DEF iter
<1>8. \A i \in 1..n : iter[i] = IF i = 1 THEN seqs[i] ELSE iter[i - 1] \o seqs[i]
  BY <1>3, <1>7
<1> HIDE DEF Flat, h0
<1>9. wrong = {}
  <2> SUFFICES ASSUME wrong # {} PROVE FALSE
    OBVIOUS
  <2>1. wrong \in SUBSET Nat
    OBVIOUS
  <2>2. PICK k \in wrong : \A j \in wrong : k <= j
    BY <2>1, LeastOf
  <2>3. k \in 1..n /\ iter[k] # g[k]
    OBVIOUS
  <2>4. k # 1
    BY <1>5, <1>8, <2>3
  <2>5. k - 1 \in 1..n /\ ~ (k <= k - 1)
    BY <2>3, <2>4
  <2>6. iter[k - 1] = g[k - 1]
    BY <2>2, <2>5
  <2> QED
    BY <1>5, <1>8, <2>3, <2>4, <2>6
<1>10. n \in 1..n
  OBVIOUS
<1>11. iter[n] = g[n]
  BY <1>9, <1>10
<1> QED
  BY <1>1, <1>3, <1>11

\* The encoding of the first n fields is all of the encoding that precedes the rest.
LEMMA EncodeEnds ==
  ASSUME NEW f \in Format, NEW v, NEW n \in 0..Len(Written[f]), NEW g, Joined(g, f, n, v),
         Encodable(f, v, Len(Written[f]))
  PROVE  /\ Continues(Encode(f, v), g[n])
         /\ n = Len(Written[f]) => Encode(f, v) = g[n]
<1>1. /\ Len(Written[f]) \in Nat \ {0}
      /\ Len(Written[f]) \in Nat
      /\ Names(f, Written[f], Len(Written[f]))
  BY FormatNames DEF Ordered, Names
<1>2. n \in Nat /\ n <= Len(Written[f])
  BY <1>1
<1>3. Begins(f, v, Len(Written[f]), g[n])
  BY <1>1, <1>2, JoinedOnwards
<1>4. \A e : Joined(e, f, Len(Written[f]), v) => EncodeFields(f, Written[f], v) = e[Len(Written[f])]
  BY <1>1, EncodeIsJoined
<1> QED
  BY <1>3, <1>4 DEF Encode, Begins

\* The kinds of field, which exclude one another.
LEMMA FieldKinds ==
  /\ Sized = {"kem_ciphertext", "encrypted_filename", "wrapped_dek", "signature"}
  /\ Checked = {"magic", "version", "kem", "kdf", "aead", "alg", "chunk_size", "original_len",
                "plain_len", "flags", "signed_len"}
  /\ \A name \in Sized : name \notin Checked /\ name # "ciphertext" /\ name # "encoded"
  /\ "ciphertext" \notin Checked /\ "encoded" \notin Checked
BY DEF Sized, Lengths, Checked, Constants

\* What may stand where a field is expected.
LEMMA FormIs ==
  /\ Name \in Checked => Form = {<<n>> : n \in Cell}
  /\ Name \in Sized => Form = {<<n>> : n \in Cell \ Lengths[Name]}
                              \cup {<<Len(a)>> \o a : a \in UNION {Arrays(n) : n \in Lengths[Name]}}
  /\ Name = "ciphertext" => Form = Arrays(value.plain_len[1] + Tag)
  /\ Name = "encoded" => Form = Arrays(2)
  /\ Name \notin Checked /\ Name \notin Sized /\ Name # "ciphertext" /\ Name # "encoded" => Form = Arrays(1)
<1> DEFINE n0 == Name
           checked == {<<n>> : n \in Cell}
           sized == {<<n>> : n \in Cell \ Lengths[Name]}
                              \cup {<<Len(a)>> \o a : a \in UNION {Arrays(n) : n \in Lengths[Name]}}
           cipher == Arrays(value.plain_len[1] + Tag)
           two == Arrays(2)
           one == Arrays(1)
<1>1. Form = CASE n0 \in Checked -> checked [] n0 \in Sized -> sized
               [] n0 = "ciphertext" -> cipher [] n0 = "encoded" -> two [] OTHER -> one
  BY DEF Form
<1> HIDE DEF n0, checked, sized, cipher, two, one
<1>2. /\ n0 \in Checked => Form = checked
      /\ n0 \in Sized => Form = sized
      /\ n0 = "ciphertext" => Form = cipher
      /\ n0 = "encoded" => Form = two
      /\ n0 \notin Checked /\ n0 \notin Sized /\ n0 # "ciphertext" /\ n0 # "encoded" => Form = one
  BY <1>1, FieldKinds
<1> QED
  BY <1>2 DEF n0, checked, sized, cipher, two, one

\* An array with its length in front.
LEMMA SizedCells ==
  ASSUME NEW name \in Sized, NEW a \in UNION {Arrays(n) : n \in Lengths[name]}
  PROVE  /\ a \in Fields /\ a \in Seq(Cell) /\ Len(a) \in Lengths[name] /\ Len(a) \in Cell
         /\ <<Len(a)>> \o a \in Seq(Cell)
         /\ (<<Len(a)>> \o a)[1] = Len(a)
         /\ Tail(<<Len(a)>> \o a) = a
<1>1. PICK n \in Lengths[name] : a \in Arrays(n)
  OBVIOUS
<1>2. n \in 1..MaxCell
  BY LengthRange
<1>3. n \in Nat /\ n \in Cell
  BY <1>2, LimitsAssumption DEF Cell
<1>4. a \in Fields /\ a \in Seq(Cell) /\ Len(a) = n
  BY <1>1, <1>2, <1>3, ArrayIsField
<1> QED
  BY <1>3, <1>4, Prefixed

\* One cell is a field, and the cells of that field.
LEMMA OneCell ==
  ASSUME NEW n \in Cell
  PROVE  <<n>> \in Fields /\ <<n>> \in Seq(Cell) /\ <<n>>[1] = n /\ Len(<<n>>) = 1
<1>1. <<n>> \in [1..1 -> Cell]
  OBVIOUS
<1> QED
  BY <1>1 DEF Fields

\* The arrays of a fixed length, and the ciphertext of a chunk, are fields.
LEMMA SmallArrays ==
  /\ \A a \in Arrays(1) : a \in Fields /\ a \in Seq(Cell) /\ Len(a) = 1
  /\ \A a \in Arrays(2) : a \in Fields /\ a \in Seq(Cell) /\ Len(a) = 2
  /\ \A n \in 0..MaxChunk : \A a \in Arrays(n + Tag) : a \in Fields /\ a \in Seq(Cell) /\ Len(a) = n + 1
<1>1. 1 \in Nat /\ 1 \in 1..MaxCell /\ 2 \in Nat /\ 2 \in 1..MaxCell
  BY LimitsAssumption
<1>2. MaxChunk \in Nat /\ MaxCell \in Nat /\ MaxChunk + 1 < MaxCell
  BY LimitsAssumption DEF Tag
<1>3. \A n \in 0..MaxChunk : n + Tag = n + 1 /\ n + 1 \in Nat /\ n + 1 \in 1..MaxCell
  BY <1>2 DEF Tag
<1>4. \A a \in Arrays(1) : a \in Fields /\ a \in Seq(Cell) /\ Len(a) = 1
  BY <1>1, ArrayIsField
<1>5. \A a \in Arrays(2) : a \in Fields /\ a \in Seq(Cell) /\ Len(a) = 2
  BY <1>1, ArrayIsField
<1>6. \A n \in 0..MaxChunk : \A a \in Arrays(n + Tag) : a \in Fields /\ a \in Seq(Cell) /\ Len(a) = n + 1
  <2> SUFFICES ASSUME NEW n \in 0..MaxChunk, NEW a \in Arrays(n + Tag)
               PROVE  a \in Fields /\ a \in Seq(Cell) /\ Len(a) = n + 1
    OBVIOUS
  <2>1. n + Tag \in Nat /\ n + Tag \in 1..MaxCell /\ n + Tag = n + 1
    BY <1>3
  <2> QED
    BY <2>1, ArrayIsField
<1> QED
  BY <1>4, <1>5, <1>6

\* Where an integer is expected there is one cell.
LEMMA CheckedForm ==
  ASSUME Name \in Checked, NEW cells \in Form
  PROVE  \E n \in Cell : cells = <<n>>
<1>1. cells \in {<<n>> : n \in Cell}
  BY FormIs
<1> QED
  BY <1>1

\* Where a length is expected there is one that is refused, or one and its array.
LEMMA SizedForm ==
  ASSUME Name \in Sized, NEW cells \in Form
  PROVE  \/ \E n \in Cell \ Lengths[Name] : cells = <<n>>
         \/ \E a \in UNION {Arrays(n) : n \in Lengths[Name]} : cells = <<Len(a)>> \o a
<1>1. cells \in {<<n>> : n \in Cell \ Lengths[Name]}
                 \cup {<<Len(a)>> \o a : a \in UNION {Arrays(n) : n \in Lengths[Name]}}
  BY FormIs
<1> DEFINE some == UNION {Arrays(n) : n \in Lengths[Name]}
<1> HIDE DEF some
<1>2. \/ cells \in {<<n>> : n \in Cell \ Lengths[Name]}
      \/ cells \in {<<Len(a)>> \o a : a \in some}
  BY <1>1 DEF some
<1>3. \/ \E n \in Cell \ Lengths[Name] : cells = <<n>>
      \/ \E a \in some : cells = <<Len(a)>> \o a
  BY <1>2
<1> QED
  BY <1>3 DEF some

\* Anything else is an array of cells.
LEMMA PlainForm ==
  ASSUME Name \notin Checked, Name \notin Sized, NEW cells \in Form,
         Name = "ciphertext" => value.plain_len[1] \in 0..MaxChunk
  PROVE  cells \in Fields /\ cells \in Seq(Cell)
<1>1. CASE Name = "ciphertext"
  BY <1>1, FormIs, SmallArrays
<1>2. CASE Name = "encoded"
  BY <1>2, FormIs, SmallArrays
<1>3. CASE Name # "ciphertext" /\ Name # "encoded"
  BY <1>3, FormIs, SmallArrays
<1> QED
  BY <1>1, <1>2, <1>3

\* Once plain_len is known, the cells of any field are cells.
LEMMA FormCells ==
  ASSUME NEW cells \in Form, Name = "ciphertext" => value.plain_len[1] \in 0..MaxChunk
  PROVE  cells \in Seq(Cell)
<1>1. CASE Name \in Checked
  BY <1>1, CheckedForm, OneCell
<1>2. CASE Name \in Sized
  <2>1. CASE \E n \in Cell \ Lengths[Name] : cells = <<n>>
    BY <2>1, OneCell
  <2>2. CASE \E a \in UNION {Arrays(n) : n \in Lengths[Name]} : cells = <<Len(a)>> \o a
    BY <1>2, <2>2, SizedCells
  <2> QED
    BY <1>2, <2>1, <2>2, SizedForm
<1>3. CASE Name \notin Checked /\ Name \notin Sized
  BY <1>3, PlainForm
<1> QED
  BY <1>1, <1>2, <1>3

\* What a field that fits is, by its name.
LEMMA FitsIs ==
  ASSUME NEW cells
  PROVE  /\ Name \in Constants => (Fits(cells) <=> cells[1] = Constant(format, Name))
         /\ Name \in Sized => (Fits(cells) <=> cells[1] \in Lengths[Name])
         /\ Name = "chunk_size" => (Fits(cells) <=> Geometry(0, cells[1]))
         /\ Name = "original_len" => (Fits(cells) <=> Geometry(cells[1], value.chunk_size[1]))
         /\ Name = "plain_len" => (Fits(cells) <=> cells[1] <= MaxChunk)
         /\ Name = "flags" => (Fits(cells) <=> cells[1] \in KnownFlags)
         /\ Name = "signed_len" => (Fits(cells) <=> cells[1] = EnvelopeLen)
         /\ Name = "encoded" => (Fits(cells) <=> Reencoded(cells) = cells)
         /\ Name \notin Checked /\ Name \notin Sized /\ Name # "encoded" => Fits(cells)
<1> DEFINE n0 == Name
           constant == (cells[1] = Constant(format, Name))
           sized == (cells[1] \in Lengths[Name])
           chunk == Geometry(0, cells[1])
           orig == Geometry(cells[1], value.chunk_size[1])
           plain == (cells[1] <= MaxChunk)
           flags == (cells[1] \in KnownFlags)
           envelope == (cells[1] = EnvelopeLen)
           same == (Reencoded(cells) = cells)
<1>1. Fits(cells) = CASE n0 \in Constants -> constant [] n0 \in Sized -> sized
        [] n0 = "chunk_size" -> chunk [] n0 = "original_len" -> orig [] n0 = "plain_len" -> plain
        [] n0 = "flags" -> flags [] n0 = "signed_len" -> envelope [] n0 = "encoded" -> same
        [] OTHER -> TRUE
  BY DEF Fits
<1>2. /\ constant \in BOOLEAN /\ sized \in BOOLEAN /\ chunk \in BOOLEAN /\ orig \in BOOLEAN
      /\ plain \in BOOLEAN /\ flags \in BOOLEAN /\ envelope \in BOOLEAN /\ same \in BOOLEAN
  BY DEF Geometry
<1> HIDE DEF n0, constant, sized, chunk, orig, plain, flags, envelope, same
<1>3. /\ Constants = {"magic", "version", "kem", "kdf", "aead", "alg"}
      /\ Checked = Constants \cup {"chunk_size", "original_len", "plain_len", "flags", "signed_len"}
  BY DEF Constants, Checked
<1>4. /\ n0 \in Constants => (Fits(cells) <=> constant)
      /\ n0 \in Sized => (Fits(cells) <=> sized)
      /\ n0 = "chunk_size" => (Fits(cells) <=> chunk)
      /\ n0 = "original_len" => (Fits(cells) <=> orig)
      /\ n0 = "plain_len" => (Fits(cells) <=> plain)
      /\ n0 = "flags" => (Fits(cells) <=> flags)
      /\ n0 = "signed_len" => (Fits(cells) <=> envelope)
      /\ n0 = "encoded" => (Fits(cells) <=> same)
      /\ n0 \notin Checked /\ n0 \notin Sized /\ n0 # "encoded" => Fits(cells)
  BY <1>1, <1>2, <1>3, FieldKinds
<1> QED
  BY <1>4 DEF n0, constant, sized, chunk, orig, plain, flags, envelope, same

\* What fits is the encoding of what it is decoded to.
LEMMA Decodes ==
  ASSUME Name \notin Constants, NEW cells \in Form, Fits(cells),
         Name = "ciphertext" => value.plain_len[1] \in 0..MaxChunk
  PROVE  /\ DecodeField(cells) \in Fields
         /\ Cells(Name, DecodeField(cells)) = cells
         /\ Name = "plain_len" => DecodeField(cells)[1] \in 0..MaxChunk
<1>1. CASE Name \in Sized
  <2>1. ~ \E n \in Cell \ Lengths[Name] : cells = <<n>>
    BY <1>1, FitsIs, OneCell
  <2>2. PICK a \in UNION {Arrays(n) : n \in Lengths[Name]} : cells = <<Len(a)>> \o a
    BY <1>1, <2>1, SizedForm
  <2>3. DecodeField(cells) = Tail(cells)
    BY <1>1, FieldKinds DEF DecodeField
  <2>4. DecodeField(cells) = a /\ a \in Fields
    BY <1>1, <2>2, <2>3, SizedCells
  <2>5. Name # "plain_len"
    BY <1>1, FieldKinds
  <2> QED
    BY <1>1, <2>2, <2>4, <2>5 DEF Cells
<1>2. CASE Name = "flags"
  <2>1. Name \in Checked /\ Name \notin Sized
    BY <1>2, FieldKinds
  <2>2. PICK n \in Cell : cells = <<n>>
    BY <2>1, CheckedForm
  <2>3. n \in {0, 1}
    BY <1>2, <2>2, FitsIs, OneCell DEF KnownFlags
  <2>4. n % 2 = n
    BY <2>3
  <2>5. DecodeField(cells) = <<cells[1] % 2>>
    BY <1>2, <2>1 DEF DecodeField
  <2>6. DecodeField(cells) = cells
    BY <2>2, <2>4, <2>5, OneCell
  <2>7. cells \in Fields
    BY <2>2, OneCell
  <2>8. Cells(Name, cells) = cells
    BY <1>2, <2>1 DEF Cells
  <2> QED
    BY <1>2, <2>6, <2>7, <2>8
<1>3. CASE Name \notin Sized /\ Name # "flags"
  <2>1. DecodeField(cells) = cells
    BY <1>3 DEF DecodeField
  <2>2. cells \in Fields
    <3>1. CASE Name \in Checked
      BY <3>1, CheckedForm, OneCell
    <3>2. CASE Name \notin Checked
      BY <1>3, <3>2, PlainForm
    <3> QED
      BY <3>1, <3>2
  <2>3. Cells(Name, cells) = cells
    BY <1>3, FitsIs DEF Cells
  <2>4. ASSUME Name = "plain_len" PROVE cells[1] \in 0..MaxChunk
    <3>1. Name \in Checked
      BY <2>4, FieldKinds
    <3>2. PICK n \in Cell : cells = <<n>>
      BY <3>1, CheckedForm
    <3>3. cells[1] = n /\ n \in Nat
      BY <3>2, LimitsAssumption DEF Cell
    <3>4. n <= MaxChunk
      BY <2>4, <3>3, FitsIs
    <3> QED
      BY <3>3, <3>4, LimitsAssumption
  <2> QED
    BY <2>1, <2>2, <2>3, <2>4
<1> QED
  BY <1>1, <1>2, <1>3

\* A constant that fits is the constant.
LEMMA DecodesConstant ==
  ASSUME Name \in Constants, NEW cells \in Form, Fits(cells)
  PROVE  cells = <<Constant(format, Name)>>
<1>1. Name \in Checked
  BY DEF Checked
<1>2. PICK n \in Cell : cells = <<n>>
  BY <1>1, CheckedForm
<1>3. cells[1] = Constant(format, Name)
  BY FitsIs
<1> QED
  BY <1>2, <1>3, OneCell

\* A prefix has the cells of the sequence it begins.
LEMMA PrefixAlike ==
  ASSUME NEW s \in Seq(Cell), NEW u \in Seq(Cell), IsPrefix(s, u)
  PROVE  Len(s) <= Len(u) /\ \A i \in 1..Len(s) : s[i] = u[i]
<1>1. Len(s) \in Nat /\ Len(u) \in Nat /\ Len(s) <= Len(u) /\ SubSeq(s, 1, Len(s)) = SubSeq(u, 1, Len(s))
  BY LenProperties DEF IsPrefix
<1>2. \A i \in 1..Len(s) : s[i] \in Cell /\ u[i] \in Cell
  BY <1>1, ElementOfSeq
<1>3. \A i \in 1..Len(s) - 1 + 1 : SubSeq(u, 1, Len(s))[i] = u[1 + i - 1]
  BY <1>1, <1>2, SubSeqProperties
<1>4. SubSeq(s, 1, Len(s)) = s
  BY SubSeqFull
<1>5. \A i \in 1..Len(s) : i \in 1..Len(s) - 1 + 1 /\ 1 + i - 1 = i
  BY <1>1
<1> QED
  BY <1>1, <1>3, <1>4, <1>5

\* A sequence begins what it is followed by something in.
LEMMA PrefixOfConcat ==
  ASSUME NEW s \in Seq(Cell), NEW t \in Seq(Cell)
  PROVE  IsPrefix(s, s \o t)
<1>1. /\ s \o t \in Seq(Cell) /\ Len(s \o t) = Len(s) + Len(t)
      /\ \A i \in 1..Len(s) + Len(t) : (s \o t)[i] = IF i <= Len(s) THEN s[i] ELSE t[i - Len(s)]
  BY ConcatProperties
<1>2. Len(s) \in Nat /\ Len(t) \in Nat
  BY LenProperties
<1> DEFINE u == s \o t
           p == SubSeq(u, 1, Len(s))
<1>3. Len(s) <= Len(u) /\ \A i \in 1..Len(s) : u[i] = s[i]
  BY <1>1, <1>2
<1>4. \A i \in 1..Len(s) : s[i] \in Cell
  BY ElementOfSeq
<1> HIDE DEF u
<1>5. \A i \in 1..Len(s) : u[i] \in Cell
  BY <1>3, <1>4
<1>6. /\ p \in Seq(Cell) /\ Len(p) = IF 1 <= Len(s) THEN Len(s) - 1 + 1 ELSE 0
      /\ \A i \in 1..Len(s) - 1 + 1 : p[i] = u[1 + i - 1]
  BY <1>2, <1>5, SubSeqProperties
<1> HIDE DEF p
<1>7. Len(p) = Len(s) /\ \A i \in 1..Len(p) : p[i] = s[i]
  BY <1>2, <1>3, <1>6
<1>8. p = s
  BY <1>6, <1>7, SeqEqual
<1>9. SubSeq(s, 1, Len(s)) = s
  BY SubSeqFull
<1> QED
  BY <1>3, <1>8, <1>9 DEF IsPrefix, p, u

\* The beginnings of the same cells are alike.
LEMMA Beginnings ==
  ASSUME NEW s \in Seq(Cell), NEW e \in Seq(Cell), NEW t \in Seq(Cell), IsPrefix(s, e \o t)
  PROVE  /\ Len(s) = Len(e) => s = e
         /\ Len(s) # 0 /\ Len(e) # 0 => s[1] = e[1]
<1> DEFINE u == e \o t
<1>1. /\ u \in Seq(Cell) /\ Len(u) = Len(e) + Len(t)
      /\ \A i \in 1..Len(e) + Len(t) : u[i] = IF i <= Len(e) THEN e[i] ELSE t[i - Len(e)]
  BY ConcatProperties
<1>2. Len(s) \in Nat /\ Len(t) \in Nat /\ Len(e) \in Nat
  BY LenProperties
<1>3. IsPrefix(s, u)
  OBVIOUS
<1> HIDE DEF u
<1>4. \A i \in 1..Len(s) : s[i] = u[i]
  BY <1>1, <1>3, PrefixAlike
<1>5. \A i \in 1..Len(e) : u[i] = e[i]
  BY <1>1, <1>2
<1>6. ASSUME Len(s) = Len(e) PROVE s = e
  BY <1>4, <1>5, <1>6, SeqEqual
<1>7. ASSUME Len(s) # 0, Len(e) # 0 PROVE s[1] = e[1]
  BY <1>2, <1>4, <1>5, <1>7
<1> QED
  BY <1>6, <1>7

\* What is left of a sequence that has been read as far as s.
LEMMA RestOfConcat ==
  ASSUME NEW s \in Seq(Cell), NEW t \in Seq(Cell)
  PROVE  SubSeq(s \o t, Len(s) + 1, Len(s \o t)) = t
<1> DEFINE u == s \o t
           n == Len(s)
           m == Len(t)
           p == SubSeq(u, n + 1, n + m)
<1>1. /\ u \in Seq(Cell) /\ Len(u) = n + m
      /\ \A i \in 1..n + m : u[i] = IF i <= n THEN s[i] ELSE t[i - n]
  BY ConcatProperties
<1>2. n \in Nat /\ m \in Nat
  BY LenProperties
<1>3. \A i \in 1..m : t[i] \in Cell
  BY ElementOfSeq
<1> HIDE DEF u, n, m
<1>4. \A i \in n + 1..n + m : i - n \in 1..m /\ u[i] = t[i - n]
  BY <1>1, <1>2
<1>5. \A i \in n + 1..n + m : u[i] \in Cell
  BY <1>3, <1>4
<1>6. n + 1 \in Int /\ n + m \in Int /\ (n + m) - (n + 1) + 1 = m
  BY <1>2
<1>7. /\ p \in Seq(Cell) /\ Len(p) = IF n + 1 <= n + m THEN (n + m) - (n + 1) + 1 ELSE 0
      /\ \A i \in 1..(n + m) - (n + 1) + 1 : p[i] = u[(n + 1) + i - 1]
  BY <1>5, <1>6, SubSeqProperties
<1> HIDE DEF p
<1>8. Len(p) = m
  BY <1>2, <1>6, <1>7
<1>9. \A i \in 1..m : p[i] = t[i]
  <2> SUFFICES ASSUME NEW i \in 1..m PROVE p[i] = t[i]
    OBVIOUS
  <2>1. (n + 1) + i - 1 = n + i /\ n + i \in n + 1..n + m /\ (n + i) - n = i
    BY <1>2
  <2>2. p[i] = u[n + i]
    BY <1>6, <1>7, <2>1
  <2> QED
    BY <1>4, <2>1, <2>2
<1>10. p = t
  BY <1>7, <1>8, <1>9, SeqEqual DEF m
<1> QED
  BY <1>1, <1>10 DEF p, u, n

\* What the program writes into a field, by its name.
LEMMA WritesIs ==
  ASSUME NEW name, NEW v
  PROVE  /\ name \in Sized => Writes(name, v) \subseteq UNION {Arrays(n) : n \in Lengths[name]}
         /\ name = "signed_len" => Writes(name, v) = {<<EnvelopeLen>>}
         /\ name = "chunk_size" => Writes(name, v) = {<<n>> : n \in 1..MaxChunk}
         /\ name = "original_len" =>
               Writes(name, v) = {<<n>> : n \in {m \in Cell : Geometry(m, v.chunk_size[1])}}
         /\ name = "plain_len" => Writes(name, v) = {<<n>> : n \in 0..MaxChunk}
         /\ name = "ciphertext" => Writes(name, v) = Arrays(v.plain_len[1] + Tag)
         /\ name = "encoded" => Writes(name, v) = Arrays(2) \ {OutOfRange}
         /\ name = "flags" => Writes(name, v) = Arrays(1)
         /\ name \notin Checked /\ name \notin Sized /\ name # "ciphertext" /\ name # "encoded" =>
               Writes(name, v) = Arrays(1)
<1> DEFINE arrays == UNION {Arrays(n) : n \in Lengths[name]}
           envelope == {<<EnvelopeLen>>}
           chunk == {<<n>> : n \in 1..MaxChunk}
           orig == {<<n>> : n \in {m \in Cell : Geometry(m, v.chunk_size[1])}}
           plain == {<<n>> : n \in 0..MaxChunk}
           cipher == Arrays(v.plain_len[1] + Tag)
           two == Arrays(2) \ {OutOfRange}
           one == Arrays(1)
<1>1. Writes(name, v) = CASE name = "encrypted_filename" -> FileNames
        [] name \in Sized \ {"encrypted_filename"} -> arrays [] name = "signed_len" -> envelope
        [] name = "chunk_size" -> chunk [] name = "original_len" -> orig
        [] name = "plain_len" -> plain [] name = "ciphertext" -> cipher
        [] name = "encoded" -> two [] OTHER -> one
  BY DEF Writes
<1>2. name = "encrypted_filename" => FileNames \subseteq arrays
  <2> SUFFICES ASSUME name = "encrypted_filename", NEW x \in FileNames PROVE x \in arrays
    OBVIOUS
  <2>1. PICK n \in 1..MaxName : x \in Arrays(n + Tag)
    BY DEF FileNames
  <2>2. n + Tag \in 1..MaxName + 1
    BY LimitsAssumption DEF Tag
  <2>3. Lengths[name] = 1..MaxName + 1
    BY DEF Lengths, EncryptedName, Tag
  <2> QED
    BY <2>1, <2>2, <2>3
<1> HIDE DEF arrays, envelope, chunk, orig, plain, cipher, two, one
<1>3. /\ name \in Sized => Writes(name, v) \subseteq arrays
      /\ name = "signed_len" => Writes(name, v) = envelope
      /\ name = "chunk_size" => Writes(name, v) = chunk
      /\ name = "original_len" => Writes(name, v) = orig
      /\ name = "plain_len" => Writes(name, v) = plain
      /\ name = "ciphertext" => Writes(name, v) = cipher
      /\ name = "encoded" => Writes(name, v) = two
      /\ name = "flags" => Writes(name, v) = one
      /\ name \notin Checked /\ name \notin Sized /\ name # "ciphertext" /\ name # "encoded" =>
            Writes(name, v) = one
  BY <1>1, <1>2, FieldKinds
<1> QED
  BY <1>3 DEF arrays, envelope, chunk, orig, plain, cipher, two, one

\* What the program writes is a field.
LEMMA WritesFields ==
  ASSUME NEW name, name \notin Constants, NEW v, NEW x \in Writes(name, v),
         name = "ciphertext" => v.plain_len[1] \in 0..MaxChunk
  PROVE  /\ x \in Fields
         /\ name = "plain_len" => x[1] \in 0..MaxChunk
<1>0. /\ MaxChunk \in Nat /\ MaxCell \in Nat /\ MaxChunk + 1 < MaxCell /\ 3 < MaxCell
  BY LimitsAssumption DEF Tag
<1>1. CASE name \in Sized
  BY <1>1, WritesIs, SizedCells, FieldKinds
<1>2. CASE name = "signed_len"
  <2>1. x = <<EnvelopeLen>> /\ EnvelopeLen \in Cell
    BY <1>0, <1>2, WritesIs DEF EnvelopeLen, Cell
  <2> QED
    BY <1>2, <2>1, OneCell
<1>3. CASE name = "chunk_size" \/ name = "plain_len"
  <2>1. \E n \in 0..MaxChunk : x = <<n>>
    BY <1>0, <1>3, WritesIs
  <2>2. PICK n \in 0..MaxChunk : x = <<n>>
    BY <2>1
  <2>3. n \in Cell
    BY <1>0 DEF Cell
  <2> QED
    BY <2>2, <2>3, OneCell
<1>4. CASE name = "original_len"
  <2>1. \E n \in Cell : x = <<n>>
    BY <1>4, WritesIs
  <2> QED
    BY <1>4, <2>1, OneCell
<1>5. CASE name = "flags"
  BY <1>5, WritesIs, SmallArrays
<1>6. CASE name = "ciphertext"
  BY <1>6, WritesIs, SmallArrays
<1>7. CASE name = "encoded"
  <2>1. x \in Arrays(2)
    BY <1>7, WritesIs
  <2> QED
    BY <1>7, <2>1, SmallArrays
<1>8. CASE name \notin Checked /\ name \notin Sized /\ name # "ciphertext" /\ name # "encoded"
  BY <1>8, WritesIs, SmallArrays, FieldKinds
<1>9. name \in Checked \ Constants => name \in {"chunk_size", "original_len", "plain_len", "flags", "signed_len"}
  BY DEF Checked
<1> QED
  BY <1>1, <1>2, <1>3, <1>4, <1>5, <1>6, <1>7, <1>8, <1>9

\* What may stand where a field is expected is known by its beginning.
LEMMA FormUnique ==
  ASSUME NEW s \in Form, NEW e \in Form, Fits(e), NEW t \in Seq(Cell), IsPrefix(s, e \o t),
         Name = "ciphertext" => value.plain_len[1] \in 0..MaxChunk
  PROVE  s = e
<1>1. s \in Seq(Cell) /\ e \in Seq(Cell)
  BY FormCells
<1>2. ASSUME Len(s) = Len(e) PROVE s = e
  BY <1>1, <1>2, Beginnings
<1>3. ASSUME Len(s) # 0, Len(e) # 0 PROVE s[1] = e[1]
  BY <1>1, <1>3, Beginnings
<1>4. CASE Name \in Checked
  <2>1. Len(s) = 1 /\ Len(e) = 1
    BY <1>4, CheckedForm, OneCell
  <2> QED
    BY <1>2, <2>1
<1>5. CASE Name \in Sized
  <2>1. ~ \E n \in Cell \ Lengths[Name] : e = <<n>>
    BY <1>5, FitsIs, OneCell
  <2>2. PICK a \in UNION {Arrays(n) : n \in Lengths[Name]} : e = <<Len(a)>> \o a
    BY <1>5, <2>1, SizedForm
  <2>3. /\ a \in Seq(Cell) /\ Len(a) \in Lengths[Name] /\ Len(a) \in Cell
        /\ e[1] = Len(a) /\ Len(e) = Len(a) + 1
    BY <1>5, <2>2, SizedCells, Prefixed
  <2>4. Len(a) \in Nat
    BY <2>3, LenProperties
  <2>5. CASE \E n \in Cell \ Lengths[Name] : s = <<n>>
    <3>1. PICK n \in Cell \ Lengths[Name] : s = <<n>>
      BY <2>5
    <3>2. s[1] = n /\ Len(s) = 1
      BY <3>1, OneCell
    <3>3. s[1] = e[1]
      BY <1>3, <2>3, <2>4, <3>2
    <3> QED
      BY <2>3, <3>1, <3>2, <3>3
  <2>6. CASE \E b \in UNION {Arrays(n) : n \in Lengths[Name]} : s = <<Len(b)>> \o b
    <3>1. PICK b \in UNION {Arrays(n) : n \in Lengths[Name]} : s = <<Len(b)>> \o b
      BY <2>6
    <3>2. b \in Seq(Cell) /\ Len(b) \in Cell /\ s[1] = Len(b) /\ Len(s) = Len(b) + 1
      BY <1>5, <3>1, SizedCells, Prefixed
    <3>3. Len(b) \in Nat
      BY <3>2, LenProperties
    <3>4. s[1] = e[1]
      BY <1>3, <2>3, <2>4, <3>2, <3>3
    <3> QED
      BY <1>2, <2>3, <3>2, <3>4
  <2> QED
    BY <1>5, <2>5, <2>6, SizedForm
<1>6. CASE Name = "ciphertext"
  BY <1>2, <1>6, FormIs, SmallArrays
<1>7. CASE Name = "encoded"
  BY <1>2, <1>7, FormIs, SmallArrays
<1>8. CASE Name \notin Checked /\ Name \notin Sized /\ Name # "ciphertext" /\ Name # "encoded"
  BY <1>2, <1>8, FormIs, SmallArrays
<1> QED
  BY <1>4, <1>5, <1>6, <1>7, <1>8

\* A constant is found again.
LEMMA ConstantBack ==
  ASSUME Name \in Constants, Constant(format, Name) \in Cell
  PROVE  <<Constant(format, Name)>> \in Form /\ Fits(<<Constant(format, Name)>>)
<1>1. Name \in Checked
  BY DEF Checked
<1>2. <<Constant(format, Name)>> \in Form
  BY <1>1, FormIs
<1>3. <<Constant(format, Name)>>[1] = Constant(format, Name)
  OBVIOUS
<1> QED
  BY <1>2, <1>3, FitsIs

\* What the program writes fits, and is decoded to what was written.
LEMMA WrittenFits ==
  ASSUME Name \notin Constants, NEW x \in Writes(Name, source),
         Name = "original_len" => value.chunk_size = source.chunk_size,
         Name = "ciphertext" => /\ value.plain_len = source.plain_len
                                /\ value.plain_len[1] \in 0..MaxChunk
  PROVE  /\ Cells(Name, x) \in Form
         /\ Fits(Cells(Name, x))
         /\ DecodeField(Cells(Name, x)) = x
<1>0. /\ MaxChunk \in Nat \ {0} /\ MaxPlaintext \in Nat /\ MaxCell \in Nat
      /\ MaxChunk + 1 < MaxCell /\ 3 < MaxCell
  BY LimitsAssumption DEF Tag
<1>1. CASE Name \in Sized
  <2>1. x \in UNION {Arrays(n) : n \in Lengths[Name]}
    BY <1>1, WritesIs
  <2>2. Cells(Name, x) = <<Len(x)>> \o x
    BY <1>1 DEF Cells
  <2>3. Cells(Name, x) \in Form
    BY <1>1, <2>1, <2>2, FormIs
  <2>4. Cells(Name, x)[1] \in Lengths[Name] /\ Tail(Cells(Name, x)) = x
    BY <1>1, <2>1, <2>2, SizedCells
  <2>5. DecodeField(Cells(Name, x)) = Tail(Cells(Name, x))
    BY <1>1, FieldKinds DEF DecodeField
  <2> QED
    BY <1>1, <2>3, <2>4, <2>5, FitsIs
<1>2. CASE Name \in Checked
  <2>1. Name \in {"chunk_size", "original_len", "plain_len", "flags", "signed_len"}
    BY <1>2 DEF Checked
  <2>2. Name \notin Sized /\ Name # "encoded"
    BY <1>2, FieldKinds
  <2>3. Cells(Name, x) = x
    BY <2>2 DEF Cells
  <2>4. Form = {<<n>> : n \in Cell}
    BY <1>2, FormIs
  <2>5. CASE Name = "chunk_size"
    <3>1. PICK n \in 1..MaxChunk : x = <<n>>
      BY <2>5, WritesIs
    <3>2. n \in Cell /\ x[1] = n
      BY <1>0, <3>1 DEF Cell
    <3>3. Geometry(0, n)
      BY <1>0 DEF Geometry
    <3> QED
      BY <2>2, <2>3, <2>4, <2>5, <3>1, <3>2, <3>3, FitsIs DEF DecodeField
  <2>6. CASE Name = "original_len"
    <3>1. PICK n \in Cell : x = <<n>> /\ Geometry(n, source.chunk_size[1])
      BY <2>6, WritesIs
    <3>2. x[1] = n
      BY <3>1
    <3> QED
      BY <2>2, <2>3, <2>4, <2>6, <3>1, <3>2, FitsIs DEF DecodeField
  <2>7. CASE Name = "plain_len"
    <3>1. PICK n \in 0..MaxChunk : x = <<n>>
      BY <2>7, WritesIs
    <3>2. n \in Cell /\ x[1] = n /\ n <= MaxChunk
      BY <1>0, <3>1 DEF Cell
    <3> QED
      BY <2>2, <2>3, <2>4, <2>7, <3>1, <3>2, FitsIs DEF DecodeField
  <2>8. CASE Name = "flags"
    <3>1. x \in [1..1 -> 0..1]
      BY <2>8, WritesIs DEF Arrays, Raw
    <3>2. x[1] \in {0, 1} /\ x = <<x[1]>>
      BY <3>1
    <3>3. x[1] \in Cell /\ x[1] \in KnownFlags /\ x[1] % 2 = x[1]
      BY <1>0, <3>2 DEF Cell, KnownFlags
    <3>4. DecodeField(x) = <<x[1] % 2>>
      BY <2>2, <2>8 DEF DecodeField
    <3>5. DecodeField(x) = x
      BY <3>2, <3>3, <3>4
    <3>6. x \in Form
      BY <2>4, <3>2, <3>3
    <3>7. Fits(x)
      BY <2>8, <3>3, FitsIs
    <3> QED
      BY <2>3, <3>5, <3>6, <3>7
  <2>9. CASE Name = "signed_len"
    <3>1. x = <<EnvelopeLen>> /\ EnvelopeLen \in Cell /\ x[1] = EnvelopeLen
      BY <1>0, <2>9, WritesIs DEF EnvelopeLen, Cell
    <3> QED
      BY <2>2, <2>3, <2>4, <2>9, <3>1, FitsIs DEF DecodeField
  <2> QED
    BY <2>1, <2>5, <2>6, <2>7, <2>8, <2>9
<1>3. CASE Name = "encoded"
  <2>1. Name \notin Sized
    BY <1>3, FieldKinds
  <2>2. x \in Arrays(2) /\ x # OutOfRange /\ Form = Arrays(2)
    BY <1>3, WritesIs, FormIs
  <2>3. Reencoded(x) = x
    BY <2>2 DEF Reencoded
  <2>4. Cells(Name, x) = x
    BY <1>3, <2>1, <2>3 DEF Cells
  <2>5. DecodeField(x) = x
    BY <1>3, <2>1 DEF DecodeField
  <2> QED
    BY <1>3, <2>2, <2>3, <2>4, <2>5, FitsIs
<1>4. CASE Name \notin Checked /\ Name \notin Sized /\ Name # "encoded"
  <2>1. Cells(Name, x) = x
    BY <1>4 DEF Cells
  <2>2. Name # "flags"
    BY <1>4, FieldKinds
  <2>3. DecodeField(x) = x
    BY <1>4, <2>2 DEF DecodeField
  <2>4. CASE Name = "ciphertext"
    <3>1. x \in Arrays(source.plain_len[1] + Tag) /\ Form = Arrays(value.plain_len[1] + Tag)
      BY <2>4, WritesIs, FormIs
    <3> QED
      BY <1>4, <2>1, <2>3, <2>4, <3>1, FitsIs
  <2>5. CASE Name # "ciphertext"
    <3>1. x \in Arrays(1) /\ Form = Arrays(1)
      BY <1>4, <2>5, WritesIs, FormIs
    <3> QED
      BY <1>4, <2>1, <2>3, <3>1, FitsIs
  <2> QED
    BY <2>4, <2>5
<1> QED
  BY <1>1, <1>2, <1>3, <1>4

\* A length that another field depends on has been written, or decoded, before it.
LEMMA Earlier ==
  ASSUME NEW f \in Format, NEW n \in 1..Len(Written[f])
  PROVE  /\ Written[f][n] = "original_len" => "chunk_size" \in Before(f, n)
         /\ Written[f][n] = "ciphertext" => "plain_len" \in Before(f, n)
<1>1. "chunk_size" \notin Constants /\ "plain_len" \notin Constants
  BY DEF Constants
<1> QED
  BY <1>1, FormatNames DEF Ordered, Before

\* w is v with the nth field, if that varies.
Grown(f, n, v, w) ==
    /\ v \in [Before(f, n) -> Fields]
    /\ w \in [Before(f, n + 1) -> Fields]
    /\ \A name \in Before(f, n) : w[name] = v[name]

\* A constant adds nothing to a value.
LEMMA GrownConstant ==
  ASSUME NEW f \in Format, NEW n \in 1..Len(Written[f]), Written[f][n] \in Constants,
         NEW v \in [Before(f, n) -> Fields]
  PROVE  Grown(f, n, v, v)
<1>1. Before(f, n + 1) = Before(f, n)
  BY BeforeNext
<1> QED
  BY <1>1 DEF Grown

\* A field that varies is added under its name.
LEMMA GrownVarying ==
  ASSUME NEW f \in Format, NEW n \in 1..Len(Written[f]), Written[f][n] \notin Constants,
         NEW v \in [Before(f, n) -> Fields], NEW x \in Fields
  PROVE  /\ Grown(f, n, v, With(v, Written[f][n], x))
         /\ With(v, Written[f][n], x)[Written[f][n]] = x
<1>1. Before(f, n + 1) = Before(f, n) \cup {Written[f][n]} /\ Written[f][n] \notin Before(f, n)
  BY BeforeNext
<1> QED
  BY <1>1 DEF Grown, With

\* The names of the first fields.
LEMMA BeforeNames ==
  ASSUME NEW f \in Format, NEW n \in 1..Len(Written[f]) + 1, NEW i \in 1..n - 1
  PROVE  /\ i \in 1..Len(Written[f])
         /\ Written[f][i] \notin Constants => Written[f][i] \in Before(f, n)
<1>1. Len(Written[f]) \in Nat
  BY FormatNames DEF Ordered
<1> QED
  BY <1>1 DEF Before

\* The encoding of a value that grows by a field grows by the cells of that field.
LEMMA GrownJoined ==
  ASSUME NEW f \in Format, NEW n \in 1..Len(Written[f]), NEW v, NEW w, Grown(f, n, v, w),
         NEW g, Joined(g, f, n - 1, v)
  PROVE  /\ Field(f, w, n) \in Seq(Cell)
         /\ \E h : Joined(h, f, n, w) /\ h[n] = g[n - 1] \o Field(f, w, n)
<1>1. Len(Written[f]) \in Nat
  BY FormatNames DEF Ordered
<1>2. n \in Nat /\ n - 1 \in Nat /\ (n - 1) + 1 = n /\ (n + 1) - 1 = n
  BY <1>1
<1>3. n + 1 \in 1..Len(Written[f]) + 1 /\ n \in 1..Len(Written[f]) + 1 /\ n \in 1..(n + 1) - 1
  BY <1>1
<1>4. ASSUME NEW i \in 1..n - 1 PROVE Field(f, v, i) = Field(f, w, i)
  <2>1. Written[f][i] \notin Constants => Written[f][i] \in Before(f, n)
    BY <1>3, BeforeNames
  <2> QED
    BY <2>1, EncodeFieldIs DEF Field, Grown
<1>5. Joined(g, f, n - 1, w)
  BY <1>2, <1>4, JoinedAgain
<1>6. Field(f, w, n) \in Seq(Cell)
  <2>1. Written[f][n] \notin Constants => Written[f][n] \in Before(f, n + 1)
    BY <1>3, BeforeNames
  <2>2. Written[f][n] \notin Constants => w[Written[f][n]] \in Fields
    BY <2>1 DEF Grown
  <2> QED
    BY <2>2, FieldIsCells
<1>7. \E h : Joined(h, f, (n - 1) + 1, w) /\ h[(n - 1) + 1] = g[n - 1] \o Field(f, w, (n - 1) + 1)
  <2>1. Field(f, w, (n - 1) + 1) \in Seq(Cell)
    BY <1>2, <1>6
  <2> QED
    BY <1>2, <1>5, <2>1, JoinedNext
<1> QED
  BY <1>2, <1>6, <1>7

\* A value that has all its fields can be encoded.
LEMMA AllEncodable ==
  ASSUME NEW f \in Format, NEW v \in [Varying(f) -> Fields]
  PROVE  Encodable(f, v, Len(Written[f]))
<1>1. Len(Written[f]) \in Nat /\ DOMAIN Written[f] = 1..Len(Written[f])
  BY FormatNames DEF Ordered
<1>2. ASSUME NEW i \in 1..Len(Written[f]) PROVE Field(f, v, i) \in Seq(Cell)
  <2>1. Written[f][i] \notin Constants => Written[f][i] \in Varying(f)
    BY <1>1 DEF Varying, Range
  <2>2. Written[f][i] \notin Constants => v[Written[f][i]] \in Fields
    BY <2>1
  <2> QED
    BY <2>2, FieldIsCells
<1> QED
  BY <1>2 DEF Encodable

----------------------------------------------------------------------------
(***************************************************************************)
(* The inductive invariant of a writer and a reader.  Decoding is the      *)
(* field the reader has come to, Encoding the one the writer has.          *)
(***************************************************************************)
Decoding == IF pc = "write" THEN 1 ELSE at
Encoding == IF pc = "write" THEN at ELSE Len(Written[format]) + 1

\* A length that was written or decoded is that of a chunk.
Plain(v) == "plain_len" \in DOMAIN v => v.plain_len[1] \in 0..MaxChunk

\* What is decoded, and that nothing is before reading starts.
Shape ==
    /\ format \in Format
    /\ written \in BOOLEAN
    /\ pc \in {"write", "read", "accepted", "rejected"}
    /\ at \in 1..Len(Written[format]) + 1
    /\ pc = "accepted" => at = Len(Written[format]) + 1
    /\ bytes \in Seq(Cell)
    /\ value \in [Before(format, Decoding) -> Fields] /\ Plain(value)

\* The bytes that have been read are the encoding of what has been decoded.
Encoded ==
    pc # "rejected" => \E g : Joined(g, format, Decoding - 1, value) /\ bytes = g[Decoding - 1]

\* What has been written is what the program writes.
Sourced ==
    IF written
    THEN /\ source \in [Before(format, Encoding) -> Fields] /\ Plain(source)
         /\ \A name \in Before(format, Encoding) : source[name] \in Writes(name, source)
    ELSE source = <<>> /\ (pc = "write" => at = 1)

\* What was written is what has been decoded, as far as it has been read.
Same ==
    written => /\ pc # "rejected"
               /\ \A name \in Before(format, Decoding) : value[name] = source[name]

DecodingInv == Shape /\ Encoded /\ Sourced /\ Same

\* Nothing has been written or read.
LEMMA InitDecodingInv == Init => DecodingInv
<1> SUFFICES ASSUME Init PROVE DecodingInv
  OBVIOUS
<1>1. format \in Format /\ Before(format, 1) = {} /\ Len(Written[format]) \in Nat
  BY BeforeAll, FormatNames DEF Init, Ordered
<1>2. <<>> \in [{} -> Fields] /\ <<>> \in Seq(Cell) /\ DOMAIN <<>> = {}
  OBVIOUS
<1>3. Decoding = 1 /\ Encoding = 1 /\ value = <<>> /\ source = <<>> /\ bytes = <<>> /\ at = 1
  BY DEF Init, Decoding, Encoding
<1>4. 1 \in 1..Len(Written[format]) + 1 /\ 1 - 1 = 0
  BY <1>1
<1>5. Plain(value) /\ Plain(source)
  BY <1>2, <1>3 DEF Plain
<1>6. Shape
  BY <1>1, <1>2, <1>3, <1>4, <1>5 DEF Shape, Init
<1>7. Encoded
  BY <1>3, <1>4, JoinedNone DEF Encoded
<1>8. Sourced /\ Same
  BY <1>1, <1>2, <1>3, <1>5 DEF Sourced, Same, Init
<1> QED
  BY <1>6, <1>7, <1>8 DEF DecodingInv

\* Two values have the same fields before the nth.
Agree(f, n, v, w) == \A name \in Before(f, n) : v[name] = w[name]

\* What may be written into a field depends on earlier fields alone.
LEMMA WritesAgree ==
  ASSUME NEW f \in Format, NEW n \in 1..Len(Written[f]) + 1, NEW v, NEW w, Agree(f, n, v, w),
         NEW i \in 1..Len(Written[f]), i <= n
  PROVE  Writes(Written[f][i], v) = Writes(Written[f][i], w)
<1>1. Len(Written[f]) \in Nat
  BY FormatNames DEF Ordered
<1>2. Before(f, i) \subseteq Before(f, n)
  <2>1. \A j \in 1..i - 1 : j \in 1..n - 1
    BY <1>1
  <2> QED
    BY <2>1 DEF Before
<1>3. CASE Written[f][i] = "original_len"
  <2>1. v.chunk_size = w.chunk_size
    BY <1>2, <1>3, Earlier DEF Agree
  <2> DEFINE some(size) == {<<k>> : k \in {m \in Cell : Geometry(m, size[1])}}
  <2>2. \A z : Writes("original_len", z) = some(z.chunk_size)
    BY WritesIs
  <2> HIDE DEF some
  <2> QED
    BY <1>3, <2>1, <2>2
<1>4. CASE Written[f][i] = "ciphertext"
  <2>1. v.plain_len = w.plain_len
    BY <1>2, <1>4, Earlier DEF Agree
  <2> QED
    BY <1>4, <2>1, WritesIs
<1>5. CASE Written[f][i] # "original_len" /\ Written[f][i] # "ciphertext"
  BY <1>5 DEF Writes
<1> QED
  BY <1>3, <1>4, <1>5

\* A step that writes a field keeps what is known of the source.
LEMMA SourceGrows ==
  ASSUME DecodingInv, WriteField
  PROVE  /\ source' \in [Before(format, at + 1) -> Fields] /\ Plain(source')
         /\ \A name \in Before(format, at + 1) : source'[name] \in Writes(name, source')
<1> DEFINE name == Written[format][at]
<1>1. /\ format \in Format /\ written /\ pc = "write" /\ Len(Written[format]) \in Nat
      /\ at \in 1..Len(Written[format]) /\ at \in 1..Len(Written[format]) + 1 /\ Encoding = at
  BY FormatNames DEF DecodingInv, Shape, WriteField, Ordered, Encoding
<1>2. /\ source \in [Before(format, at) -> Fields] /\ Plain(source)
      /\ \A n \in Before(format, at) : source[n] \in Writes(n, source)
  BY <1>1 DEF DecodingInv, Sourced
<1>3. Before(format, at + 1) = Before(format, at) \cup ({name} \ Constants) /\ name \notin Before(format, at)
  BY <1>1, BeforeNext
<1>4. CASE name \in Constants
  BY <1>2, <1>3, <1>4 DEF WriteField
<1>5. CASE name \notin Constants
  <2>1. PICK x \in Writes(name, source) : source' = With(source, name, x)
    BY <1>5 DEF WriteField
  <2>2. name = "ciphertext" => source.plain_len[1] \in 0..MaxChunk
    <3>1. name = "ciphertext" => "plain_len" \in DOMAIN source
      BY <1>1, <1>2, Earlier
    <3> QED
      BY <1>2, <3>1 DEF Plain
  <2>3. x \in Fields /\ (name = "plain_len" => x[1] \in 0..MaxChunk)
    BY <1>5, <2>2, WritesFields
  <2>4. Grown(format, at, source, source') /\ source'[name] = x
    BY <1>1, <1>2, <1>5, <2>1, <2>3, GrownVarying
  <2>5. /\ source' \in [Before(format, at + 1) -> Fields]
        /\ \A n \in Before(format, at) : source'[n] = source[n]
    BY <2>4 DEF Grown
  <2>6. Plain(source')
    <3>1. ASSUME "plain_len" \in DOMAIN source' PROVE source'["plain_len"][1] \in 0..MaxChunk
      <4>1. "plain_len" = name \/ "plain_len" \in Before(format, at)
        BY <1>3, <2>5, <3>1
      <4>2. CASE "plain_len" = name
        BY <2>3, <2>4, <4>2
      <4>3. CASE "plain_len" \in Before(format, at)
        BY <1>2, <2>5, <4>3 DEF Plain
      <4> QED
        BY <4>1, <4>2, <4>3
    <3> QED
      BY <3>1 DEF Plain
  <2>7. ASSUME NEW n \in Before(format, at + 1) PROVE source'[n] \in Writes(n, source')
    <3>1. (source[n] \in Writes(n, source) /\ source'[n] = source[n]) \/ n = name
      BY <1>2, <1>3, <2>5
    <3>2. source'[n] \in Writes(n, source)
      BY <2>1, <2>4, <3>1
    <3>3. PICK i \in 1..(at + 1) - 1 : n = Written[format][i]
      BY DEF Before
    <3>4. i \in 1..Len(Written[format]) /\ i <= at
      BY <1>1
    <3>5. Agree(format, at, source', source)
      BY <2>5 DEF Agree
    <3>6. Writes(Written[format][i], source') = Writes(Written[format][i], source)
      <4>1. at \in 1..Len(Written[format]) + 1 /\ format \in Format
        BY <1>1
      <4>2. \A v, w : Agree(format, at, v, w) =>
              Writes(Written[format][i], v) = Writes(Written[format][i], w)
        BY ONLY <3>4, <4>1, WritesAgree
      <4> QED
        BY <3>5, <4>2
    <3> QED
      BY <3>2, <3>3, <3>6
  <2> QED
    BY <2>5, <2>6, <2>7
<1> QED
  BY <1>4, <1>5

\* A field that is written joins what was written before.
LEMMA WriteFieldStep == DecodingInv /\ WriteField => DecodingInv'
<1> SUFFICES ASSUME DecodingInv, WriteField PROVE DecodingInv'
  OBVIOUS
<1>1. /\ format' = format /\ written' = written /\ pc' = pc /\ bytes' = bytes /\ value' = value
      /\ at' = at + 1 /\ pc = "write" /\ written /\ at <= Len(Written[format])
  BY DEF WriteField
<1>2. Len(Written[format]) \in Nat /\ Before(format, 1) = {}
  BY FormatNames, BeforeAll DEF DecodingInv, Shape, Ordered
<1>3. Decoding = 1 /\ Decoding' = 1 /\ Encoding' = at + 1
  BY <1>1 DEF Decoding, Encoding
<1>4. Shape'
  <2>1. at' \in 1..Len(Written[format']) + 1
    BY <1>1, <1>2 DEF DecodingInv, Shape
  <2>2. value' \in [Before(format', Decoding') -> Fields] /\ Plain(value')
    BY <1>1, <1>3 DEF DecodingInv, Shape
  <2> QED
    BY <1>1, <2>1, <2>2 DEF DecodingInv, Shape
<1>5. Encoded'
  BY <1>1, <1>3 DEF DecodingInv, Encoded
<1>6. Sourced'
  BY <1>1, <1>3, SourceGrows DEF Sourced
<1>7. Same'
  BY <1>1, <1>2, <1>3 DEF Same
<1> QED
  BY <1>4, <1>5, <1>6, <1>7 DEF DecodingInv

\* Reading starts with no field and no byte.
LEMMA StartReadingStep == DecodingInv /\ StartReading => DecodingInv'
<1> SUFFICES ASSUME DecodingInv, StartReading PROVE DecodingInv'
  OBVIOUS
<1>1. /\ format' = format /\ written' = written /\ source' = source /\ bytes' = bytes /\ value' = value
      /\ at' = 1 /\ pc = "write" /\ pc' = "read" /\ (written => at > Len(Written[format]))
  BY DEF StartReading
<1>2. /\ Len(Written[format]) \in Nat /\ Before(format, 1) = {}
      /\ at \in 1..Len(Written[format]) + 1
  BY FormatNames, BeforeAll DEF DecodingInv, Shape, Ordered
<1>3. Decoding = 1 /\ Decoding' = 1 /\ Encoding' = Len(Written[format]) + 1
      /\ (written => Encoding = Len(Written[format]) + 1)
  BY <1>1, <1>2 DEF Decoding, Encoding
<1>4. Shape'
  <2>1. at' \in 1..Len(Written[format']) + 1
    BY <1>1, <1>2
  <2>2. value' \in [Before(format', Decoding') -> Fields] /\ Plain(value')
    BY <1>1, <1>3 DEF DecodingInv, Shape
  <2> QED
    BY <1>1, <2>1, <2>2 DEF DecodingInv, Shape
<1>5. Encoded'
  BY <1>1, <1>3 DEF DecodingInv, Encoded
<1>6. Sourced'
  BY <1>1, <1>3 DEF DecodingInv, Sourced
<1>7. Same'
  BY <1>1, <1>2, <1>3 DEF Same
<1> QED
  BY <1>4, <1>5, <1>6, <1>7 DEF DecodingInv

\* What is known while a field is read.
LEMMA WhileReading ==
  ASSUME DecodingInv, pc = "read", at <= Len(Decoded[format])
  PROVE  /\ format \in Format /\ at \in 1..Len(Written[format]) /\ Name = Written[format][at]
         /\ Decoding = at /\ Encoding = Len(Written[format]) + 1
         /\ value \in [Before(format, at) -> Fields]
         /\ Name = "ciphertext" => value.plain_len[1] \in 0..MaxChunk
<1>1. format \in Format /\ Decoded[format] = Written[format] /\ Len(Written[format]) \in Nat
  BY FormatNames DEF DecodingInv, Shape, Ordered
<1>2. at \in 1..Len(Written[format]) /\ Name = Written[format][at]
  BY <1>1 DEF DecodingInv, Shape, Name
<1>3. Decoding = at /\ Encoding = Len(Written[format]) + 1
  BY DEF Decoding, Encoding
<1>4. value \in [Before(format, at) -> Fields] /\ Plain(value)
  BY <1>3 DEF DecodingInv, Shape
<1>5. Name = "ciphertext" => "plain_len" \in DOMAIN value
  BY <1>1, <1>2, <1>4, Earlier
<1>6. Name = "ciphertext" => value.plain_len[1] \in 0..MaxChunk
  BY <1>4, <1>5 DEF Plain
<1> QED
  BY <1>1, <1>2, <1>3, <1>4, <1>6

\* The source has all its fields when reading begins.
LEMMA SourceComplete ==
  ASSUME DecodingInv, pc # "write", written
  PROVE  /\ source \in [Varying(format) -> Fields]
         /\ \A name \in Varying(format) : source[name] \in Writes(name, source)
         /\ Encodable(format, source, Len(Written[format]))
<1>1. format \in Format /\ Before(format, Encoding) = Varying(format)
  BY BeforeAll DEF DecodingInv, Shape, Encoding
<1>2. /\ source \in [Varying(format) -> Fields]
      /\ \A name \in Varying(format) : source[name] \in Writes(name, source)
  BY <1>1 DEF DecodingInv, Sourced
<1> QED
  BY <1>1, <1>2, AllEncodable

\* Where as many fields are alike, so is the encoding.
LEMMA JoinedAlike ==
  ASSUME NEW f \in Format, NEW n \in 1..Len(Written[f]) + 1, NEW v, NEW w, Agree(f, n, v, w),
         NEW g, Joined(g, f, n - 1, v)
  PROVE  Joined(g, f, n - 1, w)
<1>1. n - 1 \in Nat
  BY FormatNames DEF Ordered
<1>2. ASSUME NEW i \in 1..n - 1 PROVE Field(f, v, i) = Field(f, w, i)
  <2>1. Written[f][i] \notin Constants => Written[f][i] \in Before(f, n)
    BY BeforeNames
  <2> QED
    BY <2>1, EncodeFieldIs DEF Field, Agree
<1> QED
  BY <1>1, <1>2, JoinedAgain

\* What is left of a file that the program wrote begins with the next field.
LEMMA RestBegins ==
  ASSUME DecodingInv, pc = "read", at <= Len(Decoded[format]), written
  PROVE  \E t \in Seq(Cell) : Rest = Field(format, source, at) \o t
<1> DEFINE E == Field(format, source, at)
<1>1. /\ format \in Format /\ at \in 1..Len(Written[format]) /\ Decoding = at
      /\ Len(Written[format]) \in Nat
  BY WhileReading, FormatNames DEF Ordered
<1>2. Encodable(format, source, Len(Written[format]))
  BY SourceComplete
<1>3. PICK g : Joined(g, format, at - 1, value) /\ bytes = g[at - 1]
  BY <1>1 DEF DecodingInv, Encoded
<1>4. at - 1 \in Nat /\ (at - 1) + 1 = at /\ at \in 0..Len(Written[format])
      /\ at \in 1..Len(Written[format]) + 1
  BY <1>1
<1>5. Agree(format, at, value, source)
  BY <1>1 DEF DecodingInv, Same, Agree
<1>6. Joined(g, format, at - 1, source)
  BY <1>1, <1>3, <1>4, <1>5, JoinedAlike
<1>7. E \in Seq(Cell)
  BY <1>1, <1>2 DEF Encodable
<1>8. PICK h : Joined(h, format, at, source) /\ h[at] = bytes \o E
  <2>1. \E h : /\ Joined(h, format, (at - 1) + 1, source)
               /\ h[(at - 1) + 1] = g[at - 1] \o Field(format, source, (at - 1) + 1)
    <3>1. Field(format, source, (at - 1) + 1) \in Seq(Cell)
      BY <1>4, <1>7
    <3> QED
      BY <1>4, <1>6, <3>1, JoinedNext
  <2> QED
    BY <1>3, <1>4, <2>1
<1>9. PICK t \in Seq(Cell) : Encode(format, source) = h[at] \o t
  <2>1. Continues(Encode(format, source), h[at])
    BY <1>1, <1>2, <1>4, <1>8, EncodeEnds
  <2> QED
    BY <2>1 DEF Continues
<1>10. bytes \in Seq(Cell)
  BY DEF DecodingInv, Shape
<1> HIDE DEF E
<1>11. Encode(format, source) = bytes \o (E \o t) /\ E \o t \in Seq(Cell)
  BY <1>7, <1>8, <1>9, <1>10, Associative, ConcatProperties
<1>12. Rest = E \o t
  <2> DEFINE u == E \o t
  <2>1. u \in Seq(Cell) /\ Encode(format, source) = bytes \o u
    BY <1>11
  <2> HIDE DEF u
  <2>2. SubSeq(bytes \o u, Len(bytes) + 1, Len(bytes \o u)) = u
    BY <1>10, <2>1, RestOfConcat
  <2>3. Rest = u
    BY <2>1, <2>2 DEF Rest
  <2> QED
    BY <2>3 DEF u
<1> QED
  BY <1>12 DEF E

\* At the end of a file that the program wrote nothing is left.
LEMMA RestEmpty ==
  ASSUME DecodingInv, pc = "read", at = Len(Written[format]) + 1, written
  PROVE  Rest = <<>>
<1>1. format \in Format /\ Decoding = at /\ Len(Written[format]) \in Nat
  BY FormatNames DEF DecodingInv, Shape, Decoding, Ordered
<1>2. Encodable(format, source, Len(Written[format]))
  BY SourceComplete
<1>3. PICK g : Joined(g, format, at - 1, value) /\ bytes = g[at - 1]
  BY <1>1 DEF DecodingInv, Encoded
<1>4. at - 1 = Len(Written[format]) /\ at - 1 \in 0..Len(Written[format])
      /\ at \in 1..Len(Written[format]) + 1
  BY <1>1
<1>5. Agree(format, at, value, source)
  BY <1>1 DEF DecodingInv, Same, Agree
<1>6. Joined(g, format, at - 1, source)
  BY <1>1, <1>3, <1>4, <1>5, JoinedAlike
<1>7. Encode(format, source) = bytes
  BY <1>1, <1>2, <1>3, <1>4, <1>6, EncodeEnds
<1>8. bytes \in Seq(Cell) /\ bytes = bytes \o <<>> /\ <<>> \in Seq(Cell)
  BY ConcatEmptySeq DEF DecodingInv, Shape
<1>9. SubSeq(bytes \o <<>>, Len(bytes) + 1, Len(bytes \o <<>>)) = <<>>
  BY <1>8, RestOfConcat
<1> QED
  BY <1>7, <1>8, <1>9 DEF Rest

\* The one thing a file that the program wrote may hold where a field is expected
\* is that field; it fits, and is decoded to what was written.
LEMMA HeldIsWritten ==
  ASSUME DecodingInv, pc = "read", at <= Len(Decoded[format]), written
  PROVE  /\ Held # {}
         /\ \A cells \in Held : /\ Fits(cells)
                                /\ Name \notin Constants => DecodeField(cells) = source[Name]
<1> DEFINE E == Field(format, source, at)
<1>1. /\ format \in Format /\ at \in 1..Len(Written[format]) /\ Name = Written[format][at]
      /\ Decoding = at /\ (Name = "ciphertext" => value.plain_len[1] \in 0..MaxChunk)
  BY WhileReading
<1>2. PICK t \in Seq(Cell) : Rest = E \o t
  BY RestBegins
<1>3. /\ E \in Form /\ Fits(E)
      /\ Name \notin Constants => DecodeField(E) = source[Name]
  <2>1. CASE Name \in Constants
    <3>1. Constant(format, Name) \in Cell
      BY <1>1, <2>1, ConstantCells
    <3>2. E = <<Constant(format, Name)>>
      BY <1>1, <2>1, EncodeFieldIs DEF Field
    <3> QED
      BY <2>1, <3>1, <3>2, ConstantBack
  <2>2. CASE Name \notin Constants
    <3>1. E = Cells(Name, source[Name])
      BY <1>1, <2>2, EncodeFieldIs DEF Field
    <3>2. Name \in Varying(format)
      BY <1>1, <2>2, FormatNames DEF Varying, Range, Ordered
    <3>3. source[Name] \in Writes(Name, source)
      BY <3>2, SourceComplete
    <3>4. Name = "original_len" => value.chunk_size = source.chunk_size
      BY <1>1, Earlier DEF DecodingInv, Same
    <3>5. Name = "ciphertext" => value.plain_len = source.plain_len
      BY <1>1, Earlier DEF DecodingInv, Same
    <3> QED
      BY <1>1, <2>2, <3>1, <3>3, <3>4, <3>5, WrittenFits
  <2> QED
    BY <2>1, <2>2
<1> HIDE DEF E
<1>4. Held = {cells \in Form : IsPrefix(cells, E \o t)}
  BY <1>2 DEF Held
<1>5. E \in Held
  BY <1>1, <1>3, <1>4, FormCells, PrefixOfConcat
<1>6. \A cells \in Held : cells = E
  BY <1>1, <1>3, <1>4, FormUnique
<1> QED
  BY <1>3, <1>5, <1>6

\* A field that fits is added to the value, and its cells are its encoding.
LEMMA ValueGrows ==
  ASSUME DecodingInv, pc = "read", at <= Len(Decoded[format]), NEW cells \in Form, Fits(cells),
         NEW w, w = IF Name \in Constants THEN value ELSE With(value, Name, DecodeField(cells))
  PROVE  /\ Grown(format, at, value, w)
         /\ Plain(w)
         /\ Field(format, w, at) = cells
         /\ Name \notin Constants => w[Name] = DecodeField(cells)
<1>1. /\ format \in Format /\ at \in 1..Len(Written[format]) /\ Name = Written[format][at]
      /\ Decoding = at /\ value \in [Before(format, at) -> Fields]
      /\ Name = "ciphertext" => value.plain_len[1] \in 0..MaxChunk
  BY WhileReading
<1>2. Plain(value)
  BY DEF DecodingInv, Shape
<1>3. CASE Name \in Constants
  <2>1. w = value
    BY <1>3
  <2>2. Grown(format, at, value, value)
    BY <1>1, <1>3, GrownConstant
  <2>3. cells = <<Constant(format, Name)>>
    BY <1>3, DecodesConstant
  <2>4. Field(format, value, at) = cells
    BY <1>1, <1>3, <2>3, EncodeFieldIs DEF Field
  <2> QED
    BY <1>2, <1>3, <2>1, <2>2, <2>4
<1>4. CASE Name \notin Constants
  <2>1. w = With(value, Name, DecodeField(cells))
    BY <1>4
  <2>2. /\ DecodeField(cells) \in Fields
        /\ Cells(Name, DecodeField(cells)) = cells
        /\ Name = "plain_len" => DecodeField(cells)[1] \in 0..MaxChunk
    BY <1>1, <1>4, Decodes
  <2>3. Grown(format, at, value, w) /\ w[Name] = DecodeField(cells)
    BY <1>1, <1>4, <2>1, <2>2, GrownVarying
  <2>4. Field(format, w, at) = cells
    BY <1>1, <1>4, <2>2, <2>3, EncodeFieldIs DEF Field
  <2>5. ASSUME "plain_len" \in DOMAIN w PROVE w["plain_len"][1] \in 0..MaxChunk
    <3>1. "plain_len" \in Before(format, at + 1)
      BY <2>3, <2>5 DEF Grown
    <3>2. "plain_len" = Name \/ "plain_len" \in Before(format, at)
      BY <1>1, <3>1, BeforeNext
    <3>3. CASE "plain_len" = Name
      BY <2>2, <2>3, <3>3
    <3>4. CASE "plain_len" \in Before(format, at)
      <4>1. w["plain_len"] = value["plain_len"] /\ "plain_len" \in DOMAIN value
        BY <1>1, <2>3, <3>4 DEF Grown
      <4> QED
        BY <1>2, <4>1 DEF Plain
    <3> QED
      BY <3>2, <3>3, <3>4
  <2>6. Plain(w)
    BY <2>5 DEF Plain
  <2> QED
    BY <2>3, <2>4, <2>6
<1> QED
  BY <1>3, <1>4

\* A field that fits is decoded, and one that does not was not written here.
LEMMA ReadFieldStep == DecodingInv /\ ReadField => DecodingInv'
<1> SUFFICES ASSUME DecodingInv, ReadField PROVE DecodingInv'
  OBVIOUS
<1>1. /\ pc = "read" /\ at <= Len(Decoded[format])
      /\ format' = format /\ written' = written /\ source' = source
  BY DEF ReadField
<1>2. PICK cells \in Held :
          /\ bytes' = bytes \o cells
          /\ \/ /\ Fits(cells)
                /\ at' = at + 1
                /\ value' = IF Name \in Constants THEN value ELSE With(value, Name, DecodeField(cells))
                /\ UNCHANGED pc
             \/ /\ ~ Fits(cells) /\ pc' = "rejected"
                /\ UNCHANGED <<at, value>>
  BY DEF ReadField
<1>3. /\ format \in Format /\ at \in 1..Len(Written[format]) /\ Name = Written[format][at]
      /\ Decoding = at /\ Encoding = Len(Written[format]) + 1
      /\ value \in [Before(format, at) -> Fields]
      /\ Name = "ciphertext" => value.plain_len[1] \in 0..MaxChunk
      /\ Len(Written[format]) \in Nat
  BY <1>1, WhileReading, FormatNames DEF Ordered
<1>4. cells \in Form
  BY DEF Held
<1>5. bytes' \in Seq(Cell)
  BY <1>2, <1>3, <1>4, FormCells, ConcatProperties DEF DecodingInv, Shape
<1>6. written => /\ Fits(cells)
                 /\ Name \notin Constants => DecodeField(cells) = source[Name]
  BY <1>1, HeldIsWritten
<1>7. Encoding' = Encoding
  BY <1>1, <1>2, <1>3 DEF Encoding
<1>8. Sourced'
  BY <1>1, <1>2, <1>7 DEF DecodingInv, Sourced
<1>9. CASE Fits(cells)
  <2>1. at' = at + 1 /\ pc' = "read" /\ Decoding' = at + 1 /\ Decoding' - 1 = at
    BY <1>1, <1>2, <1>3, <1>9 DEF Decoding
  <2>2. /\ Grown(format, at, value, value') /\ Plain(value')
        /\ Field(format, value', at) = cells
        /\ Name \notin Constants => value'[Name] = DecodeField(cells)
    <3> DEFINE w == IF Name \in Constants THEN value ELSE With(value, Name, DecodeField(cells))
    <3>1. /\ Grown(format, at, value, w) /\ Plain(w)
          /\ Field(format, w, at) = cells
          /\ Name \notin Constants => w[Name] = DecodeField(cells)
      BY <1>1, <1>4, <1>9, ValueGrows
    <3>2. value' = w
      BY <1>2, <1>9
    <3> QED
      BY <3>1, <3>2 DEF Plain
  <2>3. Shape'
    <3>1. at' \in 1..Len(Written[format']) + 1
      BY <1>1, <1>3, <2>1
    <3>2. value' \in [Before(format', Decoding') -> Fields] /\ Plain(value')
      BY <1>1, <2>1, <2>2 DEF Grown
    <3> QED
      BY <1>1, <1>5, <2>1, <3>1, <3>2 DEF DecodingInv, Shape
  <2>4. Encoded'
    <3>1. PICK g : Joined(g, format, at - 1, value) /\ bytes = g[at - 1]
      BY <1>1, <1>3 DEF DecodingInv, Encoded
    <3>2. PICK h : Joined(h, format, at, value') /\ h[at] = g[at - 1] \o Field(format, value', at)
      BY <1>3, <2>2, <3>1, GrownJoined
    <3>3. bytes' = h[at]
      BY <1>2, <2>2, <3>1, <3>2
    <3> QED
      BY <1>1, <2>1, <3>2, <3>3 DEF Encoded
  <2>5. Same'
    <3> SUFFICES ASSUME written, NEW name \in Before(format, at + 1) PROVE value'[name] = source[name]
      BY <1>1, <2>1 DEF Same
    <3>1. name \in Before(format, at) \/ (name = Name /\ Name \notin Constants)
      BY <1>3, BeforeNext
    <3>2. CASE name \in Before(format, at)
      BY <1>3, <2>2, <3>2 DEF Grown, DecodingInv, Same
    <3>3. CASE name = Name /\ Name \notin Constants
      BY <1>6, <2>2, <3>3
    <3> QED
      BY <3>1, <3>2, <3>3
  <2> QED
    BY <1>8, <2>3, <2>4, <2>5 DEF DecodingInv
<1>10. CASE ~ Fits(cells)
  <2>1. ~ written /\ at' = at /\ value' = value /\ pc' = "rejected" /\ Decoding' = at
    BY <1>2, <1>6, <1>10 DEF Decoding
  <2>2. Shape'
    <3>1. value' \in [Before(format', Decoding') -> Fields] /\ Plain(value')
      BY <1>1, <1>3, <2>1 DEF DecodingInv, Shape
    <3> QED
      BY <1>1, <1>5, <2>1, <3>1 DEF DecodingInv, Shape
  <2>3. Encoded' /\ Same'
    BY <1>1, <2>1 DEF Encoded, Same
  <2> QED
    BY <1>8, <2>2, <2>3 DEF DecodingInv
<1> QED
  BY <1>9, <1>10

\* A file that ends too early was not written here.
LEMMA TruncatedStep == DecodingInv /\ Truncated => DecodingInv'
<1> SUFFICES ASSUME DecodingInv, Truncated PROVE DecodingInv'
  OBVIOUS
<1>1. /\ pc = "read" /\ at <= Len(Decoded[format]) /\ pc' = "rejected"
      /\ format' = format /\ written' = written /\ source' = source
      /\ at' = at /\ bytes' = bytes /\ value' = value
      /\ written => Held = {}
  BY DEF Truncated
<1>2. ~ written
  BY <1>1, HeldIsWritten
<1>3. Decoding' = Decoding /\ Encoding' = Encoding
  BY <1>1 DEF Decoding, Encoding
<1>4. Shape'
  <2>1. value' \in [Before(format', Decoding') -> Fields] /\ Plain(value')
    BY <1>1, <1>3 DEF DecodingInv, Shape
  <2> QED
    BY <1>1, <2>1 DEF DecodingInv, Shape
<1>5. Encoded' /\ Same'
  BY <1>1, <1>2 DEF Encoded, Same
<1>6. Sourced'
  BY <1>1, <1>2 DEF DecodingInv, Sourced
<1> QED
  BY <1>4, <1>5, <1>6 DEF DecodingInv

\* A file that goes on after its last field was not written here.
LEMMA AtEndStep == DecodingInv /\ AtEnd => DecodingInv'
<1> SUFFICES ASSUME DecodingInv, AtEnd PROVE DecodingInv'
  OBVIOUS
<1>1. /\ pc = "read" /\ at > Len(Decoded[format])
      /\ format' = format /\ written' = written /\ source' = source
      /\ at' = at /\ bytes' = bytes /\ value' = value
  BY DEF AtEnd
<1>2. PICK more \in Follows : pc' = IF more /\ format # "frame" THEN "rejected" ELSE "accepted"
  BY DEF AtEnd
<1>3. format \in Format /\ at = Len(Written[format]) + 1
  BY <1>1, FormatNames DEF DecodingInv, Shape, Ordered
<1>4. Decoding' = Decoding /\ Encoding' = Encoding
  BY <1>1, <1>2 DEF Decoding, Encoding
<1>5. written => pc' = "accepted"
  <2> SUFFICES ASSUME written PROVE pc' = "accepted"
    OBVIOUS
  <2>1. Rest = <<>>
    BY <1>1, <1>3, RestEmpty
  <2>2. more = FALSE
    BY <2>1 DEF Follows
  <2> QED
    BY <1>2, <2>2
<1>6. Shape'
  <2>1. value' \in [Before(format', Decoding') -> Fields] /\ Plain(value')
    BY <1>1, <1>4 DEF DecodingInv, Shape
  <2>2. at' = Len(Written[format']) + 1 /\ pc' \in {"accepted", "rejected"}
    BY <1>1, <1>2, <1>3
  <2> QED
    BY <1>1, <2>1, <2>2 DEF DecodingInv, Shape
<1>7. Encoded'
  <2>1. pc # "rejected"
    BY <1>1
  <2> QED
    BY <1>1, <1>4, <2>1 DEF DecodingInv, Encoded
<1>8. Sourced'
  BY <1>1, <1>2, <1>4 DEF DecodingInv, Sourced
<1>9. Same'
  BY <1>1, <1>4, <1>5 DEF DecodingInv, Same
<1> QED
  BY <1>6, <1>7, <1>8, <1>9 DEF DecodingInv

\* Every step of a writer and of a reader keeps the invariant.
LEMMA NextDecodingInv == DecodingInv /\ [Next]_vars => DecodingInv'
<1> SUFFICES ASSUME DecodingInv, [Next]_vars PROVE DecodingInv'
  OBVIOUS
<1>1. CASE UNCHANGED vars
  BY <1>1 DEF vars, DecodingInv, Shape, Encoded, Sourced, Same, Decoding, Encoding
<1> QED
  BY <1>1, WriteFieldStep, StartReadingStep, ReadFieldStep, TruncatedStep, AtEndStep DEF Next

\* The invariant gives each part of the three properties: the types,
LEMMA DecodingTypeOK == DecodingInv => TypeOK
<1> SUFFICES ASSUME DecodingInv PROVE TypeOK
  OBVIOUS
<1>1. /\ format \in Format /\ Len(Written[format]) \in Nat
      /\ at \in 1..Len(Written[format]) + 1
  BY FormatNames DEF DecodingInv, Shape, Ordered
<1>2. Decoding \in 1..Len(Written[format]) + 1 /\ Encoding \in 1..Len(Written[format]) + 1
  BY <1>1 DEF Decoding, Encoding
<1>3. \A n \in 1..Len(Written[format]) + 1 : Before(format, n) \subseteq Varying(format)
  BY <1>1, BeforeAll
<1>4. value \in [Before(format, Decoding) -> Fields]
  BY DEF DecodingInv, Shape
<1>5. DOMAIN value \subseteq Varying(format) /\ Range(value) \subseteq Fields
  BY <1>2, <1>3, <1>4 DEF Range
<1>6. DOMAIN source \subseteq Varying(format) /\ Range(source) \subseteq Fields
  <2>1. CASE written
    BY <1>2, <1>3, <2>1 DEF DecodingInv, Sourced, Range
  <2>2. CASE ~ written
    <3>1. source = <<>>
      BY <2>2 DEF DecodingInv, Sourced
    <3> QED
      BY <3>1 DEF Range
  <2> QED
    BY <2>1, <2>2
<1>7. pc = "accepted" => DOMAIN value = Varying(format)
  BY <1>1, <1>4, BeforeAll DEF DecodingInv, Shape, Decoding
<1> QED
  BY <1>1, <1>5, <1>6, <1>7 DEF TypeOK, DecodingInv, Shape

\* What is known of an accepted file.
LEMMA WhenAccepted ==
  ASSUME DecodingInv, pc = "accepted"
  PROVE  /\ format \in Format /\ Decoding = Len(Written[format]) + 1
         /\ Before(format, Decoding) = Varying(format)
         /\ value \in [Varying(format) -> Fields]
<1>1. format \in Format /\ Decoding = Len(Written[format]) + 1
  BY DEF DecodingInv, Shape, Decoding
<1>2. Before(format, Decoding) = Varying(format)
  BY <1>1, BeforeAll
<1> QED
  BY <1>1, <1>2 DEF DecodingInv, Shape

\* that what is accepted is the encoding of its fields,
LEMMA DecodingCanonical == DecodingInv => Canonical
<1> SUFFICES ASSUME DecodingInv, pc = "accepted" PROVE Encode(format, value) = bytes
  BY DEF Canonical
<1>1. format \in Format /\ Decoding = Len(Written[format]) + 1 /\ Len(Written[format]) \in Nat
  BY WhenAccepted, FormatNames DEF Ordered
<1>2. PICK g : Joined(g, format, Decoding - 1, value) /\ bytes = g[Decoding - 1]
  BY DEF DecodingInv, Encoded
<1>3. Decoding - 1 = Len(Written[format]) /\ Decoding - 1 \in 0..Len(Written[format])
  BY <1>1
<1>4. Encodable(format, value, Len(Written[format]))
  BY WhenAccepted, AllEncodable
<1> QED
  BY <1>1, <1>2, <1>3, <1>4, EncodeEnds

\* that what was written is accepted as it was written,
LEMMA DecodingWrittenIsRead == DecodingInv => WrittenIsRead
<1> SUFFICES ASSUME DecodingInv, written PROVE pc # "rejected" /\ (pc = "accepted" => value = source)
  BY DEF WrittenIsRead
<1>1. pc # "rejected"
  BY DEF DecodingInv, Same
<1>2. ASSUME pc = "accepted" PROVE value = source
  <2>1. value \in [Varying(format) -> Fields] /\ Before(format, Decoding) = Varying(format)
    BY <1>2, WhenAccepted
  <2>2. source \in [Varying(format) -> Fields]
    BY <1>2, SourceComplete
  <2>3. \A name \in Varying(format) : value[name] = source[name]
    BY <2>1 DEF DecodingInv, Same
  <2> QED
    BY <2>1, <2>2, <2>3
<1> QED
  BY <1>1, <1>2

----------------------------------------------------------------------------
\* Equal cells may be taken away from either end.
LEMMA Cancel ==
  /\ \A s, t, u \in Seq(Cell) : s \o t = s \o u => t = u
  /\ \A s, t, u \in Seq(Cell) : s \o u = t \o u => s = t
BY ConcatSimplifications

\* The encodings of two values that differ in one field, up to this field or beyond.
LEMMA OneFieldDiffers ==
  ASSUME NEW f, NEW v, NEW w, NEW n \in Nat, NEW k \in 1..n,
         NEW g, Joined(g, f, n, v), NEW h, Joined(h, f, n, w),
         \A i \in 1..n : i # k => Field(f, v, i) = Field(f, w, i),
         Field(f, v, k) # Field(f, w, k),
         Encodable(f, v, n), Encodable(f, w, n)
  PROVE  g[n] # h[n]
<1> DEFINE before == {i \in 0..k - 1 : g[i] # h[i]}
           after == {i \in k..n : g[i] = h[i]}
<1>1. /\ g \in [0..n -> Seq(Cell)] /\ h \in [0..n -> Seq(Cell)] /\ g[0] = <<>> /\ h[0] = <<>>
      /\ \A i \in 1..n : g[i] = g[i - 1] \o Field(f, v, i) /\ h[i] = h[i - 1] \o Field(f, w, i)
  BY DEF Joined
<1>2. \A i \in 1..n : Field(f, v, i) \in Seq(Cell) /\ Field(f, w, i) \in Seq(Cell)
  BY DEF Encodable
<1>3. before = {}
  <2> SUFFICES ASSUME before # {} PROVE FALSE
    OBVIOUS
  <2>1. before \in SUBSET Nat
    OBVIOUS
  <2>2. PICK m \in before : \A j \in before : m <= j
    BY <2>1, LeastOf
  <2>3. m \in 0..k - 1 /\ g[m] # h[m] /\ m # 0
    BY <1>1
  <2>4. m \in 1..n /\ m # k /\ m - 1 \in 0..k - 1 /\ ~ (m <= m - 1)
    BY <2>3
  <2>5. g[m - 1] = h[m - 1]
    BY <2>2, <2>4
  <2> QED
    BY <1>1, <2>3, <2>4, <2>5
<1>4. after = {}
  <2> SUFFICES ASSUME after # {} PROVE FALSE
    OBVIOUS
  <2>1. after \in SUBSET Nat
    OBVIOUS
  <2>2. PICK m \in after : \A j \in after : m <= j
    BY <2>1, LeastOf
  <2>3. m \in k..n /\ g[m] = h[m] /\ m \in 1..n /\ m - 1 \in 0..n
    OBVIOUS
  <2>4. g[m - 1] \o Field(f, v, m) = h[m - 1] \o Field(f, w, m)
    BY <1>1, <2>3
  <2>5. g[m - 1] \in Seq(Cell) /\ h[m - 1] \in Seq(Cell)
    BY <1>1, <2>3
  <2>6. CASE m = k
    <3>1. k - 1 \in 0..k - 1
      OBVIOUS
    <3>2. g[m - 1] = h[m - 1]
      BY <1>3, <2>6, <3>1
    <3>3. Field(f, v, m) = Field(f, w, m)
      BY <1>2, <2>3, <2>4, <2>5, <3>2, Cancel
    <3> QED
      BY <2>6, <3>3
  <2>7. CASE m # k
    <3>1. Field(f, v, m) = Field(f, w, m)
      BY <2>3, <2>7
    <3>2. g[m - 1] = h[m - 1]
      BY <1>2, <2>3, <2>4, <2>5, <3>1, Cancel
    <3>3. m - 1 \in k..n /\ ~ (m <= m - 1)
      BY <2>3, <2>7
    <3> QED
      BY <2>2, <3>2, <3>3
  <2> QED
    BY <2>6, <2>7
<1>5. n \in k..n
  OBVIOUS
<1> QED
  BY <1>4, <1>5

\* Two complete values that differ in the kth field alone.
DifferAt(f, k, v, w) ==
    /\ v \in [Varying(f) -> Fields] /\ w \in [Varying(f) -> Fields]
    /\ \A name \in Varying(f) : name # Written[f][k] => v[name] = w[name]
    /\ v[Written[f][k]] # w[Written[f][k]]
    /\ Written[f][k] \notin Constants /\ Written[f][k] # "encoded"

\* Their fields of these names are encoded differently.
Apart(f, names, v, w) ==
    /\ EncodeFields(f, names, v) # EncodeFields(f, names, w)
    /\ EncodeFields(f, names, v) \in Seq(Cell)
    /\ EncodeFields(f, names, w) \in Seq(Cell)

\* So the encodings of any first fields, among them the one that differs.
LEMMA EncodingsDiffer ==
  ASSUME NEW f \in Format, NEW n \in 1..Len(Written[f]), NEW names, Names(f, names, n),
         NEW k \in 1..n, NEW v, NEW w, DifferAt(f, k, v, w)
  PROVE  Apart(f, names, v, w)
<1> USE DEF DifferAt
<1>1. /\ Len(Written[f]) \in Nat /\ DOMAIN Written[f] = 1..Len(Written[f])
      /\ \A i, j \in 1..Len(Written[f]) : Written[f][i] = Written[f][j] => i = j
  BY FormatNames DEF Ordered
<1>2. n \in Nat /\ n \in Nat \ {0} /\ (\A i \in 1..n : i \in 1..Len(Written[f])) /\ n \in 0..n
  BY <1>1
<1>3. \A i \in 1..n : Written[f][i] \notin Constants => Written[f][i] \in Varying(f)
  BY <1>1, <1>2 DEF Varying, Range
<1>4. Encodable(f, v, n) /\ Encodable(f, w, n)
  <2>1. Encodable(f, v, Len(Written[f])) /\ Encodable(f, w, Len(Written[f]))
    BY AllEncodable
  <2> QED
    BY <1>2, <2>1 DEF Encodable
<1>5. PICK g : Joined(g, f, n, v)
  BY <1>2, <1>4, JoinedExists
<1>6. PICK h : Joined(h, f, n, w)
  BY <1>2, <1>4, JoinedExists
<1>7. ASSUME NEW i \in 1..n, i # k PROVE Field(f, v, i) = Field(f, w, i)
  <2>1. Written[f][i] # Written[f][k]
    BY <1>1, <1>2, <1>7
  <2>2. Written[f][i] \notin Constants => v[Written[f][i]] = w[Written[f][i]]
    BY <1>3, <2>1
  <2> QED
    BY <2>2, EncodeFieldIs DEF Field
<1>8. Field(f, v, k) # Field(f, w, k)
  <2> DEFINE name == Written[f][k]
  <2>1. v[name] \in Fields /\ w[name] \in Fields /\ v[name] # w[name] /\ name # "encoded"
    BY <1>3
  <2>2. Field(f, v, k) = Cells(name, v[name]) /\ Field(f, w, k) = Cells(name, w[name])
    BY EncodeFieldIs DEF Field
  <2> HIDE DEF name
  <2> QED
    BY <2>1, <2>2, CellsDiffer
<1>9. g[n] # h[n]
  BY <1>2, <1>4, <1>5, <1>6, <1>7, <1>8, OneFieldDiffers
<1>10. EncodeFields(f, names, v) = g[n] /\ EncodeFields(f, names, w) = h[n]
  BY <1>2, <1>4, <1>5, <1>6, EncodeIsJoined
<1>11. g[n] \in Seq(Cell) /\ h[n] \in Seq(Cell)
  BY <1>2, <1>5, <1>6 DEF Joined
<1> QED
  BY <1>9, <1>10, <1>11 DEF Apart

\* A label in front of different cells leaves them different.
LEMMA Labelled ==
  ASSUME NEW label, NEW s \in Seq(Cell), NEW t \in Seq(Cell), s # t
  PROVE  <<label>> \o s # <<label>> \o t
<1> DEFINE S == Cell \cup {label}
<1>1. <<label>> \in Seq(S) /\ Cell \subseteq S
  OBVIOUS
<1> HIDE DEF S
<1>2. s \in Seq(S) /\ t \in Seq(S)
  BY <1>1, SeqMonotonic
<1>3. \A a, b, c \in Seq(S) : a \o b = a \o c => b = c
  BY ConcatSimplifications
<1> QED
  BY <1>1, <1>2, <1>3

\* and that a header with another field is authenticated as another.
LEMMA DecodingAadBinds == DecodingInv => AadBinds
<1> SUFFICES ASSUME DecodingInv, pc = "accepted", format = "header",
                    NEW name \in Varying("header") \ {"wrapped_dek"},
                    NEW field \in Writes(name, value) \ {value[name]},
                    NEW other, other = [value EXCEPT ![name] = field]
             PROVE  /\ WrapAad(other) # WrapAad(value)
                    /\ name # "encrypted_filename" => MetadataAad(other) # MetadataAad(value)
  BY DEF AadBinds
<1> DEFINE W == Written["header"]
<1>1. "header" \in Format /\ value \in [Varying("header") -> Fields]
  BY WhenAccepted
<1>2. W = DecodedHeader /\ Len(W) = 16
  <2>1. W = DecodedHeader
    BY HeaderNames DEF Written
  <2> QED
    BY <2>1 DEF DecodedHeader
<1>3. /\ \A i \in 1..16 : W[i] # "encoded" /\ W[i] # "ciphertext"
      /\ W[16] = "wrapped_dek" /\ W[15] = "encrypted_filename"
  <2>1. /\ \A i \in 1..16 : DecodedHeader[i] # "encoded" /\ DecodedHeader[i] # "ciphertext"
        /\ DecodedHeader[16] = "wrapped_dek" /\ DecodedHeader[15] = "encrypted_filename"
    BY DEF DecodedHeader
  <2> QED
    BY <1>2, <2>1
<1>4. PICK k \in 1..16 : name = W[k]
  BY <1>1, <1>2, FormatNames DEF Varying, Range, Ordered
<1>5. k \in 1..15 /\ (name # "encrypted_filename" => k \in 1..14)
  BY <1>3, <1>4
<1>6. name \notin Constants /\ name # "encoded" /\ name # "ciphertext"
  BY <1>3, <1>4 DEF Varying
<1>7. field \in Fields /\ field # value[name]
  BY <1>6, WritesFields
<1>8. DifferAt("header", k, other, value)
  BY <1>1, <1>4, <1>6, <1>7 DEF DifferAt
<1>9. Names("header", WithName, 15) /\ Names("header", PublicHeader, 14)
  BY <1>2, HeaderNames DEF Names
<1>10. 15 \in 1..Len(Written["header"]) /\ 14 \in 1..Len(Written["header"])
  BY <1>2
<1>11. Apart("header", WithName, other, value)
  BY <1>1, <1>5, <1>8, <1>9, <1>10, EncodingsDiffer
<1>12. WrapAad(other) # WrapAad(value)
  BY <1>11, Labelled DEF WrapAad, Apart
<1>13. ASSUME name # "encrypted_filename" PROVE MetadataAad(other) # MetadataAad(value)
  <2>1. k \in 1..14
    BY <1>5, <1>13
  <2>2. Apart("header", PublicHeader, other, value)
    BY <1>1, <1>8, <1>9, <1>10, <2>1, EncodingsDiffer
  <2> QED
    BY <2>2, Labelled DEF MetadataAad, Apart
<1> QED
  BY <1>12, <1>13

\* For every format, every size of its fields and every sequence of bytes: what
\* a reader accepts is the one encoding of what it decoded, whatever wrote the
\* bytes (decode_header, read_encrypted_frame, read_optional_provenance and the
\* key decoders, against the encoders).
THEOREM DecodingIsCanonical == Spec => []CodecInv
<1>1. DecodingInv => CodecInv
  BY DecodingTypeOK, DecodingCanonical DEF CodecInv
<1> QED
  BY <1>1, InitDecodingInv, NextDecodingInv, PTL DEF Spec

\* A file or a key that this program wrote is never refused for its form, and is
\* read as what was written, at every limit (encode_* against decode_*).
THEOREM WhatIsWrittenIsRead == Spec => []WrittenIsRead
BY DecodingWrittenIsRead, InitDecodingInv, NextDecodingInv, PTL DEF Spec

\* No field of an accepted header can be exchanged for another that seal may
\* write without changing what the wrapped key, or for a public field the file
\* name, is authenticated with (encode_wrap_aad, encode_metadata_aad).
THEOREM HeaderIsBound == Spec => []AadBinds
BY DecodingAadBinds, InitDecodingInv, NextDecodingInv, PTL DEF Spec
============================================================================

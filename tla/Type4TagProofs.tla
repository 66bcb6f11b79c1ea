---------------------------- MODULE Type4TagProofs ----------------------------
(***************************************************************************)
(* Proofs about the reader of Type 4 tags, for every set of tags and       *)
(* files, every size of a byte and of a frame, and any number of lost      *)
(* calls.                                                                  *)
(***************************************************************************)
EXTENDS Type4TagProperties, SequenceTheorems, TLAPS

FileByte == 0 .. (ByteRange - 1)

\* A read starts at the beginning of the buffer and stops before the end of
\* the file.
ReadProgress ==
  /\ pc # "data" => pos = 0 /\ out = << >>
  /\ pc = "data" /\ Here => pos < fileSize /\ (pos = 0 \/ pos >= MTU)

\* The inductive invariant.
Type4Inv ==
  /\ Type4TypeOK
  /\ ReadsMeetTheirFile
  /\ ReadProgress
  /\ PiecesInOrder
  /\ ReadsAllButTwo
-----------------------------------------------------------------------------
(* Arithmetic and files. *)

\* A remainder is a number in its range that is not beyond the dividend.
LEMMA ModBounds ==
  ASSUME NEW n \in Nat, NEW a \in Nat, n > 0
  PROVE  /\ a % n \in Nat /\ a % n < n /\ a % n <= a
         /\ a < n => a % n = a
  BY Z3

LEMMA Sizes ==
  ByteRange \in Nat /\ MTU \in Nat /\ 3 <= MTU /\ MTU + 2 < ByteRange
  BY Type4Assumption

LEMMA FunctionIsSeq ==
  ASSUME NEW S, NEW n \in Nat, NEW f \in [1 .. n -> S]
  PROVE  f \in Seq(S) /\ Len(f) = n
<1>1. f \in Seq(S)
  BY SeqDef
<1>2. DOMAIN f = 1 .. n
  OBVIOUS
<1> QED  BY <1>1, <1>2, LenProperties

\* What the assumption says of the file of the tag in the field.
LEMMA FileOf ==
  ASSUME NEW c \in Type4Cards
  PROVE  /\ Files[c].file \in Seq(FileByte)
         /\ Files[c].id \in Nat /\ Files[c].max \in Nat
         /\ Len(Files[c].file) \in Nat
         /\ FileLength(Files[c].file) \in Nat
<1> DEFINE file == Files[c].file
<1>1. /\ Files[c] \in [ndef : BOOLEAN, fci : Nat, id : Nat, max : Nat,
                       file : Seq(FileByte)]
      /\ Len(file) >= 2
  BY Type4Assumption DEF FileByte
<1>2. file \in Seq(FileByte)
  BY <1>1
<1>3. Len(file) \in Nat
  BY <1>2, LenProperties
<1>4. file[1] \in FileByte /\ file[2] \in FileByte
  BY <1>1, <1>2, <1>3, ElementOfSeq
<1>5. FileLength(file) \in Nat
  BY <1>4, Sizes, SMT DEF FileLength, FileByte
<1> QED  BY <1>1, <1>2, <1>3, <1>5

\* The message on a tag is the file behind the length field.
LEMMA StoredMessage ==
  ASSUME NEW c \in Type4Cards, Countable(c)
  PROVE  /\ Len(StoredOn(c)) = FileLength(Files[c].file)
         /\ \A i \in 1 .. FileLength(Files[c].file) :
              StoredOn(c)[i] = Files[c].file[i + 2]
<1> DEFINE file == Files[c].file  L == FileLength(file)
<1>1. /\ file \in Seq(FileByte) /\ L \in Nat /\ Len(file) \in Nat
      /\ L + 2 <= Len(file)
  BY FileOf DEF Countable
<1>2. \A i \in 3 .. (L + 2) : file[i] \in FileByte
  BY <1>1, ElementOfSeq
<1> HIDE DEF L, file
<1>3. /\ Len(SubSeq(file, 3, L + 2)) = IF 3 <= L + 2 THEN L + 2 - 3 + 1 ELSE 0
      /\ \A i \in 1 .. L + 2 - 3 + 1 :
           SubSeq(file, 3, L + 2)[i] = file[3 + i - 1]
  BY <1>1, <1>2, SubSeqProperties
<1>4. /\ Len(SubSeq(file, 3, L + 2)) = L
      /\ \A i \in 1 .. L : SubSeq(file, 3, L + 2)[i] = file[i + 2]
  BY <1>1, <1>3
<1> QED  BY <1>4 DEF StoredOn, L, file

\* A piece has bytes of the file alone.
LEMMA PieceType ==
  ASSUME Here, NEW o \in Nat, NEW n \in Nat
  PROVE  Piece(o, n) \in Seq(FileByte)
<1> DEFINE file == Tag.file
           e == IF o + n < Len(file) THEN o + n ELSE Len(file)
<1>1. file \in Seq(FileByte) /\ Len(file) \in Nat
  BY FileOf DEF Here, Tag
<1>2. e \in Nat /\ e <= Len(file)
  BY <1>1
<1>3. Piece(o, n) = SubSeq(file, o + 1, e)
  BY DEF Piece
<1> HIDE DEF file, e
<1>4. \A i \in (o + 1) .. e : file[i] \in FileByte
  BY <1>1, <1>2, ElementOfSeq
<1> QED  BY <1>2, <1>3, <1>4, SubSeqProperties

LEMMA CopiedType ==
  ASSUME NEW s \in Seq(FileByte)
  PROVE  CopiedBytes(s) \in Seq(FileByte)
<1>1. Len(s) \in Nat
  BY LenProperties
<1>2. \A i \in 3 .. Len(s) : s[i] \in FileByte
  BY <1>1, ElementOfSeq
<1>3. SubSeq(s, 3, Len(s)) \in Seq(FileByte)
  BY <1>1, <1>2, SubSeqProperties
<1> QED  BY <1>3 DEF CopiedBytes

\* A piece of n bytes that lies inside the file.
LEMMA PieceInside ==
  ASSUME Here, NEW o \in Nat, NEW n \in Nat, o + n <= Len(Tag.file), n > 0
  PROVE  /\ Piece(o, n) \in Seq(FileByte) /\ Len(Piece(o, n)) = n
         /\ \A i \in 1 .. n : Piece(o, n)[i] = Tag.file[o + i]
<1> DEFINE file == Tag.file
<1>1. file \in Seq(FileByte) /\ Len(file) \in Nat /\ o + n <= Len(file)
  BY FileOf DEF Here, Tag
<1>2. Piece(o, n) = SubSeq(file, o + 1, o + n)
  BY <1>1 DEF Piece
<1> HIDE DEF file
<1>3. \A i \in (o + 1) .. (o + n) : file[i] \in FileByte
  BY <1>1, ElementOfSeq
<1>4. /\ SubSeq(file, o + 1, o + n) \in Seq(FileByte)
      /\ Len(SubSeq(file, o + 1, o + n)) =
           IF o + 1 <= o + n THEN o + n - (o + 1) + 1 ELSE 0
      /\ \A i \in 1 .. o + n - (o + 1) + 1 :
           SubSeq(file, o + 1, o + n)[i] = file[o + 1 + i - 1]
  BY <1>3, SubSeqProperties
<1>5. /\ SubSeq(file, o + 1, o + n) \in Seq(FileByte)
      /\ Len(SubSeq(file, o + 1, o + n)) = n
      /\ \A i \in 1 .. n : SubSeq(file, o + 1, o + n)[i] = file[o + i]
  BY <1>4
<1> QED  BY <1>2, <1>5 DEF file

\* The length field of the first piece is dropped, if it has one.
LEMMA CopiedFirst ==
  ASSUME NEW s \in Seq(FileByte), pos = 0, Len(s) >= 3
  PROVE  /\ CopiedBytes(s) \in Seq(FileByte) /\ Len(CopiedBytes(s)) = Len(s) - 2
         /\ \A i \in 1 .. Len(s) - 2 : CopiedBytes(s)[i] = s[i + 2]
<1>1. Len(s) \in Nat
  BY LenProperties
<1>2. \A i \in 3 .. Len(s) : s[i] \in FileByte
  BY <1>1, ElementOfSeq
<1>3. /\ SubSeq(s, 3, Len(s)) \in Seq(FileByte)
      /\ Len(SubSeq(s, 3, Len(s))) = IF 3 <= Len(s) THEN Len(s) - 3 + 1 ELSE 0
      /\ \A i \in 1 .. Len(s) - 3 + 1 : SubSeq(s, 3, Len(s))[i] = s[3 + i - 1]
  BY <1>1, <1>2, SubSeqProperties
<1> DEFINE t == SubSeq(s, 3, Len(s))
<1>4. CopiedBytes(s) = t
  BY DEF CopiedBytes
<1>5. /\ t \in Seq(FileByte)
      /\ Len(t) = IF 3 <= Len(s) THEN Len(s) - 3 + 1 ELSE 0
      /\ \A i \in 1 .. Len(s) - 3 + 1 : t[i] = s[3 + i - 1]
  BY <1>3
<1> HIDE DEF t
<1>6. Len(t) = Len(s) - 2
  BY <1>1, <1>5
<1>7. ASSUME NEW i \in 1 .. Len(s) - 2
      PROVE  t[i] = s[i + 2]
  <2>1. i \in 1 .. Len(s) - 3 + 1 /\ 3 + i - 1 = i + 2
    BY <1>1
  <2>2. t[i] = s[3 + i - 1]
    BY <1>5, <2>1
  <2> QED  BY <2>1, <2>2
<1> QED  BY <1>4, <1>5, <1>6, <1>7

\* The buffer holds the bytes that were copied, then garbage.
LEMMA BufferType ==
  ASSUME NEW s \in Seq(FileByte), fileSize \in Nat
  PROVE  /\ Buffer(s) \in Seq(FileByte \cup {Garbage}) /\ Len(Buffer(s)) = fileSize
         /\ \A i \in 1 .. fileSize :
              Buffer(s)[i] = IF i <= Len(s) THEN s[i] ELSE Garbage
<1>1. Len(s) \in Nat
  BY LenProperties
<1>2. \A i \in 1 .. fileSize :
        (IF i <= Len(s) THEN s[i] ELSE Garbage) \in FileByte \cup {Garbage}
  BY <1>1, ElementOfSeq
<1>3. Buffer(s) \in [1 .. fileSize -> FileByte \cup {Garbage}]
  BY <1>2 DEF Buffer
<1>4. Buffer(s) \in Seq(FileByte \cup {Garbage}) /\ Len(Buffer(s)) = fileSize
  BY <1>3, FunctionIsSeq
<1> QED  BY <1>4 DEF Buffer
-----------------------------------------------------------------------------
(* Steps that leave the field, the tag and what was read as they are. *)

LEMMA FileByteIs == FileByte = 0 .. (ByteRange - 1)
  BY DEF FileByte

\* A call that ends a read with an error.
LEMMA ErrorStep ==
  ASSUME Type4Inv, Return("error", << >>), UNCHANGED answering,
         faults' \in 0 .. MaxFaults,
         selected' \in {"none", "app", "cc", "ndef"}
  PROVE  Type4Inv'
<1>1. /\ pc' = "idle" /\ ret' = [status |-> "error", msg |-> << >>]
      /\ fileId' = 0 /\ maxSize' = 0 /\ fileSize' = 0 /\ pos' = 0
      /\ out' = << >>
  BY DEF Return
<1>2. Type4TypeOK'
  BY <1>1, EmptySeq DEF Type4TypeOK
<1>3. ReadsMeetTheirFile' /\ ReadProgress' /\ PiecesInOrder' /\ ReadsAllButTwo'
  BY <1>1 DEF ReadsMeetTheirFile, ReadProgress, PiecesInOrder, ReadsAllButTwo
<1> QED  BY <1>2, <1>3 DEF Type4Inv

LEMMA LostType ==
  ASSUME Type4TypeOK, Lost
  PROVE  faults' \in 0 .. MaxFaults
<1>1. MaxFaults \in Nat
  BY Type4Assumption
<1> QED  BY <1>1 DEF Lost, Type4TypeOK

\* The read goes on: what a select or a short read may change.
LEMMA AdvanceStep ==
  ASSUME Type4Inv, UNCHANGED <<answering, faults, fileSize, pos, out, ret>>,
         pc # "data",
         selected' \in {"none", "app", "cc", "ndef"},
         pc' \in {"app", "cc", "readCC", "file", "length"},
         fileId' \in Nat, maxSize' \in Nat,
         Here /\ pc' = "readCC" => selected' = "cc",
         Here /\ pc' = "length" => selected' = "ndef"
  PROVE  Type4Inv'
<1>1. Here' = Here /\ Tag' = Tag
  BY DEF Here, Tag
<1>2. Type4TypeOK'
  BY DEF Type4Inv, Type4TypeOK
<1>3. ReadsMeetTheirFile'
  BY <1>1 DEF ReadsMeetTheirFile
<1>4. ReadProgress'
  BY <1>1 DEF Type4Inv, ReadProgress
<1>5. PiecesInOrder'
  BY DEF PiecesInOrder
<1>6. ReadsAllButTwo'
  BY DEF Type4Inv, ReadsAllButTwo
<1> QED  BY <1>2, <1>3, <1>4, <1>5, <1>6 DEF Type4Inv
-----------------------------------------------------------------------------
(* The commands of a read. *)

\* A select that is accepted, refused or lost.
LEMMA SelectStep ==
  ASSUME Type4Inv, UNCHANGED answering, pc # "data",
         NEW what \in {"app", "cc", "ndef"}, NEW accepts, NEW size, NEW room,
         NEW next \in {"cc", "readCC", "length"},
         Select(what, accepts, size, room, next),
         next = "readCC" => what = "cc",
         next = "length" => what = "ndef"
  PROVE  Type4Inv'
<1>1. Type4TypeOK
  BY DEF Type4Inv
<1>2. CASE /\ Here /\ selected' = what /\ pc' = next
           /\ UNCHANGED <<faults, locals, ret>>
  BY <1>1, <1>2, AdvanceStep DEF locals, Type4TypeOK
<1>3. CASE /\ selected' = IF accepts THEN what ELSE selected
           /\ UNCHANGED faults /\ Return("error", << >>)
  BY <1>1, <1>3, ErrorStep DEF Type4TypeOK
<1>4. CASE /\ Lost /\ Return("error", << >>)
           /\ selected' = selected \/ selected' = what
  BY <1>1, <1>4, ErrorStep, LostType DEF Type4TypeOK
<1> QED  BY <1>2, <1>3, <1>4 DEF Select

LEMMA ReadLostStep ==
  ASSUME Type4Inv, UNCHANGED answering, ReadLost
  PROVE  Type4Inv'
<1>1. Type4TypeOK
  BY DEF Type4Inv
<1> QED  BY <1>1, ErrorStep, LostType DEF ReadLost, Type4TypeOK

LEMMA RefusedStep ==
  ASSUME Type4Inv, UNCHANGED <<answering, selected, faults>>,
         Return("error", << >>)
  PROVE  Type4Inv'
<1>1. Type4TypeOK
  BY DEF Type4Inv
<1> QED  BY <1>1, ErrorStep DEF Type4TypeOK

LEMMA ReadCCFileStep ==
  ASSUME Type4Inv, UNCHANGED answering, ReadCCFile
  PROVE  Type4Inv'
<1>1. Type4TypeOK
  BY DEF Type4Inv
<1>2. CASE /\ Here /\ selected = "cc"
           /\ fileId' = Tag.id /\ maxSize' = Tag.max
           /\ pc' = "file"
           /\ UNCHANGED <<selected, faults, fileSize, pos, out, ret>>
  <2>1. Tag.id \in Nat /\ Tag.max \in Nat
    BY <1>2, FileOf DEF Here, Tag
  <2>2. pc # "data"
    BY DEF ReadCCFile
  <2> QED  BY <1>1, <1>2, <2>1, <2>2, AdvanceStep DEF Type4TypeOK
<1> QED  BY <1>2, ReadLostStep, RefusedStep DEF ReadCCFile

\* An empty file is the message on a tag, and a file that is not empty is
\* read from its beginning.
LEMMA ReadFileLengthStep ==
  ASSUME Type4Inv, UNCHANGED answering, ReadFileLength
  PROVE  Type4Inv'
<1>1. Type4TypeOK /\ pc = "length"
  BY DEF Type4Inv, ReadFileLength
<1>2. CASE Here /\ selected = "ndef" /\ UNCHANGED <<selected, faults>>
           /\ FileLength(Tag.file) = 0 /\ Return("ok", << >>)
  <2>1. /\ pc' = "idle" /\ ret' = [status |-> "ok", msg |-> << >>]
        /\ fileId' = 0 /\ maxSize' = 0 /\ fileSize' = 0 /\ pos' = 0
        /\ out' = << >>
    BY <1>2 DEF Return
  <2>2. Type4TypeOK'
    BY <1>1, <1>2, <2>1, EmptySeq DEF Type4TypeOK
  <2>3. ReadsMeetTheirFile' /\ ReadProgress' /\ PiecesInOrder'
    BY <2>1 DEF ReadsMeetTheirFile, ReadProgress, PiecesInOrder
  <2>4. ReadOf(answering, << >>)
    BY <1>2, StoredMessage DEF ReadOf, AllButTwo, Here, Tag
  <2>5. ReadsAllButTwo'
    BY <1>2, <2>1, <2>4 DEF ReadsAllButTwo, Here
  <2> QED  BY <2>2, <2>3, <2>5 DEF Type4Inv
<1>3. CASE Here /\ selected = "ndef" /\ UNCHANGED <<selected, faults>>
           /\ FileLength(Tag.file) # 0
           /\ fileSize' = FileLength(Tag.file) /\ pc' = "data"
           /\ UNCHANGED <<fileId, maxSize, pos, out, ret>>
  <2>1. /\ Here' /\ Tag' = Tag
        /\ fileSize' \in Nat /\ 0 < fileSize'
    BY <1>3, FileOf DEF Here, Tag
  <2>2. pos = 0 /\ out = << >>
    BY <1>1, <1>3 DEF Type4Inv, ReadProgress
  <2>3. Type4TypeOK'
    BY <1>1, <1>3, <2>1 DEF Type4TypeOK
  <2>4. ReadsMeetTheirFile' /\ ReadProgress'
    BY <1>3, <2>1, <2>2 DEF ReadsMeetTheirFile, ReadProgress
  <2>5. PiecesInOrder'
    BY <1>3, <2>1, <2>2 DEF PiecesInOrder, Tag
  <2>6. ReadsAllButTwo'
    BY <1>3 DEF Type4Inv, ReadsAllButTwo
  <2> QED  BY <2>3, <2>4, <2>5, <2>6 DEF Type4Inv
<1>4. CASE Return("error", << >>) /\ UNCHANGED <<selected, faults>>
  BY <1>4, RefusedStep
<1>5. CASE ReadLost
  BY <1>5, ReadLostStep
<1> QED  BY <1>2, <1>3, <1>4, <1>5 DEF ReadFileLength
-----------------------------------------------------------------------------
(* The pieces of a file. *)

\* The tag answers with bytes of the file, and with those asked for if it has
\* them and the offset does not wrap.
LEMMA AnswerIs ==
  ASSUME Type4Inv, pc = "data", Here
  PROVE  /\ ReadLen \in Nat /\ 0 < ReadLen /\ ReadLen <= MTU
         /\ pos + ReadLen <= fileSize
         /\ ReadLen = MTU \/ pos + ReadLen = fileSize
         /\ Answer \in Seq(FileByte)
         /\ Countable(answering) =>
              /\ Len(Answer) = ReadLen
              /\ \A i \in 1 .. ReadLen : Answer[i] = Tag.file[pos + i]
<1>1. /\ fileSize \in Nat /\ pos \in Nat /\ pos < fileSize
      /\ fileSize = FileLength(Tag.file) /\ selected = "ndef"
  BY DEF Type4Inv, Type4TypeOK, ReadProgress, PiecesInOrder, ReadsMeetTheirFile,
         Tag
<1>2. /\ Len(Tag.file) \in Nat
      /\ Countable(answering) =>
           fileSize < ByteRange /\ fileSize + 2 <= Len(Tag.file)
  BY <1>1, FileOf DEF Countable, Here, Tag
<1>3. /\ ReadLen \in Nat /\ 0 < ReadLen /\ ReadLen <= MTU
      /\ pos + ReadLen <= fileSize
      /\ ReadLen = MTU \/ pos + ReadLen = fileSize
  BY <1>1, Sizes DEF ReadLen
<1>4. /\ ReadStart \in Nat /\ ReadStart <= pos
      /\ fileSize < ByteRange => ReadStart = pos
  BY <1>1, Sizes, ModBounds DEF ReadStart
<1>5. Answer \in Seq(FileByte)
  BY <1>1, <1>3, <1>4, PieceType DEF Answer
<1>6. ASSUME Countable(answering)
      PROVE  /\ Len(Answer) = ReadLen
             /\ \A i \in 1 .. ReadLen : Answer[i] = Tag.file[pos + i]
  <2>1. ReadStart = pos /\ pos + ReadLen <= Len(Tag.file)
    BY <1>1, <1>2, <1>3, <1>4, <1>6
  <2> QED  BY <1>1, <1>3, <2>1, PieceInside DEF Answer
<1> QED  BY <1>3, <1>5, <1>6

LEMMA PutDownType ==
  ASSUME Type4Inv, pc = "data", Here
  PROVE  out \o CopiedBytes(Answer) \in Seq(FileByte)
<1>1. out \in Seq(FileByte)
  BY FileByteIs DEF Type4Inv, Type4TypeOK
<1>2. CopiedBytes(Answer) \in Seq(FileByte)
  BY AnswerIs, CopiedType
<1> QED  BY <1>1, <1>2, ConcatProperties

\* The buffer after a piece: two bytes behind the offset, and in order.
LEMMA CopiedInOrder ==
  ASSUME Type4Inv, pc = "data", Here, Countable(answering),
         pos = 0 => ReadLen >= 3
  PROVE  LET bytes == out \o CopiedBytes(Answer)
         IN  /\ bytes \in Seq(FileByte) /\ Len(bytes) = pos + ReadLen - 2
             /\ \A i \in 1 .. pos + ReadLen - 2 :
                  bytes[i] = StoredOn(answering)[i]
<1> DEFINE piece == CopiedBytes(Answer)  n == ReadLen
           bytes == out \o piece
<1>1. /\ fileSize \in Nat /\ pos \in Nat /\ out \in Seq(FileByte)
      /\ Len(out) = IF pos = 0 THEN 0 ELSE pos - 2
      /\ pos = 0 \/ pos >= MTU
      /\ fileSize = FileLength(Tag.file)
  BY FileByteIs DEF Type4Inv, Type4TypeOK, ReadProgress, PiecesInOrder, Tag
<1>2. /\ n \in Nat /\ pos + n <= fileSize
      /\ Answer \in Seq(FileByte) /\ Len(Answer) = n
      /\ \A i \in 1 .. n : Answer[i] = Tag.file[pos + i]
  BY AnswerIs
<1>3. \A i \in 1 .. fileSize : StoredOn(answering)[i] = Tag.file[i + 2]
  BY <1>1, StoredMessage DEF Here, Tag
<1>4. \A i \in 1 .. Len(out) : out[i] = StoredOn(answering)[i]
  BY DEF Type4Inv, PiecesInOrder
<1>5. CASE pos = 0
  <2>1. /\ piece \in Seq(FileByte) /\ Len(piece) = n - 2
        /\ \A i \in 1 .. n - 2 : piece[i] = Answer[i + 2]
    BY <1>2, <1>5, CopiedFirst
  <2>2. Len(out) = 0 /\ Len(piece) \in Nat
    BY <1>1, <1>5, <2>1, LenProperties
  <2> HIDE DEF piece, n
  <2>3. /\ bytes \in Seq(FileByte) /\ Len(bytes) = 0 + Len(piece)
        /\ \A i \in 1 .. 0 + Len(piece) :
             bytes[i] = IF i <= 0 THEN out[i] ELSE piece[i - 0]
    BY <1>1, <2>1, <2>2, ConcatProperties
  <2>4. Len(bytes) = pos + n - 2
    BY <1>2, <1>5, <2>1, <2>2, <2>3
  <2>5. ASSUME NEW i \in 1 .. pos + n - 2
        PROVE  bytes[i] = StoredOn(answering)[i]
    <3>1. /\ i \in 1 .. n - 2 /\ i + 2 \in 1 .. n /\ i \in 1 .. fileSize
          /\ i \in 1 .. 0 + Len(piece) /\ ~(i <= 0) /\ i - 0 = i
          /\ pos + (i + 2) = i + 2
      BY <1>1, <1>2, <1>5, <2>1, <2>2
    <3>2. bytes[i] = piece[i]
      BY <2>3, <3>1
    <3>3. piece[i] = Answer[i + 2]
      BY <2>1, <3>1
    <3>4. Answer[i + 2] = Tag.file[i + 2]
      BY <1>2, <2>5, <3>1
    <3> QED  BY <1>3, <3>1, <3>2, <3>3, <3>4
  <2> QED  BY <2>3, <2>4, <2>5 DEF piece, n
<1>6. CASE pos >= MTU
  <2>1. piece = Answer /\ Len(out) = pos - 2 /\ pos - 2 \in Nat
    BY <1>1, <1>6, Sizes DEF CopiedBytes
  <2> HIDE DEF piece, n
  <2>2. /\ bytes \in Seq(FileByte) /\ Len(bytes) = Len(out) + Len(piece)
        /\ \A i \in 1 .. Len(out) + Len(piece) :
             bytes[i] = IF i <= Len(out) THEN out[i] ELSE piece[i - Len(out)]
    BY <1>1, <1>2, <2>1, ConcatProperties
  <2>3. Len(bytes) = pos + n - 2
    BY <1>1, <1>2, <2>1, <2>2
  <2>4. ASSUME NEW i \in 1 .. pos + n - 2
        PROVE  bytes[i] = StoredOn(answering)[i]
    <3>1. i \in 1 .. Len(out) + Len(piece) /\ i \in 1 .. fileSize
      BY <1>1, <1>2, <2>1
    <3>2. CASE i <= Len(out)
      <4>1. i \in 1 .. Len(out) /\ bytes[i] = out[i]
        BY <2>1, <2>2, <3>1, <3>2
      <4> QED  BY <1>4, <2>4, <4>1
    <3>3. CASE ~(i <= Len(out))
      <4>1. bytes[i] = Answer[i - Len(out)]
        BY <2>1, <2>2, <3>1, <3>3
      <4>2. /\ i - Len(out) \in 1 .. n /\ pos + (i - Len(out)) = i + 2
        BY <1>1, <1>2, <2>1, <3>1, <3>3
      <4>3. Answer[i - Len(out)] = Tag.file[i + 2]
        BY <1>2, <2>4, <4>2
      <4> QED  BY <1>3, <3>1, <4>1, <4>3
    <3> QED  BY <3>2, <3>3
  <2> QED  BY <2>2, <2>3, <2>4 DEF piece, n
<1> QED  BY <1>1, <1>5, <1>6

\* What the loop returns when its last piece has fitted the room: if the
\* file has the bytes it counts there was a first piece before it, because
\* the room is as long as the file.
LEMMA LastPiece ==
  ASSUME Type4Inv, pc = "data", Here, Len(Answer) + 2 <= Room,
         ~(pos + ReadLen < fileSize)
  PROVE  LET m == Buffer(out \o CopiedBytes(Answer))
         IN  /\ m \in Seq(FileByte \cup {Garbage})
             /\ ReadOf(answering, m)
<1> DEFINE bytes == out \o CopiedBytes(Answer)  m == Buffer(bytes)
<1>1. /\ ReadLen \in Nat /\ 0 < ReadLen /\ ReadLen <= MTU
      /\ pos + ReadLen = fileSize
      /\ pos \in Nat /\ fileSize \in Nat
      /\ fileSize = FileLength(Tag.file)
  <2>1. /\ ReadLen \in Nat /\ 0 < ReadLen /\ ReadLen <= MTU
        /\ pos + ReadLen <= fileSize
    BY AnswerIs
  <2>2. pos \in Nat /\ fileSize \in Nat /\ fileSize = FileLength(Tag.file)
    BY DEF Type4Inv, Type4TypeOK, PiecesInOrder, Tag
  <2> QED  BY <2>1, <2>2
<1>2. Countable(answering) => pos # 0
  <2>1. SUFFICES ASSUME Countable(answering), pos = 0
                 PROVE  FALSE
    OBVIOUS
  <2>2. fileSize < ByteRange /\ fileSize = Len(Answer)
    BY <1>1, <2>1, AnswerIs DEF Countable, Tag
  <2>3. Room = fileSize
    BY <1>1, <2>2, Sizes, ModBounds DEF Room
  <2> QED  BY <1>1, <2>2, <2>3
<1>3. /\ bytes \in Seq(FileByte)
      /\ Countable(answering) =>
           /\ Len(bytes) = fileSize - 2
           /\ \A i \in 1 .. fileSize - 2 : bytes[i] = StoredOn(answering)[i]
  BY <1>1, <1>2, PutDownType, CopiedInOrder
<1> HIDE DEF bytes
<1>4. /\ m \in Seq(FileByte \cup {Garbage}) /\ Len(m) = fileSize
      /\ \A i \in 1 .. fileSize :
           m[i] = IF i <= Len(bytes) THEN bytes[i] ELSE Garbage
  BY <1>1, <1>3, BufferType
<1> HIDE DEF m
<1>5. Countable(answering) => Len(StoredOn(answering)) = fileSize
  BY <1>1, StoredMessage DEF Here, Tag
<1>6. ASSUME Countable(answering)
      PROVE  AllButTwo(m, StoredOn(answering))
  <2>1. ASSUME NEW i \in 1 .. Len(m)
        PROVE  m[i] = IF i <= Len(m) - 2 THEN StoredOn(answering)[i]
                                         ELSE Garbage
    <3>1. CASE i <= Len(m) - 2
      <4>1. i \in 1 .. fileSize - 2 /\ i \in 1 .. fileSize /\ i <= Len(bytes)
        BY <1>1, <1>3, <1>4, <1>6, <2>1, <3>1
      <4> QED  BY <1>3, <1>4, <1>6, <3>1, <4>1
    <3>2. CASE ~(i <= Len(m) - 2)
      <4>1. i \in 1 .. fileSize /\ ~(i <= Len(bytes))
        BY <1>1, <1>3, <1>4, <1>6, <2>1, <3>2
      <4> QED  BY <1>4, <3>2, <4>1
    <3> QED  BY <3>1, <3>2
  <2> QED  BY <1>4, <1>5, <1>6, <2>1 DEF AllButTwo
<1> QED  BY <1>1, <1>4, <1>6 DEF ReadOf, Tag, m, bytes

\* A piece is appended, or the last one completes the message.
LEMMA ReadFileStep ==
  ASSUME Type4Inv, UNCHANGED answering, ReadFile
  PROVE  Type4Inv'
<1>1. Type4TypeOK /\ pc = "data"
  BY DEF Type4Inv, ReadFile
<1> DEFINE bytes == out \o CopiedBytes(Answer)
<1>2. CASE /\ Here /\ Len(Answer) + 2 <= Room /\ UNCHANGED <<selected, faults>>
           /\ pos + ReadLen < fileSize
           /\ out' = bytes /\ pos' = pos + ReadLen
           /\ UNCHANGED <<pc, fileId, maxSize, fileSize, ret>>
  <2>1. /\ ReadLen = MTU /\ pos \in Nat /\ fileSize \in Nat
        /\ 3 <= MTU /\ MTU \in Nat
    BY <1>1, <1>2, AnswerIs, Sizes DEF Type4TypeOK
  <2>2. /\ bytes \in Seq(FileByte)
        /\ Countable(answering) =>
             /\ Len(bytes) = pos + ReadLen - 2
             /\ \A i \in 1 .. pos + ReadLen - 2 :
                  bytes[i] = StoredOn(answering)[i]
    BY <1>1, <1>2, <2>1, PutDownType, CopiedInOrder
  <2> HIDE DEF bytes
  <2>3. /\ pos' \in Nat /\ pos' >= MTU /\ pos' # 0 /\ pos' < fileSize
        /\ Countable(answering) => Len(out') = pos' - 2
    BY <1>2, <2>1, <2>2
  <2>4. Type4TypeOK'
    BY <1>1, <1>2, <2>2, <2>3, FileByteIs DEF Type4TypeOK
  <2>5. ReadsMeetTheirFile'
    BY <1>2 DEF Type4Inv, ReadsMeetTheirFile, Here
  <2>6. ReadProgress'
    BY <1>1, <1>2, <2>3 DEF Type4Inv, ReadProgress, Here, Tag
  <2>7. fileSize = FileLength(Files[answering].file)
    BY <1>1, <1>2 DEF Type4Inv, PiecesInOrder
  <2>8. Countable(answering) => \A i \in 1 .. Len(out') :
          out'[i] = StoredOn(answering)[i]
    BY <1>2, <2>1, <2>2
  <2>9. PiecesInOrder'
    BY <1>2, <2>3, <2>7, <2>8 DEF PiecesInOrder, Countable, StoredOn
  <2>10. ReadsAllButTwo'
    BY <1>2 DEF Type4Inv, ReadsAllButTwo
  <2> QED  BY <2>4, <2>5, <2>6, <2>9, <2>10 DEF Type4Inv
<1>3. CASE /\ Here /\ Len(Answer) + 2 <= Room /\ UNCHANGED <<selected, faults>>
           /\ ~(pos + ReadLen < fileSize)
           /\ Return("ok", Buffer(bytes))
  <2> DEFINE m == Buffer(bytes)
  <2>1. m \in Seq(FileByte \cup {Garbage}) /\ ReadOf(answering, m)
    BY <1>1, <1>3, LastPiece
  <2>2. /\ pc' = "idle" /\ ret' = [status |-> "ok", msg |-> m]
        /\ fileId' = 0 /\ maxSize' = 0 /\ fileSize' = 0 /\ pos' = 0
        /\ out' = << >>
    BY <1>3 DEF Return
  <2> HIDE DEF m
  <2>3. Type4TypeOK'
    BY <1>1, <1>3, <2>1, <2>2, EmptySeq, FileByteIs DEF Type4TypeOK
  <2>4. ReadsMeetTheirFile' /\ ReadProgress' /\ PiecesInOrder'
    BY <2>2 DEF ReadsMeetTheirFile, ReadProgress, PiecesInOrder
  <2>5. ReadsAllButTwo'
    BY <1>3, <2>1, <2>2 DEF ReadsAllButTwo, Here
  <2> QED  BY <2>3, <2>4, <2>5 DEF Type4Inv
<1>4. CASE Return("error", << >>) /\ UNCHANGED <<selected, faults>>
  BY <1>4, RefusedStep
<1>5. CASE ReadLost
  BY <1>5, ReadLostStep
<1> QED  BY <1>2, <1>3, <1>4, <1>5 DEF ReadFile
-----------------------------------------------------------------------------
(* Every step of the driver, the tag and the link. *)

LEMMA CommandStep ==
  ASSUME Type4Inv, UNCHANGED answering, Command
  PROVE  Type4Inv'
<1>1. CASE SelectApplication
  BY <1>1, SelectStep DEF SelectApplication
<1>2. CASE SelectCapabilityContainer
  BY <1>2, SelectStep DEF SelectCapabilityContainer
<1>3. CASE SelectFile
  BY <1>3, SelectStep DEF SelectFile
<1> QED  BY <1>1, <1>2, <1>3, ReadCCFileStep, ReadFileLengthStep, ReadFileStep
         DEF Command

\* A command that ends a read well returns what is on the tag that answers.
LEMMA CommandReturns ==
  ASSUME Type4Inv, UNCHANGED answering, Command, ret' # ret,
         ret'.status = "ok"
  PROVE  Here /\ ReadOf(answering, ret'.msg)
<1>1. CASE ReadFileLength
  <2>1. Here /\ FileLength(Tag.file) = 0 /\ ret' = [status |-> "ok", msg |-> << >>]
    BY <1>1 DEF ReadFileLength, ReadLost, Return
  <2> QED  BY <2>1, StoredMessage DEF ReadOf, AllButTwo, Here, Tag
<1>2. CASE ReadFile
  <2>1. /\ pc = "data" /\ Here /\ Len(Answer) + 2 <= Room
        /\ ~(pos + ReadLen < fileSize)
        /\ ret'.msg = Buffer(out \o CopiedBytes(Answer))
    BY <1>2 DEF ReadFile, ReadLost, Return
  <2> QED  BY <2>1, LastPiece
<1>3. CASE ReadCCFile
  BY <1>3 DEF ReadCCFile, ReadLost, Return
<1>4. CASE SelectApplication \/ SelectCapabilityContainer \/ SelectFile
  BY <1>4 DEF SelectApplication, SelectCapabilityContainer, SelectFile, Select,
              Return
<1> QED  BY <1>1, <1>2, <1>3, <1>4 DEF Command

LEMMA StartStep ==
  ASSUME Type4Inv, UNCHANGED answering, StartRead
  PROVE  Type4Inv'
<1>1. /\ pc = "idle" /\ pc' = "app" /\ ret' = NoReturn
      /\ UNCHANGED <<selected, faults, fileId, maxSize, fileSize, pos, out>>
  BY DEF StartRead, locals
<1>2. Type4TypeOK'
  BY <1>1, EmptySeq DEF Type4Inv, Type4TypeOK, NoReturn
<1>3. ReadsMeetTheirFile' /\ ReadProgress' /\ PiecesInOrder' /\ ReadsAllButTwo'
  BY <1>1 DEF Type4Inv, ReadsMeetTheirFile, ReadProgress, PiecesInOrder,
              ReadsAllButTwo, NoReturn
<1> QED  BY <1>2, <1>3 DEF Type4Inv

\* A tag comes between two reads, or the tag is gone; a call may be lost.
LEMMA FieldStep ==
  ASSUME Type4Inv, UNCHANGED <<pc, locals>>,
         ret' = ret \/ ret' = NoReturn,
         faults' \in 0 .. MaxFaults,
         selected' \in {"none", "app", "cc", "ndef"},
         pc = "idle" \/ answering' = NoCard
  PROVE  Type4Inv'
<1>1. UNCHANGED <<pc, fileId, maxSize, fileSize, pos, out>>
  BY DEF locals
<1>2. answering' = NoCard => ~Here'
  BY Type4Assumption DEF Here
<1>3. (ret'.status = "none" /\ ret'.msg = << >>) \/ ret' = ret
  BY DEF NoReturn
<1>4. Type4TypeOK'
  BY <1>1, <1>3, EmptySeq DEF Type4Inv, Type4TypeOK
<1>5. ReadsMeetTheirFile' /\ ReadProgress' /\ PiecesInOrder'
  BY <1>1, <1>2 DEF Type4Inv, ReadsMeetTheirFile, ReadProgress, PiecesInOrder
<1>6. ReadsAllButTwo'
  BY <1>3 DEF Type4Inv, ReadsAllButTwo
<1> QED  BY <1>4, <1>5, <1>6 DEF Type4Inv

LEMMA SelectedAndFaults ==
  ASSUME Type4Inv
  PROVE  /\ selected \in {"none", "app", "cc", "ndef"}
         /\ faults \in 0 .. MaxFaults
  BY DEF Type4Inv, Type4TypeOK

LEMMA StutterStep ==
  ASSUME Type4Inv, UNCHANGED vars
  PROVE  Type4Inv'
<1>1. UNCHANGED <<answering, selected, faults, pc, fileId, maxSize, fileSize,
                  pos, out, ret>>
  BY DEF vars, locals
<1>2. Here' = Here /\ Tag' = Tag
  BY <1>1 DEF Here, Tag
<1>3. Type4TypeOK' /\ ReadsMeetTheirFile' /\ ReadProgress' /\ ReadsAllButTwo'
  BY <1>1, <1>2 DEF Type4Inv, Type4TypeOK, ReadsMeetTheirFile, ReadProgress,
                    ReadsAllButTwo
<1>4. PiecesInOrder'
  BY <1>1, <1>2 DEF Type4Inv, PiecesInOrder, Countable, StoredOn
<1> QED  BY <1>3, <1>4 DEF Type4Inv

LEMMA NextStep ==
  ASSUME Type4Inv, [Next]_vars
  PROVE  Type4Inv'
<1>1. CASE StartRead /\ UNCHANGED answering
  BY <1>1, StartStep
<1>2. CASE Command /\ UNCHANGED answering
  BY <1>2, CommandStep
<1>3. ASSUME NEW c \in Type4Cards, Present(c)
      PROVE  Type4Inv'
  BY <1>3, FieldStep, SelectedAndFaults DEF Present
<1>4. CASE Leave
  BY <1>4, FieldStep, SelectedAndFaults DEF Leave
<1>5. CASE UNCHANGED vars
  BY <1>5, StutterStep
<1> QED  BY <1>1, <1>2, <1>3, <1>4, <1>5 DEF Next

LEMMA InitInvariant ==
  ASSUME Init
  PROVE  Type4Inv
<1>1. Type4TypeOK
  BY Type4Assumption, EmptySeq DEF Init, Type4TypeOK, NoReturn
<1>2. ReadsMeetTheirFile /\ ReadProgress /\ PiecesInOrder /\ ReadsAllButTwo
  BY DEF Init, NoReturn, ReadsMeetTheirFile, ReadProgress, PiecesInOrder,
         ReadsAllButTwo
<1> QED  BY <1>1, <1>2 DEF Type4Inv

\* The inductive invariant holds throughout every behaviour of the reader.
THEOREM Type4Invariance == Spec => []Type4Inv
<1>1. Init => Type4Inv
  BY InitInvariant
<1>2. Type4Inv /\ [Next]_vars => Type4Inv'
  BY NextStep
<1> QED  BY <1>1, <1>2, PTL DEF Spec

\* What is read from files and containers keeps its type, and the loop of
\* readFile never asks for a negative number of bytes, for tags whose length
\* field says anything.
THEOREM Type4TypeCorrect == Spec => []Type4TypeOK
<1>1. Type4Inv => Type4TypeOK
  BY DEF Type4Inv
<1> QED  BY <1>1, Type4Invariance, PTL

\* Every read command meets the file it is meant for, whatever an earlier
\* read has left selected and whatever calls are lost.
THEOREM ReadsAlwaysMeetTheirFile == Spec => []ReadsMeetTheirFile
<1>1. Type4Inv => ReadsMeetTheirFile
  BY DEF Type4Inv
<1> QED  BY <1>1, Type4Invariance, PTL

\* The pieces are put down in order, without gap or overlap, for every size
\* of a piece and every file that a byte can count and that has the bytes it
\* counts, whatever the container says of its size.
THEOREM PiecesAlwaysInOrder == Spec => []PiecesInOrder
<1>1. Type4Inv => PiecesInOrder
  BY DEF Type4Inv
<1> QED  BY <1>1, Type4Invariance, PTL

\* A message that is returned has the length some tag tells, and if a byte
\* can count it and the tag has it, it is the one on the tag but for its last
\* two bytes.
THEOREM ReturnsAllButTwo == Spec => []ReadsAllButTwo
<1>1. Type4Inv => ReadsAllButTwo
  BY DEF Type4Inv
<1> QED  BY <1>1, Type4Invariance, PTL
=============================================================================

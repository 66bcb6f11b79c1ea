----------------------- MODULE MifareClassicCellProofs -----------------------
(***************************************************************************)
(* Proofs that the Mifare Classic driver is a message cell: what its loops *)
(* read and write are the bytes of the NDEF area in order, for every tag   *)
(* size, sector layout, set of messages and number of lost calls.          *)
(***************************************************************************)
EXTENDS MifareClassicProofs, FiniteSetTheorems, FunctionTheorems

-----------------------------------------------------------------------------
(***************************************************************************)
(* The inductive invariant: the loops walk through the area block by       *)
(* block.  WrittenPrefix and ReadPrefix are not inductive: that the next   *)
(* bytes come to stand behind those already sent depends on where in the   *)
(* area the block number is, and that it did not wrap on the keys of the   *)
(* first sector.                                                           *)
(***************************************************************************)
ReadPcs == {"rFirstAuth", "rFirst", "rAuth", "rBlock"}

\* Between two operations nothing is read or written yet.
FreshInv ==
  /\ pc # "idle" => ret = NoReturn
  /\ pc \in {"idle", "rFirstAuth", "rFirst"} => index = 0 /\ buf = << >>
  /\ pc \in ReadPcs => key \in ReadKeys

\* The first sector opens with a key it came with, or one it was given.
FirstKeyInv == trailer[0].a \in FirstKeys

\* The header read() works with, and the position of its loop.
ReadArea ==
  pc \in {"rAuth", "rBlock"} =>
    /\ \E i \in 0 .. 15, beyond \in BeyondBlock :
         NdefStartsAt(mem[4], i) /\ tlv = TlvAt(mem[4] \o beyond, i)
    /\ index % 16 = 0 /\ index < GetBufferSize(tlv.len)
    /\ block = AreaBlock(index \div 16)
    /\ pc = "rBlock" => block < BlockRange
    /\ Len(buf) = index
    /\ \A n \in 0 .. (index - 1) : AreaHas(n) /\ buf[n + 1] = AreaByte(n)

\* The position of the loop of write().
WriteArea ==
  pc \in {"wAuth", "wBlock"} =>
    /\ block = AreaBlock(index \div 16) % BlockRange
    /\ pc = "wBlock" => AreaBlock(index \div 16) < BlockRange
    /\ \A n \in 0 .. (index - 1) : /\ AreaHas(n)
                                   /\ AreaByte(n) = Image(msg)[n + 1]

CellInv == FreshInv /\ FirstKeyInv /\ ReadArea /\ WriteArea

\* Whatever the driver leaves in the first block of the area, it can read.
HeaderInv == HeaderReadable(mem[4])

\* formatNDEF has given their keys to the sectors before the current one,
\* and has left the empty record behind.
FormatInv ==
  pc \in {"fAuth", "fBlock"} =>
    /\ \A s \in Sectors : s < SectorOf(block) =>
         trailer[s] = FormattedTrailer(s)
    /\ block > 4 => mem[4] = EmptyNdefMesg

\* A failure tells that the tag was full.
ReadFailInv == OpenBeyond => ReadRecognises
WriteFailInv == OpenBeyond => WriteFailsOnlyWhenFull
-----------------------------------------------------------------------------
(* The blocks of the NDEF area. *)

LEMMA Geometry ==
  \E l \in Nat : /\ l >= 1 /\ LongStart = 16 * l
                 /\ ShortDataBlocks = 12 * l - 3
                 /\ NumBlocks \in Nat /\ NumBlocks >= 8 /\ NumBlocks % 4 = 0
                 /\ NumBlocks > LongStart => NumBlocks % 16 = 0
                 /\ BlockRange \in Nat /\ NumBlocks <= BlockRange
<1>1. LongStart \in Nat /\ LongStart >= 16 /\ LongStart % 16 = 0
  BY LongStartAssumption
<1> DEFINE l == LongStart \div 16
<1>2. l \in Nat /\ l >= 1 /\ LongStart = 16 * l
  BY <1>1
<1> HIDE DEF l
<1>3. ShortDataBlocks = 12 * l - 3
  <2>1. LongStart \div 4 = 4 * l
    BY <1>2
  <2> QED  BY <1>2, <2>1 DEF ShortDataBlocks
<1>4. /\ NumBlocks \in Nat /\ NumBlocks >= 8 /\ NumBlocks % 4 = 0
      /\ NumBlocks > LongStart => NumBlocks % 16 = 0
      /\ BlockRange \in Nat /\ NumBlocks <= BlockRange
  BY ClassicAssumption, BlockRangeAssumption
<1> QED  BY <1>2, <1>3, <1>4

\* The k-th block of the area, in a short sector or in a long one.
LEMMA AreaBlockCases ==
  ASSUME NEW k \in Nat, NEW l \in Nat, l >= 1, LongStart = 16 * l,
         ShortDataBlocks = 12 * l - 3
  PROVE  \/ \E q \in Nat, r \in 0 .. 2 :
              /\ k = 3 * q + r /\ q < 4 * l - 1
              /\ AreaBlock(k) = 4 * q + r + 4
         \/ \E q \in Nat, r \in 0 .. 14 :
              /\ k = 12 * l - 3 + 15 * q + r
              /\ AreaBlock(k) = 16 * l + 16 * q + r
<1>1. CASE k < 12 * l - 3
  <2>1. AreaBlock(k) = 4 + 4 * (k \div 3) + (k % 3)
    BY <1>1 DEF AreaBlock
  <2>2. k \div 3 \in Nat /\ k % 3 \in 0 .. 2 /\ k = 3 * (k \div 3) + (k % 3)
    OBVIOUS
  <2>3. k \div 3 < 4 * l - 1
    BY <1>1, <2>2
  <2> DEFINE q == k \div 3
             r == k % 3
  <2>4. q \in Nat /\ r \in 0 .. 2 /\ k = 3 * q + r /\ q < 4 * l - 1
        /\ AreaBlock(k) = 4 + 4 * q + r
    BY <2>1, <2>2, <2>3
  <2> HIDE DEF q, r
  <2>5. AreaBlock(k) = 4 * q + r + 4
    BY <2>4
  <2> QED  BY <2>4, <2>5
<1>2. CASE ~(k < 12 * l - 3)
  <2> DEFINE j == k - (12 * l - 3)
             q == j \div 15
             r == j % 15
  <2>1. j \in Nat /\ k = 12 * l - 3 + j
    BY <1>2
  <2>2. AreaBlock(k) = 16 * l + 16 * q + r
    BY <1>2 DEF AreaBlock
  <2> HIDE DEF j
  <2>3. q \in Nat /\ r \in 0 .. 14 /\ j = 15 * q + r
    BY <2>1
  <2> HIDE DEF q, r
  <2>4. k = 12 * l - 3 + 15 * q + r
    BY <2>1, <2>3
  <2> QED  BY <2>2, <2>3, <2>4
<1> QED  BY <1>1, <1>2

LEMMA AreaBlockType ==
  ASSUME NEW k \in Nat
  PROVE  /\ AreaBlock(k) \in Nat /\ AreaBlock(k) >= 4
         /\ ~IsTrailer(AreaBlock(k))
         /\ k = 0 => AreaBlock(k) = 4
         /\ k > 0 => AreaBlock(k) > 4
<1>1. PICK l \in Nat : /\ l >= 1 /\ LongStart = 16 * l
                       /\ ShortDataBlocks = 12 * l - 3
  BY Geometry
<1>2. \/ \E q \in Nat, r \in 0 .. 2 :
           /\ k = 3 * q + r /\ q < 4 * l - 1
           /\ AreaBlock(k) = 4 * q + r + 4
      \/ \E q \in Nat, r \in 0 .. 14 :
           /\ k = 12 * l - 3 + 15 * q + r
           /\ AreaBlock(k) = 16 * l + 16 * q + r
  BY <1>1, AreaBlockCases
<1>3. ASSUME NEW q \in Nat, NEW r \in 0 .. 2, k = 3 * q + r, q < 4 * l - 1,
             AreaBlock(k) = 4 * q + r + 4
      PROVE  /\ AreaBlock(k) < LongStart
             /\ (AreaBlock(k) + 1) % 4 # 0
             /\ AreaBlock(k) \in Nat /\ AreaBlock(k) >= 4
             /\ k = 0 => AreaBlock(k) = 4
             /\ k > 0 => AreaBlock(k) > 4
  BY <1>1, <1>3
<1>4. ASSUME NEW q \in Nat, NEW r \in 0 .. 14,
             k = 12 * l - 3 + 15 * q + r,
             AreaBlock(k) = 16 * l + 16 * q + r
      PROVE  /\ AreaBlock(k) >= LongStart
             /\ (AreaBlock(k) + 1) % 16 # 0
             /\ AreaBlock(k) \in Nat /\ AreaBlock(k) > 4 /\ k > 0
  BY <1>1, <1>4
<1> QED  BY <1>1, <1>2, <1>3, <1>4 DEF IsTrailer

\* The step of the loops leads from each block of the area to the next.
LEMMA AreaNext ==
  ASSUME NEW k \in Nat
  PROVE  SkipTrailer(AreaBlock(k) + 1) = AreaBlock(k + 1)
<1>1. PICK l \in Nat : /\ l >= 1 /\ LongStart = 16 * l
                       /\ ShortDataBlocks = 12 * l - 3
  BY Geometry
<1>2. \/ \E q \in Nat, r \in 0 .. 2 :
           /\ k = 3 * q + r /\ q < 4 * l - 1
           /\ AreaBlock(k) = 4 * q + r + 4
      \/ \E q \in Nat, r \in 0 .. 14 :
           /\ k = 12 * l - 3 + 15 * q + r
           /\ AreaBlock(k) = 16 * l + 16 * q + r
  BY <1>1, AreaBlockCases
<1> DEFINE n == k + 1
<1>3. n \in Nat
  OBVIOUS
<1>4. \/ \E q \in Nat, r \in 0 .. 2 :
           /\ n = 3 * q + r /\ q < 4 * l - 1
           /\ AreaBlock(n) = 4 * q + r + 4
      \/ \E q \in Nat, r \in 0 .. 14 :
           /\ n = 12 * l - 3 + 15 * q + r
           /\ AreaBlock(n) = 16 * l + 16 * q + r
  BY <1>1, <1>3, AreaBlockCases
<1>5. ASSUME NEW q \in Nat, NEW r \in 0 .. 2, k = 3 * q + r, q < 4 * l - 1,
             AreaBlock(k) = 4 * q + r + 4
      PROVE  SkipTrailer(AreaBlock(k) + 1) = AreaBlock(n)
  <2>1. SkipTrailer(AreaBlock(k) + 1) = IF r = 2 THEN 4 * q + 8 ELSE 4 * q + r + 5
    BY <1>1, <1>5 DEF SkipTrailer, IsTrailer
  <2>2. AreaBlock(n) = IF r = 2 THEN 4 * q + 8 ELSE 4 * q + r + 5
    BY <1>1, <1>4, <1>5
  <2> QED  BY <2>1, <2>2
<1>6. ASSUME NEW q \in Nat, NEW r \in 0 .. 14,
             k = 12 * l - 3 + 15 * q + r,
             AreaBlock(k) = 16 * l + 16 * q + r
      PROVE  SkipTrailer(AreaBlock(k) + 1) = AreaBlock(n)
  <2>1. SkipTrailer(AreaBlock(k) + 1) =
          IF r = 14 THEN 16 * l + 16 * q + 16 ELSE 16 * l + 16 * q + r + 1
    BY <1>1, <1>6 DEF SkipTrailer, IsTrailer
  <2>2. AreaBlock(n) =
          IF r = 14 THEN 16 * l + 16 * q + 16 ELSE 16 * l + 16 * q + r + 1
    BY <1>1, <1>4, <1>6
  <2> QED  BY <2>1, <2>2
<1> QED  BY <1>2, <1>5, <1>6

\* The number of data blocks of the area on the tag.
AreaBlocks ==
  IF NumBlocks <= LongStart
    THEN 3 * ((NumBlocks \div 4) - 1)
    ELSE ShortDataBlocks + 15 * ((NumBlocks - LongStart) \div 16)

LEMMA AreaOnTag ==
  ASSUME NEW k \in Nat
  PROVE  /\ AreaBlocks \in Nat /\ AreaBlocks >= 3
         /\ AreaBlock(k) \in DataBlocks <=> k < AreaBlocks
<1>1. PICK l \in Nat : /\ l >= 1 /\ LongStart = 16 * l
                       /\ ShortDataBlocks = 12 * l - 3
                       /\ NumBlocks \in Nat /\ NumBlocks >= 8
                       /\ NumBlocks % 4 = 0
                       /\ NumBlocks > LongStart => NumBlocks % 16 = 0
  BY Geometry
<1>2. AreaBlock(k) \in DataBlocks <=> AreaBlock(k) < NumBlocks
  BY <1>1, AreaBlockType DEF DataBlocks, Blocks
<1>3. \/ \E q \in Nat, r \in 0 .. 2 :
           /\ k = 3 * q + r /\ q < 4 * l - 1
           /\ AreaBlock(k) = 4 * q + r + 4
      \/ \E q \in Nat, r \in 0 .. 14 :
           /\ k = 12 * l - 3 + 15 * q + r
           /\ AreaBlock(k) = 16 * l + 16 * q + r
  BY <1>1, AreaBlockCases
<1>4. CASE NumBlocks <= LongStart
  <2>1. PICK m \in Nat : NumBlocks = 4 * m
    <3>1. NumBlocks \div 4 \in Nat /\ NumBlocks = 4 * (NumBlocks \div 4)
      BY <1>1
    <3> QED  BY <3>1
  <2>2. m >= 2 /\ m <= 4 * l /\ AreaBlocks = 3 * (m - 1)
    BY <1>1, <1>4, <2>1 DEF AreaBlocks
  <2>3. AreaBlock(k) < NumBlocks <=> k < AreaBlocks
    BY <1>1, <1>3, <2>1, <2>2
  <2> QED  BY <1>2, <2>2, <2>3
<1>5. CASE NumBlocks > LongStart
  <2>1. PICK m \in Nat : NumBlocks = 16 * l + 16 * m
    <3>1. NumBlocks \div 16 \in Nat /\ NumBlocks = 16 * (NumBlocks \div 16)
      BY <1>1, <1>5
    <3>2. NumBlocks \div 16 > l
      BY <1>1, <1>5, <3>1
    <3>3. (NumBlocks \div 16) - l \in Nat
      BY <3>1, <3>2
    <3> QED  BY <3>1, <3>3
  <2>2. AreaBlocks = 12 * l - 3 + 15 * m
    BY <1>1, <1>5, <2>1 DEF AreaBlocks
  <2>3. AreaBlock(k) < NumBlocks <=> k < AreaBlocks
    BY <1>1, <1>3, <2>1, <2>2
  <2> QED  BY <1>1, <1>2, <2>2, <2>3
<1> QED  BY <1>1, <1>4, <1>5

\* The area visits its blocks in the order of their numbers.
LEMMA AreaAscends ==
  ASSUME NEW j \in Nat, NEW k \in Nat, j < k
  PROVE  AreaBlock(j) < AreaBlock(k)
<1>1. PICK l \in Nat : /\ l >= 1 /\ LongStart = 16 * l
                       /\ ShortDataBlocks = 12 * l - 3
  BY Geometry
<1>2. \/ \E q \in Nat, r \in 0 .. 2 :
           /\ j = 3 * q + r /\ q < 4 * l - 1
           /\ AreaBlock(j) = 4 * q + r + 4
      \/ \E q \in Nat, r \in 0 .. 14 :
           /\ j = 12 * l - 3 + 15 * q + r
           /\ AreaBlock(j) = 16 * l + 16 * q + r
  BY <1>1, AreaBlockCases
<1>3. \/ \E q \in Nat, r \in 0 .. 2 :
           /\ k = 3 * q + r /\ q < 4 * l - 1
           /\ AreaBlock(k) = 4 * q + r + 4
      \/ \E q \in Nat, r \in 0 .. 14 :
           /\ k = 12 * l - 3 + 15 * q + r
           /\ AreaBlock(k) = 16 * l + 16 * q + r
  BY <1>1, AreaBlockCases
<1> QED  BY <1>1, <1>2, <1>3

LEMMA AreaReached ==
  ASSUME NEW b \in DataBlocks, b >= 4
  PROVE  \E k \in Nat : AreaBlock(k) = b
<1>1. PICK l \in Nat : /\ l >= 1 /\ LongStart = 16 * l
                       /\ ShortDataBlocks = 12 * l - 3
                       /\ NumBlocks \in Nat
  BY Geometry
<1>2. b \in Nat /\ ~IsTrailer(b)
  BY <1>1 DEF DataBlocks, Blocks
<1>3. CASE b < LongStart
  <2> DEFINE q == (b \div 4) - 1
             r == b % 4
  <2>1. q \in Nat /\ r \in 0 .. 3 /\ b = 4 * q + r + 4
    BY <1>2
  <2>2. r # 3
    BY <1>2, <1>3 DEF IsTrailer
  <2> HIDE DEF q, r
  <2> DEFINE k == 3 * q + r
  <2>3. k \in Nat /\ k < ShortDataBlocks /\ k \div 3 = q /\ k % 3 = r
    BY <1>1, <1>3, <2>1, <2>2
  <2> HIDE DEF k
  <2>4. AreaBlock(k) = b
    BY <2>1, <2>3 DEF AreaBlock
  <2> QED  BY <2>3, <2>4
<1>4. CASE ~(b < LongStart)
  <2> DEFINE c == b - LongStart
             q == c \div 16
             r == c % 16
  <2>1. c \in Nat /\ b = LongStart + c
    BY <1>1, <1>2, <1>4
  <2>2. (b + 1) % 16 # 0
    BY <1>2, <1>4 DEF IsTrailer
  <2> HIDE DEF c
  <2>3. q \in Nat /\ r \in 0 .. 15 /\ c = 16 * q + r
    BY <2>1
  <2> HIDE DEF q, r
  <2>4. r # 15
    BY <1>1, <2>1, <2>2, <2>3
  <2> DEFINE j == 15 * q + r
             k == ShortDataBlocks + j
  <2>5. j \in Nat /\ j \div 15 = q /\ j % 15 = r
    BY <2>3, <2>4
  <2> HIDE DEF j
  <2>6. k \in Nat /\ ~(k < ShortDataBlocks) /\ k - ShortDataBlocks = j
    BY <1>1, <2>5
  <2> HIDE DEF k
  <2>7. AreaBlock(k) = LongStart + 16 * (j \div 15) + (j % 15)
    BY <2>6 DEF AreaBlock
  <2>8. LongStart \in Nat /\ AreaBlock(k) = LongStart + 16 * q + r
    BY <1>1, <2>5, <2>7
  <2>9. AreaBlock(k) = b
    BY <2>1, <2>3, <2>8
  <2> QED  BY <2>6, <2>9
<1> QED  BY <1>3, <1>4

LEMMA AreaSizes ==
  AreaSize = 16 * AreaBlocks /\ AreaBlocks \in Nat /\ AreaBlocks >= 3
<1> DEFINE S == 0 .. (AreaBlocks - 1)
           T == {b \in DataBlocks : b >= 4}
           f == [k \in S |-> AreaBlock(k)]
<1>1. AreaBlocks \in Nat /\ AreaBlocks >= 3
  BY AreaOnTag
<1>2. \A k \in S : k \in Nat /\ AreaBlock(k) \in T
  BY <1>1, AreaOnTag, AreaBlockType
<1>3. f \in [S -> T]
  BY <1>2
<1>4. ASSUME NEW j \in S, NEW k \in S, AreaBlock(j) = AreaBlock(k)
      PROVE  j = k
  <2>1. j \in Nat /\ k \in Nat /\ AreaBlock(j) \in Nat /\ AreaBlock(k) \in Nat
    BY <1>2, AreaBlockType
  <2>2. ~(j < k) /\ ~(k < j)
    BY <1>4, <2>1, AreaAscends
  <2> QED  BY <2>1, <2>2
<1>5. ASSUME NEW b \in T
      PROVE  \E k \in S : f[k] = b
  <2>1. PICK k \in Nat : AreaBlock(k) = b
    BY <1>5, AreaReached
  <2>2. k \in S
    BY <1>1, <2>1, AreaOnTag
  <2> QED  BY <2>1, <2>2
<1>6. f \in Bijection(S, T)
  <2>1. \A j, k \in S : f[j] = f[k] => j = k
    BY <1>4
  <2>2. \A b \in T : \E k \in S : f[k] = b
    BY <1>5
  <2> HIDE DEF f, S, T
  <2> QED  BY <1>3, <2>1, <2>2, Fun_IsBij
<1>7. IsFiniteSet(S) /\ Cardinality(S) = AreaBlocks
  BY <1>1, FS_Interval
<1>8. Cardinality(T) = AreaBlocks
  <2>1. ExistsBijection(S, T)
    BY <1>6 DEF ExistsBijection
  <2> QED  BY <1>7, <2>1, FS_Bijection
<1> QED  BY <1>1, <1>8 DEF AreaSize
-----------------------------------------------------------------------------
(* What the steps do to the tag. *)

\* A data command with the number of an existing block that is no trailer
\* changes that block or nothing.
LEMMA DataEffect ==
  ASSUME NEW b \in Nat, b < BlockRange, ~IsTrailer(b), NEW data,
         WriteOk(b, data) \/ WriteFails(b, data)
  PROVE  /\ trailer' = trailer
         /\ mem' = mem \/ (b \in DataBlocks /\ mem' = [mem EXCEPT ![b] = data])
         /\ WriteOk(b, data) =>
              b \in DataBlocks /\ mem' = [mem EXCEPT ![b] = data]
<1>1. b % BlockRange = b
  BY SmallBlock
<1>2. ASSUME CanWrite(b), Store(b % BlockRange, data)
      PROVE  /\ b \in DataBlocks /\ mem' = [mem EXCEPT ![b] = data]
             /\ trailer' = trailer
  <2>1. b \in DataBlocks
    BY <1>1, <1>2, WriteAccess DEF CanAccess, DataBlocks
  <2> QED  BY <1>1, <1>2, <2>1 DEF Store
<1>3. CASE WriteOk(b, data)
  BY <1>2, <1>3 DEF WriteOk
<1>4. CASE WriteFails(b, data) /\ ~WriteOk(b, data)
  BY <1>2, <1>4 DEF WriteFails, tag
<1> QED  BY <1>3, <1>4

\* Steps that change neither data nor keys.
LEMMA QuietStep ==
  ASSUME Begins \/ Reads \/ WriteAuth \/ FormatAuth \/ CleanAuth
  PROVE  mem' = mem /\ trailer' = trailer
<1>1. CASE Begins
  BY <1>1 DEF Begins, StartRead, StartWrite, StartFormat, StartClean, Begin, tag
<1>2. CASE Reads
  BY <1>2 DEF Reads, ReadFirstAuth, ReadFirst, ReadAuth, ReadBlock, AuthOk,
              AuthFails, ReadOk, ReadFails, tag
<1>3. CASE WriteAuth \/ FormatAuth \/ CleanAuth
  BY <1>3 DEF WriteAuth, FormatAuth, CleanAuth, AuthOk, AuthFails, tag
<1> QED  BY <1>1, <1>2, <1>3

LEMMA WriteEffect ==
  ASSUME IInv, WriteBlock
  PROVE  LET data == Slice(Image(msg), index)
         IN  /\ trailer' = trailer
             /\ \/ mem' = mem
                \/ block \in DataBlocks /\ mem' = [mem EXCEPT ![block] = data]
             /\ WriteOk(block, data) =>
                  block \in DataBlocks /\ mem' = [mem EXCEPT ![block] = data]
<1>1. block \in Nat /\ block < BlockRange /\ ~IsTrailer(block)
  BY DEF IInv, TypeOK, Locals, WritePosition, WriteBlock
<1> QED  BY <1>1, DataEffect DEF WriteBlock

LEMMA FormatEffect ==
  ASSUME IInv, FormatBlock
  PROVE  LET data == FormatData(block)
         IN  /\ trailer' = trailer
             /\ \/ mem' = mem
                \/ block \in DataBlocks /\ mem' = [mem EXCEPT ![block] = data]
             /\ WriteOk(block, data) =>
                  block \in DataBlocks /\ mem' = [mem EXCEPT ![block] = data]
<1>1. block \in Nat /\ block < BlockRange /\ ~IsTrailer(block)
  BY ShortBlock DEF IInv, TypeOK, Locals, FormatPosition, FormatBlock
<1> QED  BY <1>1, DataEffect DEF FormatBlock

LEMMA CleanEffect ==
  ASSUME IInv, CleanBlock
  PROVE  /\ trailer' = trailer
         /\ \/ mem' = mem
            \/ block \in DataBlocks /\ mem' = [mem EXCEPT ![block] = EmptyBlock]
<1>1. block \in Nat /\ block < BlockRange /\ ~IsTrailer(block)
  BY ShortBlock DEF IInv, TypeOK, Locals, CleanPosition, CleanBlock
<1> QED  BY <1>1, DataEffect DEF CleanBlock

\* formatNDEF and formatMifare give a sector its trailer or leave it alone.
LEMMA KeysEffect ==
  ASSUME FormatTrailer \/ CleanTrailer
  PROVE  LET keys == IF FormatTrailer THEN FormatKeys(block) ELSE FactoryTrailer
         IN  /\ mem' = mem
             /\ \/ trailer' = trailer
                \/ trailer' = [trailer EXCEPT ![SectorOf(block)] = keys]
<1>1. CASE FormatTrailer
  BY <1>1 DEF FormatTrailer, KeysOk, KeysFail, StoreKeys, tag
<1>2. CASE CleanTrailer /\ ~FormatTrailer
  BY <1>2 DEF CleanTrailer, KeysOk, KeysFail, StoreKeys, tag
<1> QED  BY <1>1, <1>2

LEMMA FirstKeyInit == Init => FirstKeyInv
  BY DEF Init, FirstKeyInv, FirstKeys

LEMMA FirstKeyStep ==
  ASSUME IInv, FirstKeyInv, [Next]_vars
  PROVE  FirstKeyInv'
<1>1. CASE trailer' = trailer
  BY <1>1 DEF FirstKeyInv, FirstKeys
<1>2. CASE FormatTrailer \/ CleanTrailer
  <2>1. trailer \in [Sectors -> SectorTrailer] /\ block \in Nat
    BY DEF IInv, TypeOK, TagAndLink, Locals
  <2>2. 0 \in Sectors
    <3>1. 0 \in Blocks /\ SectorOf(0) = 0
      BY LongStartAssumption, ClassicAssumption DEF Blocks, SectorOf
    <3> QED  BY <3>1 DEF Sectors
  <2>3. SectorOf(block) = 0 /\ IsTrailer(block) => block = 3
    BY <2>1, LongStartAssumption DEF SectorOf, IsTrailer
  <2>4. IsTrailer(block)
    BY <1>2 DEF FormatTrailer, CleanTrailer
  <2> DEFINE keys == IF FormatTrailer THEN FormatKeys(block) ELSE FactoryTrailer
  <2>5. SectorOf(block) = 0 => keys.a \in {"mad", "factory"}
    BY <2>3, <2>4 DEF FormatKeys, MadTrailer, FactoryTrailer
  <2>6. \/ trailer' = trailer
        \/ trailer' = [trailer EXCEPT ![SectorOf(block)] = keys]
    BY <1>2, KeysEffect
  <2> HIDE DEF keys
  <2>7. trailer'[0].a = trailer[0].a \/ trailer'[0].a \in {"mad", "factory"}
    BY <2>1, <2>2, <2>5, <2>6
  <2> QED  BY <2>7 DEF FirstKeyInv, FirstKeys
<1>3. CASE UNCHANGED vars
  BY <1>1, <1>3 DEF vars
<1>4. CASE Next /\ ~(FormatTrailer \/ CleanTrailer)
  <2>1. trailer' = trailer
    BY <1>4, QuietStep, WriteEffect, FormatEffect, CleanEffect
       DEF Next, Writes, Formats, Cleans
  <2> QED  BY <1>1, <2>1
<1> QED  BY <1>2, <1>3, <1>4
-----------------------------------------------------------------------------
(* The loops stay on the tag. *)

\* Behind a block of the area comes another one, or the end of the tag.
LEMMA AreaBound ==
  ASSUME NEW k \in Nat, k = 0 \/ AreaBlock(k - 1) \in DataBlocks
  PROVE  AreaBlock(k) <= NumBlocks
<1>1. CASE k = 0
  BY <1>1, AreaBlockType, ClassicAssumption
<1>2. CASE k > 0
  <2> DEFINE b == AreaBlock(k - 1)
  <2>1. b \in Nat /\ ~IsTrailer(b) /\ b < NumBlocks /\ NumBlocks \in Nat
    BY <1>2, AreaBlockType, ClassicAssumption DEF DataBlocks, Blocks
  <2>2. (k - 1) \in Nat /\ (k - 1) + 1 = k
    BY <1>2
  <2>3. AreaBlock(k) = SkipTrailer(b + 1)
    BY <2>2, AreaNext
  <2> HIDE DEF b
  <2>4. IsTrailer(NumBlocks - 1)
    BY Geometry DEF IsTrailer
  <2>5. b + 1 < NumBlocks
    BY <2>1, <2>4
  <2>6. b + 2 <= NumBlocks
    BY <2>1, <2>5
  <2> QED  BY <2>1, <2>3, <2>6 DEF SkipTrailer
<1> QED  BY <1>1, <1>2

\* The position of a loop that has read or written i bytes of the area.
LEMMA LoopPosition ==
  ASSUME NEW i \in Nat, i % 16 = 0, \A n \in 0 .. (i - 1) : AreaHas(n)
  PROVE  /\ i \div 16 \in Nat /\ i = 16 * (i \div 16)
         /\ AreaBlock(i \div 16) <= NumBlocks
         /\ AreaBlock(i \div 16) <= BlockRange
<1>1. i \div 16 \in Nat /\ i = 16 * (i \div 16)
  OBVIOUS
<1>2. i \div 16 = 0 \/ AreaBlock((i \div 16) - 1) \in DataBlocks
  <2>1. CASE i > 0
    <3>1. i - 1 \in 0 .. (i - 1) /\ (i - 1) \div 16 = (i \div 16) - 1
      BY <2>1
    <3>2. AreaHas(i - 1)
      BY <3>1
    <3> QED  BY <3>1, <3>2 DEF AreaHas
  <2> QED  BY <2>1
<1>3. AreaBlock(i \div 16) <= NumBlocks
  BY <1>1, <1>2, AreaBound
<1>4. AreaBlock(i \div 16) <= BlockRange
  <2>1. AreaBlock(i \div 16) \in Nat
    BY <1>1, AreaBlockType
  <2>2. NumBlocks \in Nat /\ BlockRange \in Nat /\ NumBlocks <= BlockRange
    BY ClassicAssumption, BlockRangeAssumption
  <2> QED  BY <1>3, <2>1, <2>2
<1> QED  BY <1>1, <1>3, <1>4

\* The block number wraps to a sector whose key no operation has.
LEMMA NoWrap ==
  ASSUME DirectoryApart, FirstKeyInv, NEW b \in Nat, b <= NumBlocks,
         NEW k \in ReadKeys \cup {"ndef"}, CanAuth(b, "a", k)
  PROVE  b < BlockRange
<1>1. NumBlocks \in Nat /\ BlockRange \in Nat /\ NumBlocks <= BlockRange
      /\ BlockRange > 0
  BY ClassicAssumption, BlockRangeAssumption
<1>2. SUFFICES ASSUME b = BlockRange PROVE FALSE
  BY <1>1
<1>3. b % BlockRange = 0
  BY <1>1, <1>2, ModSelf
<1>4. SectorOf(0) = 0
  BY LongStartAssumption DEF SectorOf
<1>5. trailer[0].a = k
  <2>1. trailer[SectorOf(0)]["a"] = k
    BY <1>3 DEF CanAuth
  <2> QED  BY <1>4, <2>1
<1>6. FirstKeys \cap (ReadKeys \cup {"ndef"}) = {}
  BY <1>1, <1>2 DEF DirectoryApart
<1> QED  BY <1>5, <1>6 DEF FirstKeyInv

LEMMA AreaSame ==
  ASSUME mem' = mem
  PROVE  \A n : AreaByte(n)' = AreaByte(n)
  BY DEF AreaByte

\* A block of the area that has been written holds its sixteen bytes, and
\* the ones before it are as they were.
LEMMA AreaStore ==
  ASSUME mem \in [DataBlocks -> BlockData], NEW i \in Nat, i % 16 = 0,
         AreaBlock(i \div 16) \in DataBlocks, NEW data,
         mem' = [mem EXCEPT ![AreaBlock(i \div 16)] = data],
         NEW n \in 0 .. (i + 15), AreaHas(n)
  PROVE  AreaByte(n)' = IF n < i THEN AreaByte(n) ELSE data[(n - i) + 1]
<1> DEFINE k == i \div 16
           j == n \div 16
<1>1. k \in Nat /\ i = 16 * k /\ n \in Nat
  OBVIOUS
<1>2. j \in Nat /\ AreaBlock(j) \in DataBlocks
  BY DEF AreaHas
<1>3. CASE n < i
  <2>1. j < k
    BY <1>1, <1>3
  <2>2. AreaBlock(j) # AreaBlock(k)
    <3>1. AreaBlock(j) < AreaBlock(k)
      BY <1>1, <1>2, <2>1, AreaAscends
    <3>2. AreaBlock(j) \in Nat
      BY <1>2, AreaBlockType
    <3> QED  BY <3>1, <3>2
  <2>3. mem'[AreaBlock(j)] = mem[AreaBlock(j)]
    BY <1>2, <2>2
  <2> QED  BY <1>3, <2>3 DEF AreaByte
<1>4. CASE ~(n < i)
  <2>1. j = k /\ n % 16 = n - i
    BY <1>1, <1>4
  <2>2. mem'[AreaBlock(j)] = data
    BY <2>1
  <2> QED  BY <1>4, <2>1, <2>2 DEF AreaByte
<1> QED  BY <1>3, <1>4

\* A step of a loop comes to the next block of the area.
LEMMA NextPosition ==
  ASSUME NEW i \in Nat, i % 16 = 0
  PROVE  /\ (i + 16) \div 16 = (i \div 16) + 1
         /\ SkipTrailer(AreaBlock(i \div 16) + 1) = AreaBlock((i + 16) \div 16)
         /\ (i + 16) % 16 = 0
         /\ \A n \in i .. (i + 15) : n \div 16 = i \div 16 /\ n % 16 = n - i
<1>1. (i + 16) \div 16 = (i \div 16) + 1 /\ i \div 16 \in Nat
      /\ (i + 16) % 16 = 0
  OBVIOUS
<1>2. \A n \in i .. (i + 15) : n \div 16 = i \div 16 /\ n % 16 = n - i
  OBVIOUS
<1> QED  BY <1>1, <1>2, AreaNext
-----------------------------------------------------------------------------
(* The inductive invariant of the loops, step by step. *)

LEMMA CellInit == Init => CellInv
<1> SUFFICES ASSUME Init PROVE CellInv
  OBVIOUS
<1>1. FirstKeyInv
  BY FirstKeyInit
<1>2. FreshInv /\ ReadArea /\ WriteArea
  BY DEF Init, FreshInv, ReadArea, WriteArea, ReadPcs
<1> QED  BY <1>1, <1>2 DEF CellInv

LEMMA CellReturns ==
  ASSUME NEW op, NEW result, NEW m, Return(op, result, m), FirstKeyInv'
  PROVE  CellInv'
  BY DEF Return, CellInv, FreshInv, ReadArea, WriteArea, ReadPcs

\* Steps of formatNDEF and formatMifare.
LEMMA CellElsewhere ==
  ASSUME FirstKeyInv', ret' = ret, CellInv,
         pc \in {"fAuth", "fBlock", "cAuth", "cBlock"},
         pc' \in {"fAuth", "fBlock", "cAuth", "cBlock"}
  PROVE  CellInv'
  BY DEF CellInv, FreshInv, ReadArea, WriteArea, ReadPcs

LEMMA CellBegins ==
  ASSUME CellInv, FirstKeyInv', Begins
  PROVE  CellInv'
<1>1. /\ index = 0 /\ buf = << >> /\ pc = "idle"
      /\ ret' = NoReturn /\ index' = index /\ buf' = buf
  BY DEF Begins, StartRead, StartWrite, StartFormat, StartClean, Begin,
         CellInv, FreshInv
<1>2. CASE StartRead
  BY <1>1, <1>2 DEF StartRead, Begin, CellInv, FreshInv, ReadArea, WriteArea,
                    ReadPcs
<1>3. CASE StartWrite
  <2>1. pc' = "wAuth" /\ block' = 4
    BY <1>3 DEF StartWrite, Begin
  <2>2. AreaBlock(0 \div 16) % BlockRange = 4
    BY AreaBlockType, FixedBlocks
  <2>3. WriteArea'
    BY <1>1, <2>1, <2>2 DEF WriteArea
  <2>4. FreshInv' /\ ReadArea'
    BY <1>1, <2>1 DEF FreshInv, ReadArea, ReadPcs
  <2> QED  BY <2>3, <2>4 DEF CellInv
<1>4. CASE StartFormat \/ StartClean
  <2>1. pc' \in {"fAuth", "cAuth"}
    BY <1>4 DEF StartFormat, StartClean, Begin
  <2> QED  BY <1>1, <2>1 DEF CellInv, FreshInv, ReadArea, WriteArea, ReadPcs
<1> QED  BY <1>2, <1>3, <1>4 DEF Begins

LEMMA CellReadFirst ==
  ASSUME IInv, IInv', CellInv, FirstKeyInv', ReadFirstAuth \/ ReadFirst
  PROVE  CellInv'
<1>1. /\ pc \in {"rFirstAuth", "rFirst"} /\ block = 4 /\ index = 0
      /\ buf = << >> /\ ret = NoReturn /\ key \in ReadKeys
      /\ mem' = mem
  BY QuietStep
     DEF IInv, ReadPosition, CellInv, FreshInv, ReadPcs, ReadFirstAuth,
         ReadFirst, Reads
<1>2. CASE \E result : Return("read", result, << >>)
  BY <1>2, CellReturns
<1>3. CASE pc' = "rFirst" /\ UNCHANGED <<locals, ret>>
  BY <1>1, <1>3 DEF CellInv, FreshInv, ReadArea, WriteArea, ReadPcs, locals
<1>4. ASSUME NEW beyond \in BeyondBlock, NEW i \in 0 .. 15,
             NdefStartsAt(mem[4], i), tlv' = TlvAt(mem[4] \o beyond, i),
             pc' = "rAuth", UNCHANGED <<key, msg, block, index, buf, ret>>
      PROVE  CellInv'
  <2>1. 0 < GetBufferSize(tlv'.len)
    <3>1. tlv'.len \in Nat
      BY DEF IInv, TypeOK, Locals
    <3> QED  BY <3>1, BufferSize
  <2>2. AreaBlock(0 \div 16) = 4
    BY AreaBlockType
  <2>3. \E j \in 0 .. 15, y \in BeyondBlock :
          NdefStartsAt(mem'[4], j) /\ tlv' = TlvAt(mem'[4] \o y, j)
    BY <1>1, <1>4
  <2>4. ReadArea'
    BY <1>1, <1>4, <2>1, <2>2, <2>3, EmptySeq DEF ReadArea
  <2>5. FreshInv' /\ WriteArea'
    BY <1>1, <1>4 DEF FreshInv, WriteArea, ReadPcs
  <2> QED  BY <2>4, <2>5 DEF CellInv
<1> QED  BY <1>2, <1>3, <1>4 DEF ReadFirstAuth, ReadFirst

LEMMA CellReadAuth ==
  ASSUME DirectoryApart, IInv, CellInv, FirstKeyInv', ReadAuth
  PROVE  CellInv'
<1>1. CASE Return("read", "no message", << >>)
  BY <1>1, CellReturns
<1>2. CASE AuthOk(block, "a", key) /\ pc' = "rBlock" /\ UNCHANGED <<locals, ret>>
  <2>1. /\ pc = "rAuth" /\ ReadArea /\ FreshInv /\ FirstKeyInv
        /\ key \in ReadKeys /\ mem' = mem /\ index \in Nat /\ block \in Nat
    BY QuietStep DEF ReadAuth, Reads, CellInv, FreshInv, ReadPcs, IInv, TypeOK,
                     Locals
  <2>2. block < BlockRange
    <3>1. block <= NumBlocks
      BY <2>1, LoopPosition DEF ReadArea
    <3>2. CanAuth(block, "a", key)
      BY <1>2 DEF AuthOk
    <3> QED  BY <2>1, <3>1, <3>2, NoWrap
  <2>3. ReadArea'
    BY <1>2, <2>1, <2>2, AreaSame DEF ReadArea, locals
  <2>4. FreshInv' /\ WriteArea'
    BY <1>2, <2>1 DEF FreshInv, WriteArea, ReadPcs, locals
  <2> QED  BY <2>3, <2>4 DEF CellInv
<1> QED  BY <1>1, <1>2 DEF ReadAuth

\* A block that read() reads belongs to the area.
LEMMA ReadsArea ==
  ASSUME IInv, ReadArea, pc = "rBlock"
  PROVE  /\ block \in DataBlocks /\ Content(block) = mem[block]
         /\ mem[block] \in BlockData
         /\ block = AreaBlock(index \div 16)
         /\ index \in Nat /\ index % 16 = 0 /\ Len(buf) = index
         /\ buf \in Seq(Byte)
<1>1. /\ block < BlockRange /\ block \in Nat /\ CanAccess(block)
      /\ ~IsTrailer(block) /\ index \in Nat /\ buf \in Seq(Byte)
      /\ mem \in [DataBlocks -> BlockData]
  BY DEF IInv, TypeOK, Locals, TagAndLink, ReadPosition, ReadArea
<1>2. block % BlockRange = block
  BY <1>1, SmallBlock
<1>3. block \in DataBlocks
  BY <1>1, <1>2 DEF CanAccess, DataBlocks
<1> QED  BY <1>1, <1>2, <1>3 DEF ReadArea, Content

\* With one block more, the buffer holds sixteen bytes more of the area.
LEMMA BufferGrows ==
  ASSUME IInv, ReadArea, pc = "rBlock"
  PROVE  LET bytes == buf \o Content(block)
         IN  /\ bytes \in Seq(Byte) /\ Len(bytes) = index + 16
             /\ \A n \in 0 .. (index + 15) :
                  AreaHas(n) /\ bytes[n + 1] = AreaByte(n)
<1> DEFINE next == Content(block)
           bytes == buf \o next
<1>1. /\ block \in DataBlocks /\ next = mem[block] /\ next \in BlockData
      /\ block = AreaBlock(index \div 16)
      /\ index \in Nat /\ index % 16 = 0 /\ Len(buf) = index
      /\ buf \in Seq(Byte)
  BY ReadsArea
<1>2. \A n \in 0 .. (index - 1) : AreaHas(n) /\ buf[n + 1] = AreaByte(n)
  BY DEF ReadArea
<1>3. next \in Seq(Byte) /\ Len(next) = 16 /\ buf \in Seq(Byte)
  <2> HIDE DEF next
  <2>1. next \in [1 .. 16 -> Byte]
    BY <1>1 DEF BlockData
  <2>2. next \in Seq(Byte) /\ Len(next) = 16
    BY <2>1, FunctionIsSeq, 16 \in Nat
  <2> QED  BY <1>1, <2>2
<1>4. \A n \in index .. (index + 15) : n \div 16 = index \div 16 /\ n % 16 = n - index
  BY <1>1, NextPosition
<1>5. \A n \in index .. (index + 15) :
        AreaHas(n) /\ next[(n - index) + 1] = AreaByte(n)
  BY <1>1, <1>4 DEF AreaHas, AreaByte
<1> HIDE DEF next
<1>6. /\ bytes \in Seq(Byte) /\ Len(bytes) = index + 16
      /\ \A n \in 1 .. (index + 16) :
           bytes[n] = IF n <= index THEN buf[n] ELSE next[n - index]
  <2>1. /\ bytes \in Seq(Byte) /\ Len(bytes) = Len(buf) + Len(next)
        /\ \A n \in 1 .. Len(buf) + Len(next) :
             bytes[n] = IF n <= Len(buf) THEN buf[n] ELSE next[n - Len(buf)]
    BY <1>3, ConcatProperties
  <2> HIDE DEF bytes
  <2> QED  BY <1>1, <1>3, <2>1
<1> HIDE DEF bytes
<1>7. ASSUME NEW n \in 0 .. (index + 15)
      PROVE  AreaHas(n) /\ bytes[n + 1] = AreaByte(n)
  <2>1. n + 1 \in 1 .. (index + 16)
    BY <1>1
  <2>2. CASE n < index
    <3>1. n \in 0 .. (index - 1) /\ n + 1 <= index
      BY <1>1, <2>2
    <3> QED  BY <1>2, <1>6, <2>1, <3>1
  <2>3. CASE ~(n < index)
    <3>1. n \in index .. (index + 15) /\ ~(n + 1 <= index)
          /\ (n + 1) - index = (n - index) + 1
      BY <1>1, <2>3
    <3> QED  BY <1>5, <1>6, <2>1, <3>1
  <2> QED  BY <2>2, <2>3
<1> QED  BY <1>6, <1>7 DEF bytes, next

LEMMA CellReadBlock ==
  ASSUME IInv, CellInv, FirstKeyInv', ReadBlock
  PROVE  CellInv'
<1> DEFINE bytes == buf \o Content(block)
<1>1. CASE \E result, m : Return("read", result, m)
  BY <1>1, CellReturns
<1>2. CASE /\ index + 16 < GetBufferSize(tlv.len)
           /\ buf' = bytes
           /\ index' = index + 16
           /\ block' = SkipTrailer(block + 1)
           /\ pc' = IF IsSectorStart(block') THEN "rAuth" ELSE "rBlock"
           /\ UNCHANGED <<key, msg, tlv, ret>>
  <2>1. /\ pc = "rBlock" /\ ReadArea /\ FreshInv /\ mem' = mem
    BY QuietStep DEF ReadBlock, Reads, CellInv
  <2>2. /\ block = AreaBlock(index \div 16) /\ index \in Nat /\ index % 16 = 0
    BY <2>1, ReadsArea
  <2>3. /\ bytes \in Seq(Byte) /\ Len(bytes) = index + 16
        /\ \A n \in 0 .. (index + 15) :
             AreaHas(n) /\ bytes[n + 1] = AreaByte(n)
    BY <2>1, BufferGrows
  <2> HIDE DEF bytes
  <2>4. index' % 16 = 0 /\ block' = AreaBlock(index' \div 16) /\ index' \in Nat
    BY <1>2, <2>2, NextPosition
  <2>5. \A n \in 0 .. (index' - 1) : AreaHas(n) /\ buf'[n + 1] = AreaByte(n)'
    <3>1. index' - 1 = index + 15
      BY <1>2, <2>2
    <3> QED  BY <1>2, <2>1, <2>3, <3>1, AreaSame
  <2>6. pc' = "rBlock" => block' < BlockRange
    <3>1. block' <= BlockRange
      BY <2>4, <2>5, LoopPosition
    <3>2. IsSectorStart(BlockRange)
      BY BlockRangeAssumption, LongStartAssumption DEF IsSectorStart
    <3>3. block' \in Nat /\ BlockRange \in Nat
      BY <2>4, AreaBlockType, BlockRangeAssumption
    <3>4. pc' = "rBlock" => block' # BlockRange
      BY <1>2, <3>2
    <3> QED  BY <3>1, <3>3, <3>4
  <2>7. Len(buf') = index'
    BY <1>2, <2>3
  <2>8. \E i \in 0 .. 15, beyond \in BeyondBlock :
          NdefStartsAt(mem'[4], i) /\ tlv' = TlvAt(mem'[4] \o beyond, i)
    BY <1>2, <2>1 DEF ReadArea
  <2>9. index' < GetBufferSize(tlv'.len)
    BY <1>2
  <2>10. ReadArea'
    BY <2>4, <2>5, <2>6, <2>7, <2>8, <2>9 DEF ReadArea
  <2>11. FreshInv' /\ WriteArea'
    BY <1>2, <2>1 DEF FreshInv, WriteArea, ReadPcs
  <2> QED  BY <2>10, <2>11 DEF CellInv
<1> QED  BY <1>1, <1>2 DEF ReadBlock

\* The bytes of a slice are those of the image from its position on.
LEMMA SliceByte ==
  ASSUME NEW image, NEW i \in Nat, NEW n \in i .. (i + 15)
  PROVE  Slice(image, i)[(n - i) + 1] = image[n + 1]
<1>1. (n - i) + 1 \in 1 .. 16 /\ i + ((n - i) + 1) = n + 1
  OBVIOUS
<1> QED  BY <1>1 DEF Slice

\* A block that write() sends belongs to the area.
LEMMA WritesArea ==
  ASSUME IInv, WriteArea, pc = "wBlock"
  PROVE  /\ block = AreaBlock(index \div 16) /\ block \in DataBlocks
         /\ block \in Nat /\ block < BlockRange /\ ~IsTrailer(block)
         /\ index \in Nat /\ index % 16 = 0
         /\ msg \in Messages /\ index < GetBufferSize(Len(msg))
         /\ mem \in [DataBlocks -> BlockData]
<1>1. /\ block < BlockRange /\ block \in Nat /\ CanAccess(block)
      /\ ~IsTrailer(block) /\ index \in Nat /\ index % 16 = 0
      /\ msg \in Messages /\ index < GetBufferSize(Len(msg))
      /\ mem \in [DataBlocks -> BlockData]
  BY DEF IInv, TypeOK, Locals, TagAndLink, WritePosition
<1>2. /\ block = AreaBlock(index \div 16) % BlockRange
      /\ AreaBlock(index \div 16) < BlockRange
  BY DEF WriteArea
<1>3. block = AreaBlock(index \div 16)
  <2>1. AreaBlock(index \div 16) \in Nat
    <3>1. index \div 16 \in Nat
      BY <1>1
    <3> QED  BY <3>1, AreaBlockType
  <2> QED  BY <1>2, <2>1, SmallBlock
<1>4. block \in DataBlocks
  BY <1>1, SmallBlock DEF CanAccess, DataBlocks
<1> QED  BY <1>1, <1>3, <1>4

\* A block that was written holds the next sixteen bytes of the image.
LEMMA WriteAdvances ==
  ASSUME IInv, WriteArea, pc = "wBlock", WriteBlock,
         WriteOk(block, Slice(Image(msg), index))
  PROVE  \A n \in 0 .. (index + 15) :
           AreaHas(n) /\ AreaByte(n)' = Image(msg)[n + 1]
<1> DEFINE data == Slice(Image(msg), index)
<1>1. /\ block = AreaBlock(index \div 16) /\ block \in DataBlocks
      /\ index \in Nat /\ index % 16 = 0
      /\ mem \in [DataBlocks -> BlockData]
  BY WritesArea
<1>2. mem' = [mem EXCEPT ![block] = data]
  BY WriteEffect
<1>3. \A n \in 0 .. (index - 1) : AreaHas(n) /\ AreaByte(n) = Image(msg)[n + 1]
  BY DEF WriteArea
<1>4. \A n \in index .. (index + 15) : n \div 16 = index \div 16
  BY <1>1, NextPosition
<1>5. ASSUME NEW n \in 0 .. (index + 15)
      PROVE  AreaHas(n) /\ AreaByte(n)' = Image(msg)[n + 1]
  <2>1. CASE n < index
    <3>1. n \in 0 .. (index - 1)
      BY <1>1, <2>1
    <3>2. AreaHas(n) /\ AreaByte(n) = Image(msg)[n + 1]
      BY <1>3, <3>1
    <3>3. AreaByte(n)' = AreaByte(n)
      <4> HIDE DEF data
      <4> QED  BY <1>1, <1>2, <2>1, <3>2, AreaStore
    <3> QED  BY <3>2, <3>3
  <2>2. CASE ~(n < index)
    <3>1. n \in index .. (index + 15)
      BY <1>1, <2>2
    <3>2. AreaHas(n)
      BY <1>1, <1>4, <3>1 DEF AreaHas
    <3>3. AreaByte(n)' = data[(n - index) + 1]
      <4> HIDE DEF data
      <4> QED  BY <1>1, <1>2, <2>2, <3>2, AreaStore
    <3>4. data[(n - index) + 1] = Image(msg)[n + 1]
      BY <1>1, <3>1, SliceByte
    <3> QED  BY <3>2, <3>3, <3>4
  <2> QED  BY <2>1, <2>2
<1> QED  BY <1>5

LEMMA CellWriteAuth ==
  ASSUME DirectoryApart, IInv, CellInv, FirstKeyInv', WriteAuth
  PROVE  CellInv'
<1>1. CASE Return("write", "false", msg)
  BY <1>1, CellReturns
<1>2. CASE AuthOk(block, "a", "ndef") /\ pc' = "wBlock"
           /\ UNCHANGED <<locals, ret>>
  <2>1. /\ pc = "wAuth" /\ WriteArea /\ FreshInv /\ FirstKeyInv
        /\ mem' = mem /\ index \in Nat /\ index % 16 = 0
    BY QuietStep DEF WriteAuth, CellInv, IInv, TypeOK, Locals, WritePosition
  <2> DEFINE b == AreaBlock(index \div 16)
  <2>2. b \in Nat /\ b <= NumBlocks /\ b <= BlockRange /\ block = b % BlockRange
    <3>1. index \div 16 \in Nat
      BY <2>1
    <3>2. \A n \in 0 .. (index - 1) : AreaHas(n)
      BY <2>1 DEF WriteArea
    <3> QED  BY <2>1, <3>1, <3>2, AreaBlockType, LoopPosition DEF WriteArea
  <2> HIDE DEF b
  <2>3. b < BlockRange
    <3>1. BlockRange \in Nat /\ BlockRange > 0
      BY BlockRangeAssumption, LongStartAssumption
    <3>2. b % BlockRange = block /\ block % BlockRange = block
      <4>1. b % BlockRange \in Nat /\ b % BlockRange < BlockRange
        BY <2>2, <3>1, Z3
      <4> QED  BY <2>2, <4>1, SmallBlock
    <3>3. CanAuth(b, "a", "ndef")
      BY <1>2, <3>2 DEF AuthOk, CanAuth
    <3> QED  BY <2>1, <2>2, <3>3, NoWrap
  <2>4. WriteArea'
    BY <1>2, <2>1, <2>3, AreaSame DEF WriteArea, locals, b
  <2>5. FreshInv' /\ ReadArea'
    BY <1>2, <2>1 DEF FreshInv, ReadArea, ReadPcs, locals
  <2> QED  BY <2>4, <2>5 DEF CellInv
<1> QED  BY <1>1, <1>2 DEF WriteAuth

LEMMA CellWriteBlock ==
  ASSUME IInv, CellInv, FirstKeyInv', WriteBlock
  PROVE  CellInv'
<1>1. CASE \E result : Return("write", result, msg)
  BY <1>1, CellReturns
<1>2. CASE /\ WriteOk(block, Slice(Image(msg), index))
           /\ index' = index + 16
           /\ block' = NextWriteBlock(block)
           /\ pc' = IF IsSectorStart(block') THEN "wAuth" ELSE "wBlock"
           /\ UNCHANGED <<key, msg, buf, tlv, ret>>
  <2>1. pc = "wBlock" /\ WriteArea /\ FreshInv
    BY DEF WriteBlock, CellInv
  <2>2. /\ block = AreaBlock(index \div 16) /\ block \in DataBlocks
        /\ block \in Nat /\ block < BlockRange /\ ~IsTrailer(block)
        /\ index \in Nat /\ index % 16 = 0
    BY <2>1, WritesArea
  <2>3. /\ index' \in Nat /\ index' % 16 = 0
        /\ SkipTrailer(block + 1) = AreaBlock(index' \div 16)
        /\ AreaBlock(index' \div 16) \in Nat
    <3>1. index' \div 16 \in Nat
      BY <1>2, <2>2
    <3> QED  BY <1>2, <2>2, <3>1, NextPosition, AreaBlockType
  <2>4. \A n \in 0 .. (index' - 1) :
          AreaHas(n) /\ AreaByte(n)' = Image(msg')[n + 1]
    <3>1. index' - 1 = index + 15
      BY <1>2, <2>2
    <3> QED  BY <1>2, <2>1, <3>1, WriteAdvances
  <2>5. block' = AreaBlock(index' \div 16) % BlockRange
    <3>1. (block + 1) % BlockRange = block + 1
      <4>1. IsTrailer(BlockRange - 1)
        BY BlockRangeAssumption, LongStartAssumption DEF IsTrailer
      <4>2. BlockRange \in Nat
        BY BlockRangeAssumption
      <4>3. block + 1 < BlockRange
        BY <2>2, <4>1, <4>2
      <4> QED  BY <2>2, <4>2, <4>3, ModSmall
    <3> QED  BY <1>2, <2>3, <3>1 DEF NextWriteBlock
  <2>6. pc' = "wBlock" => AreaBlock(index' \div 16) < BlockRange
    <3>1. AreaBlock(index' \div 16) <= BlockRange
      BY <2>3, <2>4, LoopPosition
    <3>2. BlockRange \in Nat /\ BlockRange % BlockRange = 0
      <4>1. BlockRange \in Nat /\ BlockRange > 0
        BY BlockRangeAssumption, LongStartAssumption
      <4> QED  BY <4>1, ModSelf
    <3>3. IsSectorStart(0)
      BY LongStartAssumption DEF IsSectorStart
    <3>4. pc' = "wBlock" => AreaBlock(index' \div 16) # BlockRange
      BY <1>2, <2>5, <3>2, <3>3
    <3> QED  BY <2>3, <3>1, <3>2, <3>4
  <2>7. WriteArea'
    BY <2>4, <2>5, <2>6 DEF WriteArea
  <2>8. FreshInv' /\ ReadArea'
    BY <1>2, <2>1 DEF FreshInv, ReadArea, ReadPcs
  <2> QED  BY <2>7, <2>8 DEF CellInv
<1> QED  BY <1>1, <1>2 DEF WriteBlock

LEMMA CellStep ==
  ASSUME DirectoryApart, IInv, IInv', CellInv, [Next]_vars
  PROVE  CellInv'
<1>1. FirstKeyInv'
  BY FirstKeyStep DEF CellInv
<1>2. CASE Begins
  BY <1>1, <1>2, CellBegins
<1>3. CASE Reads
  BY <1>1, <1>3, CellReadFirst, CellReadAuth, CellReadBlock DEF Reads
<1>4. CASE Writes
  BY <1>1, <1>4, CellWriteAuth, CellWriteBlock DEF Writes
<1>5. CASE Formats \/ Cleans
  <2>1. pc \in {"fAuth", "fBlock", "cAuth", "cBlock"}
    BY <1>5 DEF Formats, Cleans, FormatAuth, FormatBlock, FormatTrailer,
                CleanAuth, CleanBlock, CleanTrailer
  <2>2. \/ \E op, result : Return(op, result, << >>)
        \/ pc' \in {"fAuth", "fBlock", "cAuth", "cBlock"} /\ ret' = ret
    <3>1. CASE Formats
      BY <2>1, <3>1 DEF Formats, FormatAuth, FormatBlock, FormatTrailer
    <3>2. CASE Cleans
      BY <2>1, <3>2 DEF Cleans, CleanAuth, CleanBlock, CleanTrailer
    <3> QED  BY <1>5, <3>1, <3>2
  <2> QED  BY <1>1, <2>1, <2>2, CellReturns, CellElsewhere
<1>6. CASE UNCHANGED vars
  BY <1>1, <1>6, AreaSame
     DEF vars, CellInv, FreshInv, ReadArea, WriteArea, ReadPcs
<1> QED  BY <1>2, <1>3, <1>4, <1>5, <1>6 DEF Next

\* The loops of read and write walk through the area of every tag, if it
\* ends before the last block number or no call has the key of its directory.
THEOREM CellInvariance ==
  ASSUME DirectoryApart
  PROVE  Spec => [](IInv /\ CellInv)
<1>1. Init => CellInv
  BY CellInit
<1>2. IInv /\ IInv' /\ CellInv /\ [Next]_vars => CellInv'
  BY CellStep
<1> QED  BY <1>1, <1>2, Invariance, PTL DEF Spec

\* What write() has sent is in the area, in order, whatever was on the tag.
THEOREM WritesInOrder ==
  ASSUME DirectoryApart
  PROVE  Spec => []WrittenPrefix
<1>1. CellInv => WrittenPrefix
  BY DEF CellInv, WriteArea, WrittenPrefix
<1> QED  BY <1>1, CellInvariance, PTL

\* What read() has put together are the bytes of the area, in order.
THEOREM ReadsInOrder ==
  ASSUME DirectoryApart
  PROVE  Spec => []ReadPrefix
<1>1. CellInv => ReadPrefix
  BY DEF CellInv, ReadArea, ReadPrefix
<1> QED  BY <1>1, CellInvariance, PTL
=============================================================================

----------------------- MODULE MifareClassicStoreProofs -----------------------
(***************************************************************************)
(* Proofs that the Mifare Classic driver implements the message cell       *)
(* NdefStore, and that its operations fail for the reasons they should     *)
(* only, from the position of its loops in the NDEF area.                  *)
(***************************************************************************)
EXTENDS MifareClassicCellProofs

-----------------------------------------------------------------------------
(* The area as a sequence. *)

LEMMA AreaType ==
  ASSUME mem \in [DataBlocks -> BlockData]
  PROVE  /\ AreaSize \in Nat /\ AreaSize >= 48
         /\ Area \in Seq(Byte) /\ Len(Area) = AreaSize
         /\ \A n \in 1 .. AreaSize : Area[n] = AreaByte(n - 1)
         /\ \A n \in 1 .. 16 : Area[n] = mem[4][n]
<1>1. AreaSize = 16 * AreaBlocks /\ AreaBlocks \in Nat /\ AreaBlocks >= 3
  BY AreaSizes
<1>2. AreaSize \in Nat /\ AreaSize >= 48
  BY <1>1
<1>3. ASSUME NEW n \in 1 .. AreaSize
      PROVE  AreaByte(n - 1) \in Byte
  <2>1. /\ n - 1 \in Nat /\ (n - 1) \div 16 \in Nat
        /\ (n - 1) \div 16 < AreaBlocks /\ ((n - 1) % 16) + 1 \in 1 .. 16
    BY <1>1, <1>3
  <2>2. mem[AreaBlock((n - 1) \div 16)] \in BlockData
    BY <2>1, AreaOnTag
  <2> QED  BY <2>1, <2>2 DEF AreaByte, BlockData
<1>4. \A n \in 1 .. AreaSize : Area[n] = AreaByte(n - 1)
  BY DEF Area
<1>5. Area \in Seq(Byte) /\ Len(Area) = AreaSize
  <2>1. Area \in [1 .. AreaSize -> Byte]
    BY <1>3 DEF Area
  <2> QED  BY <1>2, <2>1, FunctionIsSeq
<1>6. ASSUME NEW n \in 1 .. 16
      PROVE  Area[n] = mem[4][n]
  <2>1. n \in 1 .. AreaSize /\ (n - 1) \div 16 = 0 /\ ((n - 1) % 16) + 1 = n
    BY <1>2, <1>6
  <2>2. AreaBlock(0) = 4
    BY AreaBlockType
  <2> QED  BY <1>4, <2>1, <2>2 DEF AreaByte
<1> QED  BY <1>2, <1>4, <1>5, <1>6

\* A byte that the loops reach belongs to the area.
LEMMA AreaReach ==
  ASSUME NEW n \in Nat
  PROVE  AreaHas(n) <=> n < AreaSize
<1>1. AreaSize = 16 * AreaBlocks /\ AreaBlocks \in Nat
  BY AreaSizes
<1>2. n \div 16 \in Nat
  OBVIOUS
<1>3. AreaHas(n) <=> n \div 16 < AreaBlocks
  BY <1>2, AreaOnTag DEF AreaHas
<1> QED  BY <1>1, <1>3

LEMMA StoredKept ==
  ASSUME mem' = mem
  PROVE  Stored' = Stored
  BY DEF Stored, Holds, TlvAfter, StoredEnd, StoredAfter, Area, AreaByte

\* At most one place holds the first message TLV.
LEMMA OneTlv ==
  ASSUME mem \in [DataBlocks -> BlockData], NEW i \in 0 .. 15
  PROVE  /\ TlvAfter(i) <=> NdefStartsAt(mem[4], i)
         /\ TlvAfter(i) => \A n \in 0 .. 15 : TlvAfter(n) => n = i
         /\ Holds(i) => Stored = StoredAfter(i)
<1>1. \A n \in 1 .. 16 : Area[n] = mem[4][n]
  BY AreaType
<1>2. TlvAfter(i) <=> NdefStartsAt(mem[4], i)
  <2>1. i + 1 \in 1 .. 16 /\ \A j \in 1 .. i : j \in 1 .. 16
    OBVIOUS
  <2> QED  BY <1>1, <2>1 DEF TlvAfter, NdefStartsAt
<1>3. ASSUME TlvAfter(i), NEW n \in 0 .. 15, TlvAfter(n)
      PROVE  n = i
  <2>1. ~(n < i)
    <3>1. n < i => n + 1 \in 1 .. i
      OBVIOUS
    <3> QED  BY <1>3, <3>1 DEF TlvAfter
  <2>2. ~(i < n)
    <3>1. i < n => i + 1 \in 1 .. n
      OBVIOUS
    <3> QED  BY <1>3, <3>1 DEF TlvAfter
  <2> QED  BY <2>1, <2>2
<1>4. ASSUME Holds(i)
      PROVE  Stored = StoredAfter(i)
  <2>1. \A n \in 0 .. 15 : Holds(n) => n = i
    BY <1>3, <1>4 DEF Holds
  <2>2. (CHOOSE n \in 0 .. 15 : Holds(n)) = i
    BY <1>4, <2>1
  <2> QED  BY <1>4, <2>2 DEF Stored
<1> QED  BY <1>2, <1>3, <1>4

\* Part of a sequence, byte by byte.
LEMMA Part ==
  ASSUME NEW s \in Seq(Byte), NEW a \in Nat, NEW k \in Nat, a + k <= Len(s),
         NEW m \in Seq(Byte), Len(m) = k,
         \A i \in 1 .. k : m[i] = s[a + i]
  PROVE  SubSeq(s, a + 1, a + k) = m
<1> DEFINE sub == SubSeq(s, a + 1, a + k)
<1>1. Len(s) \in Nat /\ a + 1 \in 1 .. (Len(s) + 1) /\ a + k \in a .. Len(s)
  OBVIOUS
<1>2. /\ sub \in Seq(Byte)
      /\ Len(sub) = IF a + 1 <= a + k THEN (a + k) - (a + 1) + 1 ELSE 0
      /\ \A i \in 1 .. (a + k) - (a + 1) + 1 : sub[i] = s[(a + 1) + i - 1]
  BY <1>1, SubSeqProperties
<1> HIDE DEF sub
<1>3. Len(sub) = k /\ \A i \in 1 .. k : sub[i] = s[a + i]
  <2>1. (a + k) - (a + 1) + 1 = k /\ \A i \in 1 .. k : (a + 1) + i - 1 = a + i
    OBVIOUS
  <2>2. Len(sub) = k
    BY <1>2
  <2>3. ASSUME NEW i \in 1 .. k
        PROVE  sub[i] = s[a + i]
    <3>1. (a + 1) + i - 1 = a + i /\ i \in 1 .. (a + k) - (a + 1) + 1
      BY <2>1
    <3> QED  BY <1>2, <3>1
  <2> QED  BY <2>2, <2>3
<1>4. \A i \in 1 .. k : sub[i] = m[i]
  BY <1>3
<1>5. sub = m
  BY <1>2, <1>3, <1>4, SeqEqual
<1> QED  BY <1>5 DEF sub
-----------------------------------------------------------------------------
(* What write() sends. *)

HeaderLen(len) == IF len < 255 THEN 2 ELSE 4

LEMMA BufferRoom ==
  ASSUME NEW len \in Nat
  PROVE  /\ GetBufferSize(len) \in Nat /\ GetBufferSize(len) % 16 = 0
         /\ GetBufferSize(len) >= len + HeaderLen(len) + 1
         /\ GetBufferSize(len) < len + HeaderLen(len) + 17
<1>1. HeaderLen(len) \in {2, 4}
  BY DEF HeaderLen
<1>2. GetBufferSize(len) = RoundUp16(len + HeaderLen(len) + 1)
  BY DEF GetBufferSize, HeaderLen
<1> DEFINE n == len + HeaderLen(len) + 1
<1>3. n \in Nat
  BY <1>1
<1> HIDE DEF n
<1>4. RoundUp16(n) \in Nat /\ RoundUp16(n) >= n /\ RoundUp16(n) % 16 = 0
  BY <1>3, Rounded
<1>5. RoundUp16(n) < n + 16
  BY <1>3 DEF RoundUp16
<1>6. n = len + HeaderLen(len) + 1
  BY DEF n
<1>7. GetBufferSize(len) = RoundUp16(n)
  BY <1>2, <1>6
<1> QED  BY <1>1, <1>4, <1>5, <1>6, <1>7

LEMMA ImageShape ==
  ASSUME NEW m \in Messages
  PROVE  LET k == Len(m)
             h == HeaderLen(k)
         IN  /\ m \in Seq(Byte) /\ k \in Nat /\ k <= 65535 /\ h \in {2, 4}
             /\ Image(m)[1] = 3
             /\ k < 255 => Image(m)[2] = k
             /\ k >= 255 => /\ Image(m)[2] = 255
                            /\ Image(m)[3] * 256 + Image(m)[4] = k
             /\ \A i \in 1 .. k : Image(m)[h + i] = m[i]
<1> DEFINE k == Len(m)
           h == HeaderLen(k)
           g == GetBufferSize(k)
<1>1. m \in Seq(Byte) /\ k \in Nat /\ k <= 65535
  BY ClassicAssumption
<1>2. h \in {2, 4} /\ (k < 255 <=> h = 2)
  BY DEF HeaderLen
<1>3. g \in Nat /\ g >= k + h + 1
  BY <1>1, BufferRoom
<1>4. g >= 16
  BY <1>1, BufferSize
<1>5. Len(Header(k)) = h /\ Header(k)[1] = 3
  BY <1>2 DEF Header, HeaderLen
<1>6. /\ k < 255 => Header(k)[2] = k
      /\ k >= 255 => /\ Header(k)[2] = 255
                     /\ Header(k)[3] * 256 + Header(k)[4] = k
  <2>1. CASE k < 255
    BY <1>1, <2>1 DEF Header
  <2>2. CASE k >= 255
    <3>1. ~(k < 255)
      BY <1>1, <2>2
    <3>2. Header(k) = <<3, 255, (k \div 256) % 256, k % 256>>
      BY <3>1 DEF Header
    <3>3. (k \div 256) % 256 = k \div 256 /\ (k \div 256) * 256 + (k % 256) = k
      BY <1>1
    <3>4. /\ Header(k)[2] = 255 /\ Header(k)[3] = (k \div 256) % 256
          /\ Header(k)[4] = k % 256
      BY <3>2
    <3>5. Header(k)[3] * 256 + Header(k)[4] = k
      BY <3>3, <3>4
    <3> QED  BY <3>1, <3>4, <3>5
  <2> QED  BY <1>1, <2>1, <2>2
<1> HIDE DEF k, h, g
<1>7. \A i \in 1 .. g :
        Image(m)[i] = IF i <= h THEN Header(k)[i]
                      ELSE IF i <= h + k THEN m[i - h]
                      ELSE IF i = h + k + 1 THEN 254 ELSE Padding
  BY <1>5 DEF Image, g, k
<1>8. \A i \in 1 .. h : Image(m)[i] = Header(k)[i]
  <2>1. \A i \in 1 .. h : i \in 1 .. g /\ i <= h
    BY <1>1, <1>2, <1>3
  <2> QED  BY <1>7, <2>1
<1>9. ASSUME NEW i \in 1 .. k
      PROVE  Image(m)[h + i] = m[i]
  <2>1. h + i \in 1 .. g /\ ~(h + i <= h) /\ h + i <= h + k /\ (h + i) - h = i
    BY <1>1, <1>2, <1>3
  <2> QED  BY <1>7, <2>1
<1>10. /\ Image(m)[1] = 3
       /\ k < 255 => Image(m)[2] = k
       /\ k >= 255 => /\ Image(m)[2] = 255
                      /\ Image(m)[3] * 256 + Image(m)[4] = k
  <2>1. Image(m)[1] = Header(k)[1] /\ Image(m)[2] = Header(k)[2]
    BY <1>2, <1>8
  <2>2. k >= 255 => Image(m)[3] = Header(k)[3] /\ Image(m)[4] = Header(k)[4]
    BY <1>1, <1>2, <1>8
  <2> QED  BY <1>5, <1>6, <2>1, <2>2
<1> QED  BY <1>1, <1>2, <1>9, <1>10 DEF k, h
-----------------------------------------------------------------------------
(***************************************************************************)
(* HeaderInv: whatever the driver leaves in the first block of the area,   *)
(* read() finds all of its length field in that block.                     *)
(***************************************************************************)
LEMMA FirstSliceReadable ==
  ASSUME NEW m \in Messages
  PROVE  HeaderReadable(Slice(Image(m), 0))
<1> DEFINE data == Slice(Image(m), 0)
           k == Len(m)
           h == HeaderLen(k)
<1>1. \A i \in 1 .. 16 : data[i] = Image(m)[i]
  BY DEF Slice
<1>2. /\ data[1] = 3 /\ k \in Nat /\ h \in {2, 4}
      /\ k < 255 => data[2] = k /\ h = 2
      /\ k >= 255 => data[2] = 255 /\ data[3] * 256 + data[4] = k /\ h = 4
  <2>1. k < 255 <=> h = 2
    BY DEF HeaderLen
  <2>2. /\ k \in Nat /\ h \in {2, 4} /\ Image(m)[1] = 3
        /\ k < 255 => Image(m)[2] = k
        /\ k >= 255 => Image(m)[2] = 255 /\ Image(m)[3] * 256 + Image(m)[4] = k
    BY ImageShape
  <2>3. /\ data[1] = Image(m)[1] /\ data[2] = Image(m)[2]
        /\ data[3] = Image(m)[3] /\ data[4] = Image(m)[4]
    BY <1>1
  <2> HIDE DEF data, k, h
  <2> QED  BY <2>1, <2>2, <2>3
<1>3. GetBufferSize(k) \in Nat /\ GetBufferSize(k) >= k + h + 1
  BY <1>2, BufferRoom
<1> HIDE DEF data, k, h
<1>4. ASSUME NEW i \in 0 .. 15, NdefStartsAt(data, i)
      PROVE  i = 0
  <2>1. i > 0 => data[1] = 0
    BY <1>4 DEF NdefStartsAt
  <2> QED  BY <1>2, <2>1
<1>5. TlvAt(data, 0) = [len |-> k, start |-> h]
  BY <1>2 DEF TlvAt
<1>6. /\ 0 <= 14 /\ (data[0 + 2] = 255 => 0 <= 12)
      /\ TlvAt(data, 0).start + TlvAt(data, 0).len
           <= GetBufferSize(TlvAt(data, 0).len)
  BY <1>2, <1>3, <1>5
<1>7. HeaderReadable(data)
  BY <1>4, <1>6 DEF HeaderReadable
<1> QED  BY <1>7 DEF data

LEMMA EmptyReadable ==
  HeaderReadable(EmptyNdefMesg) /\ HeaderReadable(EmptyBlock)
<1>1. HeaderReadable(EmptyBlock)
  <2>1. \A i \in 0 .. 15 : EmptyBlock[i + 1] = 0
    BY DEF EmptyBlock
  <2> QED  BY <2>1 DEF HeaderReadable, NdefStartsAt
<1>2. HeaderReadable(EmptyNdefMesg)
  <2> DEFINE data == EmptyNdefMesg
  <2>1. data[1] = 3 /\ data[2] = 3
    BY DEF EmptyNdefMesg
  <2> HIDE DEF data
  <2>2. \A i \in 0 .. 15 : NdefStartsAt(data, i) => i = 0
    <3>1. ASSUME NEW i \in 0 .. 15, NdefStartsAt(data, i)
          PROVE  i = 0
      <4>1. i > 0 => data[1] = 0
        BY <3>1 DEF NdefStartsAt
      <4> QED  BY <2>1, <4>1
    <3> QED  BY <3>1
  <2>3. TlvAt(data, 0) = [len |-> 3, start |-> 2]
    BY <2>1 DEF TlvAt
  <2>4. GetBufferSize(3) = 16
    BY DEF GetBufferSize, RoundUp16
  <2>5. HeaderReadable(data)
    BY <2>1, <2>2, <2>3, <2>4 DEF HeaderReadable
  <2> QED  BY <2>5 DEF data
<1> QED  BY <1>1, <1>2
\* What a step may leave in the first block of the area.
LEMMA FirstBlockStep ==
  ASSUME IInv, CellInv, [Next]_vars
  PROVE  \/ mem'[4] = mem[4]
         \/ \E m \in Messages : mem'[4] = Slice(Image(m), 0)
         \/ mem'[4] \in {EmptyNdefMesg, EmptyBlock}
<1>1. mem \in [DataBlocks -> BlockData]
  BY DEF IInv, TypeOK, TagAndLink
<1>2. ASSUME NEW b \in DataBlocks, NEW data, mem' = [mem EXCEPT ![b] = data]
      PROVE  mem'[4] = mem[4] \/ (b = 4 /\ mem'[4] = data)
  BY <1>1, <1>2
<1>3. CASE Begins \/ Reads \/ WriteAuth \/ FormatAuth \/ CleanAuth
  BY <1>3, QuietStep
<1>4. CASE WriteBlock
  <2>1. pc = "wBlock" /\ WriteArea
    BY <1>4 DEF WriteBlock, CellInv
  <2>2. /\ block = AreaBlock(index \div 16) /\ index \in Nat
        /\ index % 16 = 0 /\ msg \in Messages
    BY <2>1, WritesArea
  <2>3. block = 4 => index = 0
    <3>1. index \div 16 \in Nat /\ index = 16 * (index \div 16)
      BY <2>2
    <3>2. block = 4 => index \div 16 = 0
      BY <2>2, <3>1, AreaBlockType
    <3> QED  BY <3>1, <3>2
  <2>4. \/ mem' = mem
        \/ /\ block \in DataBlocks
           /\ mem' = [mem EXCEPT ![block] = Slice(Image(msg), index)]
    BY <1>4, WriteEffect
  <2> QED  BY <1>2, <2>2, <2>3, <2>4
<1>5. CASE FormatBlock
  <2>1. \/ mem' = mem
        \/ /\ block \in DataBlocks
           /\ mem' = [mem EXCEPT ![block] = FormatData(block)]
    BY <1>5, FormatEffect
  <2>2. FormatData(4) = EmptyNdefMesg
    BY DEF FormatData
  <2> QED  BY <1>2, <2>1, <2>2
<1>6. CASE CleanBlock
  <2>1. \/ mem' = mem
        \/ /\ block \in DataBlocks
           /\ mem' = [mem EXCEPT ![block] = EmptyBlock]
    BY <1>6, CleanEffect
  <2> QED  BY <1>2, <2>1
<1>7. CASE FormatTrailer \/ CleanTrailer
  BY <1>7, KeysEffect
<1>8. CASE UNCHANGED vars
  BY <1>8 DEF vars
<1> QED  BY <1>3, <1>4, <1>5, <1>6, <1>7, <1>8
         DEF Next, Writes, Formats, Cleans

LEMMA HeaderInit == ReadableTags /\ Init => HeaderInv
  BY DEF ReadableTags, Init, HeaderInv

LEMMA HeaderStep ==
  ASSUME IInv, CellInv, HeaderInv, [Next]_vars
  PROVE  HeaderInv'
<1>1. HeaderReadable(mem[4])
  BY DEF HeaderInv
<1>2. HeaderReadable(mem'[4])
  BY <1>1, FirstBlockStep, FirstSliceReadable, EmptyReadable
<1> QED  BY <1>2 DEF HeaderInv

THEOREM HeaderInvariance ==
  ASSUME DirectoryApart, ReadableTags
  PROVE  Spec => [](IInv /\ CellInv /\ HeaderInv)
<1>1. Init => HeaderInv
  BY HeaderInit
<1>2. IInv /\ CellInv /\ HeaderInv /\ [Next]_vars => HeaderInv'
  BY HeaderStep
<1> QED  BY <1>1, <1>2, CellInvariance, PTL DEF Spec
-----------------------------------------------------------------------------
(* An operation in progress has no result yet. *)

LEMMA FreshStep ==
  ASSUME FreshInv, [Next]_vars
  PROVE  FreshInv'
<1>1. ASSUME NEW op, NEW result, NEW m, Return(op, result, m)
      PROVE  FreshInv'
  BY <1>1 DEF Return, FreshInv, ReadPcs
<1>2. CASE Begins
  BY <1>2 DEF Begins, StartRead, StartWrite, StartFormat, StartClean, Begin,
              FreshInv, ReadPcs
<1>3. CASE Reads
  <2>1. CASE ReadFirstAuth
    BY <1>1, <2>1 DEF ReadFirstAuth, FreshInv, ReadPcs, locals
  <2>2. CASE ReadFirst
    BY <1>1, <2>2 DEF ReadFirst, FreshInv, ReadPcs
  <2>3. CASE ReadAuth
    BY <1>1, <2>3 DEF ReadAuth, FreshInv, ReadPcs, locals
  <2>4. CASE ReadBlock
    BY <1>1, <2>4 DEF ReadBlock, FreshInv, ReadPcs
  <2> QED  BY <1>3, <2>1, <2>2, <2>3, <2>4 DEF Reads
<1>4. CASE Writes
  BY <1>1, <1>4 DEF Writes, WriteAuth, WriteBlock, FreshInv, ReadPcs, locals
<1>5. CASE Formats
  BY <1>1, <1>5 DEF Formats, FormatAuth, FormatBlock, FormatTrailer, FreshInv,
                    ReadPcs, locals
<1>6. CASE Cleans
  BY <1>1, <1>6 DEF Cleans, CleanAuth, CleanBlock, CleanTrailer, FreshInv,
                    ReadPcs
<1>7. CASE UNCHANGED vars
  BY <1>7 DEF vars, FreshInv, ReadPcs
<1> QED  BY <1>2, <1>3, <1>4, <1>5, <1>6, <1>7 DEF Next
-----------------------------------------------------------------------------
(***************************************************************************)
(* FormatInv: formatNDEF leaves its keys in every sector it is through     *)
(* with, and the empty record in front.                                    *)
(***************************************************************************)
SectorFormatted(s) == trailer[s] = FormattedTrailer(s)

LEMMA SectorType == \A s \in Sectors : s \in Nat
<1>1. ASSUME NEW b \in Blocks
      PROVE  SectorOf(b) \in Nat
  <2>1. b \in Nat
    BY ClassicAssumption DEF Blocks
  <2> QED  BY <2>1, LongStartAssumption DEF SectorOf
<1> QED  BY <1>1 DEF Sectors

\* The blocks of the short sectors.
LEMMA ShortSectors ==
  ASSUME NEW b \in Nat, b < 4 * FormatSectors
  PROVE  /\ SectorOf(b) \in Nat /\ SectorOf(b) < FormatSectors
         /\ IsTrailer(b) => /\ SectorOf(b) = 0 <=> b = 3
                            /\ b + 1 < 4 * FormatSectors =>
                                 SectorOf(b + 1) = SectorOf(b) + 1
                            /\ ~(b + 1 < 4 * FormatSectors) =>
                                 SectorOf(b) = FormatSectors - 1 /\ b > 4
<1>1. LongStart \in Nat /\ FormatSectors \in Nat /\ FormatSectors >= 2
      /\ 4 * FormatSectors <= LongStart
  BY LongStartAssumption, ClassicAssumption
<1>2. SectorOf(b) = b \div 4 /\ (IsTrailer(b) <=> (b + 1) % 4 = 0)
  BY <1>1 DEF SectorOf, IsTrailer
<1>3. b + 1 < 4 * FormatSectors => SectorOf(b + 1) = (b + 1) \div 4
  BY <1>1 DEF SectorOf
<1> QED  BY <1>1, <1>2, <1>3

\* A data block was formatted: the keys are as they were, and the empty
\* record stays once it is there.
LEMMA FormatBlockKeeps ==
  ASSUME IInv, FormatInv, FormatBlock,
         WriteOk(block, FormatData(block)), block' = block + 1, pc' = pc
  PROVE  FormatInv'
<1>1. /\ pc = "fBlock" /\ ~IsTrailer(block) /\ block \in Nat
      /\ block < 4 * FormatSectors
      /\ mem \in [DataBlocks -> BlockData]
  BY DEF FormatBlock, IInv, TypeOK, Locals, TagAndLink, FormatPosition
<1>2. /\ trailer' = trailer /\ block \in DataBlocks
      /\ mem' = [mem EXCEPT ![block] = FormatData(block)]
  BY FormatEffect
<1>3. SectorOf(block') = SectorOf(block)
  BY <1>1, ShortStep
<1>4. block' > 4 => mem'[4] = EmptyNdefMesg
  <2>1. CASE block = 4
    BY <1>1, <1>2, <2>1 DEF FormatData
  <2>2. CASE block > 4
    BY <1>1, <1>2, <2>2 DEF FormatInv
  <2>3. CASE block < 4
    BY <1>1, <2>3
  <2> QED  BY <1>1, <2>1, <2>2, <2>3
<1> QED  BY <1>1, <1>2, <1>3, <1>4 DEF FormatInv

\* A trailer was written: one sector more has its keys.
LEMMA FormatTrailerAdds ==
  ASSUME IInv, FormatInv, FormatTrailer, KeysOk(block, FormatKeys(block))
  PROVE  /\ mem' = mem /\ block \in Nat /\ pc = "fBlock"
         /\ block < 4 * FormatSectors /\ IsTrailer(block)
         /\ \A s \in Sectors : s <= SectorOf(block) => SectorFormatted(s)'
<1>1. /\ pc = "fBlock" /\ IsTrailer(block) /\ block \in Nat
      /\ block < 4 * FormatSectors
      /\ trailer \in [Sectors -> SectorTrailer]
  BY DEF FormatTrailer, IInv, TypeOK, Locals, TagAndLink, FormatPosition
<1>2. /\ mem' = mem
      /\ trailer' = [trailer EXCEPT ![SectorOf(block)] = FormatKeys(block)]
  BY DEF KeysOk, StoreKeys
<1>3. /\ SectorOf(block) \in Nat
      /\ FormatKeys(block) = FormattedTrailer(SectorOf(block))
  BY <1>1, ShortSectors DEF FormatKeys, MadTrailer, NdefTrailer,
                            FormattedTrailer
<1>4. ASSUME NEW s \in Sectors, s <= SectorOf(block)
      PROVE  SectorFormatted(s)'
  <2>1. s \in Nat
    BY SectorType
  <2>2. CASE s = SectorOf(block)
    <3>1. trailer'[s] = FormatKeys(block)
      BY <1>1, <1>2, <2>2
    <3> QED  BY <1>3, <2>2, <3>1 DEF SectorFormatted
  <2>3. CASE s # SectorOf(block)
    <3>1. trailer'[s] = trailer[s]
      BY <1>1, <1>2, <2>3
    <3>2. s < SectorOf(block)
      BY <1>3, <1>4, <2>1, <2>3
    <3>3. trailer[s] = FormattedTrailer(s)
      BY <1>1, <3>2 DEF FormatInv
    <3> QED  BY <3>1, <3>3 DEF SectorFormatted
  <2> QED  BY <2>2, <2>3
<1> QED  BY <1>1, <1>2, <1>4

LEMMA FormatInvInit == Init => FormatInv
  BY DEF Init, FormatInv

LEMMA FormatInvStep ==
  ASSUME IInv, FormatInv, [Next]_vars
  PROVE  FormatInv'
<1>1. CASE pc' \notin {"fAuth", "fBlock"}
  BY <1>1 DEF FormatInv
<1>2. CASE FormatAuth /\ pc' \in {"fAuth", "fBlock"}
  <2>1. pc \in {"fAuth", "fBlock"} /\ UNCHANGED <<mem, trailer, block>>
    BY <1>2, QuietStep DEF FormatAuth, Return, locals
  <2> QED  BY <2>1 DEF FormatInv
<1>3. CASE FormatBlock /\ pc' \in {"fAuth", "fBlock"}
  <2>1. WriteOk(block, FormatData(block)) /\ block' = block + 1 /\ pc' = pc
    BY <1>3 DEF FormatBlock, Return
  <2> QED  BY <1>3, <2>1, FormatBlockKeeps
<1>4. CASE FormatTrailer /\ pc' \in {"fAuth", "fBlock"}
  <2>1. KeysOk(block, FormatKeys(block))
        /\ block + 1 < 4 * FormatSectors /\ block' = block + 1
    BY <1>4 DEF FormatTrailer, Return
  <2>2. /\ mem' = mem /\ block \in Nat /\ pc = "fBlock"
        /\ block < 4 * FormatSectors /\ IsTrailer(block)
        /\ \A s \in Sectors : s <= SectorOf(block) => SectorFormatted(s)'
    BY <1>4, <2>1, FormatTrailerAdds
  <2>3. SectorOf(block') = SectorOf(block) + 1 /\ SectorOf(block) \in Nat
    BY <2>1, <2>2, ShortSectors
  <2>4. block' > 4 => block > 4
    <3>1. ~IsTrailer(4)
      BY FixedBlocks
    <3> QED  BY <2>1, <2>2, <3>1
  <2>5. block' > 4 => mem'[4] = EmptyNdefMesg
    BY <2>2, <2>4 DEF FormatInv
  <2>6. ASSUME NEW s \in Sectors, s < SectorOf(block')
        PROVE  SectorFormatted(s)'
    <3>1. s \in Nat
      BY SectorType
    <3> QED  BY <2>2, <2>3, <2>6, <3>1
  <2> QED  BY <2>5, <2>6 DEF FormatInv, SectorFormatted
<1>5. CASE StartFormat
  <2>1. block' = 1 /\ SectorOf(1) = 0
    BY <1>5, LongStartAssumption DEF StartFormat, SectorOf
  <2>2. \A s \in Sectors : ~(s < 0)
    BY SectorType
  <2> QED  BY <2>1, <2>2 DEF FormatInv
<1>6. CASE UNCHANGED vars
  BY <1>6 DEF vars, FormatInv
<1>7. CASE StartRead \/ StartWrite \/ StartClean \/ Reads \/ Writes \/ Cleans
  <2>1. pc' \notin {"fAuth", "fBlock"}
    BY <1>7 DEF StartRead, StartWrite, StartClean, Begin, Reads, Writes, Cleans,
                ReadFirstAuth, ReadFirst, ReadAuth, ReadBlock, WriteAuth,
                WriteBlock, CleanAuth, CleanBlock, CleanTrailer, Return
  <2> QED  BY <1>1, <2>1
<1> QED  BY <1>1, <1>2, <1>3, <1>4, <1>5, <1>6, <1>7
         DEF Next, Begins, Formats
\* A tag that begins with the empty record holds it.
LEMMA EmptyIsStored ==
  mem \in [DataBlocks -> BlockData] /\ mem[4] = EmptyNdefMesg
    => Stored = <<208, 0, 0>>
<1> SUFFICES ASSUME mem \in [DataBlocks -> BlockData], mem[4] = EmptyNdefMesg
             PROVE  Stored = <<208, 0, 0>>
  OBVIOUS
<1>1. /\ AreaSize \in Nat /\ AreaSize >= 48
      /\ Area \in Seq(Byte) /\ Len(Area) = AreaSize
      /\ \A n \in 1 .. 16 : Area[n] = mem[4][n]
  BY AreaType
<1>2. /\ mem[4][1] = 3 /\ mem[4][2] = 3
      /\ mem[4][3] = 208 /\ mem[4][4] = 0 /\ mem[4][5] = 0
  BY DEF EmptyNdefMesg
<1>3. /\ Area[1] = 3 /\ Area[2] = 3
      /\ Area[3] = 208 /\ Area[4] = 0 /\ Area[5] = 0
  BY <1>1, <1>2
<1>4. StoredEnd(0) = 5 /\ StoredAfter(0) = SubSeq(Area, 3, 5)
  BY <1>3 DEF StoredEnd, StoredAfter
<1>5. Holds(0)
  BY <1>1, <1>3, <1>4 DEF Holds, TlvAfter
<1>6. Stored = SubSeq(Area, 3, 5)
  BY <1>4, <1>5, OneTlv
<1> DEFINE m == <<208, 0, 0>>
<1>7. m \in Seq(Byte) /\ Len(m) = 3 /\ \A i \in 1 .. 3 : m[i] = Area[2 + i]
  <2>1. 208 \in Byte /\ 0 \in Byte
    BY DEF Byte
  <2> QED  BY <1>3, <2>1
<1> HIDE DEF m
<1>8. SubSeq(Area, 2 + 1, 2 + 3) = m
  BY <1>1, <1>7, Part
<1> QED  BY <1>6, <1>8 DEF m

\* A new operation forgets the result of the one before.
LEMMA ResultForgotten ==
  ASSUME pc = "idle", [Next]_vars
  PROVE  ret' = NoReturn \/ UNCHANGED vars
<1>1. CASE Begins
  BY <1>1 DEF Begins, StartRead, StartWrite, StartFormat, StartClean, Begin
<1>2. CASE Reads \/ Writes
  BY <1>2 DEF Reads, Writes, ReadFirstAuth, ReadFirst, ReadAuth, ReadBlock,
              WriteAuth, WriteBlock
<1>3. CASE Formats \/ Cleans
  BY <1>3 DEF Formats, Cleans, FormatAuth, FormatBlock, FormatTrailer,
              CleanAuth, CleanBlock, CleanTrailer
<1> QED  BY <1>1, <1>2, <1>3 DEF Next

LEMMA SameResult ==
  ASSUME UNCHANGED vars
  PROVE  /\ Formatted' = Formatted /\ Stored' = Stored /\ ret' = ret
         /\ faults' = faults
         /\ \A n : Holds(n)' = Holds(n) /\ StoredEnd(n)' = StoredEnd(n)
<1>1. UNCHANGED <<mem, trailer, ret, faults>>
  BY DEF vars
<1>2. \A n : Holds(n)' = Holds(n) /\ StoredEnd(n)' = StoredEnd(n)
  BY <1>1 DEF Holds, TlvAfter, StoredEnd, Area, AreaByte
<1> QED  BY <1>1, <1>2, StoredKept DEF Formatted

\* The last sector has its keys: the tag is formatted.
LEMMA FormatEnds ==
  ASSUME IInv, IInv', FormatInv, FormatTrailer, KeysOk(block, FormatKeys(block)),
         ~(block + 1 < 4 * FormatSectors)
  PROVE  Formatted' /\ Stored' = <<208, 0, 0>>
<1>1. /\ mem' = mem /\ block \in Nat /\ pc = "fBlock"
      /\ block < 4 * FormatSectors /\ IsTrailer(block)
      /\ \A s \in Sectors : s <= SectorOf(block) => SectorFormatted(s)'
  BY FormatTrailerAdds
<1>2. SectorOf(block) = FormatSectors - 1 /\ block > 4
  BY <1>1, ShortSectors
<1>3. Formatted'
  <2>1. ASSUME NEW s \in Sectors, s < FormatSectors
        PROVE  SectorFormatted(s)'
    <3>1. s <= SectorOf(block)
      BY <1>2, <2>1, SectorType, ClassicAssumption
    <3> QED  BY <1>1, <3>1
  <2> QED  BY <2>1 DEF Formatted, SectorFormatted
<1>4. mem'[4] = EmptyNdefMesg /\ mem' \in [DataBlocks -> BlockData]
  BY <1>1, <1>2 DEF FormatInv, IInv, TypeOK, TagAndLink
<1>5. (mem \in [DataBlocks -> BlockData] /\ mem[4] = EmptyNdefMesg
         => Stored = <<208, 0, 0>>)'
  BY EmptyIsStored, PTL
<1> QED  BY <1>3, <1>4, <1>5

LEMMA FormatOkStep ==
  ASSUME IInv, IInv', FreshInv, FreshInv', FormatInv, FormatOk, [Next]_vars
  PROVE  FormatOk'
<1>1. CASE ~(ret'.op = "format" /\ ret'.result = "true")
  BY <1>1 DEF FormatOk
<1>2. CASE ret' = NoReturn
  BY <1>1, <1>2 DEF NoReturn
<1>3. CASE UNCHANGED vars
  BY <1>3, SameResult DEF FormatOk
<1>4. CASE pc # "idle" /\ pc' = "idle" /\ ~UNCHANGED vars
  <2>1. CASE Reads \/ Writes \/ Cleans
    <3>1. \E op \in {"read", "write", "clean"} : \E result, m :
             Return(op, result, m)
      <4>1. Reads => \E result, m : Return("read", result, m)
        BY <1>4 DEF Reads, ReadFirstAuth, ReadFirst, ReadAuth, ReadBlock
      <4>2. Writes => \E result, m : Return("write", result, m)
        BY <1>4 DEF Writes, WriteAuth, WriteBlock
      <4>3. Cleans => \E result, m : Return("clean", result, m)
        BY <1>4 DEF Cleans, CleanAuth, CleanBlock, CleanTrailer
      <4> QED  BY <2>1, <4>1, <4>2, <4>3
    <3>2. ret'.op \in {"read", "write", "clean"}
      BY <3>1 DEF Return
    <3> QED  BY <1>1, <3>2
  <2>2. CASE FormatAuth \/ FormatBlock
    <3>1. ret'.result = "false"
      BY <1>4, <2>2 DEF FormatAuth, FormatBlock, Return
    <3> QED  BY <1>1, <3>1
  <2>3. CASE FormatTrailer
    <3>1. \/ ret'.result = "false"
          \/ /\ KeysOk(block, FormatKeys(block))
             /\ ~(block + 1 < 4 * FormatSectors)
      BY <1>4, <2>3 DEF FormatTrailer, Return
    <3> QED  BY <1>1, <2>3, <3>1, FormatEnds DEF FormatOk
  <2>4. CASE Begins
    BY <1>4, <2>4 DEF Begins, StartRead, StartWrite, StartFormat, StartClean,
                      Begin
  <2> QED  BY <1>4, <2>1, <2>2, <2>3, <2>4 DEF Next, Formats
<1>5. CASE pc' # "idle"
  BY <1>2, <1>5 DEF FreshInv
<1> QED  BY <1>2, <1>3, <1>4, <1>5, ResultForgotten

\* formatNDEF tells the truth: when it reports success, every sector it works
\* on has its NDEF keys and the tag holds the empty record, however many
\* calls of earlier operations were lost.
THEOREM FormatTellsTruth == Spec => []FormatOk
<1>1. Init => FreshInv /\ FormatInv /\ FormatOk
  BY FormatInvInit DEF Init, FreshInv, ReadPcs, FormatOk, NoReturn
<1>2. IInv /\ IInv' /\ FreshInv /\ FormatInv /\ FormatOk /\ [Next]_vars
        => FreshInv' /\ FormatInv' /\ FormatOk'
  BY FreshStep, FormatInvStep, FormatOkStep
<1> QED  BY <1>1, <1>2, Invariance, PTL DEF Spec
-----------------------------------------------------------------------------
(***************************************************************************)
(* Why an operation fails.  AuthCovers says that a command of read or      *)
(* write is not refused; what is left are the authentications.             *)
(***************************************************************************)
LEMMA Typed ==
  ASSUME IInv
  PROVE  /\ mem \in [DataBlocks -> BlockData] /\ faults \in Nat
         /\ trailer \in [Sectors -> SectorTrailer]
         /\ block \in Nat /\ index \in Nat
  BY ClassicAssumption DEF IInv, TypeOK, TagAndLink, Locals

\* A command the tag would have answered fails at the cost of a fault.
LEMMA FailureCosts ==
  ASSUME IInv, NEW b,
         \/ CanAccess(b) /\ AccessFails(CanAccess(b))
         \/ CanWrite(b) /\ AccessFails(CanWrite(b))
  PROVE  faults' # 0
  BY Typed DEF AccessFails, Fault

LEMMA AuthFailureCosts ==
  ASSUME IInv, NEW b, NEW k, CanAuth(b, "a", k), AuthFails(b, "a", k)
  PROVE  faults' # 0
  BY Typed DEF AuthFails, Fault

\* The blocks behind the directory of a formatted tag open with the key of
\* the data sectors, and their access bits let it write.
LEMMA NdefOpens ==
  ASSUME Formatted, OpenBeyond, NEW b \in Nat, 4 <= b, b < NumBlocks
  PROVE  /\ b % BlockRange = b
         /\ auth # Deaf => CanAuth(b, "a", "ndef")
         /\ trailer[SectorOf(b)].bits = "ndef"
<1>1. b \in Blocks /\ b % BlockRange = b
  <2>1. NumBlocks \in Nat /\ BlockRange \in Nat /\ NumBlocks <= BlockRange
    BY ClassicAssumption, BlockRangeAssumption
  <2>2. b < BlockRange
    BY <2>1
  <2> QED  BY <2>1, <2>2, SmallBlock DEF Blocks
<1>2. SectorOf(b) \in Sectors /\ SectorOf(b) # 0
  <2>1. SectorOf(b) # 0
    BY LongStartAssumption DEF SectorOf
  <2> QED  BY <1>1, <2>1 DEF Sectors
<1>3. trailer[SectorOf(b)].a = "ndef" /\ trailer[SectorOf(b)].bits = "ndef"
  <2> DEFINE s == SectorOf(b)
  <2>1. s \in Sectors /\ s # 0 /\ s \in Nat /\ FormatSectors \in Nat
    BY <1>2, SectorType, ClassicAssumption
  <2> HIDE DEF s
  <2>2. CASE s < FormatSectors
    <3>1. trailer[s] = FormattedTrailer(s)
      BY <2>1, <2>2 DEF Formatted
    <3> QED  BY <2>1, <3>1 DEF s, FormattedTrailer
  <2>3. CASE s >= FormatSectors
    BY <2>1, <2>3 DEF OpenBeyond, s
  <2> QED  BY <2>1, <2>2, <2>3
<1> QED  BY <1>1, <1>3 DEF CanAuth

\* A loop that has come to the end of the tag is through with the area.
LEMMA LoopEnd ==
  ASSUME NEW i \in Nat, i % 16 = 0, \A n \in 0 .. (i - 1) : AreaHas(n),
         ~(AreaBlock(i \div 16) < NumBlocks)
  PROVE  i = AreaSize
<1>1. AreaSize \in Nat /\ AreaSize >= 48
  <2>1. AreaSize = 16 * AreaBlocks /\ AreaBlocks \in Nat /\ AreaBlocks >= 3
    BY AreaSizes
  <2> QED  BY <2>1
<1>2. ~(i < AreaSize)
  <2>1. AreaBlock(i \div 16) \notin DataBlocks
    BY ClassicAssumption DEF DataBlocks, Blocks
  <2> QED  BY <2>1, AreaReach DEF AreaHas
<1>3. i - 1 \in 0 .. (i - 1)
  BY <1>1, <1>2
<1>4. i - 1 < AreaSize
  BY <1>3, AreaReach
<1> QED  BY <1>1, <1>2, <1>4

\* What read() makes of the header of the first message TLV.
LEMMA HeaderFound ==
  ASSUME mem \in [DataBlocks -> BlockData], HeaderInv,
         NEW i \in 0 .. 15, NdefStartsAt(mem[4], i), NEW beyond \in BeyondBlock
  PROVE  LET t == TlvAt(mem[4] \o beyond, i)
         IN  /\ t.len \in Nat /\ t.start \in Nat
             /\ t.start >= HeaderLen(t.len)
             /\ t.start + t.len <= GetBufferSize(t.len)
             /\ TlvAfter(i) /\ StoredEnd(i) = t.start + t.len
             /\ StoredAfter(i) = SubSeq(Area, t.start + 1, t.start + t.len)
<1> DEFINE data == mem[4]
           bytes == data \o beyond
<1>1. data \in BlockData
  <2>1. 4 \in DataBlocks
    BY FixedBlocks DEF DataBlocks
  <2> QED  BY <2>1
<1>2. \A n \in 1 .. 16 : data[n] \in Byte /\ Area[n] = data[n]
  BY <1>1, AreaType DEF BlockData
<1>3. TlvAfter(i)
  BY OneTlv
<1>4. /\ i <= 14 /\ (data[i + 2] = 255 => i <= 12)
      /\ TlvAt(data, i).start + TlvAt(data, i).len
           <= GetBufferSize(TlvAt(data, i).len)
  BY DEF HeaderInv, HeaderReadable
<1>5. \A n \in 1 .. 16 : bytes[n] = data[n]
  <2> HIDE DEF data
  <2>1. data \in Seq(Byte) /\ Len(data) = 16
    BY <1>1, FunctionIsSeq, ZenonT(40) DEF BlockData
  <2>2. beyond \in Seq(Byte) /\ Len(beyond) = 3
    <3>1. beyond \in [1 .. 3 -> Byte]
      BY ClassicAssumption
    <3> QED  BY <3>1, FunctionIsSeq, ZenonT(40)
  <2>3. /\ Len(data \o beyond) = Len(data) + Len(beyond)
        /\ \A n \in 1 .. Len(data) + Len(beyond) :
             (data \o beyond)[n] = IF n <= Len(data) THEN data[n]
                                                    ELSE beyond[n - Len(data)]
    BY <2>1, <2>2, ConcatProperties
  <2>4. \A n \in 1 .. 16 : n \in 1 .. Len(data) + Len(beyond) /\ n <= Len(data)
    BY <2>1, <2>2
  <2> QED  BY <2>3, <2>4
<1> HIDE DEF data, bytes
<1>6. /\ i + 2 \in 1 .. 16 /\ bytes[i + 2] = data[i + 2]
      /\ Area[i + 2] = data[i + 2] /\ data[i + 2] \in Byte
  <2>1. i + 2 \in 1 .. 16
    BY <1>4
  <2> QED  BY <1>2, <1>5, <2>1
<1>7. data[i + 2] = 255 =>
        /\ bytes[i + 3] = data[i + 3] /\ bytes[i + 4] = data[i + 4]
        /\ Area[i + 3] = data[i + 3] /\ Area[i + 4] = data[i + 4]
        /\ data[i + 3] \in Byte /\ data[i + 4] \in Byte
  <2>1. data[i + 2] = 255 => i + 3 \in 1 .. 16 /\ i + 4 \in 1 .. 16
    BY <1>4
  <2> QED  BY <1>2, <1>5, <2>1
<1>8. TlvAt(bytes, i) = TlvAt(data, i)
  BY <1>6, <1>7 DEF TlvAt
<1> DEFINE t == TlvAt(data, i)
<1>9. /\ t.len \in Nat /\ t.start \in Nat /\ t.start >= HeaderLen(t.len)
      /\ StoredEnd(i) = t.start + t.len
      /\ StoredAfter(i) = SubSeq(Area, t.start + 1, t.start + t.len)
  <2>1. CASE data[i + 2] = 255
    <3>1. PICK x \in Byte, y \in Byte :
            /\ data[i + 3] = x /\ data[i + 4] = y
            /\ Area[i + 3] = x /\ Area[i + 4] = y
      BY <1>7, <2>1
    <3>2. t = [len |-> x * 256 + y, start |-> i + 4]
      BY <2>1, <3>1 DEF TlvAt
    <3> HIDE DEF t
    <3>3. t.len = x * 256 + y /\ t.start = i + 4 /\ x \in Nat /\ y \in Nat
      BY <3>1, <3>2 DEF Byte
    <3>4. HeaderLen(t.len) <= 4 /\ HeaderLen(t.len) \in Nat
      BY DEF HeaderLen
    <3>5. /\ StoredEnd(i) = i + 4 + 256 * x + y
          /\ StoredAfter(i) = SubSeq(Area, i + 5, i + 4 + 256 * x + y)
      BY <1>6, <2>1, <3>1 DEF StoredEnd, StoredAfter
    <3>6. t.start + 1 = i + 5 /\ t.start + t.len = i + 4 + 256 * x + y
      BY <3>3
    <3>7. t.len \in Nat /\ t.start \in Nat /\ t.start >= HeaderLen(t.len)
      BY <3>3, <3>4
    <3> QED  BY <3>5, <3>6, <3>7
  <2>2. CASE data[i + 2] # 255
    <3>1. PICK x \in Byte : data[i + 2] = x /\ Area[i + 2] = x
      BY <1>6
    <3>2. t = [len |-> x, start |-> i + 2]
      BY <2>2, <3>1 DEF TlvAt
    <3> HIDE DEF t
    <3>3. t.len = x /\ t.start = i + 2 /\ x \in Nat /\ x < 255
      BY <2>2, <3>1, <3>2 DEF Byte
    <3>4. HeaderLen(t.len) = 2
      BY <3>3 DEF HeaderLen
    <3>5. /\ StoredEnd(i) = i + 2 + x
          /\ StoredAfter(i) = SubSeq(Area, i + 3, i + 2 + x)
      BY <2>2, <3>1 DEF StoredEnd, StoredAfter
    <3>6. t.start + 1 = i + 3 /\ t.start + t.len = i + 2 + x
      BY <3>3
    <3>7. t.len \in Nat /\ t.start \in Nat /\ t.start >= HeaderLen(t.len)
      BY <3>3, <3>4
    <3> QED  BY <3>5, <3>6, <3>7
  <2> QED  BY <2>1, <2>2
<1> HIDE DEF t
<1>10. TlvAt(mem[4] \o beyond, i) = t
  BY <1>8 DEF data, bytes, t
<1>11. t.start + t.len <= GetBufferSize(t.len)
  BY <1>4 DEF t
<1> QED  BY <1>3, <1>9, <1>10, <1>11
\* read() cannot open the next sector: there is none, and the area is read.
LEMMA ReadAuthFull ==
  ASSUME IInv, CellInv, HeaderInv, OpenBeyond, Formatted, ReadKeys = {"ndef"},
         ReadAuth, AuthFails(block, "a", key), faults' = 0,
         NEW n \in 0 .. 15, Holds(n)
  PROVE  StoredEnd(n) = AreaSize
<1>1. /\ pc = "rAuth" /\ key = "ndef" /\ index \in Nat
      /\ mem \in [DataBlocks -> BlockData]
  BY Typed DEF ReadAuth, CellInv, FreshInv, ReadPcs
<1>2. /\ index % 16 = 0 /\ index < GetBufferSize(tlv.len)
      /\ block = AreaBlock(index \div 16)
      /\ \A j \in 0 .. (index - 1) : AreaHas(j)
  BY <1>1 DEF CellInv, ReadArea
<1>3. ~(block < NumBlocks)
  <2>1. block \in Nat /\ block >= 4
    <3>1. index \div 16 \in Nat
      BY <1>1
    <3> QED  BY <1>2, <3>1, AreaBlockType
  <2>2. ~CanAuth(block, "a", "ndef") /\ auth # Deaf
    BY <1>1, AuthFailureCosts DEF IInv, ReadPosition
  <2> QED  BY <2>1, <2>2, NdefOpens
<1>4. index = AreaSize
  BY <1>1, <1>2, <1>3, LoopEnd
<1>5. PICK i \in 0 .. 15, beyond \in BeyondBlock :
        NdefStartsAt(mem[4], i) /\ tlv = TlvAt(mem[4] \o beyond, i)
  BY <1>1 DEF CellInv, ReadArea
<1>6. /\ tlv.len \in Nat /\ tlv.start \in Nat
      /\ tlv.start >= HeaderLen(tlv.len)
      /\ TlvAfter(i) /\ StoredEnd(i) = tlv.start + tlv.len
  BY <1>1, <1>5, HeaderFound
<1>7. n = i
  BY <1>1, <1>6, OneTlv DEF Holds
<1>8. StoredEnd(i) <= AreaSize /\ AreaSize \in Nat
  BY <1>1, <1>7, AreaType DEF Holds
<1>9. /\ GetBufferSize(tlv.len) \in Nat /\ GetBufferSize(tlv.len) % 16 = 0
      /\ tlv.len + HeaderLen(tlv.len) + 17 > GetBufferSize(tlv.len)
      /\ HeaderLen(tlv.len) \in Nat
  BY <1>6, BufferRoom DEF HeaderLen
<1>10. AreaSize + 16 <= GetBufferSize(tlv.len)
  BY <1>1, <1>2, <1>4, <1>9, WholeBlocks
<1>11. AreaSize <= tlv.start + tlv.len
  BY <1>6, <1>8, <1>9, <1>10
<1> QED  BY <1>6, <1>7, <1>8, <1>11

\* A read that fails with no fault.
LEMMA ReadFailsFull ==
  ASSUME IInv, CellInv, HeaderInv, OpenBeyond, Formatted, ReadKeys = {"ndef"},
         Reads, pc' = "idle", ret'.result # "message", faults' = 0,
         NEW n \in 0 .. 15, Holds(n)
  PROVE  StoredEnd(n) = AreaSize
<1>1. pc \in {"rFirstAuth", "rFirst", "rAuth", "rBlock"} /\ key = "ndef"
      /\ mem \in [DataBlocks -> BlockData]
  BY Typed DEF Reads, ReadFirstAuth, ReadFirst, ReadAuth, ReadBlock, CellInv,
               FreshInv, ReadPcs
<1>2. CASE ReadFirstAuth
  <2>1. AuthFails(4, "a", "ndef")
    BY <1>1, <1>2 DEF ReadFirstAuth
  <2>2. CanAuth(4, "a", "ndef")
    <3>1. auth # Deaf
      BY <1>2 DEF ReadFirstAuth, IInv, ReadPosition
    <3> QED  BY <3>1, NdefOpens, ClassicAssumption
  <2> QED  BY <2>1, <2>2, AuthFailureCosts
<1>3. CASE ReadFirst
  <2>1. ReadFails(4) \/ ~ \E i \in 0 .. 15 : NdefStartsAt(mem[4], i)
    BY <1>3 DEF ReadFirst
  <2>2. CanAccess(4)
    BY <1>3 DEF ReadFirst, IInv, ReadPosition
  <2>3. ~ReadFails(4)
    BY <2>2, FailureCosts DEF ReadFails
  <2>4. NdefStartsAt(mem[4], n)
    BY <1>1, OneTlv DEF Holds
  <2> QED  BY <2>1, <2>3, <2>4
<1>4. CASE ReadAuth
  <2>1. AuthFails(block, "a", key)
    BY <1>4 DEF ReadAuth
  <2> QED  BY <1>4, <2>1, ReadAuthFull
<1>5. CASE ReadBlock
  <2>1. ReadFails(block)
    <3>1. Return("read", "message", Delivered(buf \o Content(block), tlv)) =>
            ret'.result = "message"
      BY DEF Return
    <3> QED  BY <1>5, <3>1 DEF ReadBlock
  <2>2. pc = "rBlock" /\ block < BlockRange
    BY <1>5 DEF ReadBlock, CellInv, ReadArea
  <2>3. CanAccess(block)
    BY <2>2 DEF IInv, ReadPosition
  <2> QED  BY <2>1, <2>3, FailureCosts DEF ReadFails
<1> QED  BY <1>2, <1>3, <1>4, <1>5 DEF Reads

\* The reference reading of the tag does not depend on the operation.
LEMMA SameTag ==
  ASSUME mem' = mem, trailer' = trailer
  PROVE  /\ Formatted' = Formatted /\ OpenBeyond' = OpenBeyond
         /\ \A n : Holds(n)' = Holds(n) /\ StoredEnd(n)' = StoredEnd(n)
<1>1. \A n : Holds(n)' = Holds(n) /\ StoredEnd(n)' = StoredEnd(n)
  BY DEF Holds, TlvAfter, StoredEnd, Area, AreaByte
<1> QED  BY <1>1 DEF Formatted, OpenBeyond

\* Of the steps that end an operation, only those of op name op.
LEMMA WhoReturns ==
  ASSUME FreshInv, FreshInv', [Next]_vars, ~UNCHANGED vars,
         ret'.op \in {"read", "write"}
  PROVE  /\ pc' = "idle"
         /\ IF ret'.op = "read" THEN Reads ELSE Writes
<1>1. ret' # NoReturn
  BY DEF NoReturn
<1>2. pc' = "idle" /\ pc # "idle"
  BY <1>1, ResultForgotten DEF FreshInv
<1>3. Begins => FALSE
  BY <1>2 DEF Begins, StartRead, StartWrite, StartFormat, StartClean, Begin
<1>4. Reads => ret'.op = "read"
  <2>1. Reads => \E result, m : Return("read", result, m)
    BY <1>2 DEF Reads, ReadFirstAuth, ReadFirst, ReadAuth, ReadBlock
  <2> QED  BY <2>1 DEF Return
<1>5. Writes => ret'.op = "write"
  <2>1. Writes => \E result, m : Return("write", result, m)
    BY <1>2 DEF Writes, WriteAuth, WriteBlock
  <2> QED  BY <2>1 DEF Return
<1>6. Formats => ret'.op = "format"
  <2>1. Formats => \E result, m : Return("format", result, m)
    BY <1>2 DEF Formats, FormatAuth, FormatBlock, FormatTrailer
  <2> QED  BY <2>1 DEF Return
<1>7. Cleans => ret'.op = "clean"
  <2>1. Cleans => \E result, m : Return("clean", result, m)
    BY <1>2 DEF Cleans, CleanAuth, CleanBlock, CleanTrailer
  <2> QED  BY <2>1 DEF Return
<1> QED  BY <1>2, <1>3, <1>4, <1>5, <1>6, <1>7 DEF Next

LEMMA ReadFailStep ==
  ASSUME IInv, CellInv, CellInv', HeaderInv, ReadFailInv, [Next]_vars
  PROVE  ReadFailInv'
<1>1. CASE UNCHANGED vars
  <2>1. ReadRecognises' = ReadRecognises
    BY <1>1, SameResult DEF ReadRecognises
  <2>2. OpenBeyond' = OpenBeyond
    BY <1>1 DEF vars, OpenBeyond
  <2> QED  BY <2>1, <2>2 DEF ReadFailInv
<1>2. CASE ~UNCHANGED vars
  <2>1. SUFFICES ASSUME OpenBeyond', ret'.op = "read", ret'.result # "message",
                        Formatted', faults' = 0, ReadKeys = {"ndef"},
                        NEW n \in 0 .. 15, Holds(n)'
                 PROVE  StoredEnd(n)' = AreaSize
    BY DEF ReadFailInv, ReadRecognises, AreaSize
  <2>2. Reads /\ pc' = "idle"
    BY <1>2, <2>1, WhoReturns DEF CellInv
  <2>3. /\ Formatted /\ OpenBeyond /\ Holds(n)
        /\ StoredEnd(n)' = StoredEnd(n)
    BY <2>1, <2>2, QuietStep, SameTag
  <2> QED  BY <2>1, <2>2, <2>3, ReadFailsFull
<1> QED  BY <1>1, <1>2

\* A formatted tag that holds a message is recognised: with no call lost, a
\* read with its key fails only if the message leaves no room for the
\* terminator, on tags of all sizes that open with the NDEF key behind the
\* sectors formatNDEF works on.
THEOREM ReadsRecognise ==
  ASSUME DirectoryApart, ReadableTags
  PROVE  Spec => [](OpenBeyond => ReadRecognises)
<1>1. Init => ReadFailInv
  BY DEF Init, ReadFailInv, ReadRecognises, NoReturn
<1>2. IInv /\ CellInv /\ CellInv' /\ HeaderInv /\ ReadFailInv /\ [Next]_vars
        => ReadFailInv'
  BY ReadFailStep
<1> QED  BY <1>1, <1>2, HeaderInvariance, PTL DEF Spec, ReadFailInv
-----------------------------------------------------------------------------
\* write() cannot open the next sector: there is none, and the message with
\* its terminator needs more.
LEMMA WriteAuthFull ==
  ASSUME IInv, CellInv, OpenBeyond, Formatted,
         WriteAuth, AuthFails(block, "a", "ndef"), faults' = 0
  PROVE  Len(msg) + (IF Len(msg) < 255 THEN 3 ELSE 5) > AreaSize
<1>1. /\ pc = "wAuth" /\ index \in Nat /\ index % 16 = 0
      /\ msg \in Messages /\ index < GetBufferSize(Len(msg))
  BY Typed DEF WriteAuth, IInv, WritePosition
<1>2. /\ block = AreaBlock(index \div 16) % BlockRange
      /\ \A j \in 0 .. (index - 1) : AreaHas(j)
  BY <1>1 DEF CellInv, WriteArea
<1> DEFINE b == AreaBlock(index \div 16)
<1>3. ~(b < NumBlocks)
  <2>1. b \in Nat /\ b >= 4
    <3>1. index \div 16 \in Nat
      BY <1>1
    <3> QED  BY <3>1, AreaBlockType
  <2>2. ~CanAuth(block, "a", "ndef") /\ auth # Deaf
    BY <1>1, AuthFailureCosts DEF IInv, WritePosition
  <2>3. block = b % BlockRange
    BY <1>2
  <2> HIDE DEF b
  <2>4. b < NumBlocks => block = b /\ CanAuth(b, "a", "ndef")
    BY <2>1, <2>2, <2>3, NdefOpens
  <2> QED  BY <2>2, <2>4
<1>4. index = AreaSize
  BY <1>1, <1>2, <1>3, LoopEnd
<1>5. Len(msg) \in Nat
  BY <1>1, ClassicAssumption
<1>6. /\ GetBufferSize(Len(msg)) \in Nat /\ GetBufferSize(Len(msg)) % 16 = 0
      /\ Len(msg) + HeaderLen(Len(msg)) + 17 > GetBufferSize(Len(msg))
  BY <1>5, BufferRoom
<1>7. index + 16 <= GetBufferSize(Len(msg))
  BY <1>1, <1>6, WholeBlocks
<1>8. (IF Len(msg) < 255 THEN 3 ELSE 5) = HeaderLen(Len(msg)) + 1
      /\ HeaderLen(Len(msg)) \in Nat
  BY DEF HeaderLen
<1> QED  BY <1>1, <1>4, <1>5, <1>6, <1>7, <1>8, SMTT(40)

\* A write to a formatted tag has the key and the access bits it needs.
LEMMA MayWrite ==
  ASSUME IInv, WriteBlock, Formatted, OpenBeyond
  PROVE  CanWrite(block)
<1>1. /\ pc = "wBlock" /\ CanAccess(block) /\ block \in Nat
      /\ block < BlockRange /\ ~IsTrailer(block)
      /\ SectorOf(block) = 0 => trailer[0].a = "ndef"
  BY Typed DEF WriteBlock, IInv, WritePosition
<1>2. block % BlockRange = block
  BY <1>1, SmallBlock
<1>3. block \in DataBlocks /\ block < NumBlocks /\ auth = SectorOf(block)
  BY <1>1, <1>2, ClassicAssumption DEF CanAccess, DataBlocks, Blocks
<1>4. block >= 4
  <2>1. SUFFICES ASSUME block < 4 PROVE FALSE
    BY <1>1
  <2>2. SectorOf(block) = 0 /\ SectorOf(block) \in Sectors
    BY <1>1, <1>2, <2>1, LongStartAssumption DEF SectorOf, CanAccess, Sectors
  <2>3. trailer[0] = FormattedTrailer(0)
    <3>1. 0 \in Sectors /\ 0 < FormatSectors
      BY <2>2, ClassicAssumption
    <3> QED  BY <3>1 DEF Formatted
  <2>4. trailer[0].a = "mad"
    BY <2>3 DEF FormattedTrailer
  <2> QED  BY <1>1, <2>2, <2>4
<1>5. trailer[auth].bits = "ndef"
  BY <1>1, <1>3, <1>4, NdefOpens
<1>6. SessionKey = "a" /\ DataWriters["ndef"] = {"a", "b"}
  BY <1>1 DEF SessionKey, DataWriters
<1> QED  BY <1>1, <1>2, <1>3, <1>5, <1>6 DEF CanWrite

LEMMA WriteFailStep ==
  ASSUME IInv, CellInv, CellInv', WriteFailInv, [Next]_vars
  PROVE  WriteFailInv'
<1>1. CASE UNCHANGED vars
  <2>1. WriteFailsOnlyWhenFull' = WriteFailsOnlyWhenFull
    BY <1>1, SameResult DEF WriteFailsOnlyWhenFull, AreaSize
  <2>2. OpenBeyond' = OpenBeyond
    BY <1>1 DEF vars, OpenBeyond
  <2> QED  BY <2>1, <2>2 DEF WriteFailInv
<1>2. CASE ~UNCHANGED vars
  <2>1. SUFFICES ASSUME OpenBeyond', ret'.op = "write", ret'.result = "false",
                        Formatted', faults' = 0
                 PROVE  Len(ret'.msg) + (IF Len(ret'.msg) < 255 THEN 3 ELSE 5)
                          > AreaSize
    BY DEF WriteFailInv, WriteFailsOnlyWhenFull, AreaSize
  <2>2. Writes /\ pc' = "idle"
    BY <1>2, <2>1, WhoReturns DEF CellInv
  <2>3. CASE WriteAuth
    <3>1. AuthFails(block, "a", "ndef") /\ ret'.msg = msg
      BY <2>2, <2>3 DEF WriteAuth, Return
    <3>2. Formatted /\ OpenBeyond
      BY <2>1, <2>3, QuietStep, SameTag
    <3> QED  BY <2>1, <2>3, <3>1, <3>2, WriteAuthFull
  <2>4. CASE WriteBlock
    <3>1. WriteFails(block, Slice(Image(msg), index))
      <4>1. Return("write", "true", msg) => ret'.result = "true"
        BY DEF Return
      <4> QED  BY <2>1, <2>2, <2>4, <4>1 DEF WriteBlock
    <3>2. AccessFails(CanWrite(block))
      BY <3>1 DEF WriteFails
    <3>3. trailer' = trailer
      BY <2>4, WriteEffect
    <3>4. Formatted /\ OpenBeyond
      BY <2>1, <3>3 DEF Formatted, OpenBeyond
    <3>5. CanWrite(block)
      BY <2>4, <3>4, MayWrite
    <3> QED  BY <2>1, <3>2, <3>5, FailureCosts
  <2> QED  BY <2>2, <2>3, <2>4 DEF Writes
<1> QED  BY <1>1, <1>2

\* A write to a formatted tag fails for two reasons only: a call was lost, or
\* message, length field and terminator need more bytes than the area has.
THEOREM WritesFailWhenFull ==
  ASSUME DirectoryApart
  PROVE  Spec => [](OpenBeyond => WriteFailsOnlyWhenFull)
<1>1. Init => WriteFailInv
  BY DEF Init, WriteFailInv, WriteFailsOnlyWhenFull, NoReturn
<1>2. IInv /\ CellInv /\ CellInv' /\ WriteFailInv /\ [Next]_vars
        => WriteFailInv'
  BY WriteFailStep
<1> QED  BY <1>1, <1>2, CellInvariance, PTL DEF Spec, WriteFailInv
-----------------------------------------------------------------------------
(***************************************************************************)
(* The driver implements the message cell.                                 *)
(***************************************************************************)

\* A tag whose area begins with the image of a message holds that message.
LEMMA ImageIsStored ==
  \A m \in Messages :
    /\ mem \in [DataBlocks -> BlockData]
    /\ \A n \in 0 .. (GetBufferSize(Len(m)) - 1) :
         AreaHas(n) /\ AreaByte(n) = Image(m)[n + 1]
    => Stored = m
<1> SUFFICES ASSUME NEW m \in Messages,
                    mem \in [DataBlocks -> BlockData],
                    \A n \in 0 .. (GetBufferSize(Len(m)) - 1) :
                      AreaHas(n) /\ AreaByte(n) = Image(m)[n + 1]
             PROVE  Stored = m
  OBVIOUS
<1> DEFINE k == Len(m)
           h == HeaderLen(k)
           g == GetBufferSize(k)
<1>1. m \in Seq(Byte) /\ k \in Nat /\ h \in {2, 4} /\ (k < 255 <=> h = 2)
  <2>1. k < 255 <=> h = 2
    BY DEF HeaderLen
  <2> QED  BY <2>1, ImageShape
<1>2. /\ Image(m)[1] = 3
      /\ k < 255 => Image(m)[2] = k
      /\ k >= 255 => /\ Image(m)[2] = 255
                     /\ Image(m)[3] * 256 + Image(m)[4] = k
  BY ImageShape
<1>3. \A i \in 1 .. k : Image(m)[h + i] = m[i]
  BY ImageShape
<1>4. g \in Nat /\ g >= k + h + 1 /\ g >= 16
  BY <1>1, BufferRoom, BufferSize
<1>5. AreaSize \in Nat /\ AreaSize >= 48 /\ Len(Area) = AreaSize
  BY AreaType
<1>6. Area \in Seq(Byte) /\ \A n \in 1 .. AreaSize : Area[n] = AreaByte(n - 1)
  BY AreaType
<1>7. g <= AreaSize
  <2>1. g - 1 \in 0 .. (g - 1)
    BY <1>4
  <2>2. AreaHas(g - 1)
    BY <2>1
  <2>3. g - 1 < AreaSize
    BY <2>1, <2>2, AreaReach
  <2> QED  BY <1>4, <1>5, <2>3
<1> HIDE DEF h
<1>8. ASSUME NEW n \in 1 .. g
      PROVE  Area[n] = Image(m)[n] /\ Area[n] \in Byte
  <2> HIDE DEF g, k
  <2>1. n \in 1 .. AreaSize /\ n - 1 \in 0 .. (g - 1) /\ (n - 1) + 1 = n
    BY <1>4, <1>5, <1>7
  <2>2. Area[n] \in Byte
    BY <1>5, <1>6, <2>1, ElementOfSeq
  <2>3. Area[n] = AreaByte(n - 1)
    BY <1>6, <2>1
  <2>4. AreaByte(n - 1) = Image(m)[n]
    BY <2>1 DEF g, k
  <2> QED  BY <2>2, <2>3, <2>4
<1> HIDE DEF k, g
<1>9. ASSUME NEW i \in 1 .. k
      PROVE  m[i] = Area[h + i]
  <2>1. h + i \in 1 .. g
    BY <1>1, <1>4
  <2> QED  BY <1>3, <1>8, <2>1
<1>10. \A n \in 1 .. 4 : Area[n] = Image(m)[n] /\ Area[n] \in Byte
  <2>1. \A n \in 1 .. 4 : n \in 1 .. g
    BY <1>4
  <2> QED  BY <1>8, <2>1
<1>11. Area[1] = 3 /\ StoredEnd(0) = h + k
       /\ StoredAfter(0) = SubSeq(Area, h + 1, h + k)
  <2>1. CASE k < 255
    <3>1. Area[1] = 3 /\ Area[2] = k /\ h = 2
      BY <1>1, <1>2, <1>10, <2>1
    <3> QED  BY <1>1, <2>1, <3>1 DEF StoredEnd, StoredAfter
  <2>2. CASE ~(k < 255)
    <3>1. /\ Area[1] = 3 /\ Area[2] = 255 /\ h = 4
          /\ Image(m)[3] * 256 + Image(m)[4] = k
      BY <1>1, <1>2, <1>10, <2>2
    <3>2. PICK x \in Byte, y \in Byte : Area[3] = x /\ Area[4] = y
      BY <1>10
    <3>3. Image(m)[3] = x /\ Image(m)[4] = y
      BY <1>10, <3>2
    <3>4. x * 256 + y = k
      BY <3>1, <3>3
    <3>5. x \in Nat /\ y \in Nat
      BY DEF Byte
    <3>6. StoredEnd(0) = 0 + 4 + 256 * x + y
          /\ StoredAfter(0) = SubSeq(Area, 0 + 5, 0 + 4 + 256 * x + y)
      <4>1. Area[0 + 2] = 255 /\ Area[0 + 3] = x /\ Area[0 + 4] = y
        BY <3>1, <3>2
      <4> QED  BY <4>1, Zenon DEF StoredEnd, StoredAfter
    <3>7. 0 + 4 + 256 * x + y = h + k /\ 0 + 5 = h + 1
      BY <3>1, <3>4, <3>5
    <3> QED  BY <3>1, <3>6, <3>7
  <2> QED  BY <2>1, <2>2
<1>12. h + k <= AreaSize /\ h \in Nat
  BY <1>1, <1>4, <1>5, <1>7
<1>13. Holds(0)
  BY <1>11, <1>12 DEF Holds, TlvAfter
<1>14. Stored = SubSeq(Area, h + 1, h + k)
  BY <1>11, <1>13, OneTlv
<1>15. SubSeq(Area, h + 1, h + k) = m
  <2>1. Len(m) = k
    BY DEF k
  <2> QED  BY <1>1, <1>5, <1>6, <1>9, <1>12, <2>1, Part
<1> QED  BY <1>14, <1>15

\* When write() reports success, its message is on the tag.
LEMMA WriteStores ==
  ASSUME IInv, IInv', CellInv, WriteBlock,
         WriteOk(block, Slice(Image(msg), index)),
         ~(index + 16 < GetBufferSize(Len(msg)))
  PROVE  Stored' = msg
<1>1. /\ pc = "wBlock" /\ WriteArea /\ index \in Nat /\ index % 16 = 0
      /\ msg \in Messages /\ index < GetBufferSize(Len(msg))
  BY WritesArea DEF WriteBlock, CellInv
<1>2. \A n \in 0 .. (index + 15) :
        AreaHas(n) /\ AreaByte(n)' = Image(msg)[n + 1]
  BY <1>1, WriteAdvances
<1>3. GetBufferSize(Len(msg)) - 1 = index + 15
  <2>1. Len(msg) \in Nat
    BY <1>1, ClassicAssumption
  <2>2. GetBufferSize(Len(msg)) \in Nat /\ GetBufferSize(Len(msg)) % 16 = 0
    BY <2>1, BufferSize
  <2>3. index + 16 <= GetBufferSize(Len(msg))
    BY <1>1, <2>2, WholeBlocks
  <2> QED  BY <1>1, <2>2, <2>3
<1>4. mem' \in [DataBlocks -> BlockData]
  BY DEF IInv, TypeOK, TagAndLink
<1>5. (\A m \in Messages :
         /\ mem \in [DataBlocks -> BlockData]
         /\ \A n \in 0 .. (GetBufferSize(Len(m)) - 1) :
              AreaHas(n) /\ AreaByte(n) = Image(m)[n + 1]
         => Stored = m)'
  BY ImageIsStored, PTL
<1>6. \A n \in 0 .. (GetBufferSize(Len(msg)) - 1) :
        AreaHas(n) /\ AreaByte(n)' = Image(msg)[n + 1]
  BY <1>2, <1>3
<1>7. \A n : AreaHas(n)' = AreaHas(n)
  BY DEF AreaHas
<1> QED  BY <1>1, <1>4, <1>5, <1>6, <1>7

\* When read() returns a message, it is the one on the tag.
LEMMA ReadDelivers ==
  ASSUME IInv, CellInv, HeaderInv, ReadBlock,
         ~(index + 16 < GetBufferSize(tlv.len))
  PROVE  Delivered(buf \o Content(block), tlv) = Stored
<1> DEFINE bytes == buf \o Content(block)
<1>1. /\ pc = "rBlock" /\ ReadArea /\ index \in Nat /\ index % 16 = 0
      /\ mem \in [DataBlocks -> BlockData]
      /\ index < GetBufferSize(tlv.len)
  BY Typed DEF ReadBlock, CellInv, ReadArea
<1>2. /\ bytes \in Seq(Byte) /\ Len(bytes) = index + 16
      /\ \A n \in 0 .. (index + 15) :
           AreaHas(n) /\ bytes[n + 1] = AreaByte(n)
  BY <1>1, BufferGrows
<1> HIDE DEF bytes
<1>3. PICK i \in 0 .. 15, beyond \in BeyondBlock :
        NdefStartsAt(mem[4], i) /\ tlv = TlvAt(mem[4] \o beyond, i)
  BY <1>1 DEF ReadArea
<1>4. /\ tlv.len \in Nat /\ tlv.start \in Nat
      /\ tlv.start + tlv.len <= GetBufferSize(tlv.len)
      /\ TlvAfter(i) /\ StoredEnd(i) = tlv.start + tlv.len
      /\ StoredAfter(i) = SubSeq(Area, tlv.start + 1, tlv.start + tlv.len)
  BY <1>1, <1>3, HeaderFound
<1>5. GetBufferSize(tlv.len) <= index + 16
  <2>1. GetBufferSize(tlv.len) \in Nat
    BY <1>4, BufferSize
  <2> QED  BY <1>1, <2>1
<1>6. AreaSize \in Nat /\ Len(Area) = AreaSize
  BY <1>1, AreaType
<1>7. Area \in Seq(Byte) /\ \A n \in 1 .. AreaSize : Area[n] = AreaByte(n - 1)
  BY <1>1, AreaType
<1> DEFINE a == tlv.start
           k == tlv.len
<1>8. /\ a \in Nat /\ k \in Nat /\ a + k <= index + 16
      /\ index + 16 <= AreaSize /\ index \in Nat
  <2>1. index + 15 \in 0 .. (index + 15)
    BY <1>1
  <2>2. index + 15 < AreaSize
    BY <1>2, <2>1, AreaReach
  <2>3. GetBufferSize(tlv.len) \in Nat
    BY <1>4, BufferSize
  <2> QED  BY <1>1, <1>4, <1>5, <1>6, <2>2, <2>3
<1>9. Stored = SubSeq(Area, a + 1, a + k)
  <2>1. StoredEnd(i) <= AreaSize
    BY <1>4, <1>6, <1>8
  <2>2. Holds(i)
    BY <1>4, <2>1 DEF Holds
  <2> QED  BY <1>1, <1>4, <2>2, OneTlv
<1> DEFINE m == Delivered(bytes, tlv)
<1>10. m = [j \in 1 .. k |-> IF a + j <= Len(bytes) THEN bytes[a + j]
                                                     ELSE Garbage]
  BY DEF Delivered
<1> HIDE DEF a, k, m
<1>11. ASSUME NEW j \in 1 .. k
       PROVE  a + j <= Len(bytes) /\ bytes[a + j] \in Byte
              /\ bytes[a + j] = Area[a + j]
  <2>1. /\ a + j \in 1 .. (index + 16) /\ a + j \in 1 .. AreaSize
        /\ (a + j) - 1 \in 0 .. (index + 15) /\ ((a + j) - 1) + 1 = a + j
    BY <1>6, <1>8
  <2>2. a + j \in 1 .. Len(bytes) /\ a + j <= Len(bytes)
    BY <1>2, <2>1
  <2>3. bytes[a + j] \in Byte
    BY <1>2, <2>2, ElementOfSeq
  <2>4. bytes[a + j] = AreaByte((a + j) - 1)
    BY <1>2, <2>1
  <2>5. Area[a + j] = AreaByte((a + j) - 1)
    BY <1>7, <2>1
  <2> QED  BY <2>2, <2>3, <2>4, <2>5
<1>12. m = [j \in 1 .. k |-> bytes[a + j]]
  BY <1>10, <1>11
<1>13. m \in Seq(Byte) /\ Len(m) = k
  <2>1. m \in [1 .. k -> Byte]
    BY <1>11, <1>12
  <2> QED  BY <1>8, <2>1, FunctionIsSeq
<1>14. \A j \in 1 .. k : m[j] = Area[a + j]
  BY <1>11, <1>12
<1>15. a + k <= Len(Area)
  BY <1>6, <1>8
<1>16. SubSeq(Area, a + 1, a + k) = m
  BY <1>7, <1>8, <1>13, <1>14, <1>15, Part
<1> QED  BY <1>9, <1>16 DEF m, bytes
\* What the cell sees of a call that begins.
LEMMA CellCall ==
  ASSUME Begins
  PROVE  Running = "none" /\ Running' \in {"read", "write", "format", "clean"}
         /\ Stored' = Stored
<1>1. /\ pc = "idle" /\ pc' \in {"rFirstAuth", "wAuth", "fAuth", "cAuth"}
      /\ mem' = mem
  BY QuietStep
     DEF Begins, StartRead, StartWrite, StartFormat, StartClean, Begin
<1> QED  BY <1>1, StoredKept DEF Running

\* What the cell sees of a step that returns.
LEMMA CellReturn ==
  ASSUME Running # "none", NEW op, NEW result, NEW m, Return(op, result, m),
         Running = "read" => mem' = mem /\ (result = "message" => m = Stored),
         Running = "write" /\ result = "true" => Stored' = msg
  PROVE  Cell!Next
<1>1. Running' = "none" /\ ret'.result = result /\ ret'.msg = m
  BY DEF Return, Running
<1>2. Running \in {"read", "write", "format", "clean"}
  BY DEF Running
<1>3. Running = "read" => Stored' = Stored
  BY StoredKept
<1>4. CASE Running = "read" /\ result = "message"
  BY <1>1, <1>3, <1>4 DEF Cell!Next, Cell!ReadMessage
<1>5. CASE Running = "write" /\ result = "true"
  BY <1>1, <1>5 DEF Cell!Next, Cell!Written
<1>6. CASE /\ ~(Running = "read" /\ result = "message")
           /\ ~(Running = "write" /\ result = "true")
  BY <1>1, <1>2, <1>3, <1>6 DEF Cell!Next, Cell!Done
<1> QED  BY <1>4, <1>5, <1>6

\* What the cell sees of a step inside an operation.
LEMMA CellInside ==
  ASSUME Running' = Running, UNCHANGED <<msg, ret>>,
         mem' = mem \/ Running \in {"write", "format", "clean"}
  PROVE  [Cell!Next]_(Cell!vars)
<1>1. CASE mem' = mem
  BY <1>1, StoredKept DEF Cell!vars
<1>2. CASE Running \in {"write", "format", "clean"}
  BY <1>2 DEF Cell!Next, Cell!Work
<1> QED  BY <1>1, <1>2

LEMMA StoreStepRead ==
  ASSUME IInv, CellInv, HeaderInv, Reads
  PROVE  [Cell!Next]_(Cell!vars)
<1>1. Running = "read" /\ mem' = mem
  BY QuietStep DEF Reads, ReadFirstAuth, ReadFirst, ReadAuth, ReadBlock, Running
<1>2. CASE \E result \in {"no message", "unknown", "unformatted"} :
             Return("read", result, << >>)
  BY <1>1, <1>2, CellReturn
<1>3. CASE pc' \in {"rFirst", "rAuth", "rBlock"} /\ UNCHANGED <<msg, ret>>
  <2>1. Running' = Running
    BY <1>1, <1>3 DEF Running
  <2> QED  BY <1>1, <1>3, <2>1, CellInside
<1>4. CASE /\ ReadBlock
           /\ ~(index + 16 < GetBufferSize(tlv.len))
           /\ Return("read", "message", Delivered(buf \o Content(block), tlv))
  <2>1. Delivered(buf \o Content(block), tlv) = Stored
    BY <1>4, ReadDelivers
  <2> QED  BY <1>1, <1>4, <2>1, CellReturn
<1>5. CASE ReadFirstAuth
  BY <1>2, <1>3, <1>5 DEF ReadFirstAuth, locals
<1>6. CASE ReadFirst
  BY <1>2, <1>3, <1>6 DEF ReadFirst
<1>7. CASE ReadAuth
  BY <1>2, <1>3, <1>7 DEF ReadAuth, locals
<1>8. CASE ReadBlock
  BY <1>2, <1>3, <1>4, <1>8 DEF ReadBlock
<1> QED  BY <1>5, <1>6, <1>7, <1>8 DEF Reads

LEMMA StoreStepWrite ==
  ASSUME IInv, IInv', CellInv, Writes
  PROVE  [Cell!Next]_(Cell!vars)
<1>1. Running = "write"
  BY DEF Writes, WriteAuth, WriteBlock, Running
<1>2. CASE Return("write", "false", msg)
  BY <1>1, <1>2, CellReturn
<1>3. CASE pc' \in {"wAuth", "wBlock"} /\ UNCHANGED <<msg, ret>>
  <2>1. Running' = Running
    BY <1>1, <1>3 DEF Running
  <2> QED  BY <1>1, <1>3, <2>1, CellInside
<1>4. CASE /\ WriteBlock
           /\ WriteOk(block, Slice(Image(msg), index))
           /\ ~(index + 16 < GetBufferSize(Len(msg)))
           /\ Return("write", "true", msg)
  <2>1. Stored' = msg
    BY <1>4, WriteStores
  <2> QED  BY <1>1, <1>4, <2>1, CellReturn
<1>5. CASE WriteAuth
  BY <1>2, <1>3, <1>5 DEF WriteAuth, locals
<1>6. CASE WriteBlock
  BY <1>2, <1>3, <1>4, <1>6 DEF WriteBlock
<1> QED  BY <1>5, <1>6 DEF Writes

LEMMA StoreStepKeys ==
  ASSUME Formats \/ Cleans
  PROVE  [Cell!Next]_(Cell!vars)
<1>1. CASE Formats
  <2>1. Running = "format"
    BY <1>1 DEF Formats, FormatAuth, FormatBlock, FormatTrailer, Running
  <2>2. \/ \E result : Return("format", result, << >>)
        \/ pc' \in {"fAuth", "fBlock"} /\ UNCHANGED <<msg, ret>>
    BY <1>1 DEF Formats, FormatAuth, FormatBlock, FormatTrailer, locals
  <2>3. CASE \E result : Return("format", result, << >>)
    BY <2>1, <2>3, CellReturn
  <2>4. CASE pc' \in {"fAuth", "fBlock"} /\ UNCHANGED <<msg, ret>>
    <3>1. Running' = Running
      BY <2>1, <2>4 DEF Running
    <3> QED  BY <2>1, <2>4, <3>1, CellInside
  <2> QED  BY <2>2, <2>3, <2>4
<1>2. CASE Cleans
  <2>1. Running = "clean"
    BY <1>2 DEF Cleans, CleanAuth, CleanBlock, CleanTrailer, Running
  <2>2. \/ \E result : Return("clean", result, << >>)
        \/ pc' \in {"cAuth", "cBlock"} /\ UNCHANGED <<msg, ret>>
    BY <1>2 DEF Cleans, CleanAuth, CleanBlock, CleanTrailer
  <2>3. CASE \E result : Return("clean", result, << >>)
    BY <2>1, <2>3, CellReturn
  <2>4. CASE pc' \in {"cAuth", "cBlock"} /\ UNCHANGED <<msg, ret>>
    <3>1. Running' = Running
      BY <2>1, <2>4 DEF Running
    <3> QED  BY <2>1, <2>4, <3>1, CellInside
  <2> QED  BY <2>2, <2>3, <2>4
<1> QED  BY <1>1, <1>2

LEMMA StoreNextStep ==
  ASSUME IInv, IInv', CellInv, HeaderInv, [Next]_vars
  PROVE  [Cell!Next]_(Cell!vars)
<1>1. CASE Begins
  BY <1>1, CellCall DEF Cell!Next, Cell!Call
<1>2. CASE Reads
  BY <1>2, StoreStepRead
<1>3. CASE Writes
  BY <1>3, StoreStepWrite
<1>4. CASE Formats \/ Cleans
  BY <1>4, StoreStepKeys
<1>5. CASE UNCHANGED vars
  <2>1. UNCHANGED <<mem, msg, ret, pc>>
    BY <1>5 DEF vars
  <2> QED  BY <2>1, CellInside DEF Running
<1> QED  BY <1>1, <1>2, <1>3, <1>4, <1>5 DEF Next

\* The driver is a message cell on tags of every size, whatever calls are
\* lost: a read that returns a message returns the one on the tag, and a
\* write that reports success has put exactly its message there.
THEOREM ClassicImplementsNdefStore ==
  ASSUME DirectoryApart, ReadableTags
  PROVE  Spec => ImplementsNdefStore
<1>1. Init => Cell!Init
  BY DEF Init, Cell!Init, Running, NoReturn
<1>2. IInv /\ IInv' /\ CellInv /\ HeaderInv /\ [Next]_vars
        => [Cell!Next]_(Cell!vars)
  BY StoreNextStep
<1> QED  BY <1>1, <1>2, HeaderInvariance, PTL
         DEF Spec, ImplementsNdefStore, Cell!Spec
=============================================================================

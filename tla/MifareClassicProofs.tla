------------------------- MODULE MifareClassicProofs -------------------------
(***************************************************************************)
(* Proofs about the Mifare Classic driver, for every tag size, sector      *)
(* layout, set of messages and number of lost calls.                       *)
(***************************************************************************)
EXTENDS MifareClassicProperties, SequenceTheorems, TLAPS

-----------------------------------------------------------------------------
(* Arithmetic of block numbers. *)

\* A number in the range of a remainder is its own remainder.
LEMMA ModSmall ==
  ASSUME NEW n \in Nat, NEW a \in Nat, a < n
  PROVE  a % n = a
  BY Z3

\* The remainder of a number by itself.
LEMMA ModSelf ==
  ASSUME NEW n \in Nat, n > 0
  PROVE  n % n = 0
  BY Z3

\* Block numbers below BlockRange reach the reader unchanged.
LEMMA SmallBlock ==
  ASSUME NEW b \in Nat, b < BlockRange
  PROVE  b % BlockRange = b
  BY ModSmall, BlockRangeAssumption

\* Stepping over a trailer leads to a block that is none, and that opens a
\* sector or stays in the sector it comes from and on the tag.
LEMMA SkipStep ==
  ASSUME NEW b \in Nat, ~IsTrailer(b)
  PROVE  LET n == SkipTrailer(b + 1)
         IN  /\ n \in Nat /\ n > b
             /\ ~IsTrailer(n)
             /\ n <= b + 2
             /\ n = b + 2 => IsSectorStart(n)
             /\ IsSectorStart(n) \/ /\ SectorOf(n) = SectorOf(b)
                                    /\ n = b + 1
                                    /\ b \in Blocks => n \in Blocks
  BY LongStartAssumption, ClassicAssumption, BlockRangeAssumption, SMT
  DEF SkipTrailer, IsTrailer, IsSectorStart, SectorOf, Blocks

\* The next block of write, a byte: it may wrap to block 0, which opens a
\* sector, and is never a trailer.
LEMMA WriteStep ==
  ASSUME NEW b \in Nat, b < BlockRange, ~IsTrailer(b)
  PROVE  LET n == NextWriteBlock(b)
         IN  /\ n \in Nat /\ n < BlockRange
             /\ ~IsTrailer(n)
             /\ IsSectorStart(n) \/ /\ SectorOf(n) = SectorOf(b)
                                    /\ n = b + 1
                                    /\ b \in Blocks => n \in Blocks
<1>1. /\ BlockRange \in Nat /\ BlockRange % 16 = 0 /\ BlockRange > LongStart
      /\ LongStart \in Nat /\ LongStart % 16 = 0 /\ LongStart >= 16
  BY BlockRangeAssumption, LongStartAssumption
<1>2. b + 1 < BlockRange
  <2>1. IsTrailer(BlockRange - 1)
    BY <1>1 DEF IsTrailer
  <2> QED  BY <1>1, <2>1
<1>3. (b + 1) % BlockRange = b + 1
  BY <1>1, <1>2, ModSmall
<1>4. /\ ~IsTrailer(0) /\ IsSectorStart(0)
  BY <1>1 DEF IsTrailer, IsSectorStart
<1> DEFINE n == SkipTrailer(b + 1)
<1>5. /\ n \in Nat /\ ~IsTrailer(n) /\ n <= b + 2
      /\ IsSectorStart(n) \/ /\ SectorOf(n) = SectorOf(b)
                             /\ n = b + 1
                             /\ b \in Blocks => n \in Blocks
  BY SkipStep
<1>6. CASE n < BlockRange
  BY <1>1, <1>3, <1>5, <1>6, ModSmall DEF NextWriteBlock
<1>7. CASE n = BlockRange
  <2>1. n % BlockRange = 0
    BY <1>1, <1>7, ModSelf
  <2> QED  BY <1>1, <1>3, <1>4, <2>1 DEF NextWriteBlock
<1> QED  BY <1>1, <1>2, <1>5, <1>6, <1>7
-----------------------------------------------------------------------------
(* The data of commands. *)

LEMMA Rounded ==
  ASSUME NEW n \in Nat
  PROVE  /\ RoundUp16(n) \in Nat
         /\ RoundUp16(n) >= n
         /\ RoundUp16(n) % 16 = 0
  BY DEF RoundUp16

\* The buffer of a message is a whole number of blocks, at least one.
LEMMA BufferSize ==
  ASSUME NEW n \in Nat
  PROVE  /\ GetBufferSize(n) \in Nat
         /\ GetBufferSize(n) >= 16
         /\ GetBufferSize(n) % 16 = 0
<1>1. GetBufferSize(n) \in Nat /\ GetBufferSize(n) > 0
  BY Rounded DEF GetBufferSize
<1>2. GetBufferSize(n) % 16 = 0
  BY Rounded DEF GetBufferSize
<1> QED  BY <1>1, <1>2

LEMMA FunctionIsSeq ==
  ASSUME NEW S, NEW n \in Nat, NEW f \in [1 .. n -> S]
  PROVE  f \in Seq(S) /\ Len(f) = n /\ DOMAIN f = 1 .. n
<1>1. f \in Seq(S)
  BY SeqDef
<1>2. DOMAIN f = 1 .. n
  OBVIOUS
<1> QED  BY <1>1, <1>2, LenProperties

\* Of a whole number of blocks, another whole block follows.
LEMMA WholeBlocks ==
  ASSUME NEW i \in Nat, NEW g \in Nat, i % 16 = 0, g % 16 = 0, i < g
  PROVE  i + 16 <= g /\ (i + 16) % 16 = 0
  BY SMT

LEMMA FourBytes ==
  ASSUME NEW w \in Byte, NEW x \in Byte, NEW y \in Byte, NEW z \in Byte
  PROVE  <<w, x, y, z>> \in Seq(Byte) /\ Len(<<w, x, y, z>>) = 4
  OBVIOUS

LEMMA ByteOf ==
  ASSUME NEW n \in Nat
  PROVE  n % 256 \in Byte /\ (n \div 256) % 256 \in Byte
  BY SMT DEF Byte

LEMMA HeaderType ==
  ASSUME NEW n \in Nat
  PROVE  Header(n) \in Seq(Byte) /\ Len(Header(n)) \in Nat
<1>1. CASE n < 255
  <2>1. 3 \in Byte /\ n \in Byte
    BY <1>1 DEF Byte
  <2> QED  BY <1>1, <2>1 DEF Header
<1>2. CASE ~(n < 255)
  <2>1. 3 \in Byte /\ 255 \in Byte
    BY DEF Byte
  <2>2. Header(n) = <<3, 255, (n \div 256) % 256, n % 256>>
    BY <1>2 DEF Header
  <2> HIDE DEF Header
  <2> QED  BY <2>1, <2>2, ByteOf, FourBytes
<1> QED  BY <1>1, <1>2

\* What write() sends are bytes.
LEMMA SliceType ==
  ASSUME NEW m \in Messages, NEW i \in Nat,
         i % 16 = 0, i < GetBufferSize(Len(m))
  PROVE  Slice(Image(m), i) \in BlockData
<1>1. m \in Seq(Byte) /\ Len(m) \in Nat /\ Len(m) <= 65535
  BY ClassicAssumption
<1>2. GetBufferSize(Len(m)) \in Nat /\ i + 16 <= GetBufferSize(Len(m))
  <2>1. Len(m) \in Nat
    BY <1>1
  <2>2. GetBufferSize(Len(m)) \in Nat /\ GetBufferSize(Len(m)) % 16 = 0
    BY <2>1, BufferSize
  <2> QED  BY <2>2, WholeBlocks
<1> DEFINE h == Header(Len(m))
<1>3. h \in Seq(Byte) /\ Len(h) \in Nat
  BY <1>1, HeaderType
<1> HIDE DEF h
<1>4. ASSUME NEW j \in 1 .. GetBufferSize(Len(m))
      PROVE  Image(m)[j] \in Byte
  <2>1. Image(m)[j] = IF j <= Len(h) THEN h[j]
                      ELSE IF j <= Len(h) + Len(m) THEN m[j - Len(h)]
                      ELSE IF j = Len(h) + Len(m) + 1 THEN 254 ELSE Padding
    BY DEF Image, h
  <2>2. CASE j <= Len(h)
    BY <1>2, <1>3, <2>1, <2>2
  <2>3. CASE j > Len(h) /\ j <= Len(h) + Len(m)
    BY <1>1, <1>2, <1>3, <2>1, <2>3
  <2>4. CASE j > Len(h) + Len(m)
    BY <1>1, <1>2, <1>3, <2>1, <2>4 DEF Byte, Padding
  <2> QED  BY <1>1, <1>2, <1>3, <2>2, <2>3, <2>4
<1>5. \A j \in 1 .. 16 : i + j \in 1 .. GetBufferSize(Len(m))
  BY <1>2
<1> QED  BY <1>4, <1>5 DEF Slice, BlockData

\* The bytes of a decoded length field are those of the tag or what follows.
LEMMA TlvType ==
  ASSUME NEW data \in BlockData, NEW beyond \in BeyondBlock, NEW i \in 0 .. 15
  PROVE  TlvAt(data \o beyond, i) \in [len : Nat, start : Nat]
<1> DEFINE bytes == data \o beyond
<1>1. beyond \in [1 .. 3 -> Byte]
  BY ClassicAssumption
<1>2. \A n \in 1 .. 19 : bytes[n] \in Nat
  <2>1. data \in Seq(Byte) /\ Len(data) = 16
    BY FunctionIsSeq DEF BlockData
  <2>2. beyond \in Seq(Byte) /\ Len(beyond) = 3
    BY <1>1, FunctionIsSeq
  <2>3. bytes \in Seq(Byte) /\ Len(bytes) = Len(data) + Len(beyond)
    BY <2>1, <2>2, ConcatProperties
  <2>4. ASSUME NEW n \in 1 .. 19
        PROVE  bytes[n] \in Byte
    <3> HIDE DEF bytes
    <3>1. n \in 1 .. Len(bytes)
      BY <2>1, <2>2, <2>3
    <3> QED  BY <2>3, <3>1, ElementOfSeq
  <2>5. Byte \subseteq Nat
    BY DEF Byte
  <2> HIDE DEF bytes
  <2> QED  BY <2>4, <2>5
<1>3. i + 2 \in 1 .. 19 /\ i + 3 \in 1 .. 19 /\ i + 4 \in 1 .. 19
  OBVIOUS
<1> HIDE DEF bytes
<1>4. TlvAt(bytes, i) \in [len : Nat, start : Nat]
  BY <1>2, <1>3 DEF TlvAt
<1> QED  BY <1>4 DEF bytes

LEMMA ContentType ==
  ASSUME TagAndLink, NEW b \in Nat
  PROVE  Content(b) \in BlockData
<1>1. [i \in 1 .. 16 |-> 0] \in BlockData
  BY DEF BlockData, Byte
<1>2. b % BlockRange \in DataBlocks => mem[b % BlockRange] \in BlockData
  BY DEF TagAndLink
<1> QED  BY <1>1, <1>2 DEF Content

\* A buffer stays a sequence of bytes when a block is appended to it.
LEMMA AppendBlock ==
  ASSUME NEW s \in Seq(Byte), NEW data \in BlockData
  PROVE  s \o data \in Seq(Byte)
<1>1. data \in Seq(Byte)
  BY FunctionIsSeq DEF BlockData
<1> QED  BY <1>1

LEMMA DeliveredType ==
  ASSUME NEW s \in Seq(Byte), NEW t \in [len : Nat, start : Nat]
  PROVE  Delivered(s, t) \in Seq(Byte \cup {Garbage})
<1>1. \A i \in 1 .. t.len : t.start + i <= Len(s) => s[t.start + i] \in Byte
  OBVIOUS
<1>2. Delivered(s, t) \in [1 .. t.len -> Byte \cup {Garbage}]
  BY <1>1 DEF Delivered
<1> QED  BY <1>2, FunctionIsSeq

\* The blocks the driver names in its code exist and are no trailers.
LEMMA FixedBlocks ==
  /\ 4 \in Nat /\ 4 < BlockRange /\ 4 % BlockRange = 4
  /\ ~IsTrailer(4)
  /\ 4 \in Blocks
<1>1. 4 < BlockRange
  BY LongStartAssumption, BlockRangeAssumption
<1>2. 4 % BlockRange = 4
  BY <1>1, SmallBlock
<1> QED  BY <1>1, <1>2, LongStartAssumption, ClassicAssumption
         DEF IsTrailer, Blocks

LEMMA ConstantData ==
  /\ EmptyBlock \in BlockData
  /\ \A b \in Nat : FormatData(b) \in BlockData
  /\ \A b \in Nat : FormatKeys(b) \in SectorTrailer /\ Serviceable(FormatKeys(b))
  /\ FactoryTrailer \in SectorTrailer /\ Serviceable(FactoryTrailer)
<1>1. EmptyBlock \in BlockData
  BY DEF EmptyBlock, BlockData, Byte
<1>2. \A b \in Nat : MadBlock(b) \in BlockData
  BY DEF MadBlock, BlockData, Byte
<1>3. EmptyNdefMesg \in BlockData
  <2>1. \A i \in 1 .. 6 : <<3, 3, 208, 0, 0, 254>>[i] \in Byte
    BY DEF Byte
  <2> QED  BY <2>1 DEF EmptyNdefMesg, BlockData, Byte
<1> QED  BY <1>1, <1>2, <1>3 DEF FormatData, FormatKeys, FactoryTrailer, MadTrailer,
         NdefTrailer, SectorTrailer, Keys, AccessBits, Serviceable
-----------------------------------------------------------------------------
(* What the commands do to the tag and to the link. *)

LEMMA AuthOkStep ==
  ASSUME TagAndLink, NEW b \in Nat, NEW slot, NEW k, AuthOk(b, slot, k)
  PROVE  TagAndLink' /\ CanAccess(b)'
  BY DEF TagAndLink, AuthOk, CanAuth, CanAccess, Sectors, tag

LEMMA AuthFailsStep ==
  ASSUME TagAndLink, NEW b \in Nat, NEW slot, NEW k, AuthFails(b, slot, k)
  PROVE  TagAndLink' /\ UNCHANGED tag
  BY ClassicAssumption
  DEF TagAndLink, AuthFails, Fault, tag, Deaf

LEMMA AccessFailsStep ==
  ASSUME TagAndLink, NEW b \in Nat,
         AccessFails(CanAccess(b)) \/ AccessFails(CanWrite(b))
  PROVE  /\ auth' \in Sectors \cup {NoSector, Deaf}
         /\ faults' \in 0 .. MaxFaults
  BY ClassicAssumption
  DEF TagAndLink, AccessFails, Fault, Deaf

\* A tag that grants an access is not deaf.
LEMMA AccessAlive ==
  ASSUME NEW b \in Nat, CanAccess(b)
  PROVE  auth # Deaf
<1>1. b % BlockRange \in Nat /\ auth = SectorOf(b % BlockRange)
  BY ClassicAssumption DEF CanAccess, Blocks
<1>2. \A c \in Nat : SectorOf(c) >= 0
  BY LongStartAssumption DEF SectorOf
<1> QED  BY <1>1, <1>2 DEF Deaf

LEMMA WriteAccess ==
  ASSUME NEW b \in Nat, CanWrite(b)
  PROVE  CanAccess(b)
  BY DEF CanWrite

LEMMA StoreStep ==
  ASSUME TagAndLink, NEW b \in Blocks, NEW data \in BlockData, Store(b, data)
  PROVE  /\ mem' \in [DataBlocks -> BlockData]
         /\ trailer' \in [Sectors -> SectorTrailer]
         /\ ~IsTrailer(b) => trailer' = trailer
         /\ \A c \in DataBlocks : c # b => mem'[c] = mem[c]
  BY DEF TagAndLink, Store, DataBlocks, SectorTrailer, Keys, AccessBits

LEMMA StoreKeysStep ==
  ASSUME TagAndLink, NEW b \in Blocks, NEW keys \in SectorTrailer,
         Serviceable(keys), StoreKeys(b, keys)
  PROVE  /\ mem' \in [DataBlocks -> BlockData]
         /\ trailer' \in [Sectors -> SectorTrailer]
         /\ CleanKeyKept
  BY DEF TagAndLink, StoreKeys, CleanKeyKept
-----------------------------------------------------------------------------
(***************************************************************************)
(* The inductive invariant: where in the tag each operation is between two *)
(* commands.  AuthCovers alone is not inductive: that the next block is    *)
(* covered depends on the block being no trailer, and that the data are    *)
(* bytes on how far the buffer has been sent.                              *)
(***************************************************************************)
ReadPosition ==
  /\ pc \in {"rFirstAuth", "rFirst"} => block = 4
  /\ pc = "rFirst" => CanAccess(4)
  /\ pc \in {"rAuth", "rBlock"} /\ block < BlockRange => ~IsTrailer(block)
  /\ pc = "rBlock" /\ block < BlockRange => CanAccess(block)
  /\ pc \in {"rFirstAuth", "rAuth"} => auth # Deaf

WritePosition ==
  /\ pc = "idle" => index = 0
  /\ pc \in {"wAuth", "wBlock"} =>
       /\ msg \in Messages
       /\ block < BlockRange /\ ~IsTrailer(block)
       /\ index % 16 = 0 /\ index < GetBufferSize(Len(msg))
  /\ pc = "wBlock" => /\ CanAccess(block)
                      /\ SectorOf(block) = 0 => trailer[0].a = "ndef"
  /\ pc = "wAuth" => auth # Deaf

FormatPosition ==
  /\ pc \in {"fAuth", "fBlock"} => block < 4 * FormatSectors
  /\ pc = "fBlock" => CanAccess(block)

CleanPosition ==
  /\ pc \in {"cAuth", "cBlock"} => block < 4 * FormatSectors
  /\ pc = "cAuth" => IsTrailer(block)

IInv == TypeOK /\ ReadPosition /\ WritePosition /\ FormatPosition
               /\ CleanPosition

\* What the theorems below say of a step.
SafeStep ==
  /\ CleanKeyKept
  /\ (pc \in {"wAuth", "wBlock"} /\ trailer[0].a # "ndef") => SparesDirectory

LEMMA TagKept ==
  ASSUME UNCHANGED tag
  PROVE  SafeStep
  BY DEF tag, SafeStep, CleanKeyKept, SparesDirectory

LEMMA ReturnStep ==
  ASSUME NEW op \in {"read", "write", "format", "clean"},
         NEW result \in {"message", "no message", "unknown", "unformatted",
                         "true", "false"},
         NEW m \in Seq(Byte \cup {Garbage}),
         TagAndLink', Return(op, result, m)
  PROVE  IInv'
<1>1. Locals'
  <2>1. << >> \in Seq(Byte)
    BY EmptySeq
  <2> QED  BY <2>1 DEF Locals, Return, Keys, NoTlv
<1>2. Returned'
  BY DEF Returned, Return
<1>3. (ReadPosition /\ WritePosition /\ FormatPosition /\ CleanPosition)'
  BY DEF ReadPosition, WritePosition, FormatPosition, CleanPosition, Return
<1> QED  BY <1>1, <1>2, <1>3 DEF IInv, TypeOK

\* Messages, and nothing, are sequences of bytes.
LEMMA MessageType ==
  ASSUME Locals
  PROVE  /\ msg \in Seq(Byte \cup {Garbage})
         /\ << >> \in Seq(Byte \cup {Garbage})
<1>1. msg \in Seq(Byte)
  <2>1. Messages \subseteq Seq(Byte)
    BY ClassicAssumption
  <2>2. << >> \in Seq(Byte)
    BY EmptySeq
  <2> QED  BY <2>1, <2>2 DEF Locals
<1>2. Byte \subseteq Byte \cup {Garbage}
  OBVIOUS
<1> QED  BY <1>1, <1>2, SeqMonotonic

THEOREM InitInvariant == Init => IInv
<1> SUFFICES ASSUME Init PROVE IInv
  OBVIOUS
<1>1. TagAndLink
  <2>1. PICK t \in InitialTags : mem = t.mem /\ trailer = t.trailer
    BY DEF Init
  <2>2. t \in Tags
    BY <2>1, ClassicAssumption
  <2> QED  BY <2>1, <2>2, ClassicAssumption DEF Init, TagAndLink, Tags
<1>2. Locals
  <2>1. << >> \in Seq(Byte)
    BY EmptySeq
  <2> QED  BY <2>1 DEF Init, Locals, Keys, NoTlv
<1>3. Returned
  <2>1. << >> \in Seq(Byte \cup {Garbage})
    BY EmptySeq
  <2> QED  BY <2>1 DEF Init, Returned, NoReturn
<1>4. ReadPosition /\ WritePosition /\ FormatPosition /\ CleanPosition
  BY DEF Init, ReadPosition, WritePosition, FormatPosition, CleanPosition
<1> QED  BY <1>1, <1>2, <1>3, <1>4 DEF IInv, TypeOK
-----------------------------------------------------------------------------
(* An operation begins. *)

LEMMA BeginStep ==
  ASSUME IInv, Begins
  PROVE  IInv' /\ SafeStep
<1>1. TagAndLink' /\ UNCHANGED tag
  BY DEF IInv, TypeOK, TagAndLink, Begins, StartRead, StartWrite, StartFormat,
         StartClean, Begin, tag
<1>2. Returned'
  <2>1. << >> \in Seq(Byte \cup {Garbage})
    BY EmptySeq
  <2>2. ret' = NoReturn
    BY DEF Begins, StartRead, StartWrite, StartFormat, StartClean, Begin
  <2> QED  BY <2>1, <2>2 DEF Returned, NoReturn
<1>3. pc = "idle" /\ index = 0 /\ index' = 0 /\ buf' = buf /\ tlv' = tlv
      /\ TypeOK
  BY DEF IInv, WritePosition, Begins, StartRead, StartWrite, StartFormat,
         StartClean, Begin
<1>4. IsTrailer(3) /\ 3 < 4 * FormatSectors /\ ~IsTrailer(4) /\ 4 < BlockRange
  BY LongStartAssumption, BlockRangeAssumption, ClassicAssumption
  DEF IsTrailer
<1>5. CASE StartRead
  <2>1. key' \in Keys /\ msg' = msg /\ block' = 4 /\ pc' = "rFirstAuth"
        /\ auth' # Deaf
    BY <1>5, ClassicAssumption DEF StartRead, Begin, NoSector, Deaf
  <2> QED  BY <1>1, <1>2, <1>3, <1>4, <2>1, TagKept
           DEF IInv, TypeOK, Locals, ReadPosition, WritePosition,
               FormatPosition, CleanPosition
<1>6. CASE StartWrite
  <2>1. key' = key /\ msg' \in Messages /\ block' = 4 /\ pc' = "wAuth"
        /\ auth' # Deaf
    BY <1>6 DEF StartWrite, Begin, NoSector, Deaf
  <2>2. 0 < GetBufferSize(Len(msg'))
    <3>1. Len(msg') \in Nat
      BY <2>1, ClassicAssumption
    <3> QED  BY <3>1, BufferSize
  <2> QED  BY <1>1, <1>2, <1>3, <1>4, <2>1, <2>2, TagKept
           DEF IInv, TypeOK, Locals, ReadPosition, WritePosition,
               FormatPosition, CleanPosition
<1>7. CASE StartFormat
  <2>1. key' = key /\ msg' = msg /\ block' = 1 /\ pc' = "fAuth"
    BY <1>7 DEF StartFormat, Begin
  <2> QED  BY <1>1, <1>2, <1>3, <1>4, <2>1, TagKept, ClassicAssumption
           DEF IInv, TypeOK, Locals, ReadPosition, WritePosition,
               FormatPosition, CleanPosition
<1>8. CASE StartClean
  <2>1. key' = key /\ msg' = msg /\ block' = 3 /\ pc' = "cAuth"
    BY <1>8, LongStartAssumption DEF StartClean, Begin, TrailerOf
  <2> QED  BY <1>1, <1>2, <1>3, <1>4, <2>1, TagKept
           DEF IInv, TypeOK, Locals, ReadPosition, WritePosition,
               FormatPosition, CleanPosition
<1> QED  BY <1>5, <1>6, <1>7, <1>8 DEF Begins
-----------------------------------------------------------------------------
(* read *)

LEMMA ReadFirstAuthStep ==
  ASSUME IInv, ReadFirstAuth
  PROVE  IInv' /\ SafeStep
<1>1. TypeOK /\ TagAndLink /\ Locals /\ pc = "rFirstAuth" /\ block = 4
  BY DEF IInv, TypeOK, ReadPosition, ReadFirstAuth
<1>2. CASE AuthOk(4, "a", key) /\ pc' = "rFirst" /\ UNCHANGED <<locals, ret>>
  <2>1. TagAndLink' /\ CanAccess(4)' /\ UNCHANGED tag
    BY <1>1, <1>2, AuthOkStep DEF AuthOk
  <2> QED  BY <1>1, <1>2, <2>1, TagKept
           DEF IInv, TypeOK, Locals, locals, Returned, ReadPosition,
               WritePosition, FormatPosition, CleanPosition
<1>3. CASE AuthFails(4, "a", key) /\ Return("read", "unformatted", << >>)
  <2>1. TagAndLink' /\ UNCHANGED tag
    BY <1>1, <1>3, AuthFailsStep
  <2> QED  BY <1>1, <1>3, <2>1, TagKept, ReturnStep, MessageType
<1> QED  BY <1>2, <1>3 DEF ReadFirstAuth

LEMMA ReadFailsStep ==
  ASSUME TagAndLink, NEW b \in Nat, ReadFails(b)
  PROVE  TagAndLink' /\ UNCHANGED tag
<1>1. UNCHANGED tag /\ AccessFails(CanAccess(b))
  BY DEF ReadFails
<1> QED  BY <1>1, AccessFailsStep DEF TagAndLink, tag

LEMMA ReadFirstStep ==
  ASSUME IInv, ReadFirst
  PROVE  IInv' /\ SafeStep
<1>1. TypeOK /\ TagAndLink /\ Locals /\ pc = "rFirst" /\ block = 4
  BY DEF IInv, TypeOK, ReadPosition, ReadFirst
<1>2. CASE ReadFails(4) /\ Return("read", "no message", << >>)
  <2>1. TagAndLink' /\ UNCHANGED tag
    BY <1>1, <1>2, ReadFailsStep
  <2> QED  BY <1>1, <1>2, <2>1, TagKept, ReturnStep, MessageType
<1>3. CASE ReadOk(4) /\ Return("read", "unknown", << >>)
  <2>1. TagAndLink' /\ UNCHANGED tag
    BY <1>1, <1>3 DEF ReadOk, TagAndLink, tag, link
  <2> QED  BY <1>1, <1>3, <2>1, TagKept, ReturnStep, MessageType
<1>4. ASSUME NEW beyond \in BeyondBlock, NEW i \in 0 .. 15, ReadOk(4),
             tlv' = TlvAt(mem[4] \o beyond, i), pc' = "rAuth",
             UNCHANGED <<key, msg, block, index, buf, ret>>
      PROVE  IInv' /\ SafeStep
  <2>1. TagAndLink' /\ UNCHANGED tag /\ auth' # Deaf
    BY <1>1, <1>4, AccessAlive DEF ReadOk, TagAndLink, tag, link
  <2>2. mem[4] \in BlockData
    BY <1>1, FixedBlocks DEF TagAndLink, DataBlocks
  <2>3. tlv' \in [len : Nat, start : Nat]
    BY <1>4, <2>2, TlvType
  <2> QED  BY <1>1, <1>4, <2>1, <2>3, TagKept, FixedBlocks
           DEF IInv, TypeOK, Locals, Returned, ReadPosition,
               WritePosition, FormatPosition, CleanPosition
<1> QED  BY <1>2, <1>3, <1>4 DEF ReadFirst

LEMMA ReadAuthStep ==
  ASSUME IInv, ReadAuth
  PROVE  IInv' /\ SafeStep
<1>1. TypeOK /\ TagAndLink /\ Locals /\ pc = "rAuth" /\ block \in Nat
  BY DEF IInv, TypeOK, Locals, ReadAuth
<1>2. CASE AuthOk(block, "a", key) /\ pc' = "rBlock" /\ UNCHANGED <<locals, ret>>
  <2>1. TagAndLink' /\ CanAccess(block)' /\ UNCHANGED tag /\ block' = block
    BY <1>1, <1>2, AuthOkStep DEF AuthOk, locals, CanAccess
  <2> QED  BY <1>1, <1>2, <2>1, TagKept
           DEF IInv, TypeOK, Locals, locals, Returned, ReadPosition,
               WritePosition, FormatPosition, CleanPosition
<1>3. CASE AuthFails(block, "a", key) /\ Return("read", "no message", << >>)
  <2>1. TagAndLink' /\ UNCHANGED tag
    BY <1>1, <1>3, AuthFailsStep
  <2> QED  BY <1>1, <1>3, <2>1, TagKept, ReturnStep, MessageType
<1> QED  BY <1>2, <1>3 DEF ReadAuth

LEMMA ReadBlockStep ==
  ASSUME IInv, ReadBlock
  PROVE  IInv' /\ SafeStep
<1>1. TypeOK /\ TagAndLink /\ Locals /\ pc = "rBlock" /\ block \in Nat
      /\ buf \in Seq(Byte) /\ tlv \in [len : Nat, start : Nat] /\ index \in Nat
  BY DEF IInv, TypeOK, Locals, ReadBlock
<1>2. CASE ReadFails(block) /\ Return("read", "no message", << >>)
  <2>1. TagAndLink' /\ UNCHANGED tag
    BY <1>1, <1>2, ReadFailsStep
  <2> QED  BY <1>1, <1>2, <2>1, TagKept, ReturnStep, MessageType
<1>3. buf \o Content(block) \in Seq(Byte)
  BY <1>1, ContentType, AppendBlock
<1>4. CASE /\ ReadOk(block)
           /\ Return("read", "message", Delivered(buf \o Content(block), tlv))
  <2>1. TagAndLink' /\ UNCHANGED tag
    BY <1>1, <1>4 DEF ReadOk, TagAndLink, tag, link
  <2>2. Delivered(buf \o Content(block), tlv) \in Seq(Byte \cup {Garbage})
    BY <1>1, <1>3, DeliveredType
  <2> QED  BY <1>1, <1>4, <2>1, <2>2, TagKept, ReturnStep
<1>5. CASE /\ ReadOk(block)
           /\ buf' = buf \o Content(block)
           /\ index' = index + 16
           /\ block' = SkipTrailer(block + 1)
           /\ pc' = IF IsSectorStart(block') THEN "rAuth" ELSE "rBlock"
           /\ UNCHANGED <<key, msg, tlv, ret>>
  <2>1. TagAndLink' /\ UNCHANGED tag /\ auth' = auth /\ auth # Deaf
    BY <1>1, <1>5, AccessAlive DEF ReadOk, TagAndLink, tag, link
  <2>2. block' \in Nat /\ block' > block
    BY <1>1, <1>5 DEF SkipTrailer
  <2>3. Locals'
    BY <1>1, <1>3, <1>5, <2>2 DEF Locals
  <2>4. ASSUME block' < BlockRange
        PROVE  /\ ~IsTrailer(block')
               /\ ~IsSectorStart(block') => CanAccess(block)'
    <3>1. block < BlockRange /\ ~IsTrailer(block) /\ CanAccess(block)
      BY <1>1, <2>2, <2>4, BlockRangeAssumption DEF IInv, ReadPosition
    <3>2. block \in Blocks /\ auth = SectorOf(block)
      BY <1>1, <3>1, SmallBlock DEF CanAccess
    <3>3. /\ ~IsTrailer(block')
          /\ ~IsSectorStart(block') =>
               SectorOf(block') = SectorOf(block) /\ block' \in Blocks
      BY <1>1, <1>5, <3>1, <3>2, SkipStep
    <3>4. block' % BlockRange = block'
      BY <2>2, <2>4, SmallBlock
    <3> QED  BY <2>1, <3>2, <3>3, <3>4 DEF CanAccess
  <2> QED  BY <1>1, <1>5, <2>1, <2>3, <2>4, TagKept
           DEF IInv, TypeOK, Returned, ReadPosition,
               WritePosition, FormatPosition, CleanPosition
<1> QED  BY <1>2, <1>4, <1>5 DEF ReadBlock
-----------------------------------------------------------------------------
(* write *)

LEMMA WriteAuthStep ==
  ASSUME IInv, WriteAuth
  PROVE  IInv' /\ SafeStep
<1>1. TypeOK /\ TagAndLink /\ Locals /\ pc = "wAuth" /\ block \in Nat
      /\ block < BlockRange
  BY DEF IInv, TypeOK, Locals, WriteAuth, WritePosition
<1>2. CASE AuthOk(block, "a", "ndef") /\ pc' = "wBlock" /\ UNCHANGED <<locals, ret>>
  <2>1. TagAndLink' /\ CanAccess(block)' /\ UNCHANGED tag /\ block' = block
    BY <1>1, <1>2, AuthOkStep DEF AuthOk, locals, CanAccess
  <2>2. SectorOf(block) = 0 => trailer[0].a = "ndef"
    <3>1. block % BlockRange = block
      BY <1>1, SmallBlock
    <3> QED  BY <1>2, <3>1, Zenon DEF AuthOk, CanAuth
  <2>3. trailer[0].a = trailer'[0].a
    BY <2>1 DEF tag
  <2> QED  BY <1>1, <1>2, <2>1, <2>2, <2>3, TagKept
           DEF IInv, TypeOK, Locals, locals, Returned, ReadPosition,
               WritePosition, FormatPosition, CleanPosition
<1>3. CASE AuthFails(block, "a", "ndef") /\ Return("write", "false", msg)
  <2>1. TagAndLink' /\ UNCHANGED tag
    BY <1>1, <1>3, AuthFailsStep
  <2> QED  BY <1>1, <1>3, <2>1, TagKept, ReturnStep, MessageType
<1> QED  BY <1>2, <1>3 DEF WriteAuth

\* A write of the driver's buffer changes no key, and nothing in the first
\* sector unless the NDEF key opened it.
LEMMA WriteStoreStep ==
  ASSUME IInv, pc = "wBlock", NEW data \in BlockData,
         Store(block % BlockRange, data)
  PROVE  /\ mem' \in [DataBlocks -> BlockData]
         /\ trailer' \in [Sectors -> SectorTrailer]
         /\ trailer' = trailer
         /\ SafeStep
<1>1. TagAndLink /\ block \in Nat /\ block < BlockRange /\ ~IsTrailer(block)
      /\ CanAccess(block) /\ (SectorOf(block) = 0 => trailer[0].a = "ndef")
  BY DEF IInv, TypeOK, Locals, WritePosition
<1>2. block % BlockRange = block /\ block \in Blocks
  BY <1>1, SmallBlock DEF CanAccess
<1>3. /\ mem' \in [DataBlocks -> BlockData]
      /\ trailer' \in [Sectors -> SectorTrailer]
      /\ trailer' = trailer
      /\ \A c \in DataBlocks : c # block => mem'[c] = mem[c]
  BY <1>1, <1>2, StoreStep
<1>4. block < 4 => SectorOf(block) = 0
  BY <1>1, LongStartAssumption DEF SectorOf
<1>5. trailer[0].a # "ndef" => SparesDirectory
  BY <1>1, <1>3, <1>4 DEF SparesDirectory
<1> QED  BY <1>3, <1>5 DEF SafeStep, CleanKeyKept

LEMMA WriteBlockStep ==
  ASSUME IInv, WriteBlock
  PROVE  IInv' /\ SafeStep
<1> DEFINE data == Slice(Image(msg), index)
<1>1. TypeOK /\ TagAndLink /\ Locals /\ Returned /\ pc = "wBlock"
      /\ block \in Nat /\ block < BlockRange /\ ~IsTrailer(block)
      /\ CanAccess(block) /\ msg \in Messages /\ index \in Nat
      /\ index % 16 = 0 /\ index < GetBufferSize(Len(msg))
  BY DEF IInv, TypeOK, Locals, WriteBlock, WritePosition
<1>2. data \in BlockData
  BY <1>1, SliceType
<1> HIDE DEF data
<1>3. CASE WriteFails(block, data) /\ Return("write", "false", msg)
  <2>1. CASE UNCHANGED tag
    BY <1>1, <1>3, <2>1, AccessFailsStep, TagKept, ReturnStep, MessageType
    DEF WriteFails, TagAndLink, tag
  <2>2. CASE Store(block % BlockRange, data)
    BY <1>1, <1>2, <1>3, <2>2, WriteStoreStep, AccessFailsStep, ReturnStep,
       MessageType
    DEF WriteFails, TagAndLink
  <2> QED  BY <1>3, <2>1, <2>2 DEF WriteFails
<1>4. ASSUME WriteOk(block, data)
      PROVE  TagAndLink' /\ auth' = auth /\ trailer' = trailer /\ SafeStep
  BY <1>1, <1>2, <1>4, WriteStoreStep DEF WriteOk, TagAndLink, link
<1>5. CASE WriteOk(block, data) /\ Return("write", "true", msg)
  BY <1>1, <1>4, <1>5, ReturnStep, MessageType
<1>6. CASE /\ WriteOk(block, data)
           /\ index + 16 < GetBufferSize(Len(msg))
           /\ index' = index + 16
           /\ block' = NextWriteBlock(block)
           /\ pc' = IF IsSectorStart(block') THEN "wAuth" ELSE "wBlock"
           /\ UNCHANGED <<key, msg, buf, tlv, ret>>
  <2>1. TagAndLink' /\ auth' = auth /\ trailer' = trailer /\ SafeStep
    BY <1>4, <1>6
  <2>2. /\ block' \in Nat /\ block' < BlockRange /\ ~IsTrailer(block')
        /\ IsSectorStart(block') \/ /\ SectorOf(block') = SectorOf(block)
                                    /\ block \in Blocks => block' \in Blocks
    BY <1>1, <1>6, WriteStep
  <2>3. Locals'
    BY <1>1, <1>6, <2>2 DEF Locals
  <2>4. ~IsSectorStart(block') => /\ CanAccess(block)'
                                  /\ SectorOf(block') = SectorOf(block)
    BY <1>1, <2>1, <2>2, SmallBlock DEF CanAccess
  <2>5. SectorOf(block) = 0 => trailer[0].a = "ndef"
    BY <1>1 DEF IInv, WritePosition
  <2>6. trailer'[0].a = trailer[0].a
    BY <2>1
  <2>7. index' % 16 = 0
    BY <1>1, <1>6
  <2>8. auth' # Deaf
    BY <1>1, <2>1, AccessAlive
  <2>9. WritePosition'
    BY <1>1, <1>6, <2>2, <2>4, <2>5, <2>6, <2>7, <2>8 DEF WritePosition
  <2> QED  BY <1>1, <1>6, <2>1, <2>3, <2>9
           DEF IInv, TypeOK, Returned, ReadPosition, FormatPosition,
               CleanPosition
<1> QED  BY <1>3, <1>5, <1>6 DEF WriteBlock, data
-----------------------------------------------------------------------------
(* formatNDEF *)

\* In the 4-block sectors, the block after one that is no trailer is in the
\* same sector, and on the tag if that one is.
LEMMA ShortStep ==
  ASSUME NEW b \in Nat, b < 4 * FormatSectors, ~IsTrailer(b)
  PROVE  /\ b + 1 < 4 * FormatSectors
         /\ SectorOf(b + 1) = SectorOf(b)
         /\ b \in Blocks => b + 1 \in Blocks
<1>1. /\ LongStart \in Nat /\ FormatSectors \in Nat /\ NumBlocks \in Nat
      /\ NumBlocks % 4 = 0 /\ 4 * FormatSectors <= LongStart
      /\ LongStart % 16 = 0
  BY LongStartAssumption, ClassicAssumption
<1>2. (b + 1) % 4 # 0
  BY <1>1 DEF IsTrailer
<1>3. b + 1 < 4 * FormatSectors
  BY <1>1, <1>2
<1> QED  BY <1>1, <1>2, <1>3 DEF SectorOf, Blocks

LEMMA ShortBlock ==
  ASSUME NEW b \in Nat, b < 4 * FormatSectors
  PROVE  b < BlockRange /\ b % BlockRange = b
<1>1. b < BlockRange
  BY LongStartAssumption, BlockRangeAssumption, ClassicAssumption
<1> QED  BY <1>1, SmallBlock

LEMMA FormatAuthStep ==
  ASSUME IInv, FormatAuth
  PROVE  IInv' /\ SafeStep
<1>1. TypeOK /\ TagAndLink /\ Locals /\ pc = "fAuth" /\ block \in Nat
  BY DEF IInv, TypeOK, Locals, FormatAuth
<1>2. CASE AuthOk(block, "a", "factory") /\ pc' = "fBlock" /\ UNCHANGED <<locals, ret>>
  <2>1. TagAndLink' /\ CanAccess(block)' /\ UNCHANGED tag /\ block' = block
    BY <1>1, <1>2, AuthOkStep DEF AuthOk, locals, CanAccess
  <2> QED  BY <1>1, <1>2, <2>1, TagKept
           DEF IInv, TypeOK, Locals, locals, Returned, ReadPosition,
               WritePosition, FormatPosition, CleanPosition
<1>3. CASE AuthFails(block, "a", "factory") /\ Return("format", "false", << >>)
  <2>1. TagAndLink' /\ UNCHANGED tag
    BY <1>1, <1>3, AuthFailsStep
  <2> QED  BY <1>1, <1>3, <2>1, TagKept, ReturnStep, MessageType
<1> QED  BY <1>2, <1>3 DEF FormatAuth

\* Data stored in a block that is no trailer changes no key.
LEMMA DataStoreStep ==
  ASSUME TagAndLink, block \in Nat, block < 4 * FormatSectors,
         CanAccess(block), ~IsTrailer(block), pc \in {"fBlock", "cBlock"},
         NEW data \in BlockData, Store(block % BlockRange, data)
  PROVE  /\ mem' \in [DataBlocks -> BlockData]
         /\ trailer' \in [Sectors -> SectorTrailer]
         /\ SafeStep
<1>1. block % BlockRange = block /\ block \in Blocks
  BY ShortBlock DEF CanAccess
<1> QED  BY <1>1, StoreStep DEF SafeStep, CleanKeyKept

LEMMA KeysStoreStep ==
  ASSUME TagAndLink, block \in Nat, block < 4 * FormatSectors,
         CanAccess(block), pc \in {"fBlock", "cBlock"},
         NEW keys \in SectorTrailer, Serviceable(keys), StoreKeys(block, keys)
  PROVE  /\ mem' \in [DataBlocks -> BlockData]
         /\ trailer' \in [Sectors -> SectorTrailer]
         /\ SafeStep
<1>1. block % BlockRange = block /\ block \in Blocks
  BY ShortBlock DEF CanAccess
<1> QED  BY <1>1, StoreKeysStep DEF SafeStep

LEMMA FormatBlockStep ==
  ASSUME IInv, FormatBlock
  PROVE  IInv' /\ SafeStep
<1> DEFINE data == FormatData(block)
<1>1. TypeOK /\ TagAndLink /\ Locals /\ Returned /\ pc = "fBlock"
      /\ block \in Nat /\ block < 4 * FormatSectors /\ ~IsTrailer(block)
      /\ CanAccess(block)
  BY DEF IInv, TypeOK, Locals, FormatBlock, FormatPosition
<1>2. data \in BlockData
  BY <1>1, ConstantData
<1> HIDE DEF data
<1>3. CASE WriteFails(block, data) /\ Return("format", "false", << >>)
  <2>1. CASE UNCHANGED tag
    BY <1>1, <1>3, <2>1, AccessFailsStep, TagKept, ReturnStep, MessageType
    DEF WriteFails, TagAndLink, tag
  <2>2. CASE Store(block % BlockRange, data)
    BY <1>1, <1>2, <1>3, <2>2, DataStoreStep, AccessFailsStep, ReturnStep,
       MessageType
    DEF WriteFails, TagAndLink
  <2> QED  BY <1>3, <2>1, <2>2 DEF WriteFails
<1>4. CASE /\ WriteOk(block, data)
           /\ block' = block + 1
           /\ UNCHANGED <<pc, key, msg, index, buf, tlv, ret>>
  <2>1. TagAndLink' /\ auth' = auth /\ SafeStep
    BY <1>1, <1>2, <1>4, DataStoreStep DEF WriteOk, TagAndLink, link
  <2>2. Locals'
    BY <1>1, <1>4 DEF Locals
  <2>3. /\ block' < 4 * FormatSectors
        /\ SectorOf(block') = SectorOf(block)
        /\ block \in Blocks => block' \in Blocks
    BY <1>1, <1>4, ShortStep
  <2>4. CanAccess(block)'
    <3>1. block % BlockRange = block /\ block' % BlockRange = block'
      BY <1>1, <1>4, <2>3, ShortBlock
    <3> QED  BY <1>1, <2>1, <2>3, <3>1 DEF CanAccess
  <2> QED  BY <1>1, <1>4, <2>1, <2>2, <2>3, <2>4
           DEF IInv, TypeOK, Returned, ReadPosition, WritePosition,
               FormatPosition, CleanPosition
<1> QED  BY <1>3, <1>4 DEF FormatBlock, data

LEMMA FormatTrailerStep ==
  ASSUME IInv, FormatTrailer
  PROVE  IInv' /\ SafeStep
<1> DEFINE keys == FormatKeys(block)
<1>1. TypeOK /\ TagAndLink /\ Locals /\ Returned /\ pc = "fBlock"
      /\ block \in Nat /\ block < 4 * FormatSectors /\ CanAccess(block)
  BY DEF IInv, TypeOK, Locals, FormatTrailer, FormatPosition
<1>2. keys \in SectorTrailer /\ Serviceable(keys)
  BY <1>1, ConstantData
<1> HIDE DEF keys
<1>3. CASE KeysFail(block, keys) /\ Return("format", "false", << >>)
  <2>1. CASE UNCHANGED tag
    BY <1>1, <1>3, <2>1, AccessFailsStep, TagKept, ReturnStep, MessageType
    DEF KeysFail, TagAndLink, tag
  <2>2. CASE StoreKeys(block, keys)
    BY <1>1, <1>2, <1>3, <2>2, KeysStoreStep, AccessFailsStep, ReturnStep,
       MessageType
    DEF KeysFail, TagAndLink
  <2> QED  BY <1>3, <2>1, <2>2 DEF KeysFail
<1>4. ASSUME KeysOk(block, keys)
      PROVE  TagAndLink' /\ SafeStep
  BY <1>1, <1>2, <1>4, KeysStoreStep DEF KeysOk, TagAndLink, link
<1>5. CASE KeysOk(block, keys) /\ Return("format", "true", << >>)
  BY <1>1, <1>4, <1>5, ReturnStep, MessageType
<1>6. CASE /\ KeysOk(block, keys)
           /\ block + 1 < 4 * FormatSectors
           /\ block' = block + 1
           /\ pc' = "fAuth"
           /\ UNCHANGED <<key, msg, index, buf, tlv, ret>>
  <2>1. Locals'
    BY <1>1, <1>6 DEF Locals
  <2> QED  BY <1>1, <1>4, <1>6, <2>1
           DEF IInv, TypeOK, Returned, ReadPosition, WritePosition,
               FormatPosition, CleanPosition
<1> QED  BY <1>3, <1>5, <1>6 DEF FormatTrailer, keys
-----------------------------------------------------------------------------
(* MifareClassic::formatMifare *)

\* A trailer of a 4-block sector is the last of four blocks.
LEMMA ShortTrailer ==
  ASSUME NEW b \in Nat, b < 4 * FormatSectors, IsTrailer(b)
  PROVE  /\ b - 3 \in Nat /\ b - 2 \in Nat
         /\ SectorOf(b) + 1 \in Nat
         /\ SectorOf(b) + 1 < FormatSectors =>
              LET t == TrailerOf(SectorOf(b) + 1)
              IN  t \in Nat /\ IsTrailer(t) /\ t < 4 * FormatSectors
<1>1. /\ LongStart \in Nat /\ FormatSectors \in Nat
      /\ 4 * FormatSectors <= LongStart /\ LongStart % 16 = 0
  BY LongStartAssumption, ClassicAssumption
<1>2. b < LongStart /\ b % 4 = 3 /\ SectorOf(b) = b \div 4
  BY <1>1 DEF IsTrailer, SectorOf
<1>3. b - 3 \in Nat /\ b - 2 \in Nat /\ b \div 4 \in Nat
  BY <1>2
<1>4. ASSUME NEW s \in Nat, s < FormatSectors
      PROVE  /\ TrailerOf(s) \in Nat /\ IsTrailer(TrailerOf(s))
             /\ TrailerOf(s) < 4 * FormatSectors
  <2>1. 4 * s + 3 < 4 * FormatSectors /\ 4 * s + 3 < LongStart
    BY <1>1, <1>4
  <2>2. TrailerOf(s) = 4 * s + 3
    BY <1>1, <1>4, <2>1 DEF TrailerOf
  <2> QED  BY <1>1, <1>4, <2>1, <2>2 DEF IsTrailer
<1> QED  BY <1>2, <1>3, <1>4

LEMMA CleanAuthStep ==
  ASSUME IInv, CleanAuth
  PROVE  IInv' /\ SafeStep
<1>1. TypeOK /\ TagAndLink /\ Locals /\ Returned /\ pc = "cAuth"
      /\ block \in Nat /\ block < 4 * FormatSectors /\ IsTrailer(block)
  BY DEF IInv, TypeOK, Locals, CleanAuth, CleanPosition
<1>2. CASE /\ AuthOk(block, "b", "factory")
           /\ pc' = "cBlock"
           /\ block' = IF block = TrailerOf(0) THEN block - 2 ELSE block - 3
           /\ UNCHANGED <<key, msg, index, buf, tlv, ret>>
  <2>1. TagAndLink' /\ UNCHANGED tag
    BY <1>1, <1>2, AuthOkStep DEF AuthOk
  <2>2. block' \in Nat /\ block' < 4 * FormatSectors
    BY <1>1, <1>2, ShortTrailer, ClassicAssumption
  <2>3. Locals'
    BY <1>1, <1>2, <2>2 DEF Locals
  <2> QED  BY <1>1, <1>2, <2>1, <2>2, <2>3, TagKept
           DEF IInv, TypeOK, Returned, ReadPosition, WritePosition,
               FormatPosition, CleanPosition
<1>3. CASE AuthFails(block, "b", "factory") /\ Return("clean", "false", << >>)
  <2>1. TagAndLink' /\ UNCHANGED tag
    BY <1>1, <1>3, AuthFailsStep
  <2> QED  BY <1>1, <1>3, <2>1, TagKept, ReturnStep, MessageType
<1> QED  BY <1>2, <1>3 DEF CleanAuth

LEMMA CleanBlockStep ==
  ASSUME IInv, CleanBlock
  PROVE  IInv' /\ SafeStep
<1>1. TypeOK /\ TagAndLink /\ Locals /\ Returned /\ pc = "cBlock"
      /\ block \in Nat /\ block < 4 * FormatSectors /\ ~IsTrailer(block)
      /\ EmptyBlock \in BlockData
  BY ConstantData DEF IInv, TypeOK, Locals, CleanBlock, CleanPosition
<1>2. TagAndLink' /\ SafeStep
  <2>1. CASE WriteOk(block, EmptyBlock)
    BY <1>1, <2>1, DataStoreStep, WriteAccess DEF WriteOk, TagAndLink, link
  <2>2. CASE WriteFails(block, EmptyBlock) /\ UNCHANGED tag
    BY <1>1, <2>2, AccessFailsStep, TagKept DEF WriteFails, TagAndLink, tag
  <2>3. CASE WriteFails(block, EmptyBlock) /\ CanWrite(block)
             /\ Store(block % BlockRange, EmptyBlock)
    BY <1>1, <2>3, AccessFailsStep, DataStoreStep, WriteAccess
    DEF WriteFails, TagAndLink
  <2> QED  BY <2>1, <2>2, <2>3 DEF CleanBlock, WriteFails
<1>3. block' = block + 1 /\ block' < 4 * FormatSectors
      /\ UNCHANGED <<pc, key, msg, index, buf, tlv, ret>>
  BY <1>1, ShortStep DEF CleanBlock
<1>4. Locals'
  BY <1>1, <1>3 DEF Locals
<1> QED  BY <1>1, <1>2, <1>3, <1>4
         DEF IInv, TypeOK, Returned, ReadPosition, WritePosition,
             FormatPosition, CleanPosition

LEMMA CleanTrailerStep ==
  ASSUME IInv, CleanTrailer
  PROVE  IInv' /\ SafeStep
<1>1. TypeOK /\ TagAndLink /\ Locals /\ Returned /\ pc = "cBlock"
      /\ block \in Nat /\ block < 4 * FormatSectors /\ IsTrailer(block)
      /\ FactoryTrailer \in SectorTrailer /\ Serviceable(FactoryTrailer)
  BY ConstantData DEF IInv, TypeOK, Locals, CleanTrailer, CleanPosition
<1>2. TagAndLink' /\ SafeStep
  <2>1. CASE KeysOk(block, FactoryTrailer)
    BY <1>1, <2>1, KeysStoreStep, WriteAccess DEF KeysOk, TagAndLink, link
  <2>2. CASE KeysFail(block, FactoryTrailer) /\ UNCHANGED tag
    BY <1>1, <2>2, AccessFailsStep, TagKept DEF KeysFail, TagAndLink, tag
  <2>3. CASE KeysFail(block, FactoryTrailer) /\ CanWrite(block)
             /\ StoreKeys(block, FactoryTrailer)
    BY <1>1, <2>3, AccessFailsStep, KeysStoreStep, WriteAccess
    DEF KeysFail, TagAndLink
  <2> QED  BY <2>1, <2>2, <2>3 DEF CleanTrailer, KeysFail
<1>3. CASE /\ SectorOf(block) + 1 < FormatSectors
           /\ block' = TrailerOf(SectorOf(block) + 1)
           /\ pc' = "cAuth"
           /\ UNCHANGED <<key, msg, index, buf, tlv, ret>>
  <2>1. block' \in Nat /\ block' < 4 * FormatSectors /\ IsTrailer(block')
    BY <1>1, <1>3, ShortTrailer
  <2>2. Locals'
    BY <1>1, <1>3, <2>1 DEF Locals
  <2> QED  BY <1>1, <1>2, <1>3, <2>1, <2>2
           DEF IInv, TypeOK, Returned, ReadPosition, WritePosition,
               FormatPosition, CleanPosition
<1>4. CASE Return("clean", "true", << >>)
  BY <1>1, <1>2, <1>4, ReturnStep, MessageType
<1> QED  BY <1>3, <1>4 DEF CleanTrailer
-----------------------------------------------------------------------------
(* Every step of the driver. *)

LEMMA StutterStep ==
  ASSUME IInv, UNCHANGED vars
  PROVE  IInv' /\ SafeStep
<1>1. UNCHANGED tag
  BY DEF vars, tag
<1>2. IInv'
  <2>1. TypeOK'
    BY ZenonT(40) DEF IInv, TypeOK, TagAndLink, Locals, Returned, vars
  <2>2. ReadPosition' /\ FormatPosition' /\ CleanPosition'
    BY DEF IInv, ReadPosition, FormatPosition, CleanPosition, CanAccess, vars
  <2>3. WritePosition'
    BY Zenon DEF IInv, WritePosition, CanAccess, vars
  <2> QED  BY <2>1, <2>2, <2>3 DEF IInv
<1> QED  BY <1>1, <1>2, TagKept

LEMMA NextStep ==
  ASSUME IInv, [Next]_vars
  PROVE  IInv' /\ SafeStep
<1>1. CASE Begins
  BY <1>1, BeginStep
<1>2. CASE Reads
  BY <1>2, ReadFirstAuthStep, ReadFirstStep, ReadAuthStep, ReadBlockStep
  DEF Reads
<1>3. CASE Writes
  BY <1>3, WriteAuthStep, WriteBlockStep DEF Writes
<1>4. CASE Formats
  BY <1>4, FormatAuthStep, FormatBlockStep, FormatTrailerStep DEF Formats
<1>5. CASE Cleans
  BY <1>5, CleanAuthStep, CleanBlockStep, CleanTrailerStep DEF Cleans
<1>6. CASE UNCHANGED vars
  BY <1>6, StutterStep
<1> QED  BY <1>1, <1>2, <1>3, <1>4, <1>5, <1>6 DEF Next

\* The inductive invariant holds throughout every behaviour of the driver.
THEOREM Invariance == Spec => []IInv
<1>1. Init => IInv
  BY InitInvariant
<1>2. IInv /\ [Next]_vars => IInv'
  BY NextStep
<1> QED  BY <1>1, <1>2, PTL DEF Spec

\* Keys, data and locals keep their types: in particular, what write() sends
\* and what read() puts together are bytes, for every size of message.
THEOREM TypeCorrect == Spec => []TypeOK
<1>1. IInv => TypeOK
  BY DEF IInv
<1> QED  BY <1>1, Invariance, PTL

\* read, write and formatNDEF stay inside the sector they are authenticated
\* for, on tags of every size and with sectors of both kinds.
THEOREM AuthAlwaysCovers == Spec => []AuthCovers
<1>1. IInv => AuthCovers
  BY DEF IInv, ReadPosition, WritePosition, FormatPosition, AuthCovers
<1> QED  BY <1>1, Invariance, PTL

\* The data commands of read and write never meet a sector trailer, not even
\* after the byte that counts the blocks of write has wrapped.
THEOREM TrailersSpared == Spec => []DataCommandsSpareTrailers
<1>1. IInv => DataCommandsSpareTrailers
  BY DEF IInv, ReadPosition, WritePosition, DataCommandsSpareTrailers
<1> QED  BY <1>1, Invariance, PTL

\* No operation takes key B, which formatMifare needs, from a sector,
\* whatever calls the link loses.
THEOREM CleanKeyNeverLost == Spec => NeverLosesCleanKey
<1>1. IInv /\ [Next]_vars => [CleanKeyKept]_vars
  BY NextStep DEF SafeStep
<1> QED  BY <1>1, Invariance, PTL DEF Spec, NeverLosesCleanKey

\* write changes no key, and no directory block of a tag whose first sector
\* the NDEF key does not open, however long the message is.
THEOREM DirectorySpared == Spec => WriteSparesDirectory
<1>1. IInv /\ [Next]_vars =>
        [(pc \in {"wAuth", "wBlock"} /\ trailer[0].a # "ndef")
           => SparesDirectory]_vars
  BY NextStep DEF SafeStep
<1> QED  BY <1>1, Invariance, PTL DEF Spec, WriteSparesDirectory
=============================================================================

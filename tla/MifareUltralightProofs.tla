----------------------- MODULE MifareUltralightProofs -----------------------
(***************************************************************************)
(* Proofs about the Mifare Ultralight driver, for every size of tag, every *)
(* content it may hold, every set of messages and number of lost calls.    *)
(***************************************************************************)
EXTENDS MifareUltralightProperties, SequenceTheorems, TLAPS

-----------------------------------------------------------------------------
(* Arithmetic. *)

LEMMA Constants ==
  /\ NumPages \in Nat /\ NumPages >= 8
  /\ PageRange \in Nat /\ NumPages <= PageRange /\ PageRange % 4 = 0
  /\ MaxFaults \in Nat
  BY UltralightAssumption

LEMMA SizeRanges ==
  /\ SizeRange \in Nat /\ SizeRange >= 4096 /\ SizeRange <= 65536
  /\ SizeRange % 16 = 0
  BY UltralightAssumption

\* What a tag holds at first has the type of its memory.
LEMMA TagContents == InitialTags \subseteq [Pages -> PageData]
BY UltralightAssumption, SMTT(60)

LEMMA Zeros ==
  /\ 0 \in 0 .. (PageRange - 1)
  /\ 0 \in 0 .. MaxFaults
  /\ NoNdef \in [len : Nat, start : Nat]
<1>1. NoNdef \in [len : Nat, start : Nat]
  BY DEF NoNdef
<1>2. 0 \in 0 .. (PageRange - 1) /\ 0 \in 0 .. MaxFaults
  BY Constants
<1> QED  BY <1>1, <1>2

LEMMA ModSmall ==
  ASSUME NEW n \in Nat, NEW a \in Nat, a < n
  PROVE  a % n = a
  BY Z3

LEMMA ModSelf ==
  ASSUME NEW n \in Nat, n > 0
  PROVE  n % n = 0
  BY Z3

LEMMA ModRange ==
  ASSUME NEW n \in Nat, n > 0, NEW a \in Nat
  PROVE  a % n \in 0 .. (n - 1)
  BY Z3

LEMMA Rounded ==
  ASSUME NEW n \in Nat
  PROVE  /\ RoundUp16(n) \in Nat
         /\ RoundUp16(n) >= n /\ RoundUp16(n) < n + 16
         /\ RoundUp16(n) % 16 = 0
  BY DEF RoundUp16

\* The buffer of write(): whole blocks of 16 bytes, the two for the checksum,
\* and room for the header, the message and the terminator.
LEMMA WriteSizes ==
  ASSUME NEW m \in Messages
  PROVE  /\ m \in Seq(Byte) /\ Len(m) \in Nat
         /\ WriteStart(m) \in {2, 4}
         /\ WriteSize(m) \in Nat
         /\ WriteSize(m) % 4 = 2
         /\ WriteSize(m) >= Needed(m) /\ WriteSize(m) > 2
<1>1. m \in Seq(Byte) /\ Len(m) \in Nat /\ Len(m) < SizeRange - 32
  BY UltralightAssumption
<1> DEFINE k == Len(m)
           n == k + WriteStart(m) + 1
<1>2. WriteStart(m) \in {2, 4}
  BY DEF WriteStart
<1>3. n \in Nat /\ n > 0 /\ n < SizeRange - 27
  BY <1>1, <1>2, SizeRanges
<1> HIDE DEF n
<1>4. n % SizeRange = n
  BY <1>3, SizeRanges, ModSmall
<1>5. RoundUp16(n) \in Nat /\ RoundUp16(n) >= n /\ RoundUp16(n) < n + 16
      /\ RoundUp16(n) % 16 = 0
  BY <1>3, Rounded
<1>6. WriteSize(m) = (RoundUp16(n) + 2) % SizeRange
  BY <1>4 DEF WriteSize, CalculateBufferSize, n
<1>7. WriteSize(m) = RoundUp16(n) + 2
  <2>1. RoundUp16(n) + 2 \in Nat /\ RoundUp16(n) + 2 < SizeRange
    BY <1>3, <1>5, SizeRanges
  <2> QED  BY <1>6, <2>1, SizeRanges, ModSmall
<1>8. WriteSize(m) % 4 = 2
  BY <1>5, <1>7
<1>9. Needed(m) = n
  BY DEF n, Needed
<1> QED  BY <1>1, <1>2, <1>3, <1>5, <1>7, <1>8, <1>9, SMTT(30)
-----------------------------------------------------------------------------
(* The data of commands. *)

LEMMA FunctionIsSeq ==
  ASSUME NEW S, NEW n \in Nat, NEW f \in [1 .. n -> S]
  PROVE  f \in Seq(S) /\ Len(f) = n
<1>1. f \in Seq(S)
  BY SeqDef
<1> QED  BY <1>1, LenProperties

\* The header of an image, as write() lays it out.
HeaderOf(m) ==
  IF Len(m) < 255 THEN <<3, Len(m)>>
                  ELSE <<3, 255, (Len(m) \div 256) % 256, Len(m) % 256>>

LEMMA HeaderType ==
  ASSUME NEW m \in Messages
  PROVE  /\ HeaderOf(m) \in Seq(Byte)
         /\ Len(HeaderOf(m)) = WriteStart(m)
         /\ HeaderOf(m)[1] = 3
         /\ Len(m) < 255 => HeaderOf(m)[2] = Len(m)
         /\ Len(m) >= 255 => /\ HeaderOf(m)[2] = 255
                             /\ 256 * HeaderOf(m)[3] + HeaderOf(m)[4] = Len(m)
<1>1. Len(m) \in Nat /\ Len(m) < 65536
  BY UltralightAssumption
<1> DEFINE k == Len(m)
<1>2. k \in Nat /\ k < 65536
  BY <1>1
<1> HIDE DEF k
<1>3. k % 256 \in Byte /\ (k \div 256) % 256 \in Byte
      /\ 256 * ((k \div 256) % 256) + (k % 256) = k
  BY <1>2 DEF Byte
<1>4. 3 \in Byte /\ 255 \in Byte /\ (k < 255 => k \in Byte)
  BY <1>2 DEF Byte
<1>5. CASE k < 255
  BY <1>2, <1>4, <1>5 DEF HeaderOf, WriteStart, k
<1>6. CASE ~(k < 255)
  <2>1. HeaderOf(m) = <<3, 255, (k \div 256) % 256, k % 256>>
    BY <1>6 DEF HeaderOf, k
  <2>2. WriteStart(m) = 4
    BY <1>6 DEF WriteStart, k
  <2>3. ASSUME NEW x \in Byte, NEW y \in Byte
        PROVE  <<3, 255, x, y>> \in Seq(Byte) /\ Len(<<3, 255, x, y>>) = 4
    BY <1>4
  <2> QED  BY <1>2, <1>3, <1>6, <2>1, <2>2, <2>3 DEF k
<1> QED  BY <1>5, <1>6

\* An image is the header, the message, the terminator and zeros.
LEMMA ImageType ==
  ASSUME NEW m \in Messages
  PROVE  /\ Image(m) \in Seq(Byte) /\ Len(Image(m)) = WriteSize(m)
         /\ \A i \in 1 .. WriteStart(m) : Image(m)[i] = HeaderOf(m)[i]
         /\ \A i \in 1 .. Len(m) : Image(m)[WriteStart(m) + i] = m[i]
<1> DEFINE h == HeaderOf(m)
           k == Len(m)
           w == WriteSize(m)
           s == WriteStart(m)
<1>1. /\ m \in Seq(Byte) /\ k \in Nat /\ s \in {2, 4}
      /\ w \in Nat /\ w >= k + s + 1
      /\ h \in Seq(Byte) /\ Len(h) = s
  BY WriteSizes, HeaderType DEF Needed
<1>2. Image(m) = [i \in 1 .. w |->
                    IF i <= Len(h) THEN h[i]
                    ELSE IF i <= Len(h) + k THEN m[i - Len(h)]
                    ELSE IF i = Len(h) + k + 1 THEN 254 ELSE Padding]
  BY DEF Image, HeaderOf
<1>3. \A i \in 1 .. s : h[i] \in Byte
  BY <1>1
<1>4. \A i \in 1 .. k : m[i] \in Byte
  BY <1>1
<1>5. 254 \in Byte /\ Padding \in Byte
  BY DEF Byte, Padding
<1> HIDE DEF h, k, w, s
<1>6. Image(m) = [i \in 1 .. w |->
                    IF i <= s THEN h[i]
                    ELSE IF i <= s + k THEN m[i - s]
                    ELSE IF i = s + k + 1 THEN 254 ELSE Padding]
  BY <1>1, <1>2
<1>7. Image(m) \in [1 .. w -> Byte]
  BY <1>1, <1>3, <1>4, <1>5, <1>6
<1>8. Image(m) \in Seq(Byte) /\ Len(Image(m)) = w
  BY <1>1, <1>7, FunctionIsSeq
<1>9. /\ \A i \in 1 .. s : Image(m)[i] = h[i]
      /\ \A i \in 1 .. k : Image(m)[s + i] = m[i]
  BY <1>1, <1>6
<1> QED  BY <1>8, <1>9 DEF h, k, w, s

\* What write() sends are pages of bytes, the bytes of the image from the
\* position on, as far as it has them.
LEMMA ChunkType ==
  ASSUME NEW m \in Messages, NEW i \in Nat, i % 4 = 0, i < WriteSize(m),
         NEW beyond \in BeyondImage
  PROVE  /\ Chunk(Image(m), i, beyond) \in PageData
         /\ \A j \in 1 .. 4 : i + j <= WriteSize(m) =>
              Chunk(Image(m), i, beyond)[j] = Image(m)[i + j]
<1> DEFINE w == WriteSize(m)
           image == Image(m)
<1>1. w \in Nat /\ w % 4 = 2 /\ i < w
  BY WriteSizes
<1>2. image \in Seq(Byte) /\ Len(image) = w
  BY ImageType
<1>3. beyond \in [1 .. 2 -> Byte]
  BY UltralightAssumption
<1> HIDE DEF w, image
<1>4. i + 2 <= w
  BY <1>1
<1>5. \A j \in 1 .. 4 : Chunk(image, i, beyond)[j] =
          IF i + j <= w THEN image[i + j] ELSE beyond[i + j - w]
  BY <1>2 DEF Chunk
<1>6. \A j \in 1 .. w : image[j] \in Byte
  BY <1>2
<1>7. \A j \in 1 .. 4 : Chunk(image, i, beyond)[j] \in Byte
  <2> SUFFICES ASSUME NEW j \in 1 .. 4
               PROVE  Chunk(image, i, beyond)[j] \in Byte
    OBVIOUS
  <2>1. CASE i + j <= w
    BY <1>1, <1>5, <1>6, <2>1
  <2>2. CASE ~(i + j <= w)
    <3>1. i + j - w \in 1 .. 2
      BY <1>1, <1>4, <2>2
    <3> QED  BY <1>3, <1>5, <2>2, <3>1
  <2> QED  BY <2>1, <2>2
<1>8. Chunk(image, i, beyond) \in PageData
  BY <1>7 DEF Chunk, PageData
<1> QED  BY <1>1, <1>5, <1>8 DEF w, image

\* Four pages are sixteen bytes, those of the area if they lie in it.
LEMMA PagesFromType ==
  ASSUME mem \in [Pages -> PageData], NEW p \in Nat
  PROVE  /\ PagesFrom(p) \in [1 .. 16 -> Byte]
         /\ PagesFrom(p) \in Seq(Byte) /\ Len(PagesFrom(p)) = 16
<1>1. NumPages \in Nat /\ NumPages >= 8
  BY Constants
<1>2. ASSUME NEW i \in 1 .. 16
      PROVE  mem[(p + ((i - 1) \div 4)) % NumPages][((i - 1) % 4) + 1] \in Byte
  <2>1. (p + ((i - 1) \div 4)) \in Nat /\ ((i - 1) % 4) + 1 \in 1 .. 4
    OBVIOUS
  <2>2. (p + ((i - 1) \div 4)) % NumPages \in Pages
    BY <1>1, <2>1, ModRange DEF Pages
  <2>3. mem[(p + ((i - 1) \div 4)) % NumPages] \in PageData
    BY <2>2
  <2> QED  BY <2>1, <2>3 DEF PageData
<1>3. PagesFrom(p) \in [1 .. 16 -> Byte]
  BY <1>2 DEF PagesFrom
<1>4. ASSUME NEW n \in Nat, NEW f \in [1 .. n -> Byte]
      PROVE  f \in Seq(Byte) /\ Len(f) = n
  BY FunctionIsSeq
<1>5. \A f \in [1 .. 16 -> Byte] : f \in Seq(Byte) /\ Len(f) = 16
  BY <1>4, 16 \in Nat
<1> QED  BY <1>3, <1>5

LEMMA PageByte ==
  ASSUME NEW p \in Nat, NEW i \in 1 .. 16,
         p + ((i - 1) \div 4) < NumPages
  PROVE  PagesFrom(p)[i] = mem[p + ((i - 1) \div 4)][((i - 1) % 4) + 1]
<1> DEFINE q == p + ((i - 1) \div 4)
<1>1. q \in Nat /\ q < NumPages /\ NumPages \in Nat
  BY Constants
<1>2. q % NumPages = q
  BY <1>1, ModSmall
<1> QED  BY <1>2 DEF PagesFrom, q
-----------------------------------------------------------------------------
(***************************************************************************)
(* The inductive invariant: where in the user area each operation is, and  *)
(* what it has read or written there.  TooLongRefused, CountableReadFits   *)
(* and WrittenPrefix are not inductive: that a write stays in the area     *)
(* depends on the size the capability container still has, and page        *)
(* numbers are those of the area only until the driver meets the end of    *)
(* the tag, where they may wrap.                                           *)
(***************************************************************************)
\* Between two loops nothing is read or written yet.
IdleInv ==
  /\ pc \notin {"rPage", "wPage"} => index = 0 /\ buf = << >>
  /\ pc # "idle" => ret = NoReturn

\* The index has not wrapped: the next 16 bytes lie in what 16 bits count.
Unwrapped == found.len <= SizeRange - 16

\* The buffer of read() holds the area, as far as the tag has one.
ReadInv ==
  pc = "rPage" =>
    /\ found = FindNdefMessage(PagesFrom(4)) /\ found.len > 0
    /\ index % 16 = 0 /\ index < found.len /\ index < SizeRange
    /\ Len(buf) = index
    /\ Unwrapped /\ 4 + (index \div 4) < NumPages => page = 4 + (index \div 4)
    /\ Unwrapped => \A n \in 1 .. index :
                      n <= 4 * (NumPages - 4) => buf[n] = AreaByte(n)

\* The user area holds what write() has sent, and has room for the rest.
WriteInv ==
  /\ pc \in {"wBlank", "wCapacity", "wPage"} => msg \in Messages
  /\ pc = "wPage" =>
       /\ index % 4 = 0 /\ index < WriteSize(msg)
       /\ WriteSize(msg) <= Capacity
       /\ 4 + (index \div 4) <= NumPages
       /\ page = (4 + (index \div 4)) % PageRange
       /\ \A n \in 1 .. index : AreaByte(n) = Image(msg)[n]

\* clean() is in the user area.
CleanInv ==
  pc = "cPage" => /\ 4 <= page /\ page < pages
                  /\ pages <= 4 + (Capacity \div 4)

IInv == TypeOK /\ IdleInv /\ ReadInv /\ WriteInv /\ CleanInv
-----------------------------------------------------------------------------
\* The types of the variables one by one, for steps that reckon with them.
LEMMA Types ==
  ASSUME TypeOK
  PROVE  /\ mem \in [Pages -> PageData]
         /\ index \in Nat /\ page \in Nat /\ pages \in Nat
         /\ page < PageRange
         /\ buf \in Seq(Byte)
<1>1. /\ mem \in [Pages -> PageData] /\ index \in Nat
      /\ page \in 0 .. (PageRange - 1) /\ pages \in 0 .. (PageRange - 1)
      /\ buf \in Seq(Byte)
  BY DEF TypeOK
<1> QED  BY <1>1, Constants

(* Steps that return, and what commands do to the tag. *)

LEMMA ReturnStep ==
  ASSUME NEW op \in {"read", "write", "clean"},
         NEW result \in {"message", "no message", "true", "false"},
         NEW m \in Seq(Byte \cup {Garbage}),
         mem' \in [Pages -> PageData], faults' \in 0 .. MaxFaults,
         Return(op, result, m)
  PROVE  IInv'
<1>1. << >> \in Seq(Byte)
  BY EmptySeq
<1>2. TypeOK'
  BY <1>1, Zeros DEF TypeOK, Return
<1> QED  BY <1>2 DEF IInv, IdleInv, ReadInv, WriteInv, CleanInv, Return

LEMMA MessageType ==
  ASSUME msg \in Messages \cup {<< >>}
  PROVE  /\ msg \in Seq(Byte \cup {Garbage})
         /\ << >> \in Seq(Byte \cup {Garbage})
         /\ EmptyRecord \in Seq(Byte \cup {Garbage})
<1>1. msg \in Seq(Byte) /\ << >> \in Seq(Byte)
  BY WriteSizes, EmptySeq
<1>2. EmptyRecord \in Seq(Byte)
  BY DEF EmptyRecord, Byte
<1>3. Byte \subseteq Byte \cup {Garbage}
  OBVIOUS
<1> QED  BY <1>1, <1>2, <1>3, SeqMonotonic

LEMMA DeliveredType ==
  ASSUME NEW s \in Seq(Byte), NEW f \in [len : Nat, start : Nat]
  PROVE  Delivered(s, f) \in Seq(Byte \cup {Garbage})
<1>1. \A i \in 1 .. f.len : f.start + i <= Len(s) => s[f.start + i] \in Byte
  OBVIOUS
<1>2. Delivered(s, f) \in [1 .. f.len -> Byte \cup {Garbage}]
  BY <1>1 DEF Delivered
<1> QED  BY <1>2, FunctionIsSeq

LEMMA ReadFailsStep ==
  ASSUME faults \in 0 .. MaxFaults, NEW p, ReadFails(p)
  PROVE  faults' \in 0 .. MaxFaults /\ mem' = mem
  BY Constants DEF ReadFails, Fails

LEMMA WriteStep ==
  ASSUME mem \in [Pages -> PageData], faults \in 0 .. MaxFaults, NEW p,
         NEW data \in PageData, WriteOk(p, data) \/ WriteFails(p, data)
  PROVE  /\ mem' \in [Pages -> PageData] /\ faults' \in 0 .. MaxFaults
         /\ \A q \in Pages : q # p => mem'[q] = mem[q]
         /\ mem' = mem \/ (p \in Pages /\ p >= 2 /\ mem'[p] = data)
<1>1. CASE WriteOk(p, data)
  BY <1>1 DEF WriteOk, Writable
<1>2. CASE WriteFails(p, data)
  <2>1. faults' \in 0 .. MaxFaults
    BY <1>2, Constants DEF WriteFails, Fails
  <2> QED  BY <1>2, <2>1 DEF WriteFails, Writable
<1> QED  BY <1>1, <1>2

THEOREM InitInvariant == Init => IInv
<1> SUFFICES ASSUME Init PROVE IInv
  OBVIOUS
<1>1. << >> \in Seq(Byte) /\ << >> \in Seq(Byte \cup {Garbage})
  BY EmptySeq
<1>2. mem \in [Pages -> PageData]
  <2>1. InitialTags \subseteq [Pages -> PageData]
    BY TagContents
  <2>2. mem \in InitialTags
    BY Zenon DEF Init
  <2> QED  BY <2>1, <2>2, Zenon
<1>3. TypeOK
  BY <1>1, <1>2, Zeros DEF TypeOK, Init, NoReturn
<1> QED  BY <1>3 DEF IInv, IdleInv, ReadInv, WriteInv, CleanInv, Init
-----------------------------------------------------------------------------
(* Operations begin, and look at the tag. *)

LEMMA BeginStep ==
  ASSUME IInv, StartRead \/ StartWrite \/ StartClean
  PROVE  IInv' /\ UNCHANGED mem
<1>1. TypeOK /\ index = 0 /\ buf = << >>
  BY DEF IInv, IdleInv, StartRead, StartWrite, StartClean, Begin
<1>2. /\ pc' \in {"rBlank", "wBlank", "cCapacity"} /\ ret' = NoReturn
      /\ msg' \in Messages \cup {<< >>}
      /\ (pc' = "wBlank" => msg' \in Messages)
      /\ UNCHANGED <<mem, faults, page, index, buf, found, pages>>
  BY <1>1 DEF TypeOK, StartRead, StartWrite, StartClean, Begin
<1>3. ret' \in [op : {"none", "read", "write", "clean"},
                result : {"none", "message", "no message", "true", "false"},
                msg : Seq(Byte \cup {Garbage})]
  BY <1>2, EmptySeq DEF NoReturn
<1>4. TypeOK'
  BY <1>1, <1>2, <1>3 DEF TypeOK
<1> QED  BY <1>1, <1>2, <1>4 DEF IInv, IdleInv, ReadInv, WriteInv, CleanInv

\* A look at the tag that leads to another look.
LEMMA LookStep ==
  ASSUME IInv, NEW p, ReadOk(p) \/ ReadFails(p), UNCHANGED <<locals, ret>>,
         \/ pc = "rBlank" /\ pc' = "rFind"
         \/ pc = "wBlank" /\ pc' = "wCapacity"
  PROVE  IInv' /\ UNCHANGED mem
<1>1. TypeOK /\ IdleInv /\ WriteInv
  BY DEF IInv
<1>2. mem' = mem /\ faults' \in 0 .. MaxFaults
  BY <1>1, ReadFailsStep DEF TypeOK, ReadOk
<1> QED  BY <1>1, <1>2
         DEF IInv, TypeOK, IdleInv, ReadInv, WriteInv, CleanInv, locals

\* A look at the tag that ends the operation.
LEMMA LookReturns ==
  ASSUME IInv, NEW p, ReadOk(p) \/ ReadFails(p),
         NEW op \in {"read", "write", "clean"},
         NEW result \in {"message", "no message", "true", "false"},
         NEW m \in Seq(Byte \cup {Garbage}), Return(op, result, m)
  PROVE  IInv' /\ UNCHANGED mem
<1>1. mem' = mem /\ faults' \in 0 .. MaxFaults
  BY ReadFailsStep DEF IInv, TypeOK, ReadOk
<1> QED  BY <1>1, ReturnStep DEF IInv, TypeOK

LEMMA ReadBlankStep ==
  ASSUME IInv, ReadBlank
  PROVE  IInv' /\ UNCHANGED mem
<1>1. << >> \in Seq(Byte \cup {Garbage})
  BY EmptySeq
<1> QED  BY <1>1, LookStep, LookReturns DEF ReadBlank

LEMMA WriteBlankStep ==
  ASSUME IInv, WriteBlank
  PROVE  IInv' /\ UNCHANGED mem
<1>1. msg \in Seq(Byte \cup {Garbage})
  BY MessageType DEF IInv, TypeOK
<1> QED  BY <1>1, LookStep, LookReturns DEF WriteBlank
-----------------------------------------------------------------------------
(* MifareUltralight::read *)

LEMMA FoundType ==
  ASSUME mem \in [Pages -> PageData]
  PROVE  FindNdefMessage(PagesFrom(4)) \in [len : Nat, start : Nat]
<1> DEFINE data == PagesFrom(4)
<1>1. \A i \in 1 .. 16 : data[i] \in Nat
  <2>1. data \in [1 .. 16 -> Byte]
    BY PagesFromType
  <2>2. Byte \subseteq Nat
    BY DEF Byte
  <2> QED  BY <2>1, <2>2
<1>2. data[2] \in Nat /\ data[3] \in Nat /\ data[4] \in Nat /\ data[7] \in Nat
  BY <1>1
<1> HIDE DEF data
<1>3. (data[3] * 256 + data[4]) % SizeRange \in Nat
  BY <1>2, SizeRanges
<1>4. FindNdefMessage(data) \in [len : Nat, start : Nat]
  BY <1>2, <1>3 DEF FindNdefMessage, NoNdef
<1> QED  BY <1>4 DEF data

LEMMA ReadFindStep ==
  ASSUME IInv, ReadFind
  PROVE  IInv' /\ UNCHANGED mem
<1>1. TypeOK /\ IdleInv /\ pc = "rFind" /\ index = 0 /\ buf = << >>
  BY DEF IInv, IdleInv, ReadFind
<1>2. PICK f : /\ \/ ReadOk(4) /\ f = FindNdefMessage(PagesFrom(4))
                  \/ ReadFails(4) /\ f = NoNdef
               /\ IF f.len = 0
                    THEN Return("read", "message", EmptyRecord)
                    ELSE /\ found' = f
                         /\ page' = DataStartPage
                         /\ pc' = "rPage"
                         /\ UNCHANGED <<msg, index, buf, pages, ret>>
  BY DEF ReadFind
<1>3. CASE f.len = 0
  BY <1>1, <1>2, <1>3, LookReturns, MessageType DEF TypeOK
<1>4. CASE f.len # 0
  <2>1. f = FindNdefMessage(PagesFrom(4)) /\ mem' = mem /\ faults' = faults
    BY <1>2, <1>4 DEF NoNdef, ReadOk
  <2>2. f \in [len : Nat, start : Nat]
    BY <1>1, <2>1, FoundType DEF TypeOK
  <2>3. 4 \in 0 .. (PageRange - 1)
    BY Constants
  <2>4. TypeOK'
    BY <1>1, <1>2, <1>4, <2>1, <2>2, <2>3 DEF TypeOK, DataStartPage
  <2>5. FindNdefMessage(PagesFrom(4))' = f
    BY <2>1 DEF PagesFrom
  <2>6. ReadInv'
    BY <1>1, <1>2, <1>4, <2>2, <2>5, EmptySeq, SizeRanges
       DEF ReadInv, DataStartPage
  <2> QED  BY <1>1, <1>2, <1>4, <2>1, <2>4, <2>6
           DEF IInv, IdleInv, WriteInv, CleanInv
<1> QED  BY <1>3, <1>4

\* A read at a position of the area returns the bytes of the area that
\* follow, as far as it reaches.
LEMMA AreaRead ==
  ASSUME NEW i \in Nat, i % 16 = 0, NEW n \in (i + 1) .. (i + 16),
         n <= 4 * (NumPages - 4)
  PROVE  /\ 4 + (i \div 4) < NumPages
         /\ PagesFrom(4 + (i \div 4))[n - i] = AreaByte(n)
<1> DEFINE p == 4 + (i \div 4)
           k == n - i
<1>1. NumPages \in Nat /\ NumPages >= 8 /\ n \in Nat
  BY Constants
<1>2. p \in Nat /\ k \in 1 .. 16 /\ p < NumPages
  BY <1>1
<1>3. /\ p + ((k - 1) \div 4) = 4 + ((n - 1) \div 4)
      /\ ((k - 1) % 4) + 1 = ((n - 1) % 4) + 1
  OBVIOUS
<1>4. 4 + ((n - 1) \div 4) < NumPages
  BY <1>1
<1> HIDE DEF p, k
<1>5. PagesFrom(p)[k] = mem[p + ((k - 1) \div 4)][((k - 1) % 4) + 1]
  BY <1>2, <1>3, <1>4, PageByte
<1>6. PagesFrom(p)[k] = AreaByte(n)
  BY <1>3, <1>5 DEF AreaByte
<1> QED  BY <1>2, <1>6 DEF p, k

\* With one more read, the buffer holds sixteen bytes more of the area.
LEMMA BufferGrows ==
  ASSUME TypeOK, ReadInv, pc = "rPage"
  PROVE  LET bytes == buf \o PagesFrom(page)
         IN  /\ bytes \in Seq(Byte) /\ Len(bytes) = index + 16
             /\ Unwrapped => \A n \in 1 .. (index + 16) :
                  n <= 4 * (NumPages - 4) => bytes[n] = AreaByte(n)
<1> DEFINE next == PagesFrom(page)
           bytes == buf \o next
<1>1. /\ buf \in Seq(Byte) /\ Len(buf) = index /\ index \in Nat
      /\ index % 16 = 0 /\ page \in Nat /\ mem \in [Pages -> PageData]
      /\ Unwrapped /\ 4 + (index \div 4) < NumPages => page = 4 + (index \div 4)
      /\ Unwrapped => \A n \in 1 .. index :
                        n <= 4 * (NumPages - 4) => buf[n] = AreaByte(n)
  BY Types DEF ReadInv
<1>2. next \in Seq(Byte) /\ Len(next) = 16
  BY <1>1, PagesFromType
<1>3. Unwrapped => \A n \in (index + 1) .. (index + 16) :
        n <= 4 * (NumPages - 4) => next[n - index] = AreaByte(n)
  BY <1>1, AreaRead
<1> HIDE DEF next
<1>4. /\ bytes \in Seq(Byte) /\ Len(bytes) = index + 16
      /\ \A n \in 1 .. (index + 16) :
           bytes[n] = IF n <= index THEN buf[n] ELSE next[n - index]
  <2>1. /\ bytes \in Seq(Byte) /\ Len(bytes) = Len(buf) + Len(next)
        /\ \A n \in 1 .. Len(buf) + Len(next) :
             bytes[n] = IF n <= Len(buf) THEN buf[n] ELSE next[n - Len(buf)]
    BY <1>1, <1>2, ConcatProperties
  <2> HIDE DEF bytes
  <2> QED  BY <1>1, <1>2, <2>1
<1> HIDE DEF bytes
<1>5. ASSUME Unwrapped, NEW n \in 1 .. (index + 16), n <= 4 * (NumPages - 4)
      PROVE  bytes[n] = AreaByte(n)
  <2>1. CASE n <= index
    <3>1. n \in 1 .. index
      BY <1>1, <2>1
    <3> QED  BY <1>1, <1>4, <1>5, <2>1, <3>1
  <2>2. CASE ~(n <= index)
    <3>1. n \in (index + 1) .. (index + 16)
      BY <1>1, <2>2
    <3> QED  BY <1>3, <1>4, <1>5, <2>2, <3>1
  <2> QED  BY <2>1, <2>2
<1> QED  BY <1>1, <1>4, <1>5 DEF bytes, next

\* The index stays a multiple of 16, and advances unless it wraps.
LEMMA NextIndexType ==
  ASSUME index \in Nat, index % 16 = 0, index < SizeRange,
         index < found.len, found.len \in Nat
  PROVE  /\ NextIndex \in Nat /\ NextIndex <= index + 16 /\ NextIndex % 16 = 0
         /\ NextIndex < SizeRange
         /\ Unwrapped => NextIndex = index + 16
<1> DEFINE size == SizeRange
<1>1. size \in Nat /\ size % 16 = 0 /\ index < size /\ size > 0
  BY SizeRanges
<1>2. Unwrapped <=> found.len <= size - 16
  BY DEF Unwrapped
<1>3. NextIndex = (index + 16) % size
  BY DEF NextIndex
<1> HIDE DEF size
<1>4. index + 16 <= size
  BY <1>1
<1>5. CASE index + 16 < size
  <2>1. NextIndex = index + 16
    BY <1>1, <1>3, <1>5, ModSmall
  <2> QED  BY <1>5, <2>1 DEF size
<1>6. CASE index + 16 = size
  <2>1. NextIndex = 0
    BY <1>1, <1>3, <1>6, ModSelf
  <2> QED  BY <1>1, <1>2, <1>6, <2>1 DEF size
<1> QED  BY <1>1, <1>4, <1>5, <1>6

\* The beginning of a sequence.
LEMMA Prefix ==
  ASSUME NEW s \in Seq(Byte), NEW n \in Nat, n <= Len(s)
  PROVE  /\ SubSeq(s, 1, n) \in Seq(Byte) /\ Len(SubSeq(s, 1, n)) = n
         /\ \A i \in 1 .. n : SubSeq(s, 1, n)[i] = s[i]
<1>1. 1 \in 1 .. (Len(s) + 1) /\ n \in 0 .. Len(s)
  OBVIOUS
<1>2. /\ SubSeq(s, 1, n) \in Seq(Byte)
      /\ Len(SubSeq(s, 1, n)) = IF 1 <= n THEN n - 1 + 1 ELSE 0
      /\ \A i \in 1 .. n - 1 + 1 : SubSeq(s, 1, n)[i] = s[1 + i - 1]
  BY <1>1, SubSeqProperties
<1> QED  BY <1>2

LEMMA ReadPageStep ==
  ASSUME IInv, ReadPage
  PROVE  IInv' /\ UNCHANGED mem
<1>1. TypeOK /\ IdleInv /\ ReadInv /\ pc = "rPage"
  BY DEF IInv, ReadPage
<1> DEFINE bytes == buf \o PagesFrom(page)
<1>2. /\ bytes \in Seq(Byte) /\ Len(bytes) = index + 16
      /\ Unwrapped => \A n \in 1 .. (index + 16) :
           n <= 4 * (NumPages - 4) => bytes[n] = AreaByte(n)
  BY <1>1, BufferGrows
<1> HIDE DEF bytes
<1>3. CASE ReadFails(page) /\ Return("read", "no message", << >>)
  BY <1>3, LookReturns, MessageType DEF IInv, TypeOK
<1>4. CASE ReadOk(page) /\ Return("read", "message", Delivered(bytes, found))
  <2>1. Delivered(bytes, found) \in Seq(Byte \cup {Garbage})
    BY <1>1, <1>2, DeliveredType DEF TypeOK
  <2> QED  BY <1>4, <2>1, LookReturns
<1>5. CASE /\ ReadOk(page) /\ NextIndex < found.len
           /\ index' = NextIndex
           /\ buf' = SubSeq(bytes, 1, NextIndex)
           /\ page' = (page + 4) % PageRange
           /\ UNCHANGED <<pc, msg, found, pages, ret>>
  <2>1. mem' = mem /\ faults' = faults
    BY <1>5 DEF ReadOk
  <2>2. page' \in 0 .. (PageRange - 1)
    <3>1. page + 4 \in Nat /\ PageRange \in Nat /\ PageRange > 0
      BY <1>1, Types, Constants
    <3> QED  BY <1>5, <3>1, ModRange
  <2>3. /\ index \in Nat /\ index % 16 = 0 /\ index < SizeRange
        /\ index < found.len /\ found.len \in Nat
    BY <1>1, Types DEF ReadInv, TypeOK
  <2>4. /\ NextIndex \in Nat /\ NextIndex <= index + 16 /\ NextIndex % 16 = 0
        /\ NextIndex < SizeRange
        /\ Unwrapped => NextIndex = index + 16
    BY <1>5, <2>3, NextIndexType
  <2>5. /\ buf' \in Seq(Byte) /\ Len(buf') = NextIndex
        /\ \A n \in 1 .. NextIndex : buf'[n] = bytes[n]
    BY <1>2, <1>5, <2>3, <2>4, Prefix
  <2>6. TypeOK'
    BY <1>1, <1>5, <2>1, <2>2, <2>4, <2>5 DEF TypeOK
  <2>7. /\ FindNdefMessage(PagesFrom(4))' = FindNdefMessage(PagesFrom(4))
        /\ \A n : AreaByte(n)' = AreaByte(n)
        /\ Unwrapped' = Unwrapped
    BY <1>5, <2>1 DEF PagesFrom, AreaByte, Unwrapped
  <2>8. Unwrapped /\ 4 + (index' \div 4) < NumPages =>
          page' = 4 + (index' \div 4)
    <3> SUFFICES ASSUME Unwrapped, 4 + (index' \div 4) < NumPages
                 PROVE  page' = 4 + (index' \div 4)
      OBVIOUS
    <3>1. index' \div 4 = (index \div 4) + 4 /\ index \div 4 \in Nat
      BY <1>5, <2>3, <2>4
    <3>2. page = 4 + (index \div 4)
      BY <1>1, <3>1, Constants DEF ReadInv
    <3>3. page + 4 \in Nat /\ page + 4 < PageRange /\ page + 4 = 4 + (index' \div 4)
      BY <3>1, <3>2, Constants
    <3> QED  BY <1>5, <3>3, Constants, ModSmall
  <2>9. Unwrapped => \A n \in 1 .. index' :
                      n <= 4 * (NumPages - 4) => buf'[n] = AreaByte(n)
    BY <1>2, <1>5, <2>4, <2>5
  <2>10. ReadInv'
    BY <1>1, <1>5, <2>4, <2>5, <2>7, <2>8, <2>9 DEF ReadInv
  <2> QED  BY <1>1, <1>5, <2>1, <2>6, <2>10
           DEF IInv, IdleInv, WriteInv, CleanInv
<1> QED  BY <1>3, <1>4, <1>5 DEF ReadPage, bytes
-----------------------------------------------------------------------------
(* MifareUltralight::write *)

\* The capacity read from the tag is the one of the container, or zero.
LEMMA CapacityRead ==
  ASSUME TypeOK, NEW size, TagSize(size)
  PROVE  /\ size \in Nat /\ size <= Capacity
         /\ Capacity \in Nat /\ Capacity % 8 = 0
         /\ mem' = mem /\ faults' \in 0 .. MaxFaults
<1>1. mem[3][3] \in Nat
  <2>1. 3 \in Pages
    BY Constants DEF Pages
  <2>2. mem[3] \in PageData
    BY <2>1, Types
  <2> QED  BY <2>2 DEF PageData, Byte
<1>2. PagesFrom(3)[3] = mem[3][3]
  <2>1. 3 + ((3 - 1) \div 4) = 3 /\ ((3 - 1) % 4) + 1 = 3
    OBVIOUS
  <2> QED  BY <2>1, PageByte, Constants
<1>3. size \in {0, 8 * mem[3][3]} /\ mem' = mem /\ faults' \in 0 .. MaxFaults
  BY <1>2, ReadFailsStep DEF TagSize, ReadOk, TypeOK
<1> QED  BY <1>1, <1>3 DEF Capacity

LEMMA WriteCapacityStep ==
  ASSUME IInv, WriteCapacity
  PROVE  IInv' /\ UNCHANGED mem
<1>1. TypeOK /\ IdleInv /\ pc = "wCapacity" /\ index = 0 /\ buf = << >>
      /\ msg \in Messages
  BY DEF IInv, IdleInv, WriteInv, WriteCapacity
<1>2. PICK size : /\ TagSize(size)
                  /\ IF WriteSize(msg) > size
                       THEN Return("write", "false", msg)
                       ELSE /\ page' = DataStartPage
                            /\ pc' = "wPage"
                            /\ UNCHANGED <<msg, index, buf, found, pages, ret>>
  BY DEF WriteCapacity
<1>3. size \in Nat /\ size <= Capacity /\ Capacity \in Nat
      /\ mem' = mem /\ faults' \in 0 .. MaxFaults
  BY <1>1, <1>2, CapacityRead
<1>4. WriteSize(msg) \in Nat /\ WriteSize(msg) > 2
  BY <1>1, WriteSizes
<1>5. CASE WriteSize(msg) > size
  BY <1>1, <1>2, <1>3, <1>5, ReturnStep, MessageType DEF TypeOK
<1>6. CASE ~(WriteSize(msg) > size)
  <2>1. 4 \in 0 .. (PageRange - 1) /\ 4 % PageRange = 4
    BY Constants, ModSmall
  <2>2. TypeOK'
    BY <1>1, <1>2, <1>3, <1>6, <2>1 DEF TypeOK, DataStartPage
  <2>3. WriteSize(msg)' = WriteSize(msg) /\ Capacity' = Capacity
    BY <1>2, <1>3, <1>6 DEF Capacity
  <2>4. WriteSize(msg) <= Capacity /\ 0 < WriteSize(msg)
    BY <1>3, <1>4, <1>6
  <2>5. WriteInv'
    BY <1>1, <1>2, <1>6, <2>1, <2>3, <2>4, Constants DEF WriteInv, DataStartPage
  <2> QED  BY <1>1, <1>2, <1>3, <1>6, <2>2, <2>5
           DEF IInv, IdleInv, ReadInv, CleanInv
<1> QED  BY <1>5, <1>6

\* Where the write loop is: on a page of the user area, if the tag takes it.
LEMMA WriteSpot ==
  ASSUME TypeOK, WriteInv, pc = "wPage", page \in Pages, page >= 2
  PROVE  /\ page = 4 + (index \div 4)
         /\ page \in UserPages
<1>1. /\ index \in Nat /\ index % 4 = 0 /\ index < WriteSize(msg)
      /\ WriteSize(msg) \in Nat /\ WriteSize(msg) <= Capacity
      /\ 4 + (index \div 4) <= NumPages
      /\ page = (4 + (index \div 4)) % PageRange
  BY Types, WriteSizes DEF WriteInv
<1>2. page = 4 + (index \div 4)
  <2>1. CASE 4 + (index \div 4) < PageRange
    BY <1>1, <2>1, Constants, ModSmall
  <2>2. CASE 4 + (index \div 4) = PageRange
    <3>1. page = 0
      BY <1>1, <2>2, Constants, ModSelf
    <3> QED  BY <3>1
  <2> QED  BY <1>1, <2>1, <2>2, Constants
<1>3. mem[3][3] \in Nat
  <2>1. 3 \in Pages
    BY Constants DEF Pages
  <2>2. mem[3] \in PageData
    BY <2>1, Types
  <2> QED  BY <2>2 DEF PageData, Byte
<1>4. index \div 4 < Capacity \div 4
  BY <1>1, <1>3 DEF Capacity
<1> QED  BY <1>1, <1>2, <1>3, <1>4 DEF UserPages, Capacity

\* The bytes up to a multiple of four, and the four after it.
LEMMA PagePosition ==
  ASSUME NEW i \in Nat, i % 4 = 0
  PROVE  /\ \A n \in 1 .. i : 4 + ((n - 1) \div 4) < 4 + (i \div 4)
         /\ \A n \in (i + 1) .. (i + 4) :
              (n - 1) \div 4 = i \div 4 /\ ((n - 1) % 4) + 1 = n - i
  OBVIOUS

\* A page that was written holds the next four bytes of the image.
LEMMA WriteAdvances ==
  ASSUME IInv, pc = "wPage", NEW beyond \in BeyondImage,
         WriteOk(page, Chunk(Image(msg), index, beyond))
  PROVE  /\ page = 4 + (index \div 4) /\ page \in UserPages
         /\ Capacity' = Capacity
         /\ \A n \in 1 .. (index + 4) :
              n <= WriteSize(msg) => AreaByte(n)' = Image(msg)[n]
<1> DEFINE data == Chunk(Image(msg), index, beyond)
           w == WriteSize(msg)
           image == Image(msg)
<1>1. /\ TypeOK /\ WriteInv /\ msg \in Messages
      /\ index \in Nat /\ index % 4 = 0 /\ index < w
      /\ 4 + (index \div 4) <= NumPages
      /\ \A n \in 1 .. index : AreaByte(n) = image[n]
  BY Types DEF IInv, WriteInv
<1>2. /\ data \in PageData
      /\ \A j \in 1 .. 4 : index + j <= w => data[j] = image[index + j]
  BY <1>1, ChunkType
<1>3. page \in Pages /\ page >= 2 /\ mem' = [mem EXCEPT ![page] = data]
  BY DEF WriteOk, Writable
<1>4. page = 4 + (index \div 4) /\ page \in UserPages
  BY <1>1, <1>3, WriteSpot
<1>5. mem \in [Pages -> PageData] /\ 3 \in Pages /\ NumPages \in Nat
  BY <1>1, Types, Constants DEF Pages
<1>6. w \in Nat
  BY <1>1, WriteSizes
<1> HIDE DEF data, w, image
<1>7. mem'[3] = mem[3]
  BY <1>1, <1>3, <1>4, <1>5
<1>8. ASSUME NEW n \in 1 .. (index + 4), n <= w
      PROVE  AreaByte(n)' = image[n]
  <2>1. CASE n \in 1 .. index
    <3>1. 4 + ((n - 1) \div 4) < page /\ 4 + ((n - 1) \div 4) \in Pages
      BY <1>1, <1>3, <1>4, <2>1, PagePosition, Constants DEF Pages
    <3>2. mem'[4 + ((n - 1) \div 4)] = mem[4 + ((n - 1) \div 4)]
      BY <1>3, <1>5, <3>1
    <3> QED  BY <1>1, <2>1, <3>2 DEF AreaByte
  <2>2. CASE n \in (index + 1) .. (index + 4)
    <3>1. 4 + ((n - 1) \div 4) = page /\ ((n - 1) % 4) + 1 = n - index
      BY <1>1, <1>4, <2>2, PagePosition
    <3>2. mem'[page] = data
      BY <1>3, <1>5
    <3>3. AreaByte(n)' = data[n - index]
      BY <3>1, <3>2 DEF AreaByte
    <3>4. n - index \in 1 .. 4 /\ index + (n - index) = n
      BY <1>1, <2>2
    <3> QED  BY <1>2, <1>8, <3>3, <3>4
  <2> QED  BY <1>1, <2>1, <2>2
<1> QED  BY <1>4, <1>7, <1>8 DEF Capacity, w, image

LEMMA WritePageStep ==
  ASSUME IInv, WritePage
  PROVE  IInv' /\ UserAreaKept
<1>1. /\ TypeOK /\ IdleInv /\ WriteInv /\ pc = "wPage" /\ msg \in Messages
      /\ index \in Nat /\ index % 4 = 0 /\ index < WriteSize(msg)
      /\ mem \in [Pages -> PageData] /\ faults \in 0 .. MaxFaults
      /\ page \in Nat
  BY Types DEF IInv, WriteInv, TypeOK, WritePage
<1>2. PICK beyond \in BeyondImage :
        \/ /\ WriteOk(page, Chunk(Image(msg), index, beyond))
           /\ IF index + 4 < WriteSize(msg)
                THEN /\ page' = (page + 1) % PageRange
                     /\ index' = index + 4
                     /\ UNCHANGED <<pc, msg, buf, found, pages, ret>>
                ELSE Return("write", "true", msg)
        \/ /\ WriteFails(page, Chunk(Image(msg), index, beyond))
           /\ Return("write", "false", msg)
  BY DEF WritePage
<1> DEFINE data == Chunk(Image(msg), index, beyond)
<1>3. data \in PageData
  BY <1>1, ChunkType
<1>4. WriteOk(page, data) \/ WriteFails(page, data)
  BY <1>2
<1>5. /\ mem' \in [Pages -> PageData] /\ faults' \in 0 .. MaxFaults
      /\ \A q \in Pages : q # page => mem'[q] = mem[q]
      /\ mem' = mem \/ (page \in Pages /\ page >= 2)
  <2> HIDE DEF data
  <2> QED  BY <1>1, <1>3, <1>4, WriteStep
<1>6. UserAreaKept
  BY <1>1, <1>5, WriteSpot DEF UserAreaKept
<1>7. msg \in Seq(Byte \cup {Garbage})
  BY <1>1, MessageType
<1>8. CASE Return("write", "true", msg) \/ Return("write", "false", msg)
  BY <1>5, <1>6, <1>7, <1>8, ReturnStep
<1>9. CASE /\ WriteOk(page, data)
           /\ index + 4 < WriteSize(msg)
           /\ page' = (page + 1) % PageRange
           /\ index' = index + 4
           /\ UNCHANGED <<pc, msg, buf, found, pages, ret>>
  <2>1. /\ page = 4 + (index \div 4) /\ page \in Pages
        /\ Capacity' = Capacity
        /\ \A n \in 1 .. (index + 4) :
             n <= WriteSize(msg) => AreaByte(n)' = Image(msg)[n]
    BY <1>1, <1>9, WriteAdvances DEF UserPages
  <2>2. page < NumPages /\ page + 1 = 4 + (index' \div 4)
    BY <1>1, <1>9, <2>1, Constants DEF Pages
  <2>3. page' \in 0 .. (PageRange - 1)
    BY <1>1, <1>9, Constants, ModRange
  <2>4. TypeOK'
    <3>1. index' \in Nat
      BY <1>1, <1>9
    <3> QED  BY <1>1, <1>5, <1>9, <2>3, <3>1 DEF TypeOK
  <2>5. WriteSize(msg)' = WriteSize(msg) /\ WriteSize(msg) \in Nat
        /\ Image(msg)' = Image(msg)
    BY <1>1, <1>9, WriteSizes
  <2>6. \A n \in 1 .. index' : AreaByte(n)' = Image(msg)[n]
    BY <1>1, <1>9, <2>1, <2>5
  <2>7. WriteSize(msg) <= Capacity
    BY <1>1 DEF WriteInv
  <2>8. index' % 4 = 0 /\ index' < WriteSize(msg)
    BY <1>1, <1>9
  <2>9. 4 + (index' \div 4) <= NumPages
    BY <1>1, <2>1, <2>2, Constants
  <2>10. WriteInv'
    BY <1>1, <1>9, <2>1, <2>2, <2>5, <2>6, <2>7, <2>8, <2>9 DEF WriteInv
  <2> QED  BY <1>1, <1>6, <1>9, <2>4, <2>10
           DEF IInv, IdleInv, ReadInv, CleanInv
<1> QED  BY <1>2, <1>8, <1>9
-----------------------------------------------------------------------------
(* MifareUltralight::clean *)

LEMMA CleanCapacityStep ==
  ASSUME IInv, CleanCapacity
  PROVE  IInv' /\ UNCHANGED mem
<1>1. TypeOK /\ IdleInv /\ pc = "cCapacity"
  BY DEF IInv, CleanCapacity
<1>2. PICK size : /\ TagSize(size)
                  /\ IF DataStartPage < CleanEnd(size)
                       THEN /\ pages' = CleanEnd(size)
                            /\ page' = DataStartPage
                            /\ pc' = "cPage"
                            /\ UNCHANGED <<msg, index, buf, found, ret>>
                       ELSE Return("clean", "true", << >>)
  BY DEF CleanCapacity
<1>3. size \in Nat /\ size <= Capacity /\ Capacity \in Nat
      /\ mem' = mem /\ faults' \in 0 .. MaxFaults
  BY <1>1, <1>2, CapacityRead
<1>4. CASE Return("clean", "true", << >>)
  BY <1>1, <1>3, <1>4, ReturnStep, MessageType DEF TypeOK
<1>5. CASE /\ 4 < CleanEnd(size)
           /\ pages' = CleanEnd(size)
           /\ page' = 4
           /\ pc' = "cPage"
           /\ UNCHANGED <<msg, index, buf, found, ret>>
  <2> DEFINE n == (size \div 4) + 4
  <2>1. n \in Nat /\ n <= 4 + (Capacity \div 4)
    BY <1>3
  <2> HIDE DEF n
  <2>2. n % PageRange \in 0 .. (PageRange - 1) /\ n % PageRange <= n
    BY <2>1, Constants, ModRange, Z3
  <2>3. CleanEnd(size) = n % PageRange
    BY DEF CleanEnd, DataStartPage, n
  <2>4. 4 \in 0 .. (PageRange - 1)
    BY Constants
  <2>5. TypeOK'
    BY <1>1, <1>3, <1>5, <2>2, <2>3, <2>4 DEF TypeOK
  <2>6. Capacity' = Capacity
    BY <1>3 DEF Capacity
  <2>7. CleanEnd(size) <= 4 + (Capacity \div 4)
    BY <1>3, <2>1, <2>2, <2>3, Constants
  <2>8. CleanInv'
    BY <1>5, <2>6, <2>7 DEF CleanInv
  <2> QED  BY <1>1, <1>3, <1>5, <2>5, <2>8 DEF IInv, IdleInv, ReadInv, WriteInv
<1> QED  BY <1>2, <1>4, <1>5 DEF DataStartPage

LEMMA CleanPageStep ==
  ASSUME IInv, CleanPage
  PROVE  IInv' /\ UserAreaKept
<1>1. /\ TypeOK /\ IdleInv /\ pc = "cPage"
      /\ 4 <= page /\ page < pages /\ pages <= 4 + (Capacity \div 4)
      /\ mem \in [Pages -> PageData] /\ faults \in 0 .. MaxFaults
      /\ page \in Nat /\ pages \in Nat /\ pages \in 0 .. (PageRange - 1)
  BY Types DEF IInv, TypeOK, CleanInv, CleanPage
<1>2. ZeroPage \in PageData
  BY DEF ZeroPage, PageData, Byte
<1>3. WriteOk(page, ZeroPage) \/ WriteFails(page, ZeroPage)
  BY DEF CleanPage
<1>4. /\ mem' \in [Pages -> PageData] /\ faults' \in 0 .. MaxFaults
      /\ \A q \in Pages : q # page => mem'[q] = mem[q]
  BY <1>1, <1>2, <1>3, WriteStep
<1>5. 3 \in Pages /\ mem[3][3] \in Nat
  <2>1. 3 \in Pages
    BY Constants DEF Pages
  <2>2. mem[3] \in PageData
    BY <1>1, <2>1
  <2> QED  BY <2>1, <2>2 DEF PageData, Byte
<1>6. page \in Pages => page \in UserPages
  BY <1>1, <1>5 DEF UserPages, Capacity
<1>7. UserAreaKept
  BY <1>4, <1>6 DEF UserAreaKept
<1>8. CASE Return("clean", "true", << >>) \/ Return("clean", "false", << >>)
  BY <1>1, <1>4, <1>7, <1>8, ReturnStep, MessageType DEF TypeOK
<1>9. CASE /\ page + 1 < pages
           /\ page' = page + 1
           /\ UNCHANGED <<pc, msg, index, buf, found, pages, ret>>
  <2>1. page' \in 0 .. (PageRange - 1)
    BY <1>1, <1>9, Constants
  <2>2. TypeOK'
    BY <1>1, <1>4, <1>9, <2>1 DEF TypeOK
  <2>3. Capacity' = Capacity
    BY <1>1, <1>4, <1>5 DEF Capacity
  <2>4. CleanInv'
    BY <1>1, <1>9, <2>3 DEF CleanInv
  <2> QED  BY <1>1, <1>7, <1>9, <2>2, <2>4 DEF IInv, IdleInv, ReadInv, WriteInv
<1> QED  BY <1>8, <1>9 DEF CleanPage
-----------------------------------------------------------------------------
(* Every step of the driver. *)

LEMMA StutterStep ==
  ASSUME IInv, UNCHANGED vars
  PROVE  IInv' /\ UNCHANGED mem
<1>1. TypeOK'
  BY DEF IInv, TypeOK, vars
<1>2. IdleInv' /\ ReadInv'
  BY DEF IInv, IdleInv, ReadInv, Unwrapped, PagesFrom, AreaByte, vars
<1>3. WriteInv' /\ CleanInv'
  BY DEF IInv, WriteInv, CleanInv, AreaByte, Capacity, vars
<1> QED  BY <1>1, <1>2, <1>3 DEF IInv, vars

LEMMA NextStep ==
  ASSUME IInv, [Next]_vars
  PROVE  IInv' /\ UserAreaKept
<1>1. UNCHANGED mem => UserAreaKept
  BY DEF UserAreaKept
<1>2. CASE StartRead \/ StartWrite \/ StartClean
  BY <1>1, <1>2, BeginStep
<1>3. CASE ReadBlank \/ ReadFind \/ ReadPage
  BY <1>1, <1>3, ReadBlankStep, ReadFindStep, ReadPageStep
<1>4. CASE WriteBlank \/ WriteCapacity \/ WritePage
  BY <1>1, <1>4, WriteBlankStep, WriteCapacityStep, WritePageStep
<1>5. CASE CleanCapacity \/ CleanPage
  BY <1>1, <1>5, CleanCapacityStep, CleanPageStep
<1>6. CASE UNCHANGED vars
  BY <1>1, <1>6, StutterStep
<1> QED  BY <1>2, <1>3, <1>4, <1>5, <1>6 DEF Next

\* The inductive invariant holds throughout every behaviour of the driver.
THEOREM UltralightInvariance == Spec => []IInv
<1>1. Init => IInv
  BY InitInvariant
<1>2. IInv /\ [Next]_vars => IInv'
  BY NextStep
<1> QED  BY <1>1, <1>2, PTL DEF Spec

\* Pages, buffers and locals keep their types: in particular, what write()
\* sends are bytes, although its last page reaches past its buffer.
THEOREM UltralightTypeCorrect == Spec => []TypeOK
<1>1. IInv => TypeOK
  BY DEF IInv
<1> QED  BY <1>1, UltralightInvariance, PTL

\* write and clean never change a page outside the user area, for every size
\* the capability container claims and although both loops count in a byte.
THEOREM UserAreaOnlyChanged == Spec => UserAreaOnly
<1>1. IInv /\ [Next]_vars => [UserAreaKept]_vars
  BY NextStep
<1> QED  BY <1>1, UltralightInvariance, PTL DEF Spec, UserAreaOnly

\* A message that is written has room on the tag, with header and terminator.
THEOREM TooLongAlwaysRefused == Spec => []TooLongRefused
<1>1. ASSUME IInv, pc = "wPage"
      PROVE  Needed(msg) <= Capacity
  <2>1. /\ msg \in Messages /\ WriteSize(msg) <= Capacity
        /\ mem \in [Pages -> PageData]
    BY <1>1, Types DEF IInv, WriteInv
  <2>2. WriteSize(msg) \in Nat /\ WriteSize(msg) >= Needed(msg)
        /\ Needed(msg) \in Nat
    BY <2>1, WriteSizes DEF Needed
  <2>3. Capacity \in Nat
    <3>1. 3 \in Pages
      BY Constants DEF Pages
    <3>2. mem[3] \in PageData
      BY <2>1, <3>1
    <3> QED  BY <3>2 DEF PageData, Byte, Capacity
  <2> QED  BY <2>1, <2>2, <2>3
<1>2. IInv => TooLongRefused
  BY <1>1 DEF TooLongRefused
<1> QED  BY <1>2, UltralightInvariance, PTL

\* While a write is under way the area holds, from its first byte on, what
\* the driver has sent, whatever was on the tag before.
THEOREM WritesInOrder == Spec => []WrittenPrefix
<1>1. IInv => WrittenPrefix
  BY DEF IInv, WriteInv, WrittenPrefix
<1> QED  BY <1>1, UltralightInvariance, PTL

\* Every read of the loop fits the buffer, up to the longest message for which
\* the size of the buffer, rounded up, can be counted in 16 bits.  (For the
\* next longer one it does not: the buffer has two bytes.)
THEOREM ReadsFitBuffer == Spec => []CountableReadFits
<1>1. ASSUME IInv, Countable(found), pc = "rPage"
      PROVE  index + 18 <= CalculateBufferSize(found.len, found.start)
  <2>1. /\ found.len \in Nat /\ found.start \in Nat
        /\ index \in Nat /\ index % 16 = 0 /\ index < found.len
    <3>1. TypeOK /\ ReadInv
      BY <1>1 DEF IInv
    <3>2. found \in [len : Nat, start : Nat] /\ index \in Nat
      BY <3>1 DEF TypeOK
    <3> QED  BY <1>1, <3>1, <3>2 DEF ReadInv
  <2> DEFINE n == found.len + found.start + 1
             size == SizeRange
  <2>2. size \in Nat /\ size % 16 = 0
    BY SizeRanges
  <2>3. n \in Nat /\ n <= size - 16 /\ index < n
    BY <1>1, <2>1 DEF Countable
  <2>4. CalculateBufferSize(found.len, found.start)
          = (RoundUp16(n % size) + 2) % size
    BY DEF CalculateBufferSize
  <2> HIDE DEF n, size
  <2>5. n % size = n
    BY <2>2, <2>3, ModSmall
  <2>6. RoundUp16(n) \in Nat /\ RoundUp16(n) >= n /\ RoundUp16(n) < n + 16
        /\ RoundUp16(n) % 16 = 0
    BY <2>3, Rounded
  <2>7. RoundUp16(n) <= size - 16
    BY <2>2, <2>3, <2>6
  <2>8. (RoundUp16(n) + 2) % size = RoundUp16(n) + 2
    <3>1. RoundUp16(n) + 2 \in Nat /\ RoundUp16(n) + 2 < size
      BY <2>2, <2>6, <2>7
    <3> QED  BY <2>2, <3>1, ModSmall
  <2>9. index + 16 <= RoundUp16(n)
    BY <2>1, <2>3, <2>6
  <2> QED  BY <2>1, <2>4, <2>5, <2>6, <2>8, <2>9
<1>2. IInv => CountableReadFits
  BY <1>1 DEF CountableReadFits, FitsBuffer
<1> QED  BY <1>2, UltralightInvariance, PTL
-----------------------------------------------------------------------------
(***************************************************************************)
(* What read() returns.                                                    *)
(***************************************************************************)
\* The reference reading of a tag whose message is in one of the two places.
LEMMA StoredShape ==
  ASSUME mem \in [Pages -> PageData], Stored # Nothing
  PROVE  \E n \in {0, 5} :
           /\ Holds(n)
           /\ Stored = SubSeq(Area, ValueStart(n) + 1, ValueEnd(n))
<1>1. \E n \in {0, 5} : Holds(n)
  BY DEF Stored
<1> DEFINE k == CHOOSE n \in {0, 5} : Holds(n)
<1>2. k \in {0, 5} /\ Holds(k)
  BY <1>1
<1>3. Stored = SubSeq(Area, ValueStart(k) + 1, ValueEnd(k))
  BY <1>1 DEF Stored
<1> QED  BY <1>2, <1>3

LEMMA AreaType ==
  ASSUME mem \in [Pages -> PageData]
  PROVE  /\ AreaSize \in Nat /\ AreaSize <= 4 * (NumPages - 4)
         /\ AreaSize <= Capacity /\ Capacity \in 0 .. 2040
         /\ Area \in Seq(Byte) /\ Len(Area) = AreaSize
         /\ \A n \in 1 .. AreaSize : Area[n] = AreaByte(n)
<1>1. NumPages \in Nat /\ NumPages >= 8 /\ 3 \in Pages
  BY Constants DEF Pages
<1>2. Capacity \in 0 .. 2040
  <2>1. PICK x \in 0 .. 255 : mem[3][3] = x
    BY <1>1 DEF PageData, Byte
  <2>2. 8 * x \in 0 .. 2040
    OBVIOUS
  <2> QED  BY <2>1, <2>2 DEF Capacity
<1>3. AreaSize \in Nat /\ AreaSize <= 4 * (NumPages - 4) /\ AreaSize <= Capacity
  BY <1>1, <1>2 DEF AreaSize
<1> DEFINE size == AreaSize
<1> HIDE DEF size
<1>4. size \in Nat /\ size <= 4 * (NumPages - 4)
  BY <1>3 DEF size
<1>5. ASSUME NEW n \in 1 .. size
      PROVE  AreaByte(n) \in Byte
  <2>1. 4 + ((n - 1) \div 4) \in Pages /\ ((n - 1) % 4) + 1 \in 1 .. 4
    BY <1>1, <1>4 DEF Pages
  <2>2. mem[4 + ((n - 1) \div 4)] \in PageData
    BY <2>1
  <2> QED  BY <2>1, <2>2 DEF AreaByte, PageData
<1>6. Area \in [1 .. size -> Byte] /\ \A n \in 1 .. size : Area[n] = AreaByte(n)
  BY <1>5 DEF Area, size
<1>7. Area \in Seq(Byte) /\ Len(Area) = size
  BY <1>4, <1>6, FunctionIsSeq
<1> QED  BY <1>2, <1>3, <1>6, <1>7 DEF size

\* findNdefMessage finds the message of the reference reading.
LEMMA FindsStored ==
  ASSUME mem \in [Pages -> PageData], ~LockThenLong,
         NEW n \in {0, 5}, Holds(n)
  PROVE  LET f == FindNdefMessage(PagesFrom(4))
         IN  /\ f.start = ValueStart(n) /\ f.start <= 7 /\ f.start \in Nat
             /\ f.start + f.len = ValueEnd(n) /\ f.len \in Nat
             /\ ValueEnd(n) <= AreaSize /\ f.len <= 2040
<1> DEFINE data == PagesFrom(4)
<1>1. /\ AreaSize \in 0 .. 2040 /\ AreaSize <= 4 * (NumPages - 4)
      /\ \A i \in 1 .. AreaSize : Area[i] = AreaByte(i)
  <2>1. AreaSize \in Nat /\ AreaSize <= Capacity /\ Capacity \in 0 .. 2040
    BY AreaType
  <2>2. AreaSize \in 0 .. 2040
    BY <2>1
  <2> QED  BY <2>2, AreaType
<1>2. AreaSize > n + 4 /\ Area[n + 1] = 3 /\ ValueEnd(n) <= AreaSize
      /\ (n = 5 => Area[1] = 1 /\ Area[2] = 3)
  BY DEF Holds, TlvAfter
<1>3. ASSUME NEW i \in 1 .. 16, i <= AreaSize
      PROVE  data[i] = Area[i]
  <2>1. NumPages \in Nat /\ NumPages >= 8
    BY Constants
  <2>2. 0 \in Nat /\ 0 % 16 = 0 /\ i \in (0 + 1) .. (0 + 16) /\ i <= 4 * (NumPages - 4)
    BY <1>1, <1>3, <2>1
  <2>3. PagesFrom(4 + (0 \div 16))[i - 0] = AreaByte(i)
    BY <2>2, AreaRead
  <2> QED  BY <1>1, <1>3, <2>3
<1>4. \A i \in 1 .. 16 : data[i] \in Nat
  <2>1. data \in [1 .. 16 -> Byte]
    BY PagesFromType
  <2>2. Byte \subseteq Nat
    BY DEF Byte
  <2> QED  BY <2>1, <2>2
<1>5. ASSUME NEW l \in Nat, NEW s \in {2, 4, 7},
             FindNdefMessage(data) = [len |-> l, start |-> s],
             ValueStart(n) = s, ValueEnd(n) = s + l
      PROVE  LET f == FindNdefMessage(data)
             IN  /\ f.start = ValueStart(n) /\ f.start <= 7 /\ f.start \in Nat
                 /\ f.start + f.len = ValueEnd(n) /\ f.len \in Nat
                 /\ ValueEnd(n) <= AreaSize /\ f.len <= 2040
  <2>1. s + l <= AreaSize /\ AreaSize <= 2040 /\ AreaSize \in Nat
    BY <1>1, <1>2, <1>5
  <2>2. l <= 2040 /\ s <= 7 /\ s \in Nat
    BY <1>5, <2>1
  <2> HIDE DEF data
  <2> QED  BY <1>5, <2>1, <2>2
<1> HIDE DEF data
<1>6. CASE n = 0
  <2>1. data[1] = Area[1] /\ data[2] = Area[2] /\ data[3] = Area[3]
        /\ data[4] = Area[4]
    BY <1>1, <1>2, <1>3, <1>6
  <2>2. Area[2] \in Nat /\ Area[3] \in Nat /\ Area[4] \in Nat /\ Area[1] = 3
    BY <1>2, <1>4, <1>6, <2>1
  <2>3. Area[2] = 255 => ValueEnd(0) = 4 + (Area[3] * 256 + Area[4])
    BY <2>2 DEF ValueStart, ValueEnd, LongForm
  <2>4. Area[2] = 255 => (Area[3] * 256 + Area[4]) % SizeRange
                           = Area[3] * 256 + Area[4]
    <3>1. Area[2] = 255 => Area[3] * 256 + Area[4] < SizeRange
      <4>1. ValueEnd(0) <= AreaSize /\ AreaSize <= 2040
        BY <1>1, <1>2, <1>6
      <4> QED  BY <1>1, <2>2, <2>3, <4>1, SizeRanges
    <3>2. Area[3] * 256 + Area[4] \in Nat
      BY <2>2
    <3> QED  BY <3>1, <3>2, SizeRanges, ModSmall
  <2>5. FindNdefMessage(data) =
          IF Area[2] = 255 THEN [len |-> Area[3] * 256 + Area[4], start |-> 4]
                           ELSE [len |-> Area[2], start |-> 2]
    BY <2>1, <2>2, <2>4 DEF FindNdefMessage
  <2>6. CASE Area[2] = 255
    <3> DEFINE l == Area[3] * 256 + Area[4]
    <3>1. ValueStart(0) = 4
      BY <2>6 DEF ValueStart, LongForm
    <3>2. ValueEnd(0) = 4 + l /\ l \in Nat
      BY <2>2, <2>3, <2>6
    <3>3. FindNdefMessage(data) = [len |-> l, start |-> 4]
      BY <2>5, <2>6
    <3> HIDE DEF l
    <3> QED  BY <1>6, <1>5, <3>1, <3>2, <3>3 DEF data
  <2>7. CASE Area[2] # 255
    <3>1. ValueStart(0) = 2 /\ ValueEnd(0) = 2 + Area[2]
      BY <2>7 DEF ValueStart, ValueEnd, LongForm
    <3>2. FindNdefMessage(data) = [len |-> Area[2], start |-> 2]
      BY <2>5, <2>7
    <3> QED  BY <1>6, <1>5, <2>2, <3>1, <3>2 DEF data
  <2> QED  BY <2>6, <2>7
<1>7. CASE n = 5
  <2>1. data[1] = Area[1] /\ data[6] = Area[6] /\ data[7] = Area[7]
    BY <1>1, <1>2, <1>3, <1>7
  <2>2. Area[1] = 1 /\ Area[6] = 3 /\ Area[7] \in Nat
    BY <1>2, <1>4, <1>7, <2>1
  <2>3. FindNdefMessage(data) = [len |-> Area[7], start |-> 7]
    BY <2>1, <2>2 DEF FindNdefMessage
  <2>4. Area[7] # 255
    <3>1. /\ AreaByte(1) = Area[1] /\ AreaByte(2) = Area[2]
          /\ AreaByte(6) = Area[6] /\ AreaByte(7) = Area[7]
      BY <1>1, <1>2, <1>7
    <3>2. /\ AreaByte(1) = mem[4][1] /\ AreaByte(2) = mem[4][2]
          /\ AreaByte(6) = mem[5][2] /\ AreaByte(7) = mem[5][3]
      BY DEF AreaByte
    <3> QED  BY <1>2, <1>7, <2>2, <3>1, <3>2 DEF LockThenLong
  <2>5. ValueStart(5) = 7 /\ ValueEnd(5) = 7 + Area[7]
    BY <2>4 DEF ValueStart, ValueEnd, LongForm
  <2> QED  BY <1>7, <1>5, <2>2, <2>3, <2>5 DEF data
<1> QED  BY <1>6, <1>7

\* The last read: whatever it does not deliver is at the end of the message.
LEMMA ReadDelivers ==
  ASSUME TypeOK, ReadInv, pc = "rPage", ~LockThenLong, Stored # Nothing,
         ~(index < found.len + found.start /\ NextIndex < found.len)
  PROVE  LET m == Delivered(buf \o PagesFrom(page), found)
         IN  /\ Len(m) = Len(Stored)
             /\ \A i \in 1 .. Len(Stored) :
                  \/ m[i] = Stored[i]
                  \/ m[i] = Garbage /\ i > Len(Stored) - 7
<1> DEFINE bytes == buf \o PagesFrom(page)
           m == Delivered(bytes, found)
<1>1. /\ bytes \in Seq(Byte) /\ Len(bytes) = index + 16 /\ index \in Nat
      /\ Unwrapped => \A k \in 1 .. (index + 16) :
           k <= 4 * (NumPages - 4) => bytes[k] = AreaByte(k)
  BY BufferGrows, Types
<1>2. mem \in [Pages -> PageData]
  BY Types
<1>3. PICK n \in {0, 5} :
        Holds(n) /\ Stored = SubSeq(Area, ValueStart(n) + 1, ValueEnd(n))
  BY <1>2, StoredShape
<1> DEFINE s == ValueStart(n)
           e == ValueEnd(n)
           f == found
<1>4. /\ f = FindNdefMessage(PagesFrom(4))
      /\ index < f.len
  BY DEF ReadInv
<1>5. /\ f.start = s /\ s <= 7 /\ s \in Nat
      /\ f.len \in Nat /\ e = s + f.len /\ e <= AreaSize
      /\ Unwrapped
  BY <1>2, <1>3, <1>4, FindsStored, SizeRanges DEF Unwrapped
<1>6. /\ AreaSize \in Nat /\ AreaSize <= 4 * (NumPages - 4) /\ NumPages \in Nat
      /\ Area \in Seq(Byte) /\ Len(Area) = AreaSize
      /\ \A k \in 1 .. AreaSize : Area[k] = AreaByte(k)
  BY <1>2, AreaType, Constants
<1> HIDE DEF bytes, s, e, f
<1>7. /\ Len(Stored) = f.len
      /\ \A i \in 1 .. f.len : Stored[i] = Area[s + i]
  <2>1. /\ Len(SubSeq(Area, s + 1, e)) = f.len
        /\ \A i \in 1 .. f.len : SubSeq(Area, s + 1, e)[i] = Area[s + i]
    <3>1. s + 1 \in 1 .. (Len(Area) + 1) /\ e \in s .. Len(Area)
      BY <1>5, <1>6
    <3>2. /\ Len(SubSeq(Area, s + 1, e)) =
               IF s + 1 <= e THEN e - (s + 1) + 1 ELSE 0
          /\ \A i \in 1 .. e - (s + 1) + 1 :
               SubSeq(Area, s + 1, e)[i] = Area[(s + 1) + i - 1]
      BY <1>5, <1>6, <3>1, SubSeqProperties
    <3> QED  BY <1>5, <3>2
  <2> QED  BY <1>3, <2>1 DEF s, e
<1>8. m = [i \in 1 .. f.len |->
             IF s + i <= index + 16 THEN bytes[s + i] ELSE Garbage]
  BY <1>1, <1>5 DEF Delivered, f
<1>9. Len(m) = f.len
  <2>1. m \in Seq(Byte \cup {Garbage})
    BY <1>1, DeliveredType DEF TypeOK
  <2> QED  BY <1>5, <1>8, <2>1
<1>10. index + 16 >= f.len
  <2>1. NextIndex = index + 16
    BY <1>1, <1>4, <1>5, NextIndexType DEF ReadInv, f
  <2> QED  BY <1>1, <1>4, <1>5, <2>1 DEF f
<1>11. ASSUME NEW i \in 1 .. f.len
       PROVE  m[i] = Stored[i] \/ (m[i] = Garbage /\ i > f.len - 7)
  <2>1. m[i] = IF s + i <= index + 16 THEN bytes[s + i] ELSE Garbage
    BY <1>8
  <2> HIDE DEF m
  <2>2. CASE s + i <= index + 16
    <3>1. s + i \in 1 .. (index + 16) /\ s + i <= 4 * (NumPages - 4)
          /\ s + i \in 1 .. AreaSize
      BY <1>1, <1>5, <1>6, <2>2, SMTT(40)
    <3> QED  BY <1>1, <1>5, <1>6, <1>7, <2>1, <2>2, <3>1
  <2>3. CASE ~(s + i <= index + 16)
    <3>1. i > f.len - 7
      BY <1>1, <1>5, <1>10, <2>3
    <3> QED  BY <2>1, <2>3, <3>1
  <2> QED  BY <2>2, <2>3
<1> QED  BY <1>7, <1>9, <1>11 DEF bytes

LEMMA Returned ==
  ASSUME NEW op, NEW result, NEW m, Return(op, result, m)
  PROVE  ret'.op = op /\ ret'.result = result /\ ret'.msg = m /\ pc' = "idle"
  BY DEF Return

LEMMA StoredKept ==
  ASSUME UNCHANGED mem
  PROVE  Stored' = Stored
  BY DEF Stored, Holds, TlvAfter, ValueEnd, ValueStart, LongForm, Area,
         AreaSize, AreaByte, Capacity

\* Only a read that ends in the middle of the loop delivers more than an
\* empty record, and the tag keeps what was delivered until the next one.
LEMMA DeliveryStep ==
  ASSUME IInv, ReadAllButTail, [Next]_vars
  PROVE  ReadAllButTail'
<1>1. CASE \/ ret' = NoReturn
           \/ ret'.op # "read" \/ ret'.result # "message"
           \/ ret'.msg = EmptyRecord
  BY <1>1 DEF ReadAllButTail, NoReturn
<1>2. CASE StartRead \/ StartWrite \/ StartClean
  <2>1. ret' = NoReturn
    BY <1>2 DEF StartRead, StartWrite, StartClean, Begin
  <2> QED  BY <1>1, <2>1
<1>3. CASE ReadBlank \/ ReadFind
  <2>1. ret = NoReturn
    BY <1>3 DEF IInv, IdleInv, ReadBlank, ReadFind
  <2>2. \/ ret' = ret \/ Return("read", "no message", << >>)
        \/ Return("read", "message", EmptyRecord)
    BY <1>3 DEF ReadBlank, ReadFind
  <2>3. ret' = ret \/ ret'.result = "no message" \/ ret'.msg = EmptyRecord
    BY <2>2, Returned
  <2> QED  BY <1>1, <2>1, <2>3
<1>4. CASE WriteBlank \/ WriteCapacity \/ WritePage
  <2>1. ret = NoReturn
    BY <1>4 DEF IInv, IdleInv, WriteBlank, WriteCapacity, WritePage
  <2>2. \/ ret' = ret
        \/ Return("write", "true", msg) \/ Return("write", "false", msg)
    BY <1>4 DEF WriteBlank, WriteCapacity, WritePage
  <2>3. ret' = ret \/ ret'.op = "write"
    BY <2>2, Returned
  <2> QED  BY <1>1, <2>1, <2>3
<1>5. CASE CleanCapacity \/ CleanPage
  <2>1. ret = NoReturn
    BY <1>5 DEF IInv, IdleInv, CleanCapacity, CleanPage
  <2>2. \/ ret' = ret
        \/ Return("clean", "true", << >>) \/ Return("clean", "false", << >>)
    BY <1>5 DEF CleanCapacity, CleanPage
  <2>3. ret' = ret \/ ret'.op = "clean"
    BY <2>2, Returned
  <2> QED  BY <1>1, <2>1, <2>3
<1>6. CASE ReadPage
  <2>1. TypeOK /\ ReadInv /\ ret = NoReturn /\ pc = "rPage" /\ mem' = mem
    BY <1>6, ReadPageStep DEF IInv, IdleInv, ReadPage
  <2> DEFINE m == Delivered(buf \o PagesFrom(page), found)
             more == index < found.len + found.start /\ NextIndex < found.len
  <2>2. \/ ret' = ret \/ Return("read", "no message", << >>)
        \/ ~more /\ Return("read", "message", m)
    BY <1>6 DEF ReadPage
  <2>3. ~more /\ Stored # Nothing /\ ~LockThenLong =>
          /\ Len(m) = Len(Stored)
          /\ \A i \in 1 .. Len(Stored) :
               m[i] = Stored[i] \/ (m[i] = Garbage /\ i > Len(Stored) - 7)
    BY <2>1, ReadDelivers
  <2> HIDE DEF m, more
  <2>4. ret' = ret \/ ret'.result = "no message" \/ (~more /\ ret'.msg = m)
    BY <2>2, Returned
  <2>5. CASE ~more /\ ret'.msg = m
    BY <2>1, <2>3, <2>5, StoredKept DEF ReadAllButTail, LockThenLong
  <2> QED  BY <1>1, <2>1, <2>4, <2>5
<1>7. CASE UNCHANGED vars
  <2>1. UNCHANGED ret /\ UNCHANGED mem
    BY <1>7 DEF vars
  <2> QED  BY <2>1, StoredKept DEF ReadAllButTail, LockThenLong
<1> QED  BY <1>2, <1>3, <1>4, <1>5, <1>6, <1>7 DEF Next

\* What read() returns is the message on the tag, but for some of its last
\* six bytes; unless the read of its length was lost, or the tag has a long
\* message behind a lock control TLV.
THEOREM ReadsAllButTail == Spec => []ReadAllButTail
<1>1. Init => ReadAllButTail
  BY DEF Init, NoReturn, ReadAllButTail
<1>2. IInv /\ ReadAllButTail /\ [Next]_vars => ReadAllButTail'
  BY DeliveryStep
<1> QED  BY <1>1, <1>2, UltralightInvariance, PTL DEF Spec
-----------------------------------------------------------------------------
(***************************************************************************)
(* The driver implements the message cell.                                 *)
(***************************************************************************)
\* An image in the area reads as the message it was made of, whatever the
\* area holds behind it.
LEMMA ImageIsStored ==
  \A m \in Messages :
    /\ mem \in [Pages -> PageData]
    /\ WriteSize(m) <= Capacity /\ WriteSize(m) <= 4 * (NumPages - 4)
    /\ \A n \in 1 .. WriteSize(m) : AreaByte(n) = Image(m)[n]
    => Stored = m
<1> SUFFICES ASSUME NEW m \in Messages,
                    mem \in [Pages -> PageData],
                    WriteSize(m) <= Capacity,
                    WriteSize(m) <= 4 * (NumPages - 4),
                    \A n \in 1 .. WriteSize(m) : AreaByte(n) = Image(m)[n]
             PROVE  Stored = m
  OBVIOUS
<1> DEFINE w == WriteSize(m)
           s == WriteStart(m)
           k == Len(m)
           h == HeaderOf(m)
<1>1. /\ m \in Seq(Byte) /\ k \in Nat /\ s \in {2, 4} /\ w \in Nat
      /\ w % 4 = 2 /\ w > 2 /\ w >= k + s + 1
      /\ s = (IF k < 255 THEN 2 ELSE 4)
  BY WriteSizes DEF Needed, WriteStart
<1>2. /\ AreaSize \in Nat /\ AreaSize >= w
      /\ Area \in Seq(Byte) /\ Len(Area) = AreaSize
      /\ \A n \in 1 .. AreaSize : Area[n] = AreaByte(n)
  <2>1. AreaSize >= w
    BY <1>1, Constants DEF AreaSize
  <2> QED  BY <2>1, AreaType
<1>3. /\ \A i \in 1 .. s : Image(m)[i] = h[i]
      /\ \A i \in 1 .. k : Image(m)[s + i] = m[i]
  BY ImageType
<1>4. /\ h[1] = 3
      /\ k < 255 => h[2] = k
      /\ k >= 255 => h[2] = 255 /\ 256 * h[3] + h[4] = k
  BY HeaderType
<1>5. \A n \in 1 .. w : Area[n] = Image(m)[n]
  BY <1>1, <1>2
<1> HIDE DEF w, s, k, h
<1>6. /\ \A i \in 1 .. s : Area[i] = h[i]
      /\ \A i \in 1 .. k : Area[s + i] = m[i]
  <2>1. \A i \in 1 .. s : i \in 1 .. w
    BY <1>1
  <2>2. \A i \in 1 .. k : s + i \in 1 .. w
    BY <1>1
  <2> QED  BY <1>3, <1>5, <2>1, <2>2
<1>7. Area[1] = 3 /\ Area[2] = h[2] /\ (s = 4 => Area[3] = h[3] /\ Area[4] = h[4])
  BY <1>1, <1>4, <1>6
<1>8. LongForm(0) <=> s = 4
  BY <1>1, <1>4, <1>7 DEF LongForm
<1>9. ValueStart(0) = s
  BY <1>1, <1>8 DEF ValueStart
<1>10. ValueEnd(0) = s + k
  BY <1>1, <1>4, <1>7, <1>8, <1>9 DEF ValueEnd
<1>11. Holds(0)
  <2>1. AreaSize > 0 + 4 /\ s + k <= AreaSize
    BY <1>1, <1>2, SMTT(40)
  <2>2. TlvAfter(0)
    BY <1>7, <2>1 DEF TlvAfter
  <2> QED  BY <1>10, <2>1, <2>2 DEF Holds
<1>12. ~Holds(5)
  BY <1>7 DEF Holds, TlvAfter
<1>13. Stored = SubSeq(Area, s + 1, s + k)
  <2>1. (CHOOSE n \in {0, 5} : Holds(n)) = 0
    BY <1>11, <1>12
  <2> QED  BY <1>9, <1>10, <1>11, <2>1 DEF Stored
<1>14. SubSeq(Area, s + 1, s + k) = m
  <2>1. s + 1 \in 1 .. (Len(Area) + 1) /\ s + k \in s .. Len(Area)
    BY <1>1, <1>2
  <2>2. /\ SubSeq(Area, s + 1, s + k) \in Seq(Byte)
        /\ Len(SubSeq(Area, s + 1, s + k)) =
             IF s + 1 <= s + k THEN (s + k) - (s + 1) + 1 ELSE 0
        /\ \A i \in 1 .. (s + k) - (s + 1) + 1 :
             SubSeq(Area, s + 1, s + k)[i] = Area[(s + 1) + i - 1]
    BY <1>1, <1>2, <2>1, SubSeqProperties
  <2> DEFINE sub == SubSeq(Area, s + 1, s + k)
  <2>3. Len(sub) = k /\ \A i \in 1 .. k : sub[i] = Area[s + i]
    <3>1. (s + k) - (s + 1) + 1 = k /\ \A i \in 1 .. k : (s + 1) + i - 1 = s + i
      BY <1>1
    <3> QED  BY <1>1, <2>2, <3>1
  <2>4. sub \in Seq(Byte)
    BY <2>2
  <2> HIDE DEF sub
  <2>5. \A i \in 1 .. k : sub[i] = m[i]
    BY <1>6, <2>3
  <2>6. Len(m) = k
    BY DEF k
  <2>7. sub = m
    BY <1>1, <2>3, <2>4, <2>5, <2>6, SeqEqual
  <2> QED  BY <2>7 DEF sub
<1> QED  BY <1>13, <1>14

\* When write() reports success, its message is on the tag.
LEMMA WriteStores ==
  ASSUME IInv, IInv', pc = "wPage", NEW beyond \in BeyondImage,
         WriteOk(page, Chunk(Image(msg), index, beyond)),
         ~(index + 4 < WriteSize(msg))
  PROVE  Stored' = msg
<1>1. /\ msg \in Messages /\ index \in Nat
      /\ WriteSize(msg) \in Nat /\ WriteSize(msg) <= Capacity
  BY Types, WriteSizes DEF IInv, WriteInv
<1>2. /\ page = 4 + (index \div 4) /\ page \in Pages /\ Capacity' = Capacity
      /\ \A n \in 1 .. (index + 4) :
           n <= WriteSize(msg) => AreaByte(n)' = Image(msg)[n]
  BY WriteAdvances DEF UserPages
<1>3. index % 4 = 0 /\ index + 4 <= 4 * (NumPages - 4)
  <2>1. index % 4 = 0 /\ page < NumPages
    BY <1>2, Constants DEF Pages, IInv, WriteInv
  <2> QED  BY <1>1, <1>2, <2>1, Constants
<1>4. WriteSize(msg) <= 4 * (NumPages - 4)
  BY <1>1, <1>3, Constants
<1>5. mem' \in [Pages -> PageData]
  BY DEF IInv, TypeOK
<1>6. \A n \in 1 .. WriteSize(msg) : AreaByte(n)' = Image(msg)[n]
  BY <1>1, <1>2
<1>7. (\A m \in Messages :
         /\ mem \in [Pages -> PageData]
         /\ WriteSize(m) <= Capacity /\ WriteSize(m) <= 4 * (NumPages - 4)
         /\ \A n \in 1 .. WriteSize(m) : AreaByte(n) = Image(m)[n]
         => Stored = m)'
  BY ImageIsStored, PTL
<1> QED  BY <1>1, <1>2, <1>4, <1>5, <1>6, <1>7

\* What the cell sees of a call that begins.
LEMMA CellCall ==
  ASSUME StartRead \/ StartWrite \/ StartClean
  PROVE  Running = "none" /\ Running' \in {"look", "write", "clean"}
         /\ Stored' = Stored
<1>1. /\ pc = "idle" /\ pc' \in {"rBlank", "wBlank", "cCapacity"}
      /\ UNCHANGED mem
  BY DEF StartRead, StartWrite, StartClean, Begin
<1> QED  BY <1>1, StoredKept DEF Running

\* What the cell sees of a step that returns.
LEMMA CellReturn ==
  ASSUME pc # "idle", IInv, NEW op, NEW result, NEW m, Return(op, result, m),
         Running = "write" /\ result = "true" => Stored' = msg,
         Running = "look" => UNCHANGED mem
  PROVE  Cell!Next
<1>1. Running' = "none" /\ ret'.result = result
  BY Returned DEF Running
<1>2. Running \in {"look", "write", "clean"}
  BY DEF IInv, TypeOK, Running
<1>3. Running = "look" => Stored' = Stored
  BY StoredKept
<1>4. CASE Running = "write" /\ result = "true"
  BY <1>1, <1>4 DEF Cell!Next, Cell!Written
<1>5. CASE ~(Running = "write" /\ result = "true")
  BY <1>1, <1>2, <1>3, <1>5 DEF Cell!Next, Cell!Done
<1> QED  BY <1>4, <1>5

\* What the cell sees of a step inside an operation.
LEMMA CellInside ==
  ASSUME Running' = Running, UNCHANGED <<msg, ret>>,
         UNCHANGED mem \/ Running \in {"write", "clean"}
  PROVE  [Cell!Next]_(Cell!vars)
<1>1. CASE UNCHANGED mem
  BY <1>1, StoredKept DEF Cell!vars
<1>2. CASE Running \in {"write", "clean"}
  BY <1>2 DEF Cell!Next, Cell!Work
<1> QED  BY <1>1, <1>2

LEMMA CellStep ==
  ASSUME IInv, IInv', [Next]_vars
  PROVE  [Cell!Next]_(Cell!vars)
<1>1. CASE StartRead \/ StartWrite \/ StartClean
  BY <1>1, CellCall DEF Cell!Next, Cell!Call
<1>2. CASE ReadBlank \/ ReadFind \/ ReadPage
  <2>1. Running = "look" /\ pc # "idle" /\ mem' = mem
    BY <1>2, ReadBlankStep, ReadFindStep, ReadPageStep
       DEF Running, ReadBlank, ReadFind, ReadPage
  <2>2. \/ \E result, m : Return("read", result, m)
        \/ pc' \in {"rBlank", "rFind", "rPage"} /\ UNCHANGED <<msg, ret>>
    BY <1>2 DEF ReadBlank, ReadFind, ReadPage, locals
  <2>3. CASE \E result, m : Return("read", result, m)
    BY <2>1, <2>3, CellReturn
  <2>4. CASE pc' \in {"rBlank", "rFind", "rPage"} /\ UNCHANGED <<msg, ret>>
    <3>1. Running' = Running
      BY <2>1, <2>4 DEF Running
    <3> QED  BY <2>1, <2>4, <3>1, CellInside
  <2> QED  BY <2>2, <2>3, <2>4
<1>3. CASE WriteBlank \/ WriteCapacity
  <2>1. Running = "write" /\ pc # "idle" /\ mem' = mem
    BY <1>3, WriteBlankStep, WriteCapacityStep
       DEF Running, WriteBlank, WriteCapacity
  <2>2. \/ Return("write", "false", msg)
        \/ pc' \in {"wCapacity", "wPage"} /\ UNCHANGED <<msg, ret>>
    BY <1>3 DEF WriteBlank, WriteCapacity, locals
  <2>3. CASE Return("write", "false", msg)
    BY <2>1, <2>3, CellReturn
  <2>4. CASE pc' \in {"wCapacity", "wPage"} /\ UNCHANGED <<msg, ret>>
    <3>1. Running' = Running
      BY <2>1, <2>4 DEF Running
    <3> QED  BY <2>1, <2>4, <3>1, CellInside
  <2> QED  BY <2>2, <2>3, <2>4
<1>4. CASE WritePage
  <2>1. Running = "write" /\ pc = "wPage"
    BY <1>4 DEF Running, WritePage
  <2>2. \/ Return("write", "false", msg)
        \/ pc' = pc /\ UNCHANGED <<msg, ret>>
        \/ Return("write", "true", msg) /\ Stored' = msg
    BY <1>4, <2>1, WriteStores DEF WritePage
  <2>3. CASE Return("write", "false", msg)
    BY <2>1, <2>3, CellReturn
  <2>4. CASE Return("write", "true", msg) /\ Stored' = msg
    BY <2>1, <2>4, CellReturn
  <2>5. CASE pc' = pc /\ UNCHANGED <<msg, ret>>
    BY <2>1, <2>5, CellInside DEF Running
  <2> QED  BY <2>2, <2>3, <2>4, <2>5
<1>5. CASE CleanCapacity \/ CleanPage
  <2>1. Running = "clean" /\ pc # "idle"
    BY <1>5 DEF Running, CleanCapacity, CleanPage
  <2>2. \/ Return("clean", "true", << >>) \/ Return("clean", "false", << >>)
        \/ pc' = "cPage" /\ UNCHANGED <<msg, ret>>
    BY <1>5 DEF CleanCapacity, CleanPage
  <2>3. CASE Return("clean", "true", << >>) \/ Return("clean", "false", << >>)
    BY <2>1, <2>3, CellReturn
  <2>4. CASE pc' = "cPage" /\ UNCHANGED <<msg, ret>>
    <3>1. Running' = Running
      BY <2>1, <2>4 DEF Running
    <3> QED  BY <2>1, <2>4, <3>1, CellInside
  <2> QED  BY <2>2, <2>3, <2>4
<1>6. CASE UNCHANGED vars
  <2>1. UNCHANGED <<mem, msg, ret, pc>>
    BY <1>6 DEF vars
  <2> QED  BY <2>1, CellInside DEF Running
<1> QED  BY <1>1, <1>2, <1>3, <1>4, <1>5, <1>6 DEF Next

\* The driver is a message cell, whatever tags come and whatever calls are
\* lost: a read leaves the cell alone, and a write that reports success has
\* put exactly its message on the tag.
THEOREM UltralightImplementsNdefStore == Spec => ImplementsNdefStore
<1>1. Init => Cell!Init
  BY DEF Init, Cell!Init, Running, NoReturn
<1>2. IInv /\ IInv' /\ [Next]_vars => [Cell!Next]_(Cell!vars)
  BY CellStep
<1> QED  BY <1>1, <1>2, UltralightInvariance, PTL
         DEF Spec, ImplementsNdefStore, Cell!Spec
=============================================================================

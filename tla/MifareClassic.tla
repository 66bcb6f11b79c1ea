--------------------------- MODULE MifareClassic ---------------------------
(***************************************************************************)
(* The Mifare Classic driver (src/MifareClassic.cpp) working on one tag    *)
(* through an MFRC522 reader.                                              *)
(*                                                                         *)
(* Every call of the reader is a step of its own, because every one of     *)
(* them can fail: the tag may refuse it, and the radio link may lose it,   *)
(* for a write before or after the tag carried it out.  What the driver    *)
(* computes between two calls belongs to the step of the call it follows.  *)
(* The tag keeps its memory and its keys when an operation gives up; the   *)
(* variables of the driver are the locals of the running operation.        *)
(***************************************************************************)
EXTENDS MifareGeometry, Sequences

CONSTANTS
  NumBlocks,      \* blocks of the tag: 20 (Mini), 64 (1K), 256 (4K)
  FormatSectors,  \* sectors formatNDEF and formatMifare work on (16)
  Messages,       \* encoded messages a sketch may write
  ReadKeys,       \* keys read() may be called with
  UserOps,        \* operations the sketch calls
  InitialTags,    \* contents a tag may have when it is first presented
  BeyondBlock,    \* what the three bytes after a block read may hold
  MaxFaults       \* bound: calls the radio link may lose

Byte == 0 .. 255
Garbage == 256                       \* a byte that does not come from the tag
Blocks == 0 .. (NumBlocks - 1)
DataBlocks == {b \in Blocks : ~IsTrailer(b)}
Sectors == {SectorOf(b) : b \in Blocks}
NoSector == -1
Deaf == -2                           \* the tag answers to no command

BlockData == [1 .. 16 -> Byte]

\* Keys by the byte pattern the code knows: FF FF FF FF FF FF, A0 A1 .. A5
\* and D3 F7 D3 F7 D3 F7, and any other.
Keys == {"factory", "mad", "ndef", "other"}

\* Access bits by the pattern the code knows: FF 07 80, 78 77 88, 7F 07 88.
AccessBits == {"transport", "mad", "ndef", "other"}

SectorTrailer == [a : Keys, b : Keys, bits : AccessBits]

Tags == [mem : [DataBlocks -> BlockData],
         trailer : [Sectors -> SectorTrailer]]

ASSUME ClassicAssumption ==
  /\ NumBlocks \in Nat /\ 8 <= NumBlocks /\ NumBlocks <= BlockRange
  /\ NumBlocks % 4 = 0
  /\ NumBlocks > LongStart => NumBlocks % 16 = 0
  /\ FormatSectors \in Nat /\ FormatSectors >= 2
  /\ 4 * FormatSectors <= LongStart
  /\ Messages \subseteq {m \in Seq(Byte) : Len(m) <= 65535}
  /\ ReadKeys \subseteq Keys
  /\ UserOps \subseteq {"read", "write", "format", "clean"}
  /\ InitialTags \subseteq Tags
  /\ BeyondBlock \subseteq [1 .. 3 -> Byte] /\ BeyondBlock # {}
  /\ MaxFaults \in Nat

VARIABLES
  mem,      \* the tag: its data blocks
  trailer,  \* the tag: the keys and access bits in its sector trailers
  auth,     \* the sector of the session with the tag, NoSector or Deaf
  faults,   \* calls the radio link has lost so far
  pc,       \* the next call of the running operation
  key,      \* read: the key it was given
  msg,      \* write: the encoded message
  block,    \* currentBlock
  index,    \* bytes of the buffer read or written
  buf,      \* read: the buffer, as far as it is filled
  tlv,      \* read: messageLength and messageStartIndex
  ret       \* what the last operation returned

tag == <<mem, trailer>>
link == <<auth, faults>>
locals == <<key, msg, block, index, buf, tlv>>
vars == <<mem, trailer, auth, faults, pc, key, msg, block, index, buf, tlv,
          ret>>

NoTlv == [len |-> 0, start |-> 0]
NoReturn == [op |-> "none", result |-> "none", msg |-> << >>]
-----------------------------------------------------------------------------
(***************************************************************************)
(* TLV encoding and decoding.                                              *)
(***************************************************************************)
RoundUp16(n) == IF n % 16 = 0 THEN n ELSE ((n \div 16) + 1) * 16

\* Mutation of GetBufferSize: a checksum is counted before rounding.
GetBufferSizeCrc(len) == RoundUp16(len + (IF len < 255 THEN 2 ELSE 4) + 3)

\* getBufferSize: header, message and terminator in whole blocks.
GetBufferSize(len) == RoundUp16(len + (IF len < 255 THEN 2 ELSE 4) + 1)

\* Mutation of Header: the bytes of a long length are swapped.
HeaderSwapped(len) ==
  IF len < 255 THEN <<3, len>> ELSE <<3, 255, len % 256, (len \div 256) % 256>>

Header(len) ==
  IF len < 255 THEN <<3, len>> ELSE <<3, 255, (len \div 256) % 256, len % 256>>

\* Mutation of Padding: the buffer is not cleared.
UnsetPadding == Garbage

\* The buffer is cleared before it is filled.
Padding == 0

\* The buffer write() fills before it touches the tag.
Image(m) ==
  [i \in 1 .. GetBufferSize(Len(m)) |->
     LET h == Header(Len(m))
     IN  IF i <= Len(h) THEN h[i]
         ELSE IF i <= Len(h) + Len(m) THEN m[i - Len(h)]
         ELSE IF i = Len(h) + Len(m) + 1 THEN 254 ELSE Padding]

\* Mutation of Slice: the pointer into the buffer does not advance.
FirstSlice(image, i) == [j \in 1 .. 16 |-> image[j]]

\* The 16 bytes of an image that start at byte i.
Slice(image, i) == [j \in 1 .. 16 |-> image[i + j]]

\* Mutation of NdefStartsAt: no NULL TLV is skipped.
NdefStartsFirst(data, i) == i = 0 /\ data[1] = 3

\* getNdefStartIndex: byte i is the tag of the first TLV that is not NULL.
NdefStartsAt(data, i) == /\ data[i + 1] = 3
                         /\ \A j \in 1 .. i : data[j] = 0

\* Mutation of TlvAt: the value starts one byte late after a short length.
TlvAtLate(bytes, i) ==
  IF bytes[i + 2] = 255
    THEN [len |-> bytes[i + 3] * 256 + bytes[i + 4], start |-> i + 4]
    ELSE [len |-> bytes[i + 2], start |-> i + 3]

\* decodeTlv: the length field that follows byte i.
TlvAt(bytes, i) ==
  IF bytes[i + 2] = 255
    THEN [len |-> bytes[i + 3] * 256 + bytes[i + 4], start |-> i + 4]
    ELSE [len |-> bytes[i + 2], start |-> i + 2]

\* &buffer[messageStartIndex] for messageLength bytes.  What lies past the
\* blocks that were read (the checksum of the last one, then whatever
\* follows the buffer) is garbage.
Delivered(bytes, t) ==
  [i \in 1 .. t.len |->
     IF t.start + i <= Len(bytes) THEN bytes[t.start + i] ELSE Garbage]

EmptyNdefMesg ==
  [i \in 1 .. 16 |-> IF i <= 6 THEN <<3, 3, 208, 0, 0, 254>>[i] ELSE 0]
EmptyBlock == [i \in 1 .. 16 |-> 0]

\* blockbuffer1 and blockbuffer2: the application directory.
MadBlock(b) ==
  [i \in 1 .. 16 |-> IF b = 1 /\ i = 1 THEN 20
                     ELSE IF b = 1 /\ i = 2 THEN 1
                     ELSE IF i % 2 = 1 THEN 3 ELSE 225]

\* blockbuffer3, blockbuffer4 and authBlock: what the driver writes to the
\* trailer of the directory, of a data sector, and of a sector it resets.
MadTrailer == [a |-> "mad", b |-> "factory", bits |-> "mad"]

\* Mutation of NdefTrailer: the access bits stay as the factory set them.
NdefTrailerReadable == [a |-> "ndef", b |-> "factory", bits |-> "transport"]

NdefTrailer == [a |-> "ndef", b |-> "factory", bits |-> "ndef"]

\* Mutation of FactoryTrailer: only the keys are reset.
FactoryKeysOnly == [a |-> "factory", b |-> "factory", bits |-> "ndef"]

FactoryTrailer == [a |-> "factory", b |-> "factory", bits |-> "transport"]
-----------------------------------------------------------------------------
(***************************************************************************)
(* The reader and the tag.  A block number reaches the reader as a byte.   *)
(***************************************************************************)
CanAuth(b, slot, k) == /\ auth # Deaf
                       /\ b % BlockRange \in Blocks
                       /\ trailer[SectorOf(b % BlockRange)][slot] = k

CanAccess(b) == /\ b % BlockRange \in Blocks
                /\ auth = SectorOf(b % BlockRange)

\* formatMifare opens a sector with key B, all other operations with key A.
SessionKey == IF pc \in {"cAuth", "cBlock"} THEN "b" ELSE "a"

\* The sessions that may write a data block, and the trailer.  With the
\* transport bits key B can be read, and the tag refuses every access in a
\* session opened with it.
DataWriters == [transport |-> {"a"}, mad |-> {"b"}, ndef |-> {"a", "b"},
                other |-> {}]
TrailerWriters == [transport |-> {"a"}, mad |-> {"b"}, ndef |-> {"b"},
                   other |-> {}]

CanWrite(b) ==
  /\ CanAccess(b)
  /\ LET bits == trailer[auth].bits
     IN  SessionKey \in IF b % BlockRange \in DataBlocks
                          THEN DataWriters[bits] ELSE TrailerWriters[bits]

\* The radio link loses a call the tag would have answered.
Fault == faults < MaxFaults /\ faults' = faults + 1

AuthOk(b, slot, k) == /\ CanAuth(b, slot, k)
                      /\ auth' = SectorOf(b % BlockRange)
                      /\ UNCHANGED <<tag, faults>>

AuthFails(b, slot, k) == /\ IF CanAuth(b, slot, k) THEN Fault
                                                  ELSE UNCHANGED faults
                         /\ auth' = Deaf
                         /\ UNCHANGED tag

\* What a read returns: a data block as stored, the keys of a trailer blanked.
Content(b) == IF b % BlockRange \in DataBlocks THEN mem[b % BlockRange]
                                               ELSE [i \in 1 .. 16 |-> 0]

ReadOk(b) == CanAccess(b) /\ UNCHANGED <<tag, link>>

\* After a command it has refused a tag answers no other, not even another
\* authentication, until it is selected anew; after a lost one it may.
AccessFails(granted) == IF granted THEN Fault /\ auth' \in {auth, Deaf}
                                   ELSE auth' = Deaf /\ UNCHANGED faults

ReadFails(b) == AccessFails(CanAccess(b)) /\ UNCHANGED tag

\* Sixteen bytes of data end up in a data block, or in the trailer of a
\* sector, whose keys and access bits are then none the driver knows.
Store(b, data) ==
  IF b \in DataBlocks
    THEN mem' = [mem EXCEPT ![b] = data] /\ UNCHANGED trailer
    ELSE /\ trailer' = [trailer EXCEPT ![SectorOf(b)] =
                          [a |-> "other", b |-> "other", bits |-> "other"]]
         /\ UNCHANGED mem

StoreKeys(b, keys) == /\ trailer' = [trailer EXCEPT ![SectorOf(b)] = keys]
                      /\ UNCHANGED mem

WriteOk(b, data) == /\ CanWrite(b)
                    /\ Store(b % BlockRange, data)
                    /\ UNCHANGED link

\* A write that is reported as failed may have reached the tag.
WriteFails(b, data) ==
  /\ AccessFails(CanWrite(b))
  /\ \/ UNCHANGED tag
     \/ CanWrite(b) /\ Store(b % BlockRange, data)

KeysOk(b, keys) == CanWrite(b) /\ StoreKeys(b, keys) /\ UNCHANGED link

KeysFail(b, keys) == /\ AccessFails(CanWrite(b))
                     /\ \/ UNCHANGED tag
                        \/ CanWrite(b) /\ StoreKeys(b, keys)

\* The operation returns; its locals are gone.
Return(op, result, m) ==
  /\ pc' = "idle"
  /\ ret' = [op |-> op, result |-> result, msg |-> m]
  /\ key' = "ndef" /\ msg' = << >> /\ block' = 0
  /\ index' = 0 /\ buf' = << >> /\ tlv' = NoTlv
-----------------------------------------------------------------------------
Init ==
  /\ \E t \in InitialTags : mem = t.mem /\ trailer = t.trailer
  /\ auth = NoSector /\ faults = 0
  /\ pc = "idle" /\ ret = NoReturn
  /\ key = "ndef" /\ msg = << >> /\ block = 0
  /\ index = 0 /\ buf = << >> /\ tlv = NoTlv

\* An operation begins after tagPresent() has selected the tag anew.
Begin(op, first) ==
  /\ pc = "idle" /\ op \in UserOps
  /\ pc' = first /\ ret' = NoReturn
  /\ auth' = NoSector
  /\ UNCHANGED <<tag, faults, index, buf, tlv>>
-----------------------------------------------------------------------------
(* MifareClassic::read *)

StartRead ==
  /\ Begin("read", "rFirstAuth")
  /\ key' \in ReadKeys
  /\ block' = 4
  /\ UNCHANGED msg

ReadFirstAuth ==
  /\ pc = "rFirstAuth"
  /\ \/ AuthOk(4, "a", key) /\ pc' = "rFirst" /\ UNCHANGED <<locals, ret>>
     \/ AuthFails(4, "a", key) /\ Return("read", "unformatted", << >>)

\* Block 4 is read for the length of the message only.
ReadFirst ==
  /\ pc = "rFirst"
  /\ \/ \E beyond \in BeyondBlock :
          /\ ReadOk(4)
          /\ \/ \E i \in 0 .. 15 :
                  /\ NdefStartsAt(mem[4], i)
                  /\ tlv' = TlvAt(mem[4] \o beyond, i)
                  /\ pc' = "rAuth"
                  /\ UNCHANGED <<key, msg, block, index, buf, ret>>
             \/ /\ ~ \E i \in 0 .. 15 : NdefStartsAt(mem[4], i)
                /\ Return("read", "unknown", << >>)
     \/ ReadFails(4) /\ Return("read", "no message", << >>)

ReadAuth ==
  /\ pc = "rAuth"
  /\ \/ AuthOk(block, "a", key) /\ pc' = "rBlock" /\ UNCHANGED <<locals, ret>>
     \/ AuthFails(block, "a", key) /\ Return("read", "no message", << >>)

\* currentBlock is an int here.
ReadBlock ==
  /\ pc = "rBlock"
  /\ \/ /\ ReadOk(block)
        /\ IF index + 16 < GetBufferSize(tlv.len)
             THEN /\ buf' = buf \o Content(block)
                  /\ index' = index + 16
                  /\ block' = SkipTrailer(block + 1)
                  /\ pc' = IF IsSectorStart(block') THEN "rAuth" ELSE "rBlock"
                  /\ UNCHANGED <<key, msg, tlv, ret>>
             ELSE Return("read", "message",
                         Delivered(buf \o Content(block), tlv))
     \/ ReadFails(block) /\ Return("read", "no message", << >>)
-----------------------------------------------------------------------------
(* MifareClassic::write *)

StartWrite ==
  /\ Begin("write", "wAuth")
  /\ msg' \in Messages
  /\ block' = 4
  /\ UNCHANGED key

\* Mutation of WriteAuth: with the default key instead of the NDEF key.
WriteAuthDefault ==
  /\ pc = "wAuth"
  /\ \/ /\ AuthOk(block, "a", "factory")
        /\ pc' = "wBlock" /\ UNCHANGED <<locals, ret>>
     \/ AuthFails(block, "a", "factory") /\ Return("write", "false", msg)

WriteAuth ==
  /\ pc = "wAuth"
  /\ \/ AuthOk(block, "a", "ndef") /\ pc' = "wBlock" /\ UNCHANGED <<locals, ret>>
     \/ AuthFails(block, "a", "ndef") /\ Return("write", "false", msg)

\* Mutation of NextWriteBlock: trailers of long sectors are not known.
NextShortBlock(b) == LET n == (b + 1) % BlockRange
                     IN  IF (n + 1) % 4 = 0 THEN (n + 1) % BlockRange ELSE n

\* currentBlock is a byte here: it wraps at the end of its range.
NextWriteBlock(b) == SkipTrailer((b + 1) % BlockRange) % BlockRange

WriteBlock ==
  /\ pc = "wBlock"
  /\ \/ /\ WriteOk(block, Slice(Image(msg), index))
        /\ IF index + 16 < GetBufferSize(Len(msg))
             THEN /\ index' = index + 16
                  /\ block' = NextWriteBlock(block)
                  /\ pc' = IF IsSectorStart(block') THEN "wAuth" ELSE "wBlock"
                  /\ UNCHANGED <<key, msg, buf, tlv, ret>>
             ELSE Return("write", "true", msg)
     \/ /\ WriteFails(block, Slice(Image(msg), index))
        /\ Return("write", "false", msg)
-----------------------------------------------------------------------------
(* MifareClassic::formatNDEF *)

StartFormat ==
  /\ Begin("format", "fAuth")
  /\ block' = 1
  /\ UNCHANGED <<key, msg>>

FormatAuth ==
  /\ pc = "fAuth"
  /\ \/ /\ AuthOk(block, "a", "factory")
        /\ pc' = "fBlock"
        /\ UNCHANGED <<locals, ret>>
     \/ AuthFails(block, "a", "factory") /\ Return("format", "false", << >>)

FormatData(b) == IF b < 4 THEN MadBlock(b)
                 ELSE IF b = 4 THEN EmptyNdefMesg ELSE EmptyBlock

FormatBlock ==
  /\ pc = "fBlock" /\ ~IsTrailer(block)
  /\ \/ /\ WriteOk(block, FormatData(block))
        /\ block' = block + 1
        /\ UNCHANGED <<pc, key, msg, index, buf, tlv, ret>>
     \/ /\ WriteFails(block, FormatData(block))
        /\ Return("format", "false", << >>)

\* Mutation of FormatKeys: the directory gets the key of the data sectors.
FormatKeysAlike(b) == NdefTrailer

FormatKeys(b) == IF b = 3 THEN MadTrailer ELSE NdefTrailer

FormatTrailer ==
  /\ pc = "fBlock" /\ IsTrailer(block)
  /\ \/ /\ KeysOk(block, FormatKeys(block))
        /\ IF block + 1 < 4 * FormatSectors
             THEN /\ block' = block + 1
                  /\ pc' = "fAuth"
                  /\ UNCHANGED <<key, msg, index, buf, tlv, ret>>
             ELSE Return("format", "true", << >>)
     \/ /\ KeysFail(block, FormatKeys(block))
        /\ Return("format", "false", << >>)
-----------------------------------------------------------------------------
(* MifareClassic::formatMifare *)

StartClean ==
  /\ Begin("clean", "cAuth")
  /\ block' = TrailerOf(0)
  /\ UNCHANGED <<key, msg>>

\* Block 0 of the tag holds its identity and is left alone.  A sector with
\* the transport bits answers to this authentication, and to nothing then.
CleanAuth ==
  /\ pc = "cAuth"
  /\ \/ /\ AuthOk(block, "b", "factory")
        /\ pc' = "cBlock"
        /\ block' = IF block = TrailerOf(0) THEN block - 2 ELSE block - 3
        /\ UNCHANGED <<key, msg, index, buf, tlv, ret>>
     \/ AuthFails(block, "b", "factory") /\ Return("clean", "false", << >>)

\* Mutation of CleanBlock: a write that fails is tried again.
CleanBlockAgain ==
  /\ pc = "cBlock" /\ ~IsTrailer(block)
  /\ \/ WriteOk(block, EmptyBlock) /\ block' = block + 1
     \/ WriteFails(block, EmptyBlock) /\ UNCHANGED block
  /\ UNCHANGED <<pc, key, msg, index, buf, tlv, ret>>

\* A write that fails is reported on the console and otherwise ignored.
CleanBlock ==
  /\ pc = "cBlock" /\ ~IsTrailer(block)
  /\ WriteOk(block, EmptyBlock) \/ WriteFails(block, EmptyBlock)
  /\ block' = block + 1
  /\ UNCHANGED <<pc, key, msg, index, buf, tlv, ret>>

CleanTrailer ==
  /\ pc = "cBlock" /\ IsTrailer(block)
  /\ KeysOk(block, FactoryTrailer) \/ KeysFail(block, FactoryTrailer)
  /\ IF SectorOf(block) + 1 < FormatSectors
       THEN /\ block' = TrailerOf(SectorOf(block) + 1)
            /\ pc' = "cAuth"
            /\ UNCHANGED <<key, msg, index, buf, tlv, ret>>
       ELSE Return("clean", "true", << >>)
-----------------------------------------------------------------------------
Begins == StartRead \/ StartWrite \/ StartFormat \/ StartClean

Reads == ReadFirstAuth \/ ReadFirst \/ ReadAuth \/ ReadBlock
Writes == WriteAuth \/ WriteBlock
Formats == FormatAuth \/ FormatBlock \/ FormatTrailer
Cleans == CleanAuth \/ CleanBlock \/ CleanTrailer

Next == Begins \/ Reads \/ Writes \/ Formats \/ Cleans

\* The driver is called and runs in loop(), which the Arduino core repeats
\* for ever; a call of the reader always comes back, if only by its timeout.
Fairness == WF_vars(Next)

Spec == Init /\ [][Next]_vars
FairSpec == Spec /\ Fairness
=============================================================================

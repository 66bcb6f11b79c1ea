-------------------------- MODULE MifareUltralight --------------------------
(***************************************************************************)
(* The Mifare Ultralight driver (src/MifareUltralight.cpp) working on one  *)
(* tag through an MFRC522 reader.                                          *)
(*                                                                         *)
(* A tag is a row of pages of four bytes: 0 to 2 hold its identity and its *)
(* lock bits, 3 its capability container, the user area begins at page 4,  *)
(* and tags of the NTAG family have configuration pages behind it.  As for *)
(* Mifare Classic, every call of the reader is a step, and may fail.       *)
(***************************************************************************)
EXTENDS Integers, Sequences

CONSTANTS
  NumPages,     \* pages the tag answers for
  PageRange,    \* the values of a page number held in a byte (256)
  SizeRange,    \* the values of a uint16_t (65536)
  Messages,     \* encoded messages a sketch may write
  UserOps,      \* operations the sketch calls
  InitialTags,  \* contents a tag may have when it is first presented
  BeyondImage,  \* what the two bytes after the buffer of write may hold
  MaxFaults     \* bound: calls the radio link may lose

\* Mutation of DataStartPage: the page before it.
ContainerPage == 3

\* ULTRALIGHT_DATA_START_PAGE
DataStartPage == 4

Byte == 0 .. 255
Garbage == 256                       \* a byte that does not come from the tag
Pages == 0 .. (NumPages - 1)
PageData == [1 .. 4 -> Byte]

ASSUME UltralightAssumption ==
  /\ NumPages \in Nat /\ NumPages >= 8
  /\ PageRange \in Nat /\ NumPages <= PageRange
  /\ PageRange % 4 = 0 /\ PageRange <= SizeRange
  /\ SizeRange \in Nat /\ 4096 <= SizeRange /\ SizeRange <= 65536
  /\ SizeRange % 16 = 0
  /\ Messages \subseteq {m \in Seq(Byte) : Len(m) < SizeRange - 32}
  /\ UserOps \subseteq {"read", "write", "clean"}
  /\ InitialTags \subseteq [Pages -> PageData]
  /\ BeyondImage \subseteq [1 .. 2 -> Byte] /\ BeyondImage # {}
  /\ MaxFaults \in Nat

VARIABLES
  mem,     \* the tag: its pages
  faults,  \* calls the radio link has lost so far
  pc,      \* the next call of the running operation
  msg,     \* write: the encoded message
  page,    \* read, write: page; clean: i
  index,   \* read: index; write: position
  buf,     \* read: the buffer up to index
  found,   \* read: messageLength and ndefStartIndex
  pages,   \* clean: the page its loop stops at
  ret      \* what the last operation returned

locals == <<msg, page, index, buf, found, pages>>
vars == <<mem, faults, pc, msg, page, index, buf, found, pages, ret>>

NoNdef == [len |-> 0, start |-> 0]
NoReturn == [op |-> "none", result |-> "none", msg |-> << >>]
-----------------------------------------------------------------------------
(* What the driver computes. *)

RoundUp16(n) == IF n % 16 = 0 THEN n ELSE ((n \div 16) + 1) * 16

\* Mutation of CalculateBufferSize: no room for the checksum.
BufferSizeWithoutCrc(len, start) == RoundUp16((len + start + 1) % SizeRange)

\* In 16 bits; the last two bytes are for the checksum of the reader.
CalculateBufferSize(len, start) ==
  (RoundUp16((len + start + 1) % SizeRange) + 2) % SizeRange

WriteStart(m) == IF Len(m) < 255 THEN 2 ELSE 4
WriteSize(m) == CalculateBufferSize(Len(m), WriteStart(m))

\* Mutation of Padding: the buffer is not cleared.
UnsetPadding == Garbage

\* The end of the buffer is cleared.
Padding == 0

\* The buffer write() fills: header, message, terminator, zeros.
Image(m) ==
  [i \in 1 .. WriteSize(m) |->
     LET h == IF Len(m) < 255
                THEN <<3, Len(m)>>
                ELSE <<3, 255, (Len(m) \div 256) % 256, Len(m) % 256>>
     IN  IF i <= Len(h) THEN h[i]
         ELSE IF i <= Len(h) + Len(m) THEN m[i - Len(h)]
         ELSE IF i = Len(h) + Len(m) + 1 THEN 254 ELSE Padding]

\* Mutation of Chunk: the pointer into the buffer does not advance.
FirstChunk(image, i, beyond) == [j \in 1 .. 4 |-> image[j]]

\* The four bytes copied from position i; the buffer is not a whole number
\* of pages, so the copy of the last page runs two bytes past its end.
Chunk(image, i, beyond) ==
  [j \in 1 .. 4 |-> IF i + j <= Len(image) THEN image[i + j]
                    ELSE beyond[i + j - Len(image)]]

\* isUnformatted, given the bytes read from page 4.
IsBlank(data) == \A i \in 1 .. 4 : data[i] = 255

\* findNdefMessage, given the bytes read from page 4: the TLV is the first
\* one of the area, or follows a lock control TLV of five bytes.
FindNdefMessage(data) ==
  IF data[1] = 3
    THEN IF data[2] = 255
           THEN [len |-> (data[3] * 256 + data[4]) % SizeRange, start |-> 4]
           ELSE [len |-> data[2], start |-> 2]
    ELSE IF data[6] = 3 THEN [len |-> data[7], start |-> 7] ELSE NoNdef

\* Mutation of Delivered: the message is taken from the start of the buffer.
DeliveredWithHeader(bytes, f) ==
  [i \in 1 .. f.len |-> IF i <= Len(bytes) THEN bytes[i] ELSE Garbage]

\* &buffer[ndefStartIndex] for messageLength bytes; a byte no read has
\* filled is garbage.
Delivered(bytes, f) ==
  [i \in 1 .. f.len |->
     IF f.start + i <= Len(bytes) THEN bytes[f.start + i] ELSE Garbage]

EmptyRecord == <<208, 0, 0>>
-----------------------------------------------------------------------------
(***************************************************************************)
(* The reader and the tag.                                                 *)
(***************************************************************************)
\* A read answers with four pages and rolls over at the end of the memory.
PagesFrom(p) == [i \in 1 .. 16 |->
                  mem[(p + ((i - 1) \div 4)) % NumPages][((i - 1) % 4) + 1]]

ReadOk(p) == p \in Pages /\ UNCHANGED <<mem, faults>>

Fails(p) == IF p \in Pages
              THEN faults < MaxFaults /\ faults' = faults + 1
              ELSE UNCHANGED faults

ReadFails(p) == Fails(p) /\ UNCHANGED mem

\* The tag refuses writes to its identity; a user page takes four bytes.
Writable(p) == p \in Pages /\ p >= 2

WriteOk(p, data) == /\ Writable(p)
                    /\ mem' = [mem EXCEPT ![p] = data]
                    /\ UNCHANGED faults

\* A write that is reported as failed may have reached the tag.
WriteFails(p, data) ==
  /\ IF Writable(p) THEN Fails(p) ELSE UNCHANGED faults
  /\ \/ UNCHANGED mem
     \/ Writable(p) /\ mem' = [mem EXCEPT ![p] = data]

Return(op, result, m) ==
  /\ pc' = "idle"
  /\ ret' = [op |-> op, result |-> result, msg |-> m]
  /\ msg' = << >> /\ page' = 0 /\ index' = 0 /\ buf' = << >>
  /\ found' = NoNdef /\ pages' = 0
-----------------------------------------------------------------------------
Init ==
  /\ mem \in InitialTags
  /\ faults = 0 /\ pc = "idle" /\ ret = NoReturn
  /\ msg = << >> /\ page = 0 /\ index = 0 /\ buf = << >>
  /\ found = NoNdef /\ pages = 0

Begin(op, first) ==
  /\ pc = "idle" /\ op \in UserOps
  /\ pc' = first /\ ret' = NoReturn
  /\ UNCHANGED <<mem, faults, page, index, buf, found, pages>>
-----------------------------------------------------------------------------
(* MifareUltralight::read *)

StartRead == Begin("read", "rBlank") /\ UNCHANGED msg

\* isUnformatted: a read that fails counts as "formatted".
ReadBlank ==
  /\ pc = "rBlank"
  /\ \/ /\ ReadOk(4) /\ IsBlank(PagesFrom(4))
        /\ Return("read", "no message", << >>)
     \/ /\ (ReadOk(4) /\ ~IsBlank(PagesFrom(4))) \/ ReadFails(4)
        /\ pc' = "rFind"
        /\ UNCHANGED <<locals, ret>>

\* Mutation of ReadFind: the tag is polled until it holds a message.
ReadFindAgain ==
  /\ pc = "rFind"
  /\ \E f \in {FindNdefMessage(PagesFrom(4)), NoNdef} :
       /\ \/ ReadOk(4) /\ f = FindNdefMessage(PagesFrom(4))
          \/ ReadFails(4) /\ f = NoNdef
       /\ IF f.len = 0
            THEN UNCHANGED <<pc, locals, ret>>
            ELSE /\ found' = f
                 /\ page' = DataStartPage
                 /\ pc' = "rPage"
                 /\ UNCHANGED <<msg, index, buf, pages, ret>>

\* findNdefMessage, which leaves both results zero if its read fails, and
\* what read() does with them.
ReadFind ==
  /\ pc = "rFind"
  /\ \E f \in {FindNdefMessage(PagesFrom(4)), NoNdef} :
       /\ \/ ReadOk(4) /\ f = FindNdefMessage(PagesFrom(4))
          \/ ReadFails(4) /\ f = NoNdef
       /\ IF f.len = 0
            THEN Return("read", "message", EmptyRecord)
            ELSE /\ found' = f
                 /\ page' = DataStartPage
                 /\ pc' = "rPage"
                 /\ UNCHANGED <<msg, index, buf, pages, ret>>

\* The loop stops when index has passed the length of the message; the
\* test on length and start inside it cannot be true before that.  Index has
\* 16 bits and wraps before it passes a length that close to their end: the
\* reads start over.  (The buffer is too small then.  What the bytes behind
\* it belong to is not modelled: the loop goes on as if nobody missed them.)
NextIndex == (index + 16) % SizeRange

ReadPage ==
  /\ pc = "rPage"
  /\ \/ /\ ReadOk(page)
        /\ IF index < found.len + found.start /\ NextIndex < found.len
             THEN /\ index' = NextIndex
                  /\ buf' = SubSeq(buf \o PagesFrom(page), 1, NextIndex)
                  /\ page' = (page + 4) % PageRange
                  /\ UNCHANGED <<pc, msg, found, pages, ret>>
             ELSE Return("read", "message",
                         Delivered(buf \o PagesFrom(page), found))
     \/ ReadFails(page) /\ Return("read", "no message", << >>)
-----------------------------------------------------------------------------
(* MifareUltralight::write *)

StartWrite == Begin("write", "wBlank") /\ msg' \in Messages

WriteBlank ==
  /\ pc = "wBlank"
  /\ \/ /\ ReadOk(4) /\ IsBlank(PagesFrom(4))
        /\ Return("write", "false", msg)
     \/ /\ (ReadOk(4) /\ ~IsBlank(PagesFrom(4))) \/ ReadFails(4)
        /\ pc' = "wCapacity"
        /\ UNCHANGED <<locals, ret>>

\* readTagSize: zero when the read fails.
TagSize(size) == \/ ReadOk(3) /\ size = 8 * PagesFrom(3)[3]
                 \/ ReadFails(3) /\ size = 0

Sizes == {0, 8 * PagesFrom(3)[3]}

\* Mutation of WriteCapacity: header, terminator and rounding are forgotten.
WriteCapacityBare ==
  /\ pc = "wCapacity"
  /\ \E size \in Sizes :
       /\ TagSize(size)
       /\ IF Len(msg) > size
            THEN Return("write", "false", msg)
            ELSE /\ page' = DataStartPage
                 /\ pc' = "wPage"
                 /\ UNCHANGED <<msg, index, buf, found, pages, ret>>

\* A message that is too long for the tag is refused before it is touched.
WriteCapacity ==
  /\ pc = "wCapacity"
  /\ \E size \in Sizes :
       /\ TagSize(size)
       /\ IF WriteSize(msg) > size
            THEN Return("write", "false", msg)
            ELSE /\ page' = DataStartPage
                 /\ pc' = "wPage"
                 /\ UNCHANGED <<msg, index, buf, found, pages, ret>>

WritePage ==
  /\ pc = "wPage"
  /\ \E beyond \in BeyondImage :
       \/ /\ WriteOk(page, Chunk(Image(msg), index, beyond))
          /\ IF index + 4 < WriteSize(msg)
               THEN /\ page' = (page + 1) % PageRange
                    /\ index' = index + 4
                    /\ UNCHANGED <<pc, msg, buf, found, pages, ret>>
               ELSE Return("write", "true", msg)
       \/ /\ WriteFails(page, Chunk(Image(msg), index, beyond))
          /\ Return("write", "false", msg)
-----------------------------------------------------------------------------
(* MifareUltralight::clean *)

StartClean == Begin("clean", "cCapacity") /\ UNCHANGED msg

\* Mutation of CleanEnd: the number of pages instead of the page after them.
CleanCount(size) == (size \div 4) % PageRange

\* The end of the loop is computed in a byte.
CleanEnd(size) == ((size \div 4) + DataStartPage) % PageRange

CleanCapacity ==
  /\ pc = "cCapacity"
  /\ \E size \in Sizes :
       /\ TagSize(size)
       /\ IF DataStartPage < CleanEnd(size)
            THEN /\ pages' = CleanEnd(size)
                 /\ page' = DataStartPage
                 /\ pc' = "cPage"
                 /\ UNCHANGED <<msg, index, buf, found, ret>>
            ELSE Return("clean", "true", << >>)

ZeroPage == [i \in 1 .. 4 |-> 0]

CleanPage ==
  /\ pc = "cPage"
  /\ \/ /\ WriteOk(page, ZeroPage)
        /\ IF page + 1 < pages
             THEN /\ page' = page + 1
                  /\ UNCHANGED <<pc, msg, index, buf, found, pages, ret>>
             ELSE Return("clean", "true", << >>)
     \/ WriteFails(page, ZeroPage) /\ Return("clean", "false", << >>)
-----------------------------------------------------------------------------
Next ==
  \/ StartRead \/ ReadBlank \/ ReadFind \/ ReadPage
  \/ StartWrite \/ WriteBlank \/ WriteCapacity \/ WritePage
  \/ StartClean \/ CleanCapacity \/ CleanPage

\* loop() runs for ever, and a call of the reader always comes back.
Fairness == WF_vars(Next)

Spec == Init /\ [][Next]_vars
FairSpec == Spec /\ Fairness
=============================================================================

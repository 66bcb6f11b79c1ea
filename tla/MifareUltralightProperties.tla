---------------------- MODULE MifareUltralightProperties ----------------------
(***************************************************************************)
(* What the Mifare Ultralight driver must never do, and what it must       *)
(* achieve, stated against a reference reading of the tag.                 *)
(***************************************************************************)
EXTENDS MifareUltralight

\* The type invariant of the tag and the running operation.
TypeOK ==
  /\ mem \in [Pages -> PageData]
  /\ faults \in 0 .. MaxFaults
  /\ pc \in {"idle", "rBlank", "rFind", "rPage", "wBlank", "wCapacity",
             "wPage", "cCapacity", "cPage"}
  /\ msg \in Messages \cup {<< >>}
  /\ page \in 0 .. (PageRange - 1)
  /\ index \in Nat
  /\ buf \in Seq(Byte)
  /\ found \in [len : Nat, start : Nat]
  /\ pages \in 0 .. (PageRange - 1)
  /\ ret \in [op : {"none", "read", "write", "clean"},
              result : {"none", "message", "no message", "true", "false"},
              msg : Seq(Byte \cup {Garbage})]
-----------------------------------------------------------------------------
(***************************************************************************)
(* The reference reading of a tag.                                         *)
(***************************************************************************)
\* The user area, as the capability container sizes it.
Capacity == 8 * mem[3][3]
UserPages == {p \in Pages : 4 <= p /\ p < 4 + (Capacity \div 4)}
AreaSize == IF Capacity < 4 * (NumPages - 4) THEN Capacity
                                              ELSE 4 * (NumPages - 4)
AreaByte(n) == mem[4 + ((n - 1) \div 4)][((n - 1) % 4) + 1]
Area == [n \in 1 .. AreaSize |-> AreaByte(n)]

\* The message TLV follows n bytes: none, or a lock control TLV.
TlvAfter(n) ==
  /\ AreaSize > n + 4
  /\ Area[n + 1] = 3
  /\ n = 0 \/ (n = 5 /\ Area[1] = 1 /\ Area[2] = 3)

LongForm(n) == Area[n + 2] = 255
ValueStart(n) == n + (IF LongForm(n) THEN 4 ELSE 2)
ValueEnd(n) == ValueStart(n) + (IF LongForm(n)
                                  THEN 256 * Area[n + 3] + Area[n + 4]
                                  ELSE Area[n + 2])

Holds(n) == TlvAfter(n) /\ ValueEnd(n) <= AreaSize
Nothing == <<Garbage>>
Stored ==
  IF \E n \in {0, 5} : Holds(n)
    THEN LET n == CHOOSE n \in {0, 5} : Holds(n)
         IN  SubSeq(Area, ValueStart(n) + 1, ValueEnd(n))
    ELSE Nothing

\* The room the header, the message and the terminator of a write need.
Needed(m) == Len(m) + WriteStart(m) + 1

Zeroed == \A p \in UserPages : mem[p] = ZeroPage

\* A message in the long form behind a lock control TLV: read() takes its
\* length for 255.
LockThenLong == mem[4][1] = 1 /\ mem[4][2] = 3 /\ mem[5][2] = 3 /\ mem[5][3] = 255

\* A length whose buffer can be counted in 16 bits.
Countable(f) == f.len + f.start + 1 <= SizeRange - 16
-----------------------------------------------------------------------------
(***************************************************************************)
(* Safety.                                                                 *)
(***************************************************************************)

\* write and clean change the user area only: neither the identity of the
\* tag nor its configuration pages, although the buffer of write is rounded
\* up, is not a whole number of pages, and both loops count in a byte.
UserAreaKept == \A p \in Pages \ UserPages : mem'[p] = mem[p]

UserAreaOnly == [][UserAreaKept]_vars

\* Every read of the loop, with the two checksum bytes, has its 18 bytes of
\* room in the buffer of read(), up to the longest message for which the
\* rounded size can be counted in 16 bits.
FitsBuffer == index + 18 <= CalculateBufferSize(found.len, found.start)
CountableReadFits == pc = "rPage" /\ Countable(found) => FitsBuffer

\* While a write is under way the area holds what was sent so far.
WrittenPrefix ==
  pc = "wPage" =>
    /\ page = (4 + (index \div 4)) % PageRange
    /\ \A n \in 1 .. index : AreaByte(n) = Image(msg)[n]

\* A message that read() returns is the one on the tag, but for its last
\* bytes: the loop stops before it has read as many bytes at the end as the
\* message is away from the start of the area.  The helpers take a call that
\* was lost for a length of zero (read() then makes up an empty message), but
\* never for a wrong one.
ReadAllButTail ==
  /\ ret.op = "read" /\ ret.result = "message"
  /\ ret.msg # EmptyRecord /\ Stored # Nothing /\ ~LockThenLong
  => /\ Len(ret.msg) = Len(Stored)
     /\ \A i \in 1 .. Len(Stored) :
          \/ ret.msg[i] = Stored[i]
          \/ ret.msg[i] = Garbage /\ i > Len(Stored) - 7

\* A message that would not fit is refused before a page has changed.
TooLongRefused ==
  pc = "wPage" => Needed(msg) <= Capacity

\* write() and clean() are those of a message cell, NdefStore: success stores
\* exactly the argument, whatever was on the tag.  A read is an operation
\* that promises not to change the cell; what it promises of the message it
\* returns is ReadAllButTail.
Running == CASE pc \in {"rBlank", "rFind", "rPage"} -> "look"
             [] pc \in {"wBlank", "wCapacity", "wPage"} -> "write"
             [] pc \in {"cCapacity", "cPage"} -> "clean"
             [] OTHER -> "none"

Cell == INSTANCE NdefStore WITH
          Changing <- {"write", "clean"},
          cell <- Stored, op <- Running, arg <- msg,
          result <- [is |-> ret.result, msg |-> ret.msg]

ImplementsNdefStore == Cell!Spec
-----------------------------------------------------------------------------
(* Liveness. *)

\* Every operation returns, also on a tag that answers for every page number
\* and claims more bytes than it has pages for, so that page numbers wrap
\* again and again; unless read() is about to overrun its buffer.
OperationReturns ==
  pc # "idle" ~> pc = "idle" \/ (pc = "rPage" /\ ~Countable(found))

\* A sketch that calls clean again and again gets an empty tag in the end,
\* whatever a write that was interrupted left behind.
CleanConverges ==
  <>[](Running \in {"clean", "none"}) => <>[]Zeroed
-----------------------------------------------------------------------------
(***************************************************************************)
(* What comments and documentation say and the driver does not do.         *)
(***************************************************************************)

\* "buffer is larger than the message": not if the length a tag claims is so
\* long that the size of the buffer overflows 16 bits when it is rounded up.
ReadFitsBuffer == pc = "rPage" => FitsBuffer

\* "need to handle some data before and after message": the loop of read()
\* compares with the length of the message alone, so the end of a message
\* whose header pushes it into one more read is never read.
ReadReturnsStored ==
  /\ ret.op = "read" /\ ret.result = "message" /\ faults = 0
  /\ Stored # Nothing /\ Stored # << >>
  => ret.msg = Stored
=============================================================================

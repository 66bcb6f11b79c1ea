----------------------- MODULE MifareClassicProperties -----------------------
(***************************************************************************)
(* What the Mifare Classic driver must never do, and what it must achieve, *)
(* stated against a reference reading of the tag that shares no definition *)
(* with the driver's own encoder and decoder.                              *)
(***************************************************************************)
EXTENDS MifareClassic, FiniteSets

Locals ==
  /\ pc \in {"idle", "rFirstAuth", "rFirst", "rAuth", "rBlock", "wAuth",
             "wBlock", "fAuth", "fBlock", "cAuth", "cBlock"}
  /\ key \in Keys
  /\ msg \in Messages \cup {<< >>}
  /\ block \in Nat
  /\ index \in Nat
  /\ buf \in Seq(Byte)
  /\ tlv \in [len : Nat, start : Nat]

Returned ==
  ret \in [op : {"none", "read", "write", "format", "clean"},
           result : {"none", "message", "no message", "unknown",
                     "unformatted", "true", "false"},
           msg : Seq(Byte \cup {Garbage})]

TagAndLink ==
  /\ mem \in [DataBlocks -> BlockData]
  /\ trailer \in [Sectors -> SectorTrailer]
  /\ auth \in Sectors \cup {NoSector, Deaf}
  /\ faults \in 0 .. MaxFaults

\* The type invariant of the tag, the link and the running operation.
TypeOK == TagAndLink /\ Locals /\ Returned
-----------------------------------------------------------------------------
(***************************************************************************)
(* The reference reading of a tag.                                         *)
(***************************************************************************)
AreaHas(n) == AreaBlock(n \div 16) \in DataBlocks
AreaByte(n) == mem[AreaBlock(n \div 16)][(n % 16) + 1]

AreaSize == 16 * Cardinality({b \in DataBlocks : b >= 4})
Area == [n \in 1 .. AreaSize |-> AreaByte(n - 1)]

\* The area begins with n NULL bytes and an NDEF message TLV.
TlvAfter(n) == /\ \A i \in 1 .. n : Area[i] = 0
               /\ Area[n + 1] = 3

\* The bytes of length field and value of the TLV after n NULL bytes.
StoredAfter(n) ==
  IF Area[n + 2] = 255
    THEN SubSeq(Area, n + 5, n + 4 + 256 * Area[n + 3] + Area[n + 4])
    ELSE SubSeq(Area, n + 3, n + 2 + Area[n + 2])

StoredEnd(n) == IF Area[n + 2] = 255
                  THEN n + 4 + 256 * Area[n + 3] + Area[n + 4]
                  ELSE n + 2 + Area[n + 2]

\* The message on a tag that begins with up to 15 NULL bytes.  A message
\* that claims more bytes than the tag has is none.
Holds(n) == TlvAfter(n) /\ StoredEnd(n) <= AreaSize
Nothing == <<Garbage>>
Stored == IF \E n \in 0 .. 15 : Holds(n)
            THEN StoredAfter(CHOOSE n \in 0 .. 15 : Holds(n))
            ELSE Nothing

\* The trailer of a sector of an NDEF tag.
FormattedTrailer(s) == [a |-> IF s = 0 THEN "mad" ELSE "ndef",
                        b |-> "factory",
                        bits |-> IF s = 0 THEN "mad" ELSE "ndef"]

Formatted == \A s \in Sectors :
               s < FormatSectors => trailer[s] = FormattedTrailer(s)

\* The sectors behind those, which no operation gives a key, if the tag has
\* any, open with the NDEF key too, and can be written with it.
OpenBeyond == \A s \in Sectors :
                s >= FormatSectors =>
                  trailer[s].a = "ndef" /\ trailer[s].bits = "ndef"

\* A block number wraps to the first sector at the end of a tag that fills
\* the range of block numbers.  No call has the key of that sector.
FirstKeys == {t.trailer[0].a : t \in InitialTags} \cup {"mad", "factory"}
DirectoryApart ==
  NumBlocks < BlockRange \/ FirstKeys \cap (ReadKeys \cup {"ndef"}) = {}

\* If a block holds the start of a message TLV, it holds all of its length
\* field, and the buffer read() takes has room for the NULL bytes before it.
HeaderReadable(data) ==
  \A i \in 0 .. 15 : NdefStartsAt(data, i) =>
    /\ i <= 14 /\ (data[i + 2] = 255 => i <= 12)
    /\ TlvAt(data, i).start + TlvAt(data, i).len
         <= GetBufferSize(TlvAt(data, i).len)
ReadableTags == \A t \in InitialTags : HeaderReadable(t.mem[4])

\* A tag as it leaves the factory: its first block apart, all zero.
Clean == /\ \A b \in DataBlocks \ {0} :
              SectorOf(b) < FormatSectors =>
                \A i \in 1 .. 16 : mem[b][i] = 0
         /\ \A s \in Sectors :
              s < FormatSectors =>
                trailer[s] = [a |-> "factory", b |-> "factory",
                              bits |-> "transport"]
-----------------------------------------------------------------------------
(***************************************************************************)
(* Safety.                                                                 *)
(***************************************************************************)

\* read, write and formatNDEF send a command only for an existing block of
\* the sector they are authenticated for, although they authenticate on
\* sector starts only and the sectors differ in size: no command is refused
\* for want of a key.  (A read past the last block a byte can number is the
\* exception; see the README.)
AuthCovers ==
  /\ pc = "rFirst" => CanAccess(4)
  /\ pc = "rBlock" /\ block < BlockRange => CanAccess(block)
  /\ pc \in {"wBlock", "fBlock"} => CanAccess(block)

\* The loops of read and write, which step over trailers block by block,
\* never send a data command for a sector trailer, not even when the byte
\* that holds the block number of write wraps.
DataCommandsSpareTrailers ==
  pc \in {"rBlock", "wBlock"} /\ block < BlockRange => ~IsTrailer(block)

\* While a write is under way the area holds, in order and with no trailer
\* in between, what the driver has sent so far.
WrittenPrefix ==
  pc \in {"wAuth", "wBlock"} =>
    \A n \in 0 .. (index - 1) : /\ AreaHas(n)
                                /\ AreaByte(n) = Image(msg)[n + 1]

\* While a read is under way its buffer holds the area from its first byte.
ReadPrefix ==
  pc \in {"rAuth", "rBlock"} =>
    /\ Len(buf) = index
    /\ \A n \in 0 .. (index - 1) : AreaHas(n) /\ buf[n + 1] = AreaByte(n)

\* formatMifare can reset a sector whose key B is the factory one and cannot
\* be read, formatNDEF takes one whose key A is the factory one and may write.
Serviceable(t) ==
  \/ t.b = "factory" /\ t.bits \in {"mad", "ndef"}
  \/ t.a = "factory" /\ t.b = "factory" /\ t.bits = "transport"

\* No operation, not even one that fails half way, leaves a sector that one
\* of the two could serve in a state in which neither of them can.
CleanKeyKept ==
  \A s \in Sectors : Serviceable(trailer[s]) => Serviceable(trailer'[s])

NeverLosesCleanKey == [][CleanKeyKept]_vars

\* formatNDEF reports success only for a tag that is an NDEF tag in every
\* sector and holds the empty record.
FormatOk ==
  ret.op = "format" /\ ret.result = "true" =>
    Formatted /\ Stored = <<208, 0, 0>>

\* A read with the NDEF key of a formatted tag that holds a message finds it,
\* unless the link failed or the message leaves no room for the terminator.
ReadRecognises ==
  /\ ret.op = "read" /\ ret.result # "message"
  /\ Formatted /\ faults = 0 /\ ReadKeys = {"ndef"}
  => \A n \in 0 .. 15 : Holds(n) => StoredEnd(n) = AreaSize

\* A write to a formatted tag fails only when a call was lost or the message
\* and its terminator need more bytes than the tag has.
WriteFailsOnlyWhenFull ==
  /\ ret.op = "write" /\ ret.result = "false" /\ Formatted /\ faults = 0
  => Len(ret.msg) + (IF Len(ret.msg) < 255 THEN 3 ELSE 5) > AreaSize

\* write never changes a key, nor, on a tag whose first sector does not open
\* with the NDEF key, the application directory: a message that is too long
\* runs off the last block into a sector that stays closed.
SparesDirectory == /\ trailer' = trailer
                   /\ \A b \in DataBlocks : b < 4 => mem'[b] = mem[b]

WriteSparesDirectory ==
  [][(pc \in {"wAuth", "wBlock"} /\ trailer[0].a # "ndef")
       => SparesDirectory]_vars

\* The driver is a message cell, NdefStore: a read returns the message the
\* reference finds on the tag, and a write that succeeds stores exactly its
\* argument.
Running == CASE pc \in {"rFirstAuth", "rFirst", "rAuth", "rBlock"} -> "read"
             [] pc \in {"wAuth", "wBlock"} -> "write"
             [] pc \in {"fAuth", "fBlock"} -> "format"
             [] pc \in {"cAuth", "cBlock"} -> "clean"
             [] OTHER -> "none"

Cell == INSTANCE NdefStore WITH
          Changing <- {"write", "format", "clean"},
          cell <- Stored, op <- Running, arg <- msg,
          result <- [is |-> ret.result, msg |-> ret.msg]

ImplementsNdefStore == Cell!Spec
-----------------------------------------------------------------------------
(***************************************************************************)
(* Liveness.                                                               *)
(***************************************************************************)

\* Every operation returns, whatever length the tag claims for its message.
OperationReturns == pc # "idle" ~> pc = "idle"

\* Whatever an interrupted format or clean has left behind, a sketch that
\* keeps calling both, in any order, has a factory tag again and again.  (One
\* that calls clean alone may not: clean gives up on a sector that it has
\* reset before.)
RepairConverges ==
  /\ \A s \in Sectors : Serviceable(trailer[s])
  /\ <>[](Running \in {"clean", "format", "none"})
  /\ []<>(Running = "clean") /\ []<>(Running = "format")
  => []<>Clean

\* A sketch that from some time on only writes, always the same message,
\* gets it on the tag, if the tag has the keys for it.
WriteConverges ==
  \A m \in Messages :
    <>[](Running = "none" \/ (Running = "write" /\ msg = m))
      => <>[](Formatted => Stored = m)
-----------------------------------------------------------------------------
(***************************************************************************)
(* What the documentation says and the driver does not do.                 *)
(***************************************************************************)

\* README: clean zeroes the tag and resets it to a factory-like state.
\* formatMifare ignores writes that fail and reports success.
CleanReportsTruth == ret.op = "clean" /\ ret.result = "true" => Clean

=============================================================================

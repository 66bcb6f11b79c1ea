-------------------------- MODULE Type4TagProperties --------------------------
(***************************************************************************)
(* What the reader of Type 4 tags must never do, and what it achieves.     *)
(***************************************************************************)
EXTENDS Type4Tag

\* The type invariant of the tag, the link and the running read.
Type4TypeOK ==
  /\ selected \in {"none", "app", "cc", "ndef"}
  /\ faults \in 0 .. MaxFaults
  /\ pc \in {"idle", "app", "cc", "readCC", "file", "length", "data"}
  /\ fileId \in Nat /\ maxSize \in Nat /\ fileSize \in Nat /\ pos \in Nat
  /\ out \in Seq(0 .. (ByteRange - 1))
  /\ ret.status \in {"none", "ok", "error"}
  /\ ret.msg \in Seq((0 .. (ByteRange - 1)) \cup {Garbage})

\* The message on a tag, by the layout of the file alone.
StoredOn(c) ==
  LET file == Files[c].file IN SubSeq(file, 3, FileLength(file) + 2)

\* A file whose offsets a byte holds, and that has the bytes it counts.
Countable(c) == LET file == Files[c].file
                IN  /\ FileLength(file) < ByteRange
                    /\ FileLength(file) + 2 <= Len(file)

\* Every read command meets the file it is meant for, whatever an earlier
\* read that was given up half way has left selected on the tag: the status
\* words the driver does not look at could not be errors.
ReadsMeetTheirFile ==
  Here =>
    /\ pc = "readCC" => selected = "cc"
    /\ pc \in {"length", "data"} => selected = "ndef"

\* The pieces are put together without gap or overlap: while a file is read
\* whose length fits a byte and that has the bytes it counts, the message is
\* put down from its first byte.  Whether the buffer has the room is not said:
\* the driver does not ask.
PiecesInOrder ==
  pc = "data" /\ Here =>
    /\ fileSize = FileLength(Files[answering].file)
    /\ Countable(answering) =>
         /\ Len(out) = IF pos = 0 THEN 0 ELSE pos - 2
         /\ \A i \in 1 .. Len(out) : out[i] = StoredOn(answering)[i]

\* A message that is returned is the one on some tag, but for its last two
\* bytes: the loop counts the length field it has skipped.  Of a file whose
\* length does not fit a byte, or that lacks bytes it counts, the length
\* alone is told.
AllButTwo(m, stored) ==
  /\ Len(m) = Len(stored)
  /\ \A i \in 1 .. Len(m) :
       m[i] = IF i <= Len(m) - 2 THEN stored[i] ELSE Garbage

ReadOf(c, m) ==
  /\ Len(m) = FileLength(Files[c].file)
  /\ Countable(c) => AllButTwo(m, StoredOn(c))

ReadsAllButTwo ==
  ret.status = "ok" => \E c \in Type4Cards : ReadOf(c, ret.msg)
-----------------------------------------------------------------------------
(***************************************************************************)
(* What the comments say and the driver does not do.                       *)
(***************************************************************************)

\* "skip length field at beginning, drop sw1 sw2 at end": what is left is
\* the message.
ReadReturnsFile ==
  ret.status = "ok" => \E c \in Type4Cards : ret.msg = StoredOn(c)
=============================================================================

------------------------------- MODULE Type4Tag -------------------------------
(***************************************************************************)
(* The reader of Type 4 tags (src/Type4Tag.cpp).                           *)
(*                                                                         *)
(* A Type 4 tag is a small file system.  The driver selects the NDEF       *)
(* application, selects and reads the capability container, which names    *)
(* the NDEF file, selects that file, reads its length, and then the file   *)
(* piece by piece.  What a command does depends on what the tag has        *)
(* selected before, and the tag keeps that across operations.              *)
(*                                                                         *)
(* Each TCL_Transceive is a step.  The tag may leave the field at any      *)
(* time, and the radio link may lose a command or its answer.  An answer   *)
(* is data and a status word of two bytes; the reader refuses one that is  *)
(* longer than the room it is given.                                       *)
(***************************************************************************)
EXTENDS Integers, Sequences

CONSTANTS
  ByteRange,   \* the values of a byte that holds an offset or a size (256)
  MTU,         \* bytes asked for at a time: FIFO_SIZE - 6 (58)
  Files,       \* the Type 4 tags, and what is on each of them
  NoCard,      \* no tag
  MaxFaults    \* bound: calls the radio link may lose

Garbage == -1                        \* a byte that does not come from the tag
Type4Cards == DOMAIN Files
FileLength(file) == file[1] * ByteRange + file[2]

\* Of a tag: ndef, whether it has the application at all; fci, the bytes of
\* file information it sends when that is selected; id and max, file name
\* and size in the capability container; file, the NDEF file: its length in
\* two bytes, the message, and what is behind it.  Nothing keeps a tag from
\* counting bytes in its length field that the file, or the size named in the
\* container, has no room for.
ASSUME Type4Assumption ==
  /\ ByteRange \in Nat /\ MTU \in Nat
  /\ 3 <= MTU /\ MTU + 2 < ByteRange
  /\ NoCard \notin Type4Cards
  /\ MaxFaults \in Nat
  /\ \A c \in Type4Cards :
       /\ Files[c] \in [ndef : BOOLEAN, fci : Nat, id : Nat, max : Nat,
                        file : Seq(0 .. (ByteRange - 1))]
       /\ Len(Files[c].file) >= 2

VARIABLES
  answering,  \* the tag the reader has selected, if it is still there
  selected,   \* what this tag has selected: "none", "app", "cc", "ndef"
  faults,     \* calls the radio link has lost so far
  pc,         \* the next command of the running read
  fileId,     \* fileId
  maxSize,    \* maxSize, the size of the buffer
  fileSize,   \* fileSize
  pos,        \* readFile: pos
  out,        \* readFile: what was copied to the buffer
  ret         \* _status, and the message of the tag that was returned

locals == <<fileId, maxSize, fileSize, pos, out>>
vars == <<answering, selected, faults, pc, locals, ret>>

NoReturn == [status |-> "none", msg |-> << >>]
Tag == Files[answering]
Here == answering \in Type4Cards
-----------------------------------------------------------------------------
(***************************************************************************)
(* The reader and the tag.                                                 *)
(***************************************************************************)
\* The tag is gone, or a command or its answer is lost.
Lost == IF Here THEN faults < MaxFaults /\ faults' = faults + 1
                ELSE UNCHANGED faults

\* The answer to a command for n bytes of the selected file: data, and the
\* status word.
Piece(offset, n) ==
  SubSeq(Tag.file, offset + 1,
         IF offset + n < Len(Tag.file) THEN offset + n ELSE Len(Tag.file))

Return(status, m) ==
  /\ pc' = "idle"
  /\ ret' = [status |-> status, msg |-> m]
  /\ fileId' = 0 /\ maxSize' = 0 /\ fileSize' = 0 /\ pos' = 0 /\ out' = << >>

\* A select command: the tag accepts it or answers with an error, and the
\* answer is `size` bytes and the status word for `room` bytes.
Select(what, accepts, size, room, next) ==
  \/ /\ Here /\ accepts /\ size + 2 <= room
     /\ selected' = what /\ pc' = next
     /\ UNCHANGED <<faults, locals, ret>>
  \/ /\ Here /\ ~(accepts /\ size + 2 <= room)
     /\ selected' = IF accepts THEN what ELSE selected
     /\ UNCHANGED faults
     /\ Return("error", << >>)
  \/ /\ Lost
     /\ \/ UNCHANGED selected
        \/ Here /\ accepts /\ selected' = what
     /\ Return("error", << >>)

\* A read command whose answer is lost.
ReadLost == Lost /\ Return("error", << >>) /\ UNCHANGED selected
-----------------------------------------------------------------------------
(* Type4Tag::read *)

StartRead ==
  /\ pc = "idle"
  /\ pc' = "app" /\ ret' = NoReturn
  /\ UNCHANGED <<selected, faults, locals>>

\* SelectNdefTag_Application: room for the status word alone.
SelectApplication ==
  /\ pc = "app"
  /\ Select("app", Here /\ Tag.ndef, IF Here THEN Tag.fci ELSE 0, 2, "cc")

SelectCapabilityContainer ==
  /\ pc = "cc"
  /\ Select("cc", selected # "none", 0, 3, "readCC")

\* Mutation of ReadCCFile: the file it names is not selected.
ReadCCFileAlone ==
  /\ pc = "readCC"
  /\ \/ /\ Here /\ selected = "cc"
        /\ fileId' = Tag.id /\ maxSize' = Tag.max
        /\ pc' = "length"
        /\ UNCHANGED <<selected, faults, fileSize, pos, out, ret>>
     \/ ReadLost

\* readCCFile
ReadCCFile ==
  /\ pc = "readCC"
  /\ \/ /\ Here /\ selected = "cc"
        /\ fileId' = Tag.id /\ maxSize' = Tag.max
        /\ pc' = "file"
        /\ UNCHANGED <<selected, faults, fileSize, pos, out, ret>>
     \/ /\ Here /\ selected # "cc"
        /\ Return("error", << >>) /\ UNCHANGED <<selected, faults>>
     \/ ReadLost

\* selectFile
SelectFile ==
  /\ pc = "file"
  /\ Select("ndef", selected # "none" /\ Here /\ fileId = Tag.id, 0, 3, "length")

\* readFileLength.  A file of length zero is not read at all.
ReadFileLength ==
  /\ pc = "length"
  /\ \/ /\ Here /\ selected = "ndef"
        /\ UNCHANGED <<selected, faults>>
        /\ IF FileLength(Tag.file) = 0
             THEN Return("ok", << >>)
             ELSE /\ fileSize' = FileLength(Tag.file)
                  /\ pc' = "data"
                  /\ UNCHANGED <<fileId, maxSize, pos, out, ret>>
     \/ /\ Here /\ selected # "ndef"
        /\ Return("error", << >>) /\ UNCHANGED <<selected, faults>>
     \/ ReadLost

\* Mutation of ReadStart: the offset is that of the message.
ReadStartBehindLength == (pos + 2) % ByteRange

\* The offset is kept in a byte.
ReadStart == pos % ByteRange

ReadLen == IF fileSize - pos > MTU THEN MTU ELSE fileSize - pos

\* The room for an answer, which is a byte too.
Room == fileSize % ByteRange

\* What the tag answers.  The status word is not looked at: a tag that has
\* not selected its file sends no data, and then fewer bytes are copied.
Answer == IF selected = "ndef" THEN Piece(ReadStart, ReadLen) ELSE << >>

\* Mutation of CopiedBytes: every piece begins with a length field.
CopiedBytesAlwaysShort(piece) == SubSeq(piece, 3, Len(piece))

\* The first piece begins with the length field, which is skipped.
CopiedBytes(piece) == IF pos = 0 THEN SubSeq(piece, 3, Len(piece)) ELSE piece

\* The fileSize bytes of the buffer that become the message; a byte that
\* was never copied to is garbage.
Buffer(bytes) ==
  [i \in 1 .. fileSize |-> IF i <= Len(bytes) THEN bytes[i] ELSE Garbage]

\* An iteration of readFile.  Nobody compares fileSize with maxSize: bytes
\* beyond the size of the buffer fall behind it, and the reader goes on as if
\* nobody missed what they overwrite.
ReadFile ==
  /\ pc = "data"
  /\ \/ /\ Here /\ Len(Answer) + 2 <= Room
        /\ UNCHANGED <<selected, faults>>
        /\ IF pos + ReadLen < fileSize
             THEN /\ out' = out \o CopiedBytes(Answer)
                  /\ pos' = pos + ReadLen
                  /\ UNCHANGED <<pc, fileId, maxSize, fileSize, ret>>
             ELSE Return("ok", Buffer(out \o CopiedBytes(Answer)))
     \/ /\ Here /\ Len(Answer) + 2 > Room
        /\ Return("error", << >>) /\ UNCHANGED <<selected, faults>>
     \/ ReadLost
-----------------------------------------------------------------------------
Init ==
  /\ answering \in Type4Cards \cup {NoCard} /\ selected = "none"
  /\ faults = 0 /\ pc = "idle" /\ ret = NoReturn
  /\ fileId = 0 /\ maxSize = 0 /\ fileSize = 0 /\ pos = 0 /\ out = << >>

Command ==
  \/ SelectApplication \/ SelectCapabilityContainer \/ ReadCCFile
  \/ SelectFile \/ ReadFileLength \/ ReadFile

\* A tag is presented to the reader between two reads; it may leave at any
\* time, and forgets what it has selected.
Present(c) == /\ pc = "idle" /\ answering' = c
              /\ selected' = "none"
              /\ UNCHANGED <<faults, pc, locals, ret>>

Leave == /\ Here /\ answering' = NoCard /\ selected' = "none"
         /\ UNCHANGED <<faults, pc, locals, ret>>

Next == \/ (StartRead \/ Command) /\ UNCHANGED answering
        \/ \E c \in Type4Cards : Present(c)
        \/ Leave

Spec == Init /\ [][Next]_vars
FairSpec == Spec /\ WF_vars(Command /\ UNCHANGED answering)
=============================================================================

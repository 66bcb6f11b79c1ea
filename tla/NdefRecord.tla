------------------------------ MODULE NdefRecord ------------------------------
(***************************************************************************)
(* An NDEF record as src/NdefRecord.cpp encodes it and as the loop of the  *)
(* decoding constructor of src/NdefMessage.cpp reads it back.              *)
(*                                                                         *)
(* A record is the tuple of what its setters were given.  Length fields    *)
(* are bytes; LengthBase is 256 in the code and smaller in a model that    *)
(* wants long records without long payloads.                               *)
(***************************************************************************)
EXTENDS Integers, Sequences

CONSTANT LengthBase   \* the values of one byte of a length field (256)

ASSUME LengthBaseAssumption == LengthBase \in 2 .. 256

Byte == 0 .. 255
Records == [tnf : 0 .. 7, type : Seq(Byte), id : Seq(Byte),
            payload : Seq(Byte)]

TnfEmpty == 0
TnfWellKnown == 1
TnfMimeMedia == 2
TnfExternalType == 4

EmptyRecord ==
  [tnf |-> TnfEmpty, type |-> << >>, id |-> << >>, payload |-> << >>]

\* The records of addMimeMediaRecord, whose type keeps its final NUL,
\* addTextRecord, whose language code is cut after five characters,
\* addUriRecord and addExternalRecord.
MimeRecord(mimeType, payload) ==
  [EmptyRecord EXCEPT !.tnf = TnfMimeMedia, !.type = mimeType \o <<0>>,
                      !.payload = payload]

LanguageCode(language) ==
  SubSeq(language, 1, IF Len(language) > 5 THEN 5 ELSE Len(language))

TextRecord(text, language) ==
  LET code == LanguageCode(language)
  IN  [EmptyRecord EXCEPT !.tnf = TnfWellKnown, !.type = <<84>>,
                          !.payload = <<Len(code)>> \o code \o text]

UriRecord(uri) ==
  [EmptyRecord EXCEPT !.tnf = TnfWellKnown, !.type = <<85>>,
                      !.payload = <<0>> \o uri]

ExternalRecord(type, payload) ==
  [EmptyRecord EXCEPT !.tnf = TnfExternalType, !.type = type,
                      !.payload = payload]
-----------------------------------------------------------------------------
(***************************************************************************)
(* Encoding.  Whether a record is short is asked in three places, each     *)
(* with a test of its own.                                                 *)
(***************************************************************************)
HasId(r) == r.id # << >>

\* _getTnfByte
TnfByte(r, first, last) ==
  r.tnf + (IF first THEN 128 ELSE 0) + (IF last THEN 64 ELSE 0)
        + (IF Len(r.payload) <= LengthBase - 1 THEN 16 ELSE 0)
        + (IF HasId(r) THEN 8 ELSE 0)

\* Mutation of RecordSize: the test is not that of encode.
RecordSizeOff(r) ==
  2 + (IF Len(r.payload) >= LengthBase - 1 THEN 4 ELSE 1)
    + (IF HasId(r) THEN 1 ELSE 0)
    + Len(r.type) + Len(r.payload) + Len(r.id)

\* getEncodedSize
RecordSize(r) ==
  2 + (IF Len(r.payload) > LengthBase - 1 THEN 4 ELSE 1)
    + (IF HasId(r) THEN 1 ELSE 0)
    + Len(r.type) + Len(r.payload) + Len(r.id)

\* Mutation of PayloadLengthField: the low byte comes first.
PayloadLengthSwapped(r) ==
  IF Len(r.payload) <= LengthBase - 1 THEN <<Len(r.payload)>>
  ELSE <<0, 0, Len(r.payload) % LengthBase,
         (Len(r.payload) \div LengthBase) % LengthBase>>

\* Of a long payload length only the low two bytes are stored.
PayloadLengthField(r) ==
  IF Len(r.payload) <= LengthBase - 1 THEN <<Len(r.payload)>>
  ELSE <<0, 0, (Len(r.payload) \div LengthBase) % LengthBase,
         Len(r.payload) % LengthBase>>

\* Mutation of EncodeRecord: the identifier precedes the type.
EncodeRecordIdFirst(r, first, last) ==
  <<TnfByte(r, first, last), Len(r.type) % LengthBase>>
    \o PayloadLengthField(r)
    \o (IF HasId(r) THEN <<Len(r.id) % LengthBase>> ELSE << >>)
    \o r.id \o r.type \o r.payload

EncodeRecord(r, first, last) ==
  <<TnfByte(r, first, last), Len(r.type) % LengthBase>>
    \o PayloadLengthField(r)
    \o (IF HasId(r) THEN <<Len(r.id) % LengthBase>> ELSE << >>)
    \o r.type \o r.id \o r.payload

\* What fits the length fields.
Encodable(r) == /\ Len(r.type) < LengthBase
                /\ Len(r.id) < LengthBase
                /\ Len(r.payload) < LengthBase * LengthBase
-----------------------------------------------------------------------------
(***************************************************************************)
(* Decoding: one iteration of the loop, at index `at` of the data.  The    *)
(* loop tests its index at the start of a record only; OutOfData tells     *)
(* that an iteration reads past the end.  The sums are those of the code   *)
(* as long as an int holds them, which DecodeRecord of NdefMessage asks.   *)
(***************************************************************************)
Bit(byte, value) == (byte \div value) % 2 = 1

At(data, i) == IF i < Len(data) THEN data[i + 1] ELSE 0
Bytes(data, i, n) == [j \in 1 .. n |-> At(data, i + j - 1)]

Decoded(data, at) ==
  LET flags == At(data, at)
      sr == Bit(flags, 16)
      il == Bit(flags, 8)
      typeLength == At(data, at + 1)
      payloadLength ==
        IF sr THEN At(data, at + 2)
        ELSE ((At(data, at + 2) * LengthBase + At(data, at + 3)) * LengthBase
               + At(data, at + 4)) * LengthBase + At(data, at + 5)
      fields == at + (IF sr THEN 3 ELSE 6)
      idLength == IF il THEN At(data, fields) ELSE 0
      type == fields + (IF il THEN 1 ELSE 0)
      id == type + typeLength
      payload == id + idLength
  IN  [record |-> [tnf |-> flags % 8,
                   type |-> Bytes(data, type, typeLength),
                   id |-> Bytes(data, id, idLength),
                   payload |-> Bytes(data, payload, payloadLength)],
       last |-> Bit(flags, 64),
       next |-> payload + payloadLength]

OutOfData(data, at) == Decoded(data, at).next > Len(data)
=============================================================================

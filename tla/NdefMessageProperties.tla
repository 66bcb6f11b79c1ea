------------------------ MODULE NdefMessageProperties ------------------------
(***************************************************************************)
(* What the message objects must never do, and that encoder and decoder    *)
(* agree.                                                                  *)
(***************************************************************************)
EXTENDS NdefMessage

CONSTANT Meaning   \* the message each foreign data stands for

ASSUME MeaningAssumption == Meaning \in [ForeignData -> Seq(Records)]

\* The decoder reads `data` as the message v, with records that end at the
\* indices `ends`.
ReadsAs(data, v, ends) ==
  /\ ends[0] = 0
  /\ \A i \in 1 .. Len(v) : LET d == Decoded(data, ends[i - 1])
                           IN  /\ ends[i - 1] < Len(data)
                               /\ d.record = v[i] /\ d.next = ends[i]
                               /\ d.last => i = Len(v)
  /\ \/ ends[Len(v)] >= Len(data)
     \/ Len(v) > 0 /\ Decoded(data, ends[Len(v) - 1]).last

Readable(data, v) ==
  \E ends \in [0 .. Len(v) -> 0 .. Len(data)] : ReadsAs(data, v, ends)

\* A message whose lengths fit their fields and whose records fit the array.
Fits(v) == /\ Len(v) <= MAX_NDEF_RECORDS
           /\ \A i \in 1 .. Len(v) : Encodable(v[i])

\* The decoder counts no record it stores and tests no length: what comes
\* from elsewhere must be whole, and fit.
WholeMessages == \A data \in ForeignData : /\ Fits(Meaning[data])
                                          /\ Readable(data, Meaning[data])
EncodableRecords == \A r \in NewRecords : Encodable(r)

\* The type invariant: a heap of records, arrays of pointers, a buffer; and,
\* of whole messages, arrays of up to MAX_NDEF_RECORDS pointers.
HeapTypeOK ==
  /\ DOMAIN heap \subseteq Pointers /\ \A p \in DOMAIN heap : heap[p] \in Records
  /\ DOMAIN records \subseteq Slots
  /\ \A s \in DOMAIN records : records[s] \in Seq(Pointers)
  /\ buffer \in Seq(Byte)
  /\ decoding \in [slot : Slots \cup {"none"}, at : Nat]

TypeOK ==
  /\ HeapTypeOK
  /\ \A s \in DOMAIN records : Len(records[s]) <= MAX_NDEF_RECORDS

\* Whatever data are received, no method but the decoder puts more records
\* into an array than it has room for, and a copy of an overfull message is
\* not overfull: the decoder alone does not look at MAX_NDEF_RECORDS.
OverfullByDecoder ==
  \A s \in DOMAIN records' :
    Len(records'[s]) > MAX_NDEF_RECORDS =>
      \/ decoding # NotDecoding /\ s = decoding.slot
      \/ s \in DOMAIN records /\ records'[s] = records[s]

OnlyDecoderOverfills == [][OverfullByDecoder]_vars
-----------------------------------------------------------------------------
\* Every record on the heap belongs to exactly one message, once: nothing
\* is leaked by a method, deleted twice or used after it was deleted.
Ownership ==
  /\ \A s \in DOMAIN records : IsInjective(records[s])
  /\ \A s, t \in DOMAIN records : s # t => Owned(s) \cap Owned(t) = {}
  /\ DOMAIN heap = UNION {Owned(s) : s \in DOMAIN records}

\* encode fills exactly the getEncodedSize() bytes its caller allocates.
SizeIsExact ==
  \A s \in DOMAIN records : decoding = NotDecoding =>
    Len(Encoded(s)) = Size(s)

\* The decoder stays inside the data it was given, if that data is a whole
\* message: the lengths it sums up are those the encoder wrote.
StaysInside ==
  decoding # NotDecoding /\ decoding.at < Len(buffer)
    => ~OutOfData(buffer, decoding.at)

\* A message decoded from the encoding of another is the same message; and
\* decoding does not depend on our encoder: a long length field of a short
\* payload, an identifier field of length zero, and a last record without
\* its end mark are understood.
DecodeEnded == decoding # NotDecoding /\ decoding' = NotDecoding

DecodedRight ==
  \A d \in Slots : d = decoding.slot =>
    /\ \A t \in DOMAIN records \ {d} :
         /\ \A i \in DOMAIN records[t] : Encodable(Value(t)[i])
         /\ Encoded(t) = buffer
         => Value(d)' = Value(t)
    /\ buffer \in ForeignData => Value(d)' = Meaning[buffer]

RoundTrip == [][DecodeEnded => DecodedRight]_vars

\* Every decoding of whole records ends.
DecodeEnds == decoding # NotDecoding ~> decoding = NotDecoding
-----------------------------------------------------------------------------
(***************************************************************************)
(* What the code says and does not do.                                     *)
(***************************************************************************)

\* operator=, which deletes the records of its target and then copies:
\* after an assignment both messages are equal.
Assigned == \A s, rhs \in Slots : Assign(s, rhs) => Value(s)' = Value(rhs)

AssignCopies == [][Assigned]_vars
=============================================================================

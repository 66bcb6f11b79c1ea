----------------------------- MODULE NdefMessage -----------------------------
(***************************************************************************)
(* The message objects of src/NdefMessage.cpp and the records they own.    *)
(*                                                                         *)
(* A sketch has a few message variables.  Each holds an array of pointers  *)
(* to records on the heap, which its methods create and its destructor and *)
(* its assignment delete.  A message is encoded into a buffer, the buffer  *)
(* is decoded into a message, and it may come from another encoder.        *)
(***************************************************************************)
EXTENDS NdefRecord, Functions

CONSTANTS
  Slots,             \* the message variables of a sketch
  MAX_NDEF_RECORDS,  \* size of the array of pointers (4)
  NewRecords,        \* records a sketch adds
  ForeignData,       \* messages encoded elsewhere
  Methods,           \* the methods the sketch uses
  IntLimit,          \* one more than the greatest int (2^31)
  HeapSize           \* bound: records alive at a time

Pointers == 1 .. HeapSize

ASSUME MessageAssumption ==
  /\ "none" \notin Slots
  /\ MAX_NDEF_RECORDS \in Nat /\ MAX_NDEF_RECORDS >= 1
  /\ NewRecords \subseteq Records
  /\ ForeignData \subseteq Seq(Byte)
  /\ Methods \subseteq {"construct", "add", "copy", "assign", "encode",
                        "decode", "destroy"}
  /\ IntLimit \in Nat /\ HeapSize \in Nat

VARIABLES
  heap,      \* the records that were created and not deleted, by pointer
  records,   \* the arrays up to _recordCount of the messages that exist
  buffer,    \* the data last encoded, or received
  decoding   \* the decoding constructor: [slot, at], or NotDecoding

vars == <<heap, records, buffer, decoding>>

NotDecoding == [slot |-> "none", at |-> 0]

FreePointers == Pointers \ DOMAIN heap
Alive(s) == s \in DOMAIN records

\* The message a slot stands for.
Value(s) == [i \in 1 .. Len(records[s]) |-> heap[records[s][i]]]

\* Pointers for n new records.
Places(n) == {at \in [1 .. n -> FreePointers] : IsInjective(at)}
Room(n) == Places(n) # {}
Fresh(n) == CHOOSE at \in Places(n) : TRUE

\* The heap after `values` were created at the pointers `at`.
Create(at, values) ==
  [p \in DOMAIN heap \cup Range(at) |->
     IF p \in DOMAIN heap THEN heap[p]
                          ELSE values[CHOOSE i \in DOMAIN at : at[i] = p]]

\* The messages once s has the array `pointers`.
With(s, pointers) ==
  [t \in DOMAIN records \cup {s} |-> IF t = s THEN pointers ELSE records[t]]

\* Mutation of Delete: the records are forgotten, not deleted.
DeleteNothing(pointers) == heap

\* The heap after the records of a message were deleted.
Delete(pointers) == [p \in DOMAIN heap \ pointers |-> heap[p]]

Owned(s) == {records[s][i] : i \in 1 .. Len(records[s])}
-----------------------------------------------------------------------------
(* Sizes and encoding of a whole message, by the loops over its records. *)

\* The sum `size`, or the place of data_ptr, after i records.
Ends(v) ==
  LET end[i \in 0 .. Len(v)] ==
        IF i = 0 THEN 0 ELSE end[i - 1] + RecordSize(v[i])
  IN  end

\* The data after i records.
Data(v) ==
  LET data[i \in 0 .. Len(v)] ==
        IF i = 0 THEN << >>
        ELSE data[i - 1] \o EncodeRecord(v[i], i = 1, i = Len(v))
  IN  data

Size(s) == Ends(Value(s))[Len(Value(s))]
Encoded(s) == Data(Value(s))[Len(Value(s))]
-----------------------------------------------------------------------------
Init == /\ heap = << >>
        /\ records = << >>
        /\ buffer \in ForeignData
        /\ decoding = NotDecoding

Calls(method) == method \in Methods /\ decoding = NotDecoding

\* NdefMessage()
Construct(s) == /\ Calls("construct") /\ ~Alive(s)
                /\ records' = With(s, << >>)
                /\ UNCHANGED <<heap, buffer, decoding>>

\* Mutation of AddRecord: the bound of the array is off by one.
AddRecordOver(s, r) ==
  /\ Calls("add") /\ Alive(s) /\ Room(1)
  /\ IF Len(records[s]) <= MAX_NDEF_RECORDS
       THEN /\ records' = [records EXCEPT ![s] = @ \o Fresh(1)]
            /\ heap' = Create(Fresh(1), <<r>>)
       ELSE UNCHANGED <<records, heap>>
  /\ UNCHANGED <<buffer, decoding>>

\* addRecord, and the add...Record methods that end in it: a copy of the
\* record is stored, or nothing once the array is full.
AddRecord(s, r) ==
  /\ Calls("add") /\ Alive(s) /\ Room(1)
  /\ IF Len(records[s]) < MAX_NDEF_RECORDS
       THEN /\ records' = [records EXCEPT ![s] = @ \o Fresh(1)]
            /\ heap' = Create(Fresh(1), <<r>>)
       ELSE UNCHANGED <<records, heap>>
  /\ UNCHANGED <<buffer, decoding>>

\* NdefMessage(const NdefMessage &rhs): addRecord for every record of rhs.
Copied(rhs) == SubSeq(Value(rhs), 1, IF Len(records[rhs]) < MAX_NDEF_RECORDS
                                       THEN Len(records[rhs])
                                       ELSE MAX_NDEF_RECORDS)

Copy(s, rhs) ==
  /\ Calls("copy") /\ ~Alive(s) /\ Alive(rhs)
  /\ Room(Len(Copied(rhs)))
  /\ LET new == Fresh(Len(Copied(rhs)))
     IN  /\ records' = With(s, new)
         /\ heap' = Create(new, Copied(rhs))
  /\ UNCHANGED <<buffer, decoding>>

\* operator=: the count is reset before the loop that is to copy, and that
\* loop runs to the count of this object.
Assign(s, rhs) ==
  /\ Calls("assign") /\ Alive(s) /\ Alive(rhs) /\ s # rhs
  /\ records' = [records EXCEPT ![s] = << >>]
  /\ heap' = Delete(Owned(s))
  /\ UNCHANGED <<buffer, decoding>>

\* encode, into a buffer of getEncodedSize() bytes.
Encode(s) == /\ Calls("encode") /\ Alive(s)
             /\ buffer' = Encoded(s)
             /\ UNCHANGED <<heap, records, decoding>>

\* NdefMessage(data, numBytes): the loop over the data, one record a step.
StartDecode(s) ==
  /\ Calls("decode") /\ ~Alive(s)
  /\ records' = With(s, << >>)
  /\ decoding' = [slot |-> s, at |-> 0]
  /\ UNCHANGED <<heap, buffer>>

\* Mutation of DecodeRecord: the index does not advance.
DecodeRecordStays ==
  /\ decoding # NotDecoding /\ decoding.at < Len(buffer) /\ Room(1)
  /\ Decoded(buffer, decoding.at).next < IntLimit
  /\ LET d == Decoded(buffer, decoding.at)
     IN  /\ heap' = Create(Fresh(1), <<d.record>>)
         /\ records' = [records EXCEPT ![decoding.slot] = @ \o Fresh(1)]
         /\ decoding' = IF d.last THEN NotDecoding ELSE decoding
  /\ UNCHANGED buffer

\* The payload length is an int for setPayload, and so is the index.  A
\* record that ends beyond the greatest int is the end of the program:
\* setPayload copies a negative number of bytes, or to the null pointer that
\* malloc has answered with.
DecodeRecord ==
  /\ decoding # NotDecoding /\ decoding.at < Len(buffer) /\ Room(1)
  /\ Decoded(buffer, decoding.at).next < IntLimit
  /\ LET d == Decoded(buffer, decoding.at)
     IN  /\ heap' = Create(Fresh(1), <<d.record>>)
         /\ records' = [records EXCEPT ![decoding.slot] = @ \o Fresh(1)]
         /\ decoding' = IF d.last THEN NotDecoding
                                  ELSE [decoding EXCEPT !.at = d.next]
  /\ UNCHANGED buffer

EndDecode == /\ decoding # NotDecoding /\ decoding.at >= Len(buffer)
             /\ decoding' = NotDecoding
             /\ UNCHANGED <<heap, records, buffer>>

\* ~NdefMessage
Destroy(s) == /\ Calls("destroy") /\ Alive(s)
              /\ heap' = Delete(Owned(s))
              /\ records' = [t \in DOMAIN records \ {s} |-> records[t]]
              /\ UNCHANGED <<buffer, decoding>>

Next ==
  \/ \E s \in Slots : Construct(s) \/ Encode(s) \/ StartDecode(s) \/ Destroy(s)
  \/ \E s \in Slots, r \in NewRecords : AddRecord(s, r)
  \/ \E s, rhs \in Slots : Copy(s, rhs) \/ Assign(s, rhs)
  \/ DecodeRecord \/ EndDecode

Spec == Init /\ [][Next]_vars
FairSpec == Spec /\ WF_vars(DecodeRecord \/ EndDecode)
=============================================================================

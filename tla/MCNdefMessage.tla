---------------------------- MODULE MCNdefMessage ----------------------------
(***************************************************************************)
(* Instances of the message objects for TLC.  Length fields have four      *)
(* values, so that payloads of 4 to 15 bytes need a long record.           *)
(***************************************************************************)
EXTENDS NdefMessageProperties, TLC

Fill(n) == [i \in 1 .. n |-> 100 + i]

WithId == [tnf |-> TnfWellKnown, type |-> <<85>>, id |-> <<8, 9>>,
           payload |-> Fill(3)]

\* Empty; a language code that is cut, and a long payload; type and payload
\* of the greatest length; an identifier, and the longest short payload.
MCRecords == {EmptyRecord,
              TextRecord(Fill(2), <<1, 2, 3, 4, 5, 6, 7>>),
              ExternalRecord(Fill(3), Fill(15)),
              WithId}
MCFewRecords == {MimeRecord(<<9, 9>>, Fill(4)), UriRecord(Fill(3))}

\* A long length field for one byte; an identifier field of length zero; two
\* records, no end mark; data behind the end mark.
LongForShort == <<128 + 64 + 1, 1, 0, 0, 0, 1, 84, 7>>
EmptyId == <<128 + 64 + 16 + 8 + 1, 1, 1, 0, 84, 7>>
NoEnd == <<128 + 16 + 1, 1, 1, 84, 7, 16 + 1, 1, 1, 84, 7>>
Trailing == <<128 + 64 + 16 + 1, 1, 1, 84, 7, 16 + 1, 1>>

Seven == [tnf |-> TnfWellKnown, type |-> <<84>>, id |-> << >>, payload |-> <<7>>]

MCMeaning == (LongForShort :> <<Seven>>) @@ (EmptyId :> <<Seven>>)
               @@ (NoEnd :> <<Seven, Seven>>) @@ (Trailing :> <<Seven>>)
MCForeign == {LongForShort, EmptyId, NoEnd, Trailing}

\* The hypotheses of the theorems hold.
ASSUME MCWholeMessages == WholeMessages
ASSUME MCEncodableRecords == EncodableRecords
=============================================================================

# Verification of the NDEF library

This directory holds TLA+ models of the Arduino NDEF library in `src/`, the
TLC configurations that check them and TLAPS proofs about them. The library
reads and writes NFC Data Exchange Format messages on Mifare Classic, Mifare
Ultralight and Type 4 tags through an MFRC522 reader.

Paths below are relative to the repository; `MifareClassic.cpp:72` is line 72
of `src/MifareClassic.cpp`.

## 1. The system

| Component | State it keeps | Operations |
|---|---|---|
| `NfcAdapter` | the reader (`shield`), a key for `read` | `tagPresent`, `read`, `write`, `erase`, `format`, `clean`, `haltTag`: dispatch on the type of the tag |
| `MifareClassic` | none between calls | `read`, `write`, `formatNDEF`, `formatMifare` |
| `MifareUltralight` | none between calls | `read`, `write`, `clean` |
| `Type4Tag` | last status | `read`: three selects, two reads, a loop over the file |
| `NfcTag` | identity of a tag, an owned `NdefMessage` or none | constructors, destructor, assignment, getters |
| `NdefMessage` | array of up to `MAX_NDEF_RECORDS` owned records | decoding constructor, copy, assignment, destructor, `encode`, `add...Record` |
| `NdefRecord` | flags and three owned byte arrays | setters, copy, `encode`, `getEncodedSize` |
| tag and reader (external) | memory and keys of the tag; the authenticated session of the reader | `PCD_Authenticate`, `MIFARE_Read`, `MIFARE_Write`, `TCL_Transceive` |

A sketch runs `loop()` on one thread: `tagPresent()` selects a tag, then one
operation of the adapter runs to its end. Nothing runs concurrently inside
the library. What makes it hard is the other side of the radio link: a tag
keeps what was written when an operation gives up half way, every single call
of the reader can be refused or lost (a lost write may or may not have reached
the tag), and the tag's own bytes steer loops and buffer sizes.

What makes each component correct:

* **Mifare Classic**: every command meets a block of the authenticated sector,
  no data command meets a sector trailer, no sector gets keys and access bits
  with which neither `formatMifare` nor `formatNDEF` can work, a successful write
  is what a read returns, what an interrupted operation has left can be repaired.
* **Mifare Ultralight**: nothing outside the user area changes, reads stay
  inside their buffer (they do not for every length a tag may claim), a successful write is on the tag, a message that does
  not fit is refused before anything changes.
* **Type 4 tags**: each command meets the file it is meant for, although the
  tag remembers what it has selected across operations that were given up;
  the pieces of a file are put together without gap or overlap; what is
  returned is what is on the tag.
* **Adapter and sketch**: a message is paired with the identity of the card it
  came from although cards are exchanged under a running operation; a card that
  was halted stays silent until it is taken away; a card that is placed is
  found, whatever session an earlier card has left in the reader.
* **Tag objects**: a message on the heap has exactly one owner.
* **Messages and records**: a record has exactly one owner, the size that is
  announced is the size that is written, decoding inverts encoding and stays
  inside the data.

The list of hazards in `PROJECT.json` has one entry for each place where these
are at stake, with the properties that guard it.

## 2. Modules

| Module | Models |
|---|---|
| `MifareGeometry` | sectors and trailers: `IsSectorStart`, `IsTrailer`, `SkipTrailer`, `TrailerOf` are the arithmetic repeated in `MifareClassic.cpp`; `SectorOf` is the tag's own division; `AreaBlock` is a reference definition that is not in the code |
| `MifareClassic` | the driver, a tag and the link |
| `MifareClassicProperties` | a reference reading of a tag (`Stored`), invariants, action and liveness properties, the refinement mapping |
| `MifareClassicProofs` | inductive invariant and theorems: types, keys, trailers |
| `MifareClassicCellProofs` | what the loops of `read` and `write` have moved |
| `MifareClassicStoreProofs` | results of the operations, refinement of `NdefStore` |
| `MifareUltralight`, `MifareUltralightProperties`, `MifareUltralightProofs` | the same for the Ultralight driver |
| `NdefStore` | what a driver promises: a cell that holds one message |
| `Type4Tag`, `Type4TagProperties`, `Type4TagProofs` | the driver of Type 4 tags, the file system of a tag and the link |
| `NfcTag` | tag objects and the messages they own |
| `NfcAdapter`, `NfcAdapterProperties`, `NfcAdapterProofs` | a sketch, the adapter, its drivers, the reader and the cards: composes `Type4Tag`, `NfcTag` and `NdefStore` |
| `NdefRecord`, `NdefRecordProofs` | the codec of one record: pure operators |
| `NdefMessage`, `NdefMessageProperties`, `NdefMessageProofs` | message objects on a heap; the decoder, one record a step |
| `MCMifareClassic`, `MCMifareUltralight`, `MCType4Tag`, `MCNdefMessage`, `MCNfcAdapter` | tags, messages, records and cards for TLC |

Operators called "Mutation of ..." are no part of the models. Each is a
definition as a plausible mistake would have it, written before the one it
changes; substituting it makes the property named with it in `PROJECT.json`
fail, which shows that the property depends on the code.

### The drivers

Every call of the reader is an action; what the driver computes between two
calls belongs to the call before. `pc` names the next call, the other
variables of an operation are its locals and are reset when it returns:

| Variable | Code |
|---|---|
| `mem`, `trailer` | memory of the tag; a trailer is its two keys and its access bits, each by the patterns the code writes |
| `auth` | the sector of the session between reader and tag; `Deaf` once the tag has refused a command: it then answers no other before it is selected anew |
| `faults` | ghost: calls the link has lost, bounded by `MaxFaults` |
| `block` / `page` | `currentBlock`, the block number of formatNDEF and formatMifare / `page`, `i` |
| `index`, `buf` | `index` / `position`, the filled part of `buffer` |
| `tlv` / `found` | `messageLength`, `messageStartIndex` / `ndefStartIndex` |
| `ret` | the `NfcTag` or `bool` that was returned, with the message |

`MifareClassic.cpp` has four operations. `read` is `StartRead`,
`ReadFirstAuth`, `ReadFirst` (which decodes the TLV), then `ReadAuth` and
`ReadBlock` in the loop; `write` is `StartWrite`, `WriteAuth`, `WriteBlock`;
`formatNDEF` is `FormatAuth`, `FormatBlock`, `FormatTrailer`; `formatMifare` is
`CleanAuth`, `CleanBlock`, `CleanTrailer`. formatNDEF writes sector 0 before
its loop and the rest in it: both are the same three actions, with the data of
the block chosen by `FormatData` and `FormatKeys`. `Begin` is the call of
`tagPresent()`, which stops the session; all examples call it first.

*Trailers.* The code writes three patterns of access bits, and what they allow
is modelled as MIFARE Classic tags have it:

| Bits | Where | Data blocks | Trailer |
|---|---|---|---|
| `FF 07 80` (`transport`) | `MifareClassic.cpp:335`, factory | key A; key B can be read, so the tag refuses every access in a session opened with it | written with key A |
| `78 77 88` (`mad`) | `:222`, sector 0 of an NDEF tag | read with A or B, written with B | written with B |
| `7F 07 88` (`ndef`) | `:223`, other sectors | A or B | written with B |

A session is opened with key B by `formatMifare` and with key A by the others
(`SessionKey`); `CanWrite` asks the bits whether it may write. So `clean` works on
sectors of an NDEF tag and not on those of a factory tag, `format` the other
way round.

`MifareUltralight.cpp` calls helpers that read the tag again (`isUnformatted`,
`findNdefMessage`, `readTagSize`); each is an action, and each maps a failed
read to a value exactly as the code does.

Undefined values are choices or garbage: three bytes behind the first block
(`BeyondBlock`: checksum and stack), two bytes behind the buffer of the
Ultralight `write` (`BeyondImage`), and `Garbage`, a value that no byte has,
for buffer bytes that no read has filled.

Block and page numbers of `write` are bytes in the code; `BlockRange` and
`PageRange` stand for 256. `SizeRange` stands for 65536, the values of the 16 bits
in which the Ultralight driver counts its buffer and its `index`. `LongStart` stands for 128, the first block of a
sector of 16. The theorems hold for all values the assumptions admit.

### Type 4 tags

`Type4Tag::read` is `StartRead` and one action for each `TCL_Transceive`:
`SelectApplication`, `SelectCapabilityContainer`, `ReadCCFile`, `SelectFile`,
`ReadFileLength`, and `ReadFile` for each iteration of the loop.

| Variable | Code |
|---|---|
| `answering` | the tag the reader has selected, `NoCard` once it has left |
| `selected` | external: what this tag has selected, kept across operations |
| `fileId`, `maxSize` | what `readCCFile` returns |
| `fileSize`, `pos`, `out` | `readFile`: `fileLength`, `pos`, the bytes copied to `buffer` |
| `ret` | `_status` and the message of the tag that was returned |

A command is understood, refused, or lost on the way there or back; the tag
may leave before any of them. The offset of a read (`ReadStart`) and the room
for an answer (`Room`) are bytes, of `ByteRange` values; `MTU` stands for the 58
bytes of a piece. `Piece` is what the tag answers, `CopiedBytes` what the
driver copies of it, `Buffer` the message it makes of them. A file is whatever
has two bytes of length: it may lack bytes it counts, and the container may name
less room than it needs. The driver compares neither, and no property claims
room for the pieces (section 5).

### Adapter, sketch and cards

`NfcAdapter` is the loop of the examples: `TagPresent`, any calls of `Read`,
`Write`, `Erase`, `Format`, `Clean`, `HaltTag`, copies of the tag object that was
read (`Keep`, `Drop`), and `EndLoop`. `SetMifareKey` comes between two loops.

| Variable | Code |
|---|---|
| `field`, `state` | external: the card in front of the reader; idle, active, authenticated or halted |
| `info` | `shield->tag`: the card that was selected last, also when it has gone |
| `crypto` | the reader's Crypto1 session |
| `hidden` | ghost: `haltTag` has reached the card in the field |
| `key` | the `_key` of the adapter |
| `store` | what Classic and Ultralight cards hold |
| `loop` | where the sketch is: polling, between two calls, or in a driver |
| `op`, `arg`, `result` | the running driver operation and its answer |
| `tags`, `messages` | the `NfcTag` objects and the messages on the heap |

The Type 4 driver runs step by step, as `Type4Command`. The other two drivers
are replaced by what their own modules show of them: `DriverWorks` is the work
on a card, which leaves a message that is being changed torn, and
`ReadSucceeds`, `ReadFails`, `EmptyInvented`, `ChangeSucceeds`, `ChangeFails` are
the ways to return. The first and the last three use the actions of `NdefStore`
with the cell of the card as guards (`Driver!Written` and so on), so they
promise no more than `ImplementsNdefStore` has shown. `EmptyInvented` and the end
of a message that may be missing (`EndMissing`) are the two ways in which the
Ultralight driver reads less (section 5).

Cards are placed and removed at any moment, also within an operation, and the
board may restart (`Restart`), which clears everything but the cards.

### Messages

`heap` maps pointers to live records, `records` holds the arrays of the
messages that exist. A record is a value: that a record owns three byte arrays
of its own is not modelled yet. `LengthBase` stands for 256 so that long
records appear with payloads of a few bytes. `StartDecode`, `DecodeRecord`,
`EndDecode` are the decoding constructor, one iteration of its loop a step.
`Ends(v)` and `Data(v)` are the loops of `getEncodedSize` and `encode` over the
records of `v`: the sum, and the bytes written, after each record. That a record
is short is decided three times, as in the code (`RecordSize`, `TnfByte`,
`PayloadLengthField`). Indices and sizes are numbers without a width, of which
`IntLimit` stands for the first an `int` does not hold: `DecodeRecord` has no step
to an index that far, since a program that gets there is at its end (section 5).

## 3. What the runs check

| Run | Instance | Shows |
|---|---|---|
| `ClassicOps` | 16 blocks, 4 sectors, three messages of one block, a byte more and five blocks over two sectors, eleven tags (factory, empty, blank, no TLV, NULL TLV, one that claims 65535 bytes, one with foreign keys, formatted or cleaned for 1 or 3 sectors), two keys, 2 faults, 157 656 states | `TypeOK`, `ReadPrefix`, `FormatOk`, `NeverLosesCleanKey`, `ImplementsNdefStore`, `OperationReturns`, `RepairConverges`, `WriteConverges` |
| `ClassicLarge` | 64 blocks, sectors of both sizes, messages of 0, 254, 255, 859 (fills the tag) and 860 bytes (wraps the byte), 1 600 states | `AuthCovers`, `DataCommandsSpareTrailers`, `WrittenPrefix`, `ReadRecognises`, `WriteFailsOnlyWhenFull`, `WriteSparesDirectory`, `ImplementsNdefStore` |
| `ClassicCleanLies`, `ClassicNulls` | | disagreements, section 5 |
| `UltralightOps` | 20 pages, 48 bytes of user area, configuration pages behind, five tags, five messages, 1 fault, 22 000 states | `TypeOK`, `ReadAllButTail`, `TooLongRefused`, `UserAreaOnly`, `ImplementsNdefStore`, `CleanConverges` |
| `UltralightLarge` | 80 pages, long TLVs, a user area that ends before the configuration, one that runs past the last page number, `SizeRange` 4096 and the longest claim whose buffer can be counted, no fault, 8 200 states | `CountableReadFits`, `WrittenPrefix`, `ReadAllButTail`, `UserAreaOnly`, `OperationReturns` |
| `UltralightOverrun` | the same tag, and one whose claim is a byte longer | disagreement, section 5 |
| `UltralightTail` | | disagreement, section 5 |
| `MessageOps` | two messages, `MAX_NDEF_RECORDS` 2, `HeapSize` 4 (records alive at a time, two full messages; a call that needs more waits in the guard `Room`), four kinds of records, four foreign encodings, `IntLimit` 128, 239 000 states | `TypeOK` (with the bound of `_recordCount`), `Ownership`, `SizeIsExact`, `StaysInside`, `RoundTrip`, `DecodeEnds` |
| `MessageAssign` | | disagreement, section 5 |
| `AdapterOps` | five cards: Classic with a message, empty Ultralight, one without a driver, two Type 4 tags read 5 bytes at a time, one with a message of 11 bytes and a container that names room for 5, one that counts 12 bytes and has 4; `ByteRange` 16, one lost call or restart, two tag objects, a key of the sketch that does not open the Classic card, 393 000 states | `AdapterTypeOK`, `ReadsMeetTheirFile`, `PiecesInOrder`, `ReadsAllButTwo`, `MessagesOwned`, `HaltHides`, `TagsTellTruth`, `CardIsFound` |
| `Type4Tail` | eleven Type 4 tags on their own: messages from 0 to 25 bytes with `ByteRange` 16, one without the application, one with file information, one with a container that names too little room | disagreement, section 5 |

*Why the bounds are enough.* The drivers see geometry only through the tests
for sector start and trailer, which repeat every 4 blocks up to `LongStart`
and every 16 after it; 16 blocks give several short sectors, 64 blocks with
`LongStart` 16 give several long ones, the change between them and the wrap.
For Type 4 tags a message is empty, too short for the room of an answer, just
long enough, a whole number of pieces, one byte more, the longest a byte
counts, or one byte longer; `AdapterOps` keeps two tags whose container or
length field disagrees with the file, so that a read can be given up half way
and the next one meets another tag in whatever state the first has left, with or
without a file it can count. Two tag objects and one object more than `read` makes
are enough for every order of creation, copy and deletion of two owners. One
fault tears one operation, the second hits its repair; the tags that an earlier
format or clean has left half done stand for a third. Messages sit on both sides
of every size the code distinguishes: one block, the 255 of the long TLV, the end
of the tag.

*The reference.* `Stored` reads the message from the tag as a byte stream over
all data blocks, with `AreaBlock` giving the place of each byte. It shares no
operator with the driver's encoder, decoder or block arithmetic, so
`ImplementsNdefStore` compares the driver with something else than itself.
In `NdefMessageProperties`, `Meaning` gives the foreign encodings their
meaning by hand.

*The abstract specification.* `NdefStore` has a cell, the operation in
progress, its argument and its result. A successful write leaves its argument
in the cell, a read that reports a message reports the cell and changes
nothing; failed writes, formats and cleans promise nothing about the cell.
The Classic driver implements it with `cell <- Stored`. The Ultralight driver
implements its part for `write` and `clean`; its `read` is an operation that
must not change the cell, because it does lose the tail of some messages
(section 5); what it does deliver is `ReadAllButTail`.

*Fairness.* `FairSpec` adds `WF_vars(Next)`: the Arduino core calls `loop()` for
ever, and every call of the reader comes back, by its timeout at the latest.
`CleanConverges` (Ultralight) and `WriteConverges` are about a sketch that from
some time on repeats one operation, as the examples do, `RepairConverges`
(Classic) about one that goes on calling `clean` and `format` in any order; all
three about a link that loses finitely many calls (`MaxFaults`). That a sketch of
`clean` alone repairs a Classic tag is not true (section 5). For messages, only the iterations of the
decoding loop are fair; a sketch need not call anything.

`FairAdapterSpec` has, for `CardIsFound`, weak fairness of `TagPresent`, of the
returns of the drivers and of the commands of the Type 4 driver, all for the
same two reasons (that the drivers return is what the `OperationReturns` runs
show), and strong fairness of `EndLoop`: the body of a loop makes finitely many
calls. Cards need neither come nor stay.

*Deadlock* is checked in all runs.

## 4. What is proved

### Mifare Classic

`MifareClassicProofs`, for all tag sizes, sector layouts, messages and numbers
of lost calls that `MifareGeometry` and `ClassicAssumption` admit:

| Theorem | Statement |
|---|---|
| `Invariance` | `Spec => []IInv` |
| `TypeCorrect` | `Spec => []TypeOK` |
| `AuthAlwaysCovers` | `Spec => []AuthCovers` |
| `TrailersSpared` | `Spec => []DataCommandsSpareTrailers` |
| `CleanKeyNeverLost` | `Spec => NeverLosesCleanKey` |
| `DirectorySpared` | `Spec => WriteSparesDirectory` |

The assumptions are those of the hardware and the callers: a tag has whole
sectors and no more blocks than a byte numbers, the formatted sectors are
short ones, messages have at most 65535 bytes, keys and initial contents have
their types.

*The argument.* `AuthCovers` is not inductive: that the block after the one
just used is still covered depends on that block being no trailer, and that a
write sends bytes depends on `index` being inside the buffer and a multiple
of 16. `IInv` adds, per operation, where the driver is between two commands:
`ReadPosition`, `WritePosition`, `FormatPosition`, `CleanPosition`. The
arithmetic is in `SkipStep` (stepping over a trailer leads to a block that
opens a sector or stays in its own), `WriteStep` (the same in a byte that may
wrap) and `ShortStep`. Each action has a lemma that gives `IInv'` and
`SafeStep`, the conjunction of the two action properties; the theorems follow
with temporal logic.

`WritePosition` also records that a write reaches sector 0 only if that sector
opens with the NDEF key, from which `WriteSparesDirectory` follows.

`MifareClassicCellProofs` and `MifareClassicStoreProofs` say what is moved and
what is returned:

| Theorem | Under | Statement |
|---|---|---|
| `WritesInOrder` | `DirectoryApart` | `Spec => []WrittenPrefix` |
| `ReadsInOrder` | `DirectoryApart` | `Spec => []ReadPrefix` |
| `FormatTellsTruth` | | `Spec => []FormatOk` |
| `ReadsRecognise` | `DirectoryApart`, `ReadableTags` | `Spec => [](OpenBeyond => ReadRecognises)` |
| `WritesFailWhenFull` | `DirectoryApart` | `Spec => [](OpenBeyond => WriteFailsOnlyWhenFull)` |
| `ClassicImplementsNdefStore` | `DirectoryApart`, `ReadableTags` | `Spec => ImplementsNdefStore` |

*What the hypotheses say.* `DirectoryApart`: the tag has fewer blocks than a byte
numbers, or its first sector does not open with a key that `read` or `write`
uses. It excludes a 4K tag whose first sector has been given the NDEF key: there
a message that fills the tag wraps to the directory. `ReadableTags`: no tag
begins with a TLV header that is cut by the end of the first block, or with NULL
TLVs that leave the buffer too small; that such tags are misread is the
disagreement `ClassicNulls`. `OpenBeyond`: the sectors behind those that are
formatted open with the NDEF key; the library gives no key to the sectors of a
4K tag from 16 on, and a read or write of them is refused. The MC module
evaluates `DirectoryApart` and `ReadableTags` on the tags of the passing runs.

*The argument.* `ReadPrefix` and `WrittenPrefix` speak of places in the area,
the driver counts blocks. `ReadArea` and `WriteArea` tie the two: the block at
work is `AreaBlock(index \div 16)`. `AreaBlock` ascends and avoids trailers
(`AreaBlocks` gives the size of the area), so a block that is written changes
16 bytes of the area and no others. For the refinement, `HeaderInv` says that
whatever the driver leaves in the first block of the area can be read
again: a TLV header is written whole, also by a write that loses its next call.
`Stored` chooses among 16 possible headers; the lemmas about it show that the
driver finds the same one. `FormatInv` says which sectors have their keys,
`ReadFailInv` and `WriteFailInv` why an operation has failed.

### Mifare Ultralight

`MifareUltralightProofs`, for all numbers of pages, contents of tags, messages that
are 32 bytes shorter than 16 bits count, and numbers of lost calls that `UltralightAssumption`
admits:

| Theorem | Under | Statement |
|---|---|---|
| `UltralightTypeCorrect` | | `Spec => []TypeOK` |
| `UserAreaOnlyChanged` | | `Spec => UserAreaOnly` |
| `TooLongAlwaysRefused` | | `Spec => []TooLongRefused` |
| `WritesInOrder` | | `Spec => []WrittenPrefix` |
| `ReadsFitBuffer` | | `Spec => []CountableReadFits` |
| `ReadsAllButTail` | | `Spec => []ReadAllButTail` |
| `UltralightImplementsNdefStore` | | `Spec => ImplementsNdefStore` |

`calculateBufferSize` adds the claimed length, the start and one, and rounds up
to a multiple of 16, in 16 bits. `CountableReadFits` is about the lengths for
which the rounded size is below 65536; above them the buffer is smaller than the
message and `ReadFitsBuffer` is false (section 5). `ReadAllButTail` leaves out a
message of 255 bytes or more behind a lock control TLV (`LockThenLong`), whose
length the driver misreads, and the empty message it makes up for a tag whose
length it could not read (section 5).

*The argument.* `IInv` has a part for each loop. `WriteInv` needs `WriteSize(msg) <=
Capacity` while the loop runs, which holds because the capability container, with
the capacity, lies before the pages that are written. The last, half-filled page is written whole, and `WriteSizes`
shows that it is still in the area. `ReadInv` holds the bytes read against the
area as far as the tag goes; behind the last page the counter may wrap and the
bytes are anything.

### Messages and records

`NdefRecordProofs` and `NdefMessageProofs`, for all records, messages of every
length, numbers of messages and sizes of the array:

| Theorem | Under | Statement |
|---|---|---|
| `EncodingHasItsSize` | | `Len(EncodeRecord(r, first, last)) = RecordSize(r)` |
| `DecodingInvertsEncoding` | `Encodable(r)` | a record that stands in data is decoded to itself, its end and its end mark |
| `MessageHasItsSize` | | `Len(Data(v)[Len(v)]) = Ends(v)[Len(v)]` |
| `MessageReadBack` | records are `Encodable` | `ReadsAs(Data(v)[Len(v)], v, Ends(v))` |
| `RecordsOwned` | | `Spec => []Ownership` |
| `SizeExact` | | `Spec => []SizeIsExact` |
| `DecodingRoundTrip` | `WholeMessages` | `Spec => RoundTrip` |
| `HeapTypes` | | `Spec => []HeapTypeOK` |
| `OnlyTheDecoderOverfills` | | `Spec => OnlyDecoderOverfills` |
| `DecoderStaysInside` | `WholeMessages`, `EncodableRecords` | `Spec => []StaysInside` |

`LengthBase` may be any value from 2 to 256. `WholeMessages`: data that come from
elsewhere can be read as a message (`Readable`) of at most `MAX_NDEF_RECORDS`
records. The decoder tests neither, so the hypothesis cannot be dropped: cut
messages are read past their end, longer ones overrun the array (section 5).
That the decoder is the only method that does, whatever it is given, is
`OnlyTheDecoderOverfills`; `TypeOK`, with the bound of all arrays, is checked only.
`EncodableRecords`: the records a sketch adds have lengths that fit their fields.
Both are evaluated on the runs. That nothing is leaked or shared, and the sizes,
need no hypothesis.

*The argument.* A record is flags, a payload length of one or four bytes, an
optional identifier length, and three parts; `EncodingParts` says where each
begins, `HeaderDecoded` that the decoder finds the same beginnings. Both digits
of a long length are recovered by `TwoDigits`. The loops over the records are
recursive functions. `LoopExists` shows that a function defined by a loop exists
(without that, its recursive definition says nothing), `EndsLoop` and `DataLoop`
apply it, and `Induction` carries `DataLength` and `DataStays` over the records: what has
been written for a record stays in its place. Induction itself rests on
`LeastNatural`, from the library's theorem that strict inclusion of finite sets is
well-founded.

For the heap, each action is shown to be one of two steps, `Grows` or `Shrinks`
(adding records at fresh pointers to one message, or deleting those of one), and
ownership and the values of the other messages are shown for these two.
`DecodeInv` is the invariant of the decoding loop: for every message the buffer
can be read as, the part decoded is the beginning of that message, and the index
is the end of that part. `RoundTrip` is its last round. `MessagesFit` and
`BufferFits` add the bound of the array, for `StaysInside`.

### Type 4 tags

`Type4TagProofs`, for all sets of tags and files, all sizes of a byte and of a
piece and all numbers of lost calls that `Type4Assumption` admits: a file has the
two bytes of its length, a piece has at least three bytes and is shorter than
what a byte counts. Nothing is assumed of the container, or of the length. What
`PiecesInOrder` and `ReadsAllButTwo` say of the bytes is said of files that are
`Countable`: the length fits a byte, and the file has the bytes it counts.

| Theorem | Statement |
|---|---|
| `Type4TypeCorrect` | `Spec => []Type4TypeOK` |
| `ReadsAlwaysMeetTheirFile` | `Spec => []ReadsMeetTheirFile` |
| `PiecesAlwaysInOrder` | `Spec => []PiecesInOrder` |
| `ReturnsAllButTwo` | `Spec => []ReadsAllButTwo` |

*The argument.* `PiecesInOrder` needs to know that the loop has not passed the
end of the file (`ReadProgress`). `AnswerIs` shows that the tag has all bytes asked for, also
when the offset has wrapped; `CopiedInOrder` that the buffer grows by exactly
these bytes, less two for the length field in the first piece; `LastPiece` that
a file that a byte counts cannot be read in one piece, because the status word
has no room then, and so what is missing at the end is always two bytes.

### Adapter and sketch

`NfcAdapterProofs`, for all cards, contents, keys, messages, objects and
numbers of faults that `AdapterAssumption` and `NfcTagAssumption` admit:

| Theorem | Statement |
|---|---|
| `AdapterTypeCorrect` | `AdapterSpec => []AdapterTypeOK` |
| `HaltAlwaysHides` | `AdapterSpec => []HaltHides` |
| `MessagesAlwaysOwned` | `AdapterSpec => []MessagesOwned` |
| `TagsAlwaysTellTruth` | `AdapterSpec => TagsTellTruth` |
| `AdapterReadsInOrder` | the invariants of `Type4Tag` under the adapter |

*The argument.* `AdapterInv` has a part per concern. `RadioInv`: once the sketch
calls operations, a card that answers is in a session exactly when the reader
encrypts, so the halt command is always understood; this is what makes
`HaltHides` inductive, and it is why the order of `PICC_HaltA` and
`PCD_StopCrypto1` in `haltTag` matters. `ObjectsInv`: `MessagesOwned` with the types of
objects, and `RoomIsFresh` and `DeletedIsFresh` for the pointer of a new
message. `LoopInv` ties the running driver to the card. `SourceInv` adds, for
`TagsTellTruth`, that what a read is about to return was read from the card that
`shield->tag` still describes: the card may have gone, but no other can have been
selected before the next `tagPresent`.

### Only model-checked

The liveness properties `OperationReturns`, `RepairConverges`, `CleanConverges`,
`WriteConverges`, `DecodeEnds` and `CardIsFound`, which are out of the prover's
reach under fairness, are checked on the instances of section 3 only. So are
the disagreements of section 5, and the bound of the arrays in the `TypeOK` of
`MessageOps`. Every other invariant, every action property and both refinements
that a passing run checks are theorems, some under the hypotheses named above.

## 5. Where code and documentation disagree

With a run:

* **`ClassicCleanLies`**: `formatMifare` ignores failed writes
  (`MifareClassic.cpp:355-397`) and returns `true`; README.md:71 promises a
  zeroed tag.
* **`ClassicNulls`**: leading NULL TLVs are skipped (`MifareClassic.cpp:148`), but
  `getBufferSize` has no room for them: the end of the message may lie in a
  block that is not read.
* **`UltralightTail`**: the loop of `read` stops at `index >= messageLength`
  (`MifareUltralight.cpp:37`) while the message begins 2, 4 or 7 bytes later;
  the test at line 63 cannot be true. Messages of 15 and 16 bytes, and so on
  every 16 bytes, lose their tail.
* **`UltralightOverrun`**: `calculateBufferSize` rounds up in 16 bits
  (`MifareUltralight.cpp:165-174`), against "buffer is larger than the message"
  (`:160`): for a length field of 65516 to 65530 in a tag without lock TLV the
  buffer has two bytes, and the first read writes eighteen; from 65531 on the sum
  wraps before it is rounded.
* **`MessageAssign`**: `NdefMessage::operator=` resets its count before the loop
  that runs to this count (`NdefMessage.cpp:111`): assignment clears.
* **`Type4Tail`**: `readFile` counts the two bytes of the length field as read
  (`Type4Tag.cpp:183`): the last two bytes of every message are never asked for
  (comment at line 172).

Without a run, seen while modelling:

* `readFile` gives the reader the length of the file as room for an answer, in a
  byte (`Type4Tag.cpp:162`): provided the reader refuses an answer that is longer,
  files of less than 60 bytes and files of 256 to 315 bytes are not read at all.
* The offset of a read is a byte (`Type4Tag.cpp:159`): from byte 256 on the
  beginning of the file is read again. `ReadsAllButTwo` is about messages below
  that, and `PiecesInOrder` compares bytes below it.
* `Type4Tag::read` takes a buffer of the size the capability container names
  (`Type4Tag.cpp:35`) and fills it with as many bytes as the file says it has (`:36`);
  nobody compares the two. The model has such tags (`Cramped`); no property claims
  room for the pieces.
* The comment of `haltTag` says "Current tag will not be "visible" until removed from
  the RFID field" (`NfcAdapter.cpp:179`), of every tag. `HaltHides` says it of those the
  command has reached: a tag that has lost it, one that fell silent when it refused
  an authentication, and a Type 4 tag may be found again.
* `NfcTag.h:49-52` says that a tag that was refused is most probably HALTED. By the
  protocol it is idle, as in the model, and answers the next request.
* `Type4Tag::read` sets no status that the sketch could see: a tag without a
  message may be empty or unreadable.
* `MifareClassic::read` calls every tag that it can open "Mifare Classic" 1K,
  `NfcAdapter::format` says `true` for an Ultralight tag and does nothing
  (`NfcAdapter.cpp:78`).
* `NfcTag::operator=` leaves the type and the formatted flag of the target
  (`NfcTag.cpp:36`) and dereferences the message of the right side without a
  test (`:40`). `NfcTag` has no copy constructor: a copy shares its message, and
  both destructors delete it. The model copies as the examples do, by
  assignment from a tag that has a message.
* The enumeration of URI prefixes (`NdefRecord.h:40-64`) lacks one entry of the
  table (`NdefRecord.cpp:14-16`): the values behind it name the wrong prefix.
* `MifareUltralight::write` compares a size that is rounded to 16 and has 2
  bytes more (`MifareUltralight.cpp:174`, `:194`) with the capacity: on a tag
  of 48 bytes all messages above 29 bytes are refused. The last page of the
  loop is half outside the buffer, against the comment at line 235.
* A tag whose size cannot be read counts as cleaned (`MifareUltralight.cpp:260`),
  one whose message length cannot be read as empty (`:28`).
* `clean` computes its last page in a byte (`MifareUltralight.cpp:262`): with a
  capacity of 1008 bytes or more it stops early and reports success.
* The index of `MifareUltralight::read` has 16 bits (`MifareUltralight.cpp:35`, `:68`): with a
  length field above 65520 it wraps before it has passed the length, and the loop
  need not end. `OperationReturns` is checked for tags whose claim can be counted.
* A message of more than 254 bytes behind a lock control TLV is read with a
  length of 255 (`MifareUltralight.cpp:147`); `ReadAllButTail` leaves it out.
* The decoding constructor does not check `MAX_NDEF_RECORDS`
  (`NdefMessage.cpp:73`), `addRecord` does: data of more records overrun the array.
  The bound in `TypeOK` is checked for data of at most that many records;
  `OnlyTheDecoderOverfills` says that no other method has the problem.
* The decoder's index is an `int`, a payload length has 32 bits
  (`NdefMessage.cpp:70-71`), and `setPayload` takes it as an `int`
  (`NdefRecord.cpp:298`): a length of 2^31 or more is negative there and as an
  advance of the index. `DecodeEnds` is checked for data that are whole.
* `formatMifare` supposes 16 sectors (`MifareClassic.cpp:338`): on a Mini tag it
  fails after all its sectors are reset, on a 4K tag it leaves 24 sectors.
* `formatMifare` opens every sector with key B (`MifareClassic.cpp:343`), but the
  access bits it leaves (`:335`) are those with which key B can be read, and a tag
  refuses to work with such a key. So `clean` fails, and returns `false`, on a
  factory tag, on one it has cleaned before, and on one whose clean or format was
  interrupted: it writes to the first sector with those bits, is refused,
  ignores it (`:366`), and finds the tag silent at the next sector. Where that is
  the last sector, nothing follows and it returns `true`. Calling `format`
  and `clean` in turn repairs such a tag: this is `RepairConverges`.
* A message that fills the area to its last byte, with no room for the
  terminator, is refused by `write` and cannot be read: `ReadRecognises`
  excludes it.
* On a tag with 256 blocks and a length field that claims more than the area,
  `read` (whose counter is an `int`) asks for block 256, which reaches the
  reader as block 0: `AuthCovers` and `DataCommandsSpareTrailers` are stated
  for blocks below `BlockRange`.

## 6. Not modelled

* Access bits other than the three patterns the code writes: a sector that has
  others takes no write (`other`).
* The bytes behind the four-byte array of `readTagSize`
  (`MifareUltralight.cpp:99`): there is no stack layout to say what they are.
* Lack of memory: `malloc` and `new` succeed.
* Console output, `toJson`, hexadecimal dumps.
* More than one tag in the field.
* `NfcAdapter::begin` (it initialises the reader); a record's three byte arrays,
  which are copied with it (`NdefRecord.cpp`).
* Type 4 tags and reader as the code uses them, marked external: a container of
  15 bytes that names one file, a status word of two bytes behind the data, a
  reader that refuses what does not fit its room, and cards that go from
  idle to active to halted. That a Type 4 tag halts at `PICC_HaltA` is not
  supposed: `HaltHides` leaves them out.
* Copies of tag objects by the implicit copy constructor (section 5), and
  assignment of a tag to itself.

## 7. Plan

Done: `MifareGeometry`, `MifareClassic` with its abstract `NdefStore`,
`MifareUltralight`, `NdefRecord`, `NdefMessage`, `Type4Tag`, `NfcTag` and
`NfcAdapter`, with the proofs of their safety properties.

1. `NdefRecord` objects with their byte arrays, and the table of URI prefixes
   against its enumeration.
2. Proofs: that the liveness arguments' ranking functions decrease (the number
   of calls an operation has left); `ReadsRecognise` and `WritesFailWhenFull`
   without `OpenBeyond`, for the tags whose messages end before the closed sectors.

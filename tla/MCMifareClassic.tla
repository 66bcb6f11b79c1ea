--------------------------- MODULE MCMifareClassic ---------------------------
(***************************************************************************)
(* Instances of the Mifare Classic driver for TLC.  The tags are scaled    *)
(* down: 4-block sectors up to block 16, 16-block sectors after it, block  *)
(* numbers below 64.                                                       *)
(***************************************************************************)
EXTENDS MifareClassicProperties, FiniteSets

\* A message of n bytes that tells its place and its length.
Payload(n) == [i \in 1 .. n |-> (7 * i + n) % 256]

\* One block, one byte more than a block, and five blocks of two sectors.
MCMessages == {Payload(n) : n \in {13, 14, 62}}
MCOneMessage == {Payload(62)}
\* Both sides of the long TLV; and of 54 blocks, the longest message they
\* hold and the first that is too long.
MCLongMessages == {Payload(n) : n \in {0, 254, 255, 859, 860}}

MCBeyond == {<<0, 0, 0>>, <<3, 1, 255>>}

Zero == [i \in 1 .. 16 |-> 0]
Identity == [i \in 1 .. 16 |-> 77]
Used == [i \in 1 .. 16 |-> 5]

\* A tag whose area holds the given bytes from its start, and `rest` after.
Holding(bytes, rest) ==
  [b \in DataBlocks |->
     IF b = 0 THEN Identity
     ELSE IF b < 4 THEN rest
     ELSE [i \in 1 .. 16 |->
             LET n == 16 * Cardinality({c \in DataBlocks : 4 <= c /\ c < b}) + i
             IN  IF n <= Len(bytes) THEN bytes[n] ELSE rest[i]]]

\* The trailer of every sector when the tag leaves the factory.
FactorySector == [a |-> "factory", b |-> "factory", bits |-> "transport"]

Factory == [mem |-> Holding(<< >>, Zero),
            trailer |-> [s \in Sectors |-> FactorySector]]
NdefTag(bytes) == [mem |-> Holding(bytes, Zero),
                   trailer |-> [s \in Sectors |-> FormattedTrailer(s)]]

Empty == NdefTag(<<3, 3, 208, 0, 0, 254>>)
Blank == NdefTag(<<3, 0, 254>>)
NoTlvTag == NdefTag(<<1, 3, 0, 0, 0, 3, 0, 254>>)

\* One NULL TLV in front of a message that leaves room for it.
OneNull == NdefTag(<<0, 3, 5>> \o Payload(5) \o <<254>>)
\* Three NULL TLVs in front of a message that fills its block.
ThreeNulls == NdefTag(<<0, 0, 0, 3, 13>> \o Payload(13) \o <<254>>)
\* The type byte is the last byte of the block: its length is beyond it.
LateTlv == NdefTag([i \in 1 .. 15 |-> 0] \o <<3, 2, 9, 9, 254>>)
\* A message that claims more bytes than the tag has.
Claims == NdefTag(<<3, 255, 255, 255>> \o Payload(30))

\* A format that was interrupted after n sectors, on a tag in use before.
HalfFormatted(n) ==
  [mem |-> Holding(<<3, 3, 208, 0, 0, 254>>, Used),
   trailer |-> [s \in Sectors |->
                  IF s < n THEN FormattedTrailer(s) ELSE FactorySector]]

\* A clean that was interrupted after n sectors.
HalfClean(n) ==
  [mem |-> Holding(<< >>, Used),
   trailer |-> [s \in Sectors |->
                  IF s < n THEN FactorySector ELSE FormattedTrailer(s)]]

\* The last sector opens with keys the library does not know.
Foreign == [Factory EXCEPT !.trailer[3] =
              [a |-> "other", b |-> "other", bits |-> "other"]]

\* Each leaves two kinds of sectors; the last sector to do is the hard one.
MCInterrupted == {HalfFormatted(n) : n \in {1, 3}} \cup {HalfClean(n) : n \in {1, 3}}
MCTags == {Factory, Empty, Blank, NoTlvTag, OneNull, Claims, Foreign}
            \cup MCInterrupted
MCEdgeTags == {Factory, Empty, Claims, OneNull}
MCNullTags == {ThreeNulls, LateTlv}

\* What the proofs assume of the tags and the keys: it holds for all tags but
\* those of MCNullTags, whose messages read() is known to misread.
ReadableMCTags == MCTags \cup MCEdgeTags
ASSUME MCReadableTags == \A t \in ReadableMCTags : HeaderReadable(t.mem[4])
ASSUME MCDirectoryApart == DirectoryApart
=============================================================================

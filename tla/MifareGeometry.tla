--------------------------- MODULE MifareGeometry ---------------------------
(***************************************************************************)
(* The block layout of a Mifare Classic tag, as the conditions repeated in *)
(* MifareClassic::read and MifareClassic::write compute it: sectors of 4   *)
(* blocks below LongStart, sectors of 16 blocks from LongStart on, the     *)
(* last block of every sector being its trailer.                           *)
(*                                                                         *)
(* LongStart is 128 and BlockRange 256 in the code.  They are parameters   *)
(* so that a model with a few sectors has both kinds and reaches the end   *)
(* of the range of a block number.                                         *)
(***************************************************************************)
EXTENDS Integers

CONSTANTS
  LongStart,   \* the first block of the 16-block sectors (128)
  BlockRange   \* the values of a block number held in a byte (256)

ASSUME LongStartAssumption ==
  /\ LongStart \in Nat
  /\ LongStart >= 16
  /\ LongStart % 16 = 0

ASSUME BlockRangeAssumption ==
  /\ BlockRange \in Nat
  /\ BlockRange > LongStart
  /\ BlockRange % 16 = 0

\* Mutation of IsSectorStart: every sector has 16 blocks.
IsSectorStartLong(b) == b % 16 = 0

\* The block opens a sector: the driver authenticates before using it.
IsSectorStart(b) == IF b < LongStart THEN b % 4 = 0 ELSE b % 16 = 0

\* The block closes a sector: it holds keys, the driver must skip it.
IsTrailer(b) == IF b < LongStart THEN (b + 1) % 4 = 0 ELSE (b + 1) % 16 = 0

\* The sector of a block, as the tag itself divides its memory.
SectorOf(b) ==
  IF b < LongStart THEN b \div 4
                   ELSE LongStart \div 4 + (b - LongStart) \div 16

\* BLOCK_NUMBER_OF_SECTOR_TRAILER
TrailerOf(s) ==
  IF s < LongStart \div 4 THEN s * 4 + 3
                          ELSE LongStart + (s - LongStart \div 4) * 16 + 15

\* Mutation of SkipTrailer: trailers are not skipped.
SkipNothing(n) == n

\* A block number that has just been advanced is moved past a trailer.
SkipTrailer(n) == IF IsTrailer(n) THEN n + 1 ELSE n

(***************************************************************************)
(* Reference definition, not in the code: the block holding the k-th 16    *)
(* bytes of the NDEF area, which begins at block 4 and leaves the trailers *)
(* out.                                                                    *)
(***************************************************************************)
ShortDataBlocks == 3 * ((LongStart \div 4) - 1)

AreaBlock(k) ==
  IF k < ShortDataBlocks
    THEN 4 + 4 * (k \div 3) + (k % 3)
    ELSE LongStart + 16 * ((k - ShortDataBlocks) \div 15)
                   + ((k - ShortDataBlocks) % 15)
=============================================================================

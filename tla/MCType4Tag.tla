------------------------------ MODULE MCType4Tag ------------------------------
(***************************************************************************)
(* Type 4 tags for TLC.  Sizes and offsets are below 16 instead of 256,    *)
(* and five bytes are asked for at a time instead of 58, which do not      *)
(* divide 16 either.                                                       *)
(***************************************************************************)
EXTENDS Type4TagProperties

\* A message of n bytes that tells its place and its length.
Payload(n) == [i \in 1 .. n |-> (7 * i + n) % ByteRange]

\* A tag with a message of n bytes in a file that may hold `spare` more.
Holding(n, spare) ==
  [ndef |-> TRUE, fci |-> 0, id |-> 4, max |-> n + 2 + spare,
   file |-> <<n \div ByteRange, n % ByteRange>> \o Payload(n)
              \o [i \in 1 .. spare |-> 0]]

\* Empty; too short for the room of an answer; just long enough; a last
\* piece of full length, of one byte; the longest a byte counts; no room; an
\* offset that wraps.
Lengths == {0, 6, 7, 10, 11, 15, 17, 25}

\* More tags: one without the application; one that sends file information
\* when it is selected; one whose container names less room than the file
\* needs; one that counts bytes it does not have.
Plain == 100
Talks == 101
Cramped == 102
Lacks == 103

MCFiles ==
  [c \in Lengths \cup {Plain, Talks, Cramped, Lacks} |->
     CASE c = Plain -> [Holding(0, 0) EXCEPT !.ndef = FALSE]
       [] c = Talks -> [Holding(9, 0) EXCEPT !.fci = 4]
       [] c = Cramped -> [Holding(11, 0) EXCEPT !.max = 5]
       [] c = Lacks -> [Holding(12, 0) EXCEPT !.file = SubSeq(@, 1, 6)]
       [] OTHER -> Holding(c, 3)]
MCWholeFiles == [c \in DOMAIN MCFiles \ {Lacks} |-> MCFiles[c]]
=============================================================================

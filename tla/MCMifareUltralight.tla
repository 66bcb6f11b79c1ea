------------------------- MODULE MCMifareUltralight -------------------------
(***************************************************************************)
(* Instances of the Mifare Ultralight driver for TLC.                      *)
(***************************************************************************)
EXTENDS MifareUltralightProperties

Payload(n) == [i \in 1 .. n |-> (7 * i + n) % 256]

\* On a tag of 48 bytes: around the end of the first read, the longest
\* message write() accepts, the first one it refuses, and one that is too
\* long although its bytes alone are not.
MCMessages == {Payload(n) : n \in {0, 14, 29, 30, 46}}
\* Both sides of the long TLV; too long for a user area of 296 bytes although
\* its bytes alone are not; more than 80 pages can be numbered for.
MCLongMessages == {Payload(n) : n \in {254, 255, 284, 299}}

MCBeyond == {<<0, 0>>, <<3, 255>>}

\* A tag with the given size in its capability container, the given bytes
\* at the start of the user area, and `rest` in all other pages.
Tag(cc, bytes, rest) ==
  [p \in Pages |->
     CASE p < 3 -> <<4, 5, 6, 7>>
       [] p = 3 -> <<225, 16, cc, 0>>
       [] OTHER -> [j \in 1 .. 4 |-> LET n == 4 * (p - 4) + j
                                     IN  IF n <= Len(bytes) THEN bytes[n]
                                         ELSE rest]]

LockControl == <<1, 3, 160, 12, 52>>
Short(m) == <<3, Len(m)>> \o m \o <<254>>

EmptyTag(cc) == Tag(cc, <<3, 0, 254>>, 0)
\* As tags of the NTAG family leave the factory.
Ntag(cc) == Tag(cc, LockControl \o <<3, 0, 254>>, 7)
NtagWith(cc, m) == Tag(cc, LockControl \o Short(m), 7)
Unformatted(cc) == Tag(cc, <<255, 255, 255, 255>>, 0)
\* The length claims more than the tag has.
Claims(cc, len) ==
  Tag(cc, <<3, 255, len \div 256, len % 256>> \o Payload(20), 0)

MCTags == {EmptyTag(6), Ntag(6), NtagWith(6, Payload(16)), Unformatted(6),
           Claims(6, 513)}
MCUsedTags == {NtagWith(6, Payload(16)), EmptyTag(6)}
\* The first two leave two pages for the configuration of the tag; the last
\* has a user area that reaches past the last page number.
MCLongTags == {Ntag(37), Claims(37, 4075), EmptyTag(40)}
\* With SizeRange = 4096: the longest claim that gets its buffer, and the
\* first that does not.
MCClaimTags == {Claims(37, 4075), Claims(37, 4076)}
=============================================================================

--------------------------- MODULE NdefRecordProofs ---------------------------
(***************************************************************************)
(* That the encoding of one record has the size the code computes for it,  *)
(* and that the decoder reads back what the encoder wrote: for every       *)
(* record whose lengths fit their fields, wherever it stands in the data.  *)
(***************************************************************************)
EXTENDS NdefRecord, SequenceTheorems, TLAPS

LEMMA RecordFields ==
  \A r \in Records : /\ r.tnf \in 0 .. 7 /\ r.type \in Seq(Byte)
                     /\ r.id \in Seq(Byte) /\ r.payload \in Seq(Byte)
BY DEF Records
-----------------------------------------------------------------------------
(* Sequences behind each other. *)

LEMMA TwoParts ==
  ASSUME NEW S, NEW a \in Seq(S), NEW b \in Seq(S)
  PROVE  /\ a \o b \in Seq(S)
         /\ Len(a \o b) = Len(a) + Len(b)
         /\ \A j \in 1 .. Len(a) : (a \o b)[j] = a[j]
         /\ \A j \in 1 .. Len(b) : (a \o b)[Len(a) + j] = b[j]
<1> DEFINE ab == a \o b
<1>1. /\ ab \in Seq(S) /\ Len(ab) = Len(a) + Len(b)
      /\ \A j \in 1 .. Len(a) + Len(b) :
           ab[j] = IF j <= Len(a) THEN a[j] ELSE b[j - Len(a)]
  BY ConcatProperties
<1>2. Len(a) \in Nat /\ Len(b) \in Nat
  BY LenProperties
<1> HIDE DEF ab
<1>3. \A j \in 1 .. Len(a) : ab[j] = a[j]
  BY <1>1, <1>2
<1>4. ASSUME NEW j \in 1 .. Len(b) PROVE ab[Len(a) + j] = b[j]
  <2>1. /\ Len(a) + j \in 1 .. Len(a) + Len(b)
        /\ ~(Len(a) + j <= Len(a))
        /\ Len(a) + j - Len(a) = j
    BY <1>2
  <2> QED  BY <1>1, <2>1
<1> QED  BY <1>1, <1>3, <1>4 DEF ab

LEMMA ThreeParts ==
  ASSUME NEW S, NEW a \in Seq(S), NEW b \in Seq(S), NEW c \in Seq(S)
  PROVE  LET all == a \o b \o c
         IN  /\ all \in Seq(S)
             /\ Len(all) = Len(a) + Len(b) + Len(c)
             /\ \A j \in 1 .. Len(a) : all[j] = a[j]
             /\ \A j \in 1 .. Len(b) : all[Len(a) + j] = b[j]
             /\ \A j \in 1 .. Len(c) : all[Len(a) + Len(b) + j] = c[j]
<1> DEFINE ab == a \o b
           all == ab \o c
<1>0. Len(a) \in Nat /\ Len(b) \in Nat /\ Len(c) \in Nat
  BY LenProperties
<1>1. /\ ab \in Seq(S) /\ Len(ab) = Len(a) + Len(b)
      /\ \A j \in 1 .. Len(a) : ab[j] = a[j]
      /\ \A j \in 1 .. Len(b) : ab[Len(a) + j] = b[j]
  BY TwoParts
<1>2. /\ all \in Seq(S) /\ Len(all) = Len(ab) + Len(c)
      /\ \A j \in 1 .. Len(ab) : all[j] = ab[j]
      /\ \A j \in 1 .. Len(c) : all[Len(ab) + j] = c[j]
  <2>1. ab \in Seq(S)
    BY <1>1
  <2> HIDE DEF ab
  <2> QED  BY ONLY <2>1, c \in Seq(S), TwoParts
<1> HIDE DEF ab, all
<1>3. ASSUME NEW j \in 1 .. Len(a) PROVE all[j] = a[j]
  <2>1. j \in 1 .. Len(ab)
    BY <1>0, <1>1
  <2> QED  BY <1>1, <1>2, <2>1
<1>4. ASSUME NEW j \in 1 .. Len(b) PROVE all[Len(a) + j] = b[j]
  <2>1. Len(a) + j \in 1 .. Len(ab)
    BY <1>0, <1>1
  <2> QED  BY <1>1, <1>2, <2>1
<1> QED  BY <1>1, <1>2, <1>3, <1>4 DEF all, ab

\* `all` is a, b, c and d behind each other.
InOrder(S, all, a, b, c, d) ==
  /\ all \in Seq(S)
  /\ Len(all) = Len(a) + Len(b) + Len(c) + Len(d)
  /\ \A j \in 1 .. Len(a) : all[j] = a[j]
  /\ \A j \in 1 .. Len(b) : all[Len(a) + j] = b[j]
  /\ \A j \in 1 .. Len(c) : all[Len(a) + Len(b) + j] = c[j]
  /\ \A j \in 1 .. Len(d) : all[Len(a) + Len(b) + Len(c) + j] = d[j]

LEMMA FourParts ==
  \A S : \A a, b, c, d \in Seq(S) :
    InOrder(S, a \o b \o c \o d, a, b, c, d)
<1> TAKE S
<1> TAKE a, b, c, d \in Seq(S)
<1> DEFINE abc == a \o b \o c
           all == abc \o d
<1>0. Len(a) \in Nat /\ Len(b) \in Nat /\ Len(c) \in Nat /\ Len(d) \in Nat
  BY LenProperties
<1>1. /\ abc \in Seq(S) /\ Len(abc) = Len(a) + Len(b) + Len(c)
      /\ \A j \in 1 .. Len(a) : abc[j] = a[j]
      /\ \A j \in 1 .. Len(b) : abc[Len(a) + j] = b[j]
      /\ \A j \in 1 .. Len(c) : abc[Len(a) + Len(b) + j] = c[j]
  BY ThreeParts
<1>2. /\ all \in Seq(S) /\ Len(all) = Len(abc) + Len(d)
      /\ \A j \in 1 .. Len(abc) : all[j] = abc[j]
      /\ \A j \in 1 .. Len(d) : all[Len(abc) + j] = d[j]
  <2>1. abc \in Seq(S)
    BY <1>1
  <2> HIDE DEF abc
  <2> QED  BY ONLY <2>1, d \in Seq(S), TwoParts
<1> HIDE DEF abc, all
<1>3. Len(all) = Len(a) + Len(b) + Len(c) + Len(d)
  BY <1>0, <1>1, <1>2
<1>4. ASSUME NEW j \in 1 .. Len(a) PROVE all[j] = a[j]
  <2>1. j \in 1 .. Len(abc)
    BY <1>0, <1>1
  <2> QED  BY <1>1, <1>2, <2>1
<1>5. ASSUME NEW j \in 1 .. Len(b) PROVE all[Len(a) + j] = b[j]
  <2>1. Len(a) + j \in 1 .. Len(abc)
    BY <1>0, <1>1
  <2> QED  BY <1>1, <1>2, <2>1
<1>6. ASSUME NEW j \in 1 .. Len(c) PROVE all[Len(a) + Len(b) + j] = c[j]
  <2>1. Len(a) + Len(b) + j \in 1 .. Len(abc)
    BY <1>0, <1>1
  <2> QED  BY <1>1, <1>2, <2>1
<1>7. ASSUME NEW j \in 1 .. Len(d)
      PROVE  all[Len(a) + Len(b) + Len(c) + j] = d[j]
  BY <1>1, <1>2
<1> QED  BY <1>2, <1>3, <1>4, <1>5, <1>6, <1>7 DEF all, abc, InOrder

LEMMA OneElement ==
  ASSUME NEW S, NEW x \in S
  PROVE  <<x>> \in Seq(S) /\ Len(<<x>>) = 1 /\ <<x>>[1] = x
OBVIOUS

LEMMA TwoElements ==
  ASSUME NEW S, NEW x \in S, NEW y \in S
  PROVE  <<x, y>> \in Seq(S) /\ Len(<<x, y>>) = 2
         /\ <<x, y>>[1] = x /\ <<x, y>>[2] = y
OBVIOUS

LEMMA FourElements ==
  ASSUME NEW S, NEW x \in S, NEW y \in S, NEW z \in S, NEW u \in S
  PROVE  /\ <<x, y, z, u>> \in Seq(S) /\ Len(<<x, y, z, u>>) = 4
         /\ <<x, y, z, u>>[1] = x /\ <<x, y, z, u>>[2] = y
         /\ <<x, y, z, u>>[3] = z /\ <<x, y, z, u>>[4] = u
OBVIOUS
-----------------------------------------------------------------------------
(* Numbers of two digits of base LengthBase. *)

LEMMA Base ==
  LengthBase \in Nat /\ LengthBase >= 2 /\ LengthBase <= 256
BY LengthBaseAssumption

LEMMA Digit ==
  ASSUME NEW n \in Nat
  PROVE  /\ n % LengthBase \in 0 .. (LengthBase - 1)
         /\ n % LengthBase \in Byte
<1>1. n % LengthBase \in 0 .. (LengthBase - 1)
  BY Base
<1> QED  BY <1>1, Base DEF Byte

LEMMA SmallDigit ==
  ASSUME NEW n \in Nat, n < LengthBase
  PROVE  n % LengthBase = n /\ n \in Byte
<1>1. n % LengthBase = n
  BY Base
<1> QED  BY <1>1, Digit

LEMMA TwoDigits ==
  ASSUME NEW n \in Nat, n < LengthBase * LengthBase
  PROVE  /\ n \div LengthBase \in Nat
         /\ (n \div LengthBase) % LengthBase = n \div LengthBase
         /\ (n \div LengthBase) * LengthBase + (n % LengthBase) = n
<1> DEFINE B == LengthBase
           q == n \div B
<1>1. B \in Nat /\ B >= 2
  BY Base
<1>2. q \in Nat /\ q * B + (n % B) = n /\ n % B \in Nat
  <2> HIDE DEF B
  <2> QED  BY <1>1
<1>3. q < B
  <2> SUFFICES ASSUME q >= B PROVE FALSE
    BY <1>1, <1>2
  <2>1. \A x \in Nat : x >= B => x * B >= B * B
    <3> HIDE DEF B
    <3> QED  BY <1>1
  <2>2. q * B >= B * B
    BY <1>2, <2>1
  <2> HIDE DEF q, B
  <2>3. q * B \in Nat /\ B * B \in Nat
    BY <1>1, <1>2
  <2>4. n < B * B
    BY DEF B
  <2> QED  BY <1>2, <2>2, <2>3, <2>4
<1>4. q % B = q
  <2> HIDE DEF q, B
  <2> QED  BY <1>1, <1>2, <1>3
<1> QED  BY <1>2, <1>4 DEF q, B
-----------------------------------------------------------------------------
(* The fields of an encoding. *)

\* The three tests of the encoder ask the same.
IsShort(r) == Len(r.payload) < LengthBase

LEMMA ThreeTests ==
  ASSUME NEW r \in Records
  PROVE  /\ (Len(r.payload) <= LengthBase - 1) = IsShort(r)
         /\ (Len(r.payload) > LengthBase - 1) = ~IsShort(r)
<1> DEFINE n == Len(r.payload)
<1>1. n \in Nat
  BY RecordFields, LenProperties
<1> HIDE DEF n
<1>2. (n <= LengthBase - 1) = (n < LengthBase) /\ (n > LengthBase - 1) = ~(n < LengthBase)
  BY <1>1, Base
<1> QED  BY <1>2 DEF IsShort, n

LEMMA FlagsByLength ==
  ASSUME NEW r \in Records, NEW first, NEW last
  PROVE  TnfByte(r, first, last) =
           r.tnf + (IF first THEN 128 ELSE 0) + (IF last THEN 64 ELSE 0)
                 + (IF IsShort(r) THEN 16 ELSE 0) + (IF HasId(r) THEN 8 ELSE 0)
<1>1. (IF Len(r.payload) <= LengthBase - 1 THEN 16 ELSE 0) =
        IF IsShort(r) THEN 16 ELSE 0
  BY ThreeTests, Zenon
<1> QED  BY <1>1 DEF TnfByte

LEMMA SizeByLength ==
  ASSUME NEW r \in Records
  PROVE  RecordSize(r) =
           2 + (IF IsShort(r) THEN 1 ELSE 4) + (IF HasId(r) THEN 1 ELSE 0)
             + Len(r.type) + Len(r.payload) + Len(r.id)
<1>1. (IF Len(r.payload) > LengthBase - 1 THEN 4 ELSE 1) =
        IF IsShort(r) THEN 1 ELSE 4
  BY ThreeTests, Zenon
<1> QED  BY <1>1, Zenon DEF RecordSize

LEMMA FieldByLength ==
  ASSUME NEW r \in Records
  PROVE  PayloadLengthField(r) =
           IF IsShort(r) THEN <<Len(r.payload)>>
           ELSE <<0, 0, (Len(r.payload) \div LengthBase) % LengthBase,
                  Len(r.payload) % LengthBase>>
BY ThreeTests, Zenon DEF PayloadLengthField

IdLengthField(r) == IF HasId(r) THEN <<Len(r.id) % LengthBase>> ELSE << >>
Header(r, first, last) ==
  <<TnfByte(r, first, last), Len(r.type) % LengthBase>>
    \o PayloadLengthField(r) \o IdLengthField(r)
HeaderSize(r) == 2 + (IF IsShort(r) THEN 1 ELSE 4) + (IF HasId(r) THEN 1 ELSE 0)

\* The flags of the first byte do not disturb each other.
LEMMA Flags ==
  ASSUME NEW r \in Records, NEW first \in BOOLEAN, NEW last \in BOOLEAN
  PROVE  LET b == TnfByte(r, first, last)
         IN  /\ b \in Byte
             /\ b % 8 = r.tnf
             /\ Bit(b, 8) = HasId(r)
             /\ Bit(b, 16) = IsShort(r)
             /\ Bit(b, 64) = last
<1> DEFINE f == IF first THEN 1 ELSE 0
           l == IF last THEN 1 ELSE 0
           s == IF IsShort(r) THEN 1 ELSE 0
           i == IF HasId(r) THEN 1 ELSE 0
           t == r.tnf
           b == TnfByte(r, first, last)
<1>1. t \in 0 .. 7 /\ f \in 0 .. 1 /\ l \in 0 .. 1 /\ s \in 0 .. 1 /\ i \in 0 .. 1
  BY RecordFields
<1>6. b = t + (IF first THEN 128 ELSE 0) + (IF last THEN 64 ELSE 0)
            + (IF IsShort(r) THEN 16 ELSE 0) + (IF HasId(r) THEN 8 ELSE 0)
  BY FlagsByLength DEF b
<1>2. b = t + 128 * f + 64 * l + 16 * s + 8 * i
  <2> HIDE DEF b
  <2> QED  BY <1>1, <1>6
<1>3. \A x \in 0 .. 7, u, v, w, y \in 0 .. 1 :
        LET n == x + 128 * u + 64 * v + 16 * w + 8 * y
        IN  /\ n \in 0 .. 255
            /\ n % 8 = x
            /\ (n \div 8) % 2 = y
            /\ (n \div 16) % 2 = w
            /\ (n \div 64) % 2 = v
  OBVIOUS
<1>4. /\ b \in Byte /\ b % 8 = t
      /\ (b \div 8) % 2 = i /\ (b \div 16) % 2 = s /\ (b \div 64) % 2 = l
  <2> HIDE DEF t, f, l, s, i, b
  <2> QED  BY <1>1, <1>2, <1>3 DEF Byte
<1>5. (i = 1) = HasId(r) /\ (s = 1) = IsShort(r) /\ (l = 1) = last
  BY DEF HasId, IsShort
<1> QED  BY <1>4, <1>5 DEF Bit

LEMMA PayloadLengthFieldParts ==
  ASSUME NEW r \in Records
  PROVE  LET field == PayloadLengthField(r)
             n == Len(r.payload)
         IN  /\ field \in Seq(Byte)
             /\ IsShort(r) => Len(field) = 1 /\ field[1] = n
             /\ ~IsShort(r) =>
                  /\ Len(field) = 4 /\ field[1] = 0 /\ field[2] = 0
                  /\ field[3] = (n \div LengthBase) % LengthBase
                  /\ field[4] = n % LengthBase
<1> DEFINE n == Len(r.payload)
           B == LengthBase
<1>1. n \in Nat
  BY RecordFields, LenProperties
<1>2. CASE IsShort(r)
  <2>1. n \in Byte
    BY <1>1, <1>2, SmallDigit DEF IsShort
  <2>2. PayloadLengthField(r) = <<n>>
    BY <1>2, FieldByLength
  <2> QED  BY <1>2, <2>1, <2>2, OneElement
<1>3. CASE ~IsShort(r)
  <2>1. n \div B \in Nat
    <3> HIDE DEF n
    <3> QED  BY <1>1, Base
  <2>2. (n \div B) % B \in Byte /\ n % B \in Byte
    <3> HIDE DEF n
    <3> QED  BY <1>1, <2>1, Digit
  <2>5. 0 \in Byte
    BY DEF Byte
  <2>3. PayloadLengthField(r) = <<0, 0, (n \div B) % B, n % B>>
    BY <1>3, FieldByLength
  <2> HIDE DEF n, B
  <2>4. LET f == <<0, 0, (n \div B) % B, n % B>>
        IN  /\ f \in Seq(Byte) /\ Len(f) = 4 /\ f[1] = 0 /\ f[2] = 0
            /\ f[3] = (n \div B) % B /\ f[4] = n % B
    BY <2>2, <2>5, FourElements
  <2> QED  BY <1>3, <2>3, <2>4 DEF n, B
<1> QED  BY <1>2, <1>3

LEMMA IdLengthFieldParts ==
  ASSUME NEW r \in Records
  PROVE  LET field == IdLengthField(r)
         IN  /\ field \in Seq(Byte)
             /\ HasId(r) => /\ Len(field) = 1
                            /\ field[1] = Len(r.id) % LengthBase
             /\ ~HasId(r) => Len(field) = 0 /\ Len(r.id) = 0
<1>1. Len(r.id) \in Nat
  BY RecordFields, LenProperties
<1>2. CASE HasId(r)
  <2>1. Len(r.id) % LengthBase \in Byte
    BY <1>1, Digit
  <2>2. IdLengthField(r) = <<Len(r.id) % LengthBase>>
    BY <1>2 DEF IdLengthField
  <2> QED  BY <1>2, <2>1, <2>2, OneElement
<1>3. CASE ~HasId(r)
  BY <1>3, EmptySeq DEF IdLengthField, HasId
<1> QED  BY <1>2, <1>3

\* The header of an encoding: flags, and the three lengths.
LEMMA HeaderParts ==
  ASSUME NEW r \in Records, NEW first \in BOOLEAN, NEW last \in BOOLEAN
  PROVE  LET h == Header(r, first, last)
             n == Len(r.payload)
             fields == IF IsShort(r) THEN 4 ELSE 7
         IN  /\ h \in Seq(Byte)
             /\ Len(h) = HeaderSize(r)
             /\ h[1] = TnfByte(r, first, last)
             /\ h[2] = Len(r.type) % LengthBase
             /\ IsShort(r) => h[3] = n
             /\ ~IsShort(r) => /\ h[3] = 0 /\ h[4] = 0
                               /\ h[5] = (n \div LengthBase) % LengthBase
                               /\ h[6] = n % LengthBase
             /\ HasId(r) => h[fields] = Len(r.id) % LengthBase
<1> DEFINE n == Len(r.payload)
           a == <<TnfByte(r, first, last), Len(r.type) % LengthBase>>
           p == PayloadLengthField(r)
           i == IdLengthField(r)
           h == a \o p \o i
<1>1. /\ a \in Seq(Byte) /\ Len(a) = 2 /\ a[1] = TnfByte(r, first, last)
      /\ a[2] = Len(r.type) % LengthBase
  <2>1. Len(r.type) % LengthBase \in Byte
    BY RecordFields, LenProperties, Digit
  <2>2. TnfByte(r, first, last) \in Byte
    BY Flags
  <2> QED  BY <2>1, <2>2, TwoElements
<1>2. /\ p \in Seq(Byte)
      /\ IsShort(r) => Len(p) = 1 /\ p[1] = n
      /\ ~IsShort(r) => /\ Len(p) = 4 /\ p[1] = 0 /\ p[2] = 0
                        /\ p[3] = (n \div LengthBase) % LengthBase
                        /\ p[4] = n % LengthBase
  BY PayloadLengthFieldParts
<1>3. /\ i \in Seq(Byte)
      /\ HasId(r) => Len(i) = 1 /\ i[1] = Len(r.id) % LengthBase
      /\ ~HasId(r) => Len(i) = 0
  BY IdLengthFieldParts
<1> HIDE DEF a, p, i, n
<1>4. /\ h \in Seq(Byte)
      /\ Len(h) = Len(a) + Len(p) + Len(i)
      /\ \A j \in 1 .. Len(a) : h[j] = a[j]
      /\ \A j \in 1 .. Len(p) : h[Len(a) + j] = p[j]
      /\ \A j \in 1 .. Len(i) : h[Len(a) + Len(p) + j] = i[j]
  <2>1. a \in Seq(Byte) /\ p \in Seq(Byte) /\ i \in Seq(Byte)
    BY <1>1, <1>2, <1>3
  <2> QED  BY ONLY <2>1, ThreeParts
<1>5. h = Header(r, first, last)
  BY DEF h, a, p, i, Header
<1> HIDE DEF h
<1>10. /\ Len(a) = 2 /\ Len(p) = (IF IsShort(r) THEN 1 ELSE 4)
       /\ Len(i) = (IF HasId(r) THEN 1 ELSE 0)
  BY <1>1, <1>2, <1>3
<1>6. h[1] = a[1] /\ h[2] = a[2] /\ h[3] = p[1]
  <2>1. 1 \in 1 .. Len(a) /\ 2 \in 1 .. Len(a) /\ 1 \in 1 .. Len(p)
        /\ Len(a) + 1 = 3
    BY <1>10
  <2> QED  BY <1>4, <2>1
<1>7. ~IsShort(r) => h[4] = p[2] /\ h[5] = p[3] /\ h[6] = p[4]
  <2> SUFFICES ASSUME ~IsShort(r) PROVE h[4] = p[2] /\ h[5] = p[3] /\ h[6] = p[4]
    OBVIOUS
  <2>1. 2 \in 1 .. Len(p) /\ 3 \in 1 .. Len(p) /\ 4 \in 1 .. Len(p)
        /\ Len(a) + 2 = 4 /\ Len(a) + 3 = 5 /\ Len(a) + 4 = 6
    BY <1>10
  <2> QED  BY <1>4, <2>1
<1>8. HasId(r) => h[IF IsShort(r) THEN 4 ELSE 7] = i[1]
  <2> SUFFICES ASSUME HasId(r) PROVE h[IF IsShort(r) THEN 4 ELSE 7] = i[1]
    OBVIOUS
  <2>1. 1 \in 1 .. Len(i) /\ Len(a) + Len(p) + 1 = IF IsShort(r) THEN 4 ELSE 7
    BY <1>10
  <2> QED  BY <1>4, <2>1
<1>9. Len(h) = HeaderSize(r)
  BY <1>4, <1>10 DEF HeaderSize
<1> QED  BY <1>1, <1>2, <1>3, <1>4, <1>5, <1>6, <1>7, <1>8, <1>9 DEF n

\* Header, type, identifier and payload, in this order.
LEMMA EncodingParts ==
  ASSUME NEW r \in Records, NEW first \in BOOLEAN, NEW last \in BOOLEAN
  PROVE  LET e == EncodeRecord(r, first, last)
             h == HeaderSize(r)
         IN  /\ e \in Seq(Byte)
             /\ Len(e) = RecordSize(r)
             /\ \A j \in 1 .. h : e[j] = Header(r, first, last)[j]
             /\ \A j \in 1 .. Len(r.type) : e[h + j] = r.type[j]
             /\ \A j \in 1 .. Len(r.id) : e[h + Len(r.type) + j] = r.id[j]
             /\ \A j \in 1 .. Len(r.payload) :
                  e[h + Len(r.type) + Len(r.id) + j] = r.payload[j]
<1> DEFINE h == Header(r, first, last)
           e == h \o r.type \o r.id \o r.payload
<1>1. EncodeRecord(r, first, last) = e
  BY DEF EncodeRecord, Header, IdLengthField
<1>2. h \in Seq(Byte) /\ Len(h) = HeaderSize(r)
  BY HeaderParts
<1>3. r.type \in Seq(Byte) /\ r.id \in Seq(Byte) /\ r.payload \in Seq(Byte)
  BY RecordFields
<1> HIDE DEF h
<1>4. /\ e \in Seq(Byte)
      /\ Len(e) = Len(h) + Len(r.type) + Len(r.id) + Len(r.payload)
      /\ \A j \in 1 .. Len(h) : e[j] = h[j]
      /\ \A j \in 1 .. Len(r.type) : e[Len(h) + j] = r.type[j]
      /\ \A j \in 1 .. Len(r.id) : e[Len(h) + Len(r.type) + j] = r.id[j]
      /\ \A j \in 1 .. Len(r.payload) :
           e[Len(h) + Len(r.type) + Len(r.id) + j] = r.payload[j]
  <2> DEFINE t == r.type
             i == r.id
             p == r.payload
  <2>1. h \in Seq(Byte) /\ t \in Seq(Byte) /\ i \in Seq(Byte) /\ p \in Seq(Byte)
    BY <1>2, <1>3
  <2>2. e = h \o t \o i \o p
    OBVIOUS
  <2> HIDE DEF t, i, p, e
  <2>3. InOrder(Byte, h \o t \o i \o p, h, t, i, p)
    BY ONLY <2>1, FourParts
  <2> QED  BY <2>2, <2>3 DEF t, i, p, InOrder
<1> HIDE DEF e
<1>5. Len(e) = RecordSize(r)
  <2>1. Len(r.type) \in Nat /\ Len(r.id) \in Nat /\ Len(r.payload) \in Nat
    BY <1>3, LenProperties
  <2>2. HeaderSize(r) \in Nat
        /\ RecordSize(r) = HeaderSize(r) + Len(r.type) + Len(r.payload) + Len(r.id)
    <3>1. RecordSize(r) =
            2 + (IF IsShort(r) THEN 1 ELSE 4) + (IF HasId(r) THEN 1 ELSE 0)
              + Len(r.type) + Len(r.payload) + Len(r.id)
      BY <1>3, SizeByLength
    <3> QED  BY <2>1, <3>1 DEF HeaderSize
  <2> QED  BY <1>2, <1>4, <2>1, <2>2
<1> QED  BY <1>1, <1>2, <1>4, <1>5 DEF h

\* getEncodedSize tells how many bytes encode writes.
THEOREM EncodingHasItsSize ==
  ASSUME NEW r \in Records, NEW first \in BOOLEAN, NEW last \in BOOLEAN
  PROVE  /\ EncodeRecord(r, first, last) \in Seq(Byte)
         /\ Len(EncodeRecord(r, first, last)) = RecordSize(r)
BY EncodingParts

LEMMA SizePositive ==
  ASSUME NEW r \in Records
  PROVE  /\ RecordSize(r) \in Nat /\ RecordSize(r) >= 3
         /\ HeaderSize(r) \in 3 .. 7
<1> DEFINE p == IF IsShort(r) THEN 1 ELSE 4
           i == IF HasId(r) THEN 1 ELSE 0
           a == Len(r.type)
           b == Len(r.payload)
           c == Len(r.id)
<1>1. a \in Nat /\ b \in Nat /\ c \in Nat
  BY RecordFields, LenProperties
<1>2. p \in 1 .. 4 /\ i \in 0 .. 1
  OBVIOUS
<1>3. RecordSize(r) = 2 + p + i + a + b + c /\ HeaderSize(r) = 2 + p + i
  BY SizeByLength DEF HeaderSize
<1> HIDE DEF p, i, a, b, c
<1> QED  BY <1>1, <1>2, <1>3

\* A part of the data that equals a field is decoded to the field.
LEMMA BytesEqual ==
  ASSUME NEW data \in Seq(Byte), NEW at \in Nat, NEW field \in Seq(Byte),
         at + Len(field) <= Len(data),
         \A j \in 1 .. Len(field) : data[at + j] = field[j]
  PROVE  Bytes(data, at, Len(field)) = field
<1>1. Len(field) \in Nat /\ Len(data) \in Nat
      /\ field = [j \in 1 .. Len(field) |-> field[j]]
  BY LenProperties
<1>2. ASSUME NEW j \in 1 .. Len(field)
      PROVE  At(data, at + j - 1) = field[j]
  <2>1. at + j - 1 < Len(data) /\ at + j - 1 + 1 = at + j
    BY <1>1
  <2> QED  BY <2>1 DEF At
<1>3. Bytes(data, at, Len(field)) = [j \in 1 .. Len(field) |-> field[j]]
  BY <1>2 DEF Bytes
<1> QED  BY <1>1, <1>3

\* The data hold the encoding of a record behind the first `at` bytes.
WrittenAt(data, at, r, first, last) ==
  /\ at + RecordSize(r) <= Len(data)
  /\ \A j \in 1 .. RecordSize(r) :
       data[at + j] = EncodeRecord(r, first, last)[j]

\* The bytes of the header, as the decoder finds them.
LEMMA HeaderDecoded ==
  ASSUME NEW data \in Seq(Byte), NEW at \in Nat,
         NEW r \in Records, Encodable(r),
         NEW first \in BOOLEAN, NEW last \in BOOLEAN,
         WrittenAt(data, at, r, first, last)
  PROVE  LET n == Len(r.payload)
         IN  /\ At(data, at) = TnfByte(r, first, last)
             /\ At(data, at + 1) = Len(r.type)
             /\ IsShort(r) => At(data, at + 2) = n
             /\ ~IsShort(r) => /\ At(data, at + 2) = 0
                               /\ At(data, at + 3) = 0
                               /\ At(data, at + 4) = n \div LengthBase
                               /\ At(data, at + 5) = n % LengthBase
             /\ HasId(r) =>
                  At(data, at + (IF IsShort(r) THEN 3 ELSE 6)) = Len(r.id)
<1> USE DEF WrittenAt
<1> DEFINE n == Len(r.payload)
           hs == HeaderSize(r)
           h == Header(r, first, last)
           fields == IF IsShort(r) THEN 4 ELSE 7
<1>1. /\ hs \in 3 .. 7 /\ RecordSize(r) \in Nat /\ hs <= RecordSize(r)
      /\ hs = 2 + (IF IsShort(r) THEN 1 ELSE 4) + (IF HasId(r) THEN 1 ELSE 0)
  <2> DEFINE a == Len(r.type)
             b == Len(r.payload)
             c == Len(r.id)
  <2>1. a \in Nat /\ b \in Nat /\ c \in Nat
    BY RecordFields, LenProperties
  <2>2. RecordSize(r) = hs + a + b + c
    <3> DEFINE u == IF IsShort(r) THEN 1 ELSE 4
               w == IF HasId(r) THEN 1 ELSE 0
    <3>1. u \in Nat /\ w \in Nat
      OBVIOUS
    <3>2. RecordSize(r) = 2 + u + w + a + b + c /\ hs = 2 + u + w
      BY SizeByLength DEF HeaderSize
    <3> HIDE DEF u, w, a, b, c, hs
    <3> QED  BY <2>1, <3>1, <3>2
  <2>3. hs \in 3 .. 7 /\ RecordSize(r) \in Nat
    BY SizePositive
  <2>4. hs = 2 + (IF IsShort(r) THEN 1 ELSE 4) + (IF HasId(r) THEN 1 ELSE 0)
    BY DEF HeaderSize
  <2> HIDE DEF a, b, c, hs
  <2> QED  BY <2>1, <2>2, <2>3, <2>4
<1>2. ASSUME NEW j \in 1 .. hs
      PROVE  At(data, at + (j - 1)) = h[j]
  <2>1. j \in 1 .. RecordSize(r) /\ Len(data) \in Nat
    BY <1>1, LenProperties
  <2>2. at + (j - 1) < Len(data) /\ at + (j - 1) + 1 = at + j
    BY <1>1, <2>1
  <2>3. data[at + j] = h[j]
    BY <2>1, EncodingParts
  <2> QED  BY <2>2, <2>3 DEF At
<1>3. /\ h[1] = TnfByte(r, first, last)
      /\ h[2] = Len(r.type) % LengthBase
      /\ IsShort(r) => h[3] = n
      /\ ~IsShort(r) => /\ h[3] = 0 /\ h[4] = 0
                        /\ h[5] = (n \div LengthBase) % LengthBase
                        /\ h[6] = n % LengthBase
      /\ HasId(r) => h[fields] = Len(r.id) % LengthBase
  BY HeaderParts
<1>4. /\ Len(r.type) % LengthBase = Len(r.type)
      /\ Len(r.id) % LengthBase = Len(r.id)
      /\ (n \div LengthBase) % LengthBase = n \div LengthBase
  <2>1. /\ Len(r.type) \in Nat /\ Len(r.type) < LengthBase
        /\ Len(r.id) \in Nat /\ Len(r.id) < LengthBase
        /\ n \in Nat /\ n < LengthBase * LengthBase
    BY RecordFields, LenProperties DEF Encodable
  <2> QED  BY <2>1, SmallDigit, TwoDigits
<1> HIDE DEF h, n, hs
<1>5. At(data, at) = h[1] /\ At(data, at + 1) = h[2] /\ At(data, at + 2) = h[3]
  <2>1. 1 \in 1 .. hs /\ 2 \in 1 .. hs /\ 3 \in 1 .. hs
    BY <1>1
  <2>2. at + (1 - 1) = at /\ at + (2 - 1) = at + 1 /\ at + (3 - 1) = at + 2
    OBVIOUS
  <2> QED  BY <1>2, <2>1, <2>2
<1>6. ~IsShort(r) => /\ At(data, at + 3) = h[4] /\ At(data, at + 4) = h[5]
                     /\ At(data, at + 5) = h[6]
  <2> SUFFICES ASSUME ~IsShort(r)
               PROVE  /\ At(data, at + 3) = h[4] /\ At(data, at + 4) = h[5]
                      /\ At(data, at + 5) = h[6]
    OBVIOUS
  <2>1. 4 \in 1 .. hs /\ 5 \in 1 .. hs /\ 6 \in 1 .. hs
    BY <1>1
  <2>2. at + (4 - 1) = at + 3 /\ at + (5 - 1) = at + 4 /\ at + (6 - 1) = at + 5
    OBVIOUS
  <2> QED  BY <1>2, <2>1, <2>2
<1>7. HasId(r) => At(data, at + (IF IsShort(r) THEN 3 ELSE 6)) = h[fields]
  <2> SUFFICES ASSUME HasId(r)
               PROVE  At(data, at + (IF IsShort(r) THEN 3 ELSE 6)) = h[fields]
    OBVIOUS
  <2>1. fields \in 1 .. hs
    BY <1>1
  <2>2. at + (fields - 1) = at + (IF IsShort(r) THEN 3 ELSE 6)
    OBVIOUS
  <2> HIDE DEF fields
  <2> QED  BY <1>2, <2>1, <2>2
<1> QED  BY <1>3, <1>4, <1>5, <1>6, <1>7 DEF n

\* What the encoder wrote the decoder reads back, and it goes on behind it.
THEOREM DecodingInvertsEncoding ==
  ASSUME NEW data \in Seq(Byte), NEW at \in Nat,
         NEW r \in Records, Encodable(r),
         NEW first \in BOOLEAN, NEW last \in BOOLEAN,
         WrittenAt(data, at, r, first, last)
  PROVE  /\ Decoded(data, at).record = r
         /\ Decoded(data, at).last = last
         /\ Decoded(data, at).next = at + RecordSize(r)
<1> DEFINE flags == At(data, at)
           sr == Bit(flags, 16)
           il == Bit(flags, 8)
           typeLength == At(data, at + 1)
           payloadLength ==
             IF sr THEN At(data, at + 2)
             ELSE ((At(data, at + 2) * LengthBase + At(data, at + 3)) * LengthBase
                    + At(data, at + 4)) * LengthBase + At(data, at + 5)
           fields == at + (IF sr THEN 3 ELSE 6)
           idLength == IF il THEN At(data, fields) ELSE 0
           type == fields + (IF il THEN 1 ELSE 0)
           id == type + typeLength
           payload == id + idLength
           e == EncodeRecord(r, first, last)
           hs == HeaderSize(r)
<1>0. /\ at + RecordSize(r) <= Len(data)
      /\ \A j \in 1 .. RecordSize(r) :
           data[at + j] = EncodeRecord(r, first, last)[j]
  BY DEF WrittenAt
<1>1. Decoded(data, at) =
        [record |-> [tnf |-> flags % 8,
                     type |-> Bytes(data, type, typeLength),
                     id |-> Bytes(data, id, idLength),
                     payload |-> Bytes(data, payload, payloadLength)],
         last |-> Bit(flags, 64),
         next |-> payload + payloadLength]
  BY DEF Decoded
<1>2. flags % 8 = r.tnf /\ il = HasId(r) /\ sr = IsShort(r) /\ Bit(flags, 64) = last
  BY HeaderDecoded, Flags
<1>3. typeLength = Len(r.type) /\ idLength = Len(r.id)
  <2>1. typeLength = Len(r.type)
    BY HeaderDecoded
  <2>2. CASE HasId(r)
    <3>1. idLength = At(data, at + (IF IsShort(r) THEN 3 ELSE 6))
      BY <1>2, <2>2
    <3> HIDE DEF idLength
    <3> QED  BY <2>1, <2>2, <3>1, HeaderDecoded
  <2>3. CASE ~HasId(r)
    <3>1. idLength = 0
      BY <1>2, <2>3
    <3>2. Len(r.id) = 0
      BY <2>3, EmptySeq DEF HasId
    <3> QED  BY <2>1, <3>1, <3>2
  <2> QED  BY <2>2, <2>3
<1>4. payloadLength = Len(r.payload)
  <2>1. CASE IsShort(r)
    <3>1. At(data, at + 2) = Len(r.payload)
      BY <2>1, HeaderDecoded
    <3>2. payloadLength = At(data, at + 2)
      BY <1>2, <2>1
    <3> QED  BY ONLY <3>1, <3>2
  <2>2. CASE ~IsShort(r)
    <3> DEFINE n == Len(r.payload)
    <3>1. n \in Nat /\ n < LengthBase * LengthBase
      BY RecordFields, LenProperties DEF Encodable
    <3>2. (n \div LengthBase) * LengthBase + (n % LengthBase) = n
          /\ n \div LengthBase \in Nat
      BY <3>1, TwoDigits
    <3>3. /\ At(data, at + 2) = 0 /\ At(data, at + 3) = 0
          /\ At(data, at + 4) = n \div LengthBase
          /\ At(data, at + 5) = n % LengthBase
      BY <2>2, HeaderDecoded
    <3>4. payloadLength = ((0 * LengthBase + 0) * LengthBase
                            + (n \div LengthBase)) * LengthBase + (n % LengthBase)
      BY <1>2, <2>2, <3>3
    <3>5. (0 * LengthBase + 0) * LengthBase + (n \div LengthBase)
            = n \div LengthBase
      <4>1. 0 * LengthBase = 0
        BY Base
      <4> HIDE DEF n
      <4> QED  BY <3>2, <4>1, Base
    <3> QED  BY <3>2, <3>4, <3>5
  <2> QED  BY <2>1, <2>2
<1>5. type = at + hs
  <2>1. hs = 2 + (IF IsShort(r) THEN 1 ELSE 4) + (IF HasId(r) THEN 1 ELSE 0)
    BY DEF HeaderSize
  <2> HIDE DEF sr, il, hs
  <2> QED  BY <1>2, <2>1
<1> HIDE DEF flags, sr, il, typeLength, payloadLength, fields, idLength,
             type, id, payload, hs, e
<1>6. /\ id = at + hs + Len(r.type)
      /\ payload = at + hs + Len(r.type) + Len(r.id)
  BY <1>3, <1>5 DEF id, payload
<1> DEFINE nt == Len(r.type)
           ni == Len(r.id)
           np == Len(r.payload)
<1>7. /\ nt \in Nat /\ ni \in Nat /\ np \in Nat /\ hs \in Nat
      /\ RecordSize(r) = hs + nt + ni + np
  <2>1. nt \in Nat /\ ni \in Nat /\ np \in Nat
    BY RecordFields, LenProperties
  <2> DEFINE u == IF IsShort(r) THEN 1 ELSE 4
             w == IF HasId(r) THEN 1 ELSE 0
  <2>2. u \in Nat /\ w \in Nat
    OBVIOUS
  <2>3. RecordSize(r) = 2 + u + w + nt + np + ni /\ hs = 2 + u + w
    BY SizeByLength DEF HeaderSize, hs
  <2> HIDE DEF u, w, nt, ni, np
  <2> QED  BY <2>1, <2>2, <2>3
<1>8. /\ \A j \in 1 .. nt : e[hs + j] = r.type[j]
      /\ \A j \in 1 .. ni : e[hs + nt + j] = r.id[j]
      /\ \A j \in 1 .. np : e[hs + nt + ni + j] = r.payload[j]
  BY EncodingParts DEF e, hs
<1>9. \A j \in 1 .. RecordSize(r) : data[at + j] = e[j]
  BY <1>0 DEF e
<1>10. Bytes(data, type, typeLength) = r.type
  <2>1. ASSUME NEW j \in 1 .. nt PROVE data[at + hs + j] = r.type[j]
    <3>1. hs + j \in 1 .. RecordSize(r) /\ at + hs + j = at + (hs + j)
      <4> HIDE DEF nt, ni, np
      <4> QED  BY <1>7
    <3> QED  BY <1>8, <1>9, <3>1
  <2>2. at + hs \in Nat /\ (at + hs) + nt <= Len(data)
    <3>1. Len(data) \in Nat
      BY LenProperties
    <3> HIDE DEF nt, ni, np
    <3> QED  BY <1>0, <1>7, <3>1
  <2>3. r.type \in Seq(Byte)
    BY RecordFields
  <2>4. Bytes(data, at + hs, Len(r.type)) = r.type
    BY <2>1, <2>2, <2>3, BytesEqual
  <2> QED  BY <1>3, <1>5, <2>4
<1>11. Bytes(data, id, idLength) = r.id
  <2>1. ASSUME NEW j \in 1 .. ni PROVE data[at + hs + nt + j] = r.id[j]
    <3>1. hs + nt + j \in 1 .. RecordSize(r)
          /\ at + hs + nt + j = at + (hs + nt + j)
      <4> HIDE DEF nt, ni, np
      <4> QED  BY <1>7
    <3> QED  BY <1>8, <1>9, <3>1
  <2>2. at + hs + nt \in Nat /\ (at + hs + nt) + ni <= Len(data)
    <3>1. Len(data) \in Nat
      BY LenProperties
    <3> HIDE DEF nt, ni, np
    <3> QED  BY <1>0, <1>7, <3>1
  <2>3. r.id \in Seq(Byte)
    BY RecordFields
  <2>4. Bytes(data, at + hs + nt, Len(r.id)) = r.id
    BY <2>1, <2>2, <2>3, BytesEqual
  <2> QED  BY <1>3, <1>6, <2>4
<1>12. Bytes(data, payload, payloadLength) = r.payload
  <2>1. ASSUME NEW j \in 1 .. np
        PROVE  data[at + hs + nt + ni + j] = r.payload[j]
    <3>1. hs + nt + ni + j \in 1 .. RecordSize(r)
          /\ at + hs + nt + ni + j = at + (hs + nt + ni + j)
      <4> HIDE DEF nt, ni, np
      <4> QED  BY <1>7
    <3> QED  BY <1>8, <1>9, <3>1
  <2>2. at + hs + nt + ni \in Nat /\ (at + hs + nt + ni) + np <= Len(data)
    <3>1. Len(data) \in Nat
      BY LenProperties
    <3> HIDE DEF nt, ni, np
    <3> QED  BY <1>0, <1>7, <3>1
  <2>3. r.payload \in Seq(Byte)
    BY RecordFields
  <2>4. Bytes(data, at + hs + nt + ni, Len(r.payload)) = r.payload
    BY <2>1, <2>2, <2>3, BytesEqual
  <2> QED  BY <1>4, <1>6, <2>4
<1>13. r = [tnf |-> r.tnf, type |-> r.type, id |-> r.id, payload |-> r.payload]
  BY DEF Records
<1>14. payload + payloadLength = at + RecordSize(r)
  <2> HIDE DEF nt, ni, np
  <2>1. payload = at + hs + nt + ni /\ payloadLength = np
    BY <1>4, <1>6 DEF nt, ni, np
  <2> QED  BY <1>7, <2>1
<1> QED  BY <1>1, <1>2, <1>10, <1>11, <1>12, <1>13, <1>14

\* What an iteration makes of any data is a record, and a place behind them.
LEMMA DecodingMakesRecords ==
  ASSUME NEW data \in Seq(Byte), NEW at \in Nat
  PROVE  /\ Decoded(data, at).record \in Records
         /\ Decoded(data, at).last \in BOOLEAN
         /\ Decoded(data, at).next \in Nat
         /\ Decoded(data, at).next > at
<1> DEFINE flags == At(data, at)
           sr == Bit(flags, 16)
           il == Bit(flags, 8)
           typeLength == At(data, at + 1)
           payloadLength ==
             IF sr THEN At(data, at + 2)
             ELSE ((At(data, at + 2) * LengthBase + At(data, at + 3)) * LengthBase
                    + At(data, at + 4)) * LengthBase + At(data, at + 5)
           fields == at + (IF sr THEN 3 ELSE 6)
           idLength == IF il THEN At(data, fields) ELSE 0
           type == fields + (IF il THEN 1 ELSE 0)
           id == type + typeLength
           payload == id + idLength
<1>1. Decoded(data, at) =
        [record |-> [tnf |-> flags % 8,
                     type |-> Bytes(data, type, typeLength),
                     id |-> Bytes(data, id, idLength),
                     payload |-> Bytes(data, payload, payloadLength)],
         last |-> Bit(flags, 64),
         next |-> payload + payloadLength]
  BY DEF Decoded
<1>2. \A i \in Nat : At(data, i) \in Byte
  <2> TAKE i \in Nat
  <2>1. Len(data) \in Nat
    BY LenProperties
  <2>2. CASE i < Len(data)
    <3>1. i + 1 \in 1 .. Len(data)
      BY <2>1, <2>2
    <3>2. data[i + 1] \in Byte
      BY <3>1, ElementOfSeq
    <3> QED  BY <2>2, <3>2 DEF At
  <2>3. CASE ~(i < Len(data))
    BY <2>3 DEF At, Byte
  <2> QED  BY <2>2, <2>3
<1>3. Byte \subseteq Nat
  BY DEF Byte
<1>4. ASSUME NEW i \in Nat, NEW n \in Nat
      PROVE  Bytes(data, i, n) \in Seq(Byte)
  <2>1. \A j \in 1 .. n : At(data, i + j - 1) \in Byte
    <3> TAKE j \in 1 .. n
    <3>1. i + j - 1 \in Nat
      OBVIOUS
    <3> QED  BY <1>2, <3>1
  <2>2. Bytes(data, i, n) \in [1 .. n -> Byte]
    BY <2>1 DEF Bytes
  <2> QED  BY <2>2, SeqDef
<1>13. \A k \in Nat : At(data, at + k) \in Nat
  <2> TAKE k \in Nat
  <2>1. at + k \in Nat
    OBVIOUS
  <2> QED  BY ONLY <2>1, <1>2, <1>3
<1>5. flags \in Nat /\ typeLength \in Nat
  <2>1. At(data, at) \in Nat
    BY ONLY at \in Nat, <1>2, <1>3
  <2>2. At(data, at + 1) \in Nat
    BY ONLY <1>13, 1 \in Nat
  <2> QED  BY <2>1, <2>2
<1>6. payloadLength \in Nat
  <2>1. /\ At(data, at + 2) \in Nat /\ At(data, at + 3) \in Nat
        /\ At(data, at + 4) \in Nat /\ At(data, at + 5) \in Nat
    BY ONLY <1>13, 2 \in Nat, 3 \in Nat, 4 \in Nat, 5 \in Nat
  <2>2. \A a, b, c, d, n \in Nat : ((a * n + b) * n + c) * n + d \in Nat
    OBVIOUS
  <2> QED  BY <2>1, <2>2, Base
<1>7. fields \in Nat /\ fields > at
  OBVIOUS
<1>8. idLength \in Nat
  BY <1>2, <1>3, <1>7
<1> HIDE DEF flags, sr, typeLength, payloadLength, fields, idLength
<1>9. /\ type \in Nat /\ id \in Nat /\ payload \in Nat
      /\ payload + payloadLength \in Nat /\ payload + payloadLength > at
  <2>1. (IF il THEN 1 ELSE 0) \in Nat
    OBVIOUS
  <2> QED  BY <1>5, <1>6, <1>7, <1>8, <2>1
<1>10. flags % 8 \in 0 .. 7
  BY <1>5
<1>11. Bit(flags, 64) \in BOOLEAN
  BY DEF Bit
<1> HIDE DEF type, id, payload
<1>12. /\ Bytes(data, type, typeLength) \in Seq(Byte)
       /\ Bytes(data, id, idLength) \in Seq(Byte)
       /\ Bytes(data, payload, payloadLength) \in Seq(Byte)
  BY <1>4, <1>5, <1>6, <1>8, <1>9
<1> QED  BY <1>1, <1>9, <1>10, <1>11, <1>12 DEF Records
===============================================================================

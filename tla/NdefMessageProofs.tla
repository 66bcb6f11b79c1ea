--------------------------- MODULE NdefMessageProofs ---------------------------
(***************************************************************************)
(* That messages own their records, that an encoding has the size computed *)
(* for it, and that decoding inverts encoding: for messages of every       *)
(* length.  The loops over the records are recursive functions, so the     *)
(* facts about them are proved by induction over the number of records.    *)
(***************************************************************************)
EXTENDS NdefMessageProperties, NdefRecordProofs, FiniteSetTheorems
-----------------------------------------------------------------------------
(***************************************************************************)
(* Induction over the natural numbers, for a set of numbers: a set of      *)
(* numbers has a least one, since the sets 0 .. n are well-founded under   *)
(* strict inclusion.                                                       *)
(***************************************************************************)
LEMMA LeastNatural ==
  ASSUME NEW T, T \subseteq Nat, T # {}
  PROVE  \E x \in T : \A y \in T : x <= y
<1> DEFINE Below == {0 .. n : n \in T}
<1>1. Below \subseteq FiniteSubsetsOf(Nat)
  <2> SUFFICES ASSUME NEW n \in T PROVE 0 .. n \in FiniteSubsetsOf(Nat)
    OBVIOUS
  <2>1. IsFiniteSet(0 .. n)
    BY FS_Interval
  <2>2. 0 .. n \in SUBSET Nat
    OBVIOUS
  <2> QED  BY <2>1, <2>2 DEF FiniteSubsetsOf
<1>2. Below # {}
  OBVIOUS
<1>3. PICK low \in Below :
        \A b \in Below : <<b, low>> \notin StrictSubsetOrdering(Nat)
  <2> HIDE DEF Below
  <2>1. IsWellFoundedOn(StrictSubsetOrdering(Nat), FiniteSubsetsOf(Nat))
    BY FS_StrictSubsetOrderingWellFounded
  <2> QED  BY <1>1, <1>2, <2>1, WFMin
<1>4. PICK x \in T : low = 0 .. x
  OBVIOUS
<1>5. ASSUME NEW y \in T PROVE x <= y
  <2>1. 0 .. y \in Below
    OBVIOUS
  <2>2. <<0 .. y, low>> \notin StrictSubsetOrdering(Nat)
    BY <1>3, <2>1
  <2>3. SUFFICES ASSUME y < x PROVE FALSE
    BY x \in Nat, y \in Nat
  <2>4. 0 .. y \subseteq 0 .. x /\ 0 .. y # 0 .. x
    <3>1. x \in 0 .. x /\ x \notin 0 .. y
      BY <2>3
    <3> QED  BY <2>3, <3>1
  <2> DEFINE Y == 0 .. y
             X == 0 .. x
  <2>5. Y \in SUBSET Nat /\ X \in SUBSET Nat /\ Y \subseteq X /\ Y # X
    BY <2>4
  <2>6. low = X /\ <<Y, low>> \notin StrictSubsetOrdering(Nat)
    BY <1>4, <2>2
  <2> HIDE DEF Y, X, Below
  <2>7. <<Y, X>> \in StrictSubsetOrdering(Nat)
    BY <2>5 DEF StrictSubsetOrdering
  <2> QED  BY <2>6, <2>7
<1> QED  BY <1>5

LEMMA Induction ==
  ASSUME NEW S, 0 \in S, \A n \in Nat : n \in S => n + 1 \in S
  PROVE  \A n \in Nat : n \in S
<1> DEFINE T == Nat \ S
<1>1. SUFFICES ASSUME T # {} PROVE FALSE
  OBVIOUS
<1>2. PICK x \in T : \A y \in T : x <= y
  BY <1>1, LeastNatural, T \subseteq Nat
<1>3. x - 1 \in Nat
  BY <1>2
<1>4. x - 1 \notin T
  BY <1>2, <1>3
<1> QED  BY <1>2, <1>3, <1>4

\* A loop of n rounds, whose round i takes the value x to step[<<x, i>>].
Loop(f, n, base, step) ==
  /\ f[0] = base
  /\ \A i \in 1 .. n : f[i] = step[<<f[i - 1], i>>]

LEMMA LoopExists ==
  ASSUME NEW S, NEW n \in Nat, NEW base \in S,
         NEW step \in [S \X (1 .. n) -> S]
  PROVE  \E f \in [0 .. n -> S] : Loop(f, n, base, step)
<1> DEFINE K == {k \in Nat : k <= n =>
                   \E f \in [0 .. k -> S] : Loop(f, k, base, step)}
<1>1. 0 \in K
  <2> DEFINE g == [i \in 0 .. 0 |-> base]
  <2>1. g \in [0 .. 0 -> S] /\ g[0] = base
    OBVIOUS
  <2>2. Loop(g, 0, base, step)
    BY <2>1 DEF Loop
  <2> QED  BY <2>1, <2>2
<1>2. ASSUME NEW k \in Nat, k \in K PROVE k + 1 \in K
  <2> SUFFICES ASSUME k + 1 <= n
               PROVE  \E f \in [0 .. (k + 1) -> S] : Loop(f, k + 1, base, step)
    OBVIOUS
  <2>1. PICK f \in [0 .. k -> S] : Loop(f, k, base, step)
    BY <1>2
  <2> HIDE DEF K
  <2> DEFINE g == [i \in 0 .. (k + 1) |->
                     IF i <= k THEN f[i] ELSE step[<<f[k], k + 1>>]]
  <2>2. step[<<f[k], k + 1>>] \in S
    <3>1. f[k] \in S /\ k + 1 \in 1 .. n
      OBVIOUS
    <3> QED  BY <3>1
  <2>7. \A i \in 0 .. k : f[i] \in S
    OBVIOUS
  <2>8. k \in Nat
    OBVIOUS
  <2>3. g \in [0 .. (k + 1) -> S]
    <3>1. ASSUME NEW i \in 0 .. (k + 1)
          PROVE  (IF i <= k THEN f[i] ELSE step[<<f[k], k + 1>>]) \in S
      <4>1. CASE i <= k
        BY <2>7, <4>1
      <4>2. CASE ~(i <= k)
        BY <2>2, <4>2
      <4> QED  BY <4>1, <4>2
    <3> QED  BY <3>1
  <2>9. /\ \A i \in 0 .. k : g[i] = f[i]
        /\ g[k + 1] = step[<<f[k], k + 1>>]
    <3>1. /\ \A i \in 0 .. k : i \in 0 .. (k + 1) /\ i <= k
          /\ k + 1 \in 0 .. (k + 1) /\ ~(k + 1 <= k)
      BY ONLY <2>8
    <3> QED  BY <3>1
  <2> HIDE DEF g
  <2>4. g[0] = base
    <3>1. 0 \in 0 .. k
      BY ONLY <2>8
    <3> QED  BY <2>1, <2>9, <3>1 DEF Loop
  <2>5. ASSUME NEW i \in 1 .. (k + 1) PROVE g[i] = step[<<g[i - 1], i>>]
    <3>4. i - 1 \in 0 .. k /\ (i <= k \/ i = k + 1)
      BY ONLY i \in 1 .. (k + 1), <2>8
    <3>1. g[i - 1] = f[i - 1]
      BY <2>9, <3>4
    <3>2. CASE i <= k
      <4>1. i \in 1 .. k /\ i \in 0 .. k
        BY <3>2
      <4> QED  BY <2>1, <2>9, <3>1, <4>1 DEF Loop
    <3>3. CASE i = k + 1
      <4>1. i - 1 = k
        BY <2>8, <3>3
      <4> QED  BY <2>9, <3>1, <3>3, <4>1
    <3> QED  BY <3>2, <3>3, <3>4
  <2>6. Loop(g, k + 1, base, step)
    BY <2>4, <2>5 DEF Loop
  <2> QED  BY <2>3, <2>6
<1>3. n \in K
  <2> HIDE DEF K
  <2> QED  BY <1>1, <1>2, Induction
<1> QED  BY <1>3
-----------------------------------------------------------------------------
(* The loops of getEncodedSize and encode. *)

LEMMA EndsLoop ==
  ASSUME NEW v \in Seq(Records)
  PROVE  /\ Ends(v) \in [0 .. Len(v) -> Nat]
         /\ Ends(v)[0] = 0
         /\ \A i \in 1 .. Len(v) :
              Ends(v)[i] = Ends(v)[i - 1] + RecordSize(v[i])
<1> DEFINE n == Len(v)
           step == [x \in Nat \X (1 .. n) |-> x[1] + RecordSize(v[x[2]])]
           Is(e) == e = [i \in 0 .. n |->
                           IF i = 0 THEN 0 ELSE e[i - 1] + RecordSize(v[i])]
<1>1. n \in Nat
  BY LenProperties
<1>2. \A i \in 1 .. n : RecordSize(v[i]) \in Nat
  BY ElementOfSeq, SizePositive
<1>3. step \in [Nat \X (1 .. n) -> Nat]
  <2>1. ASSUME NEW x \in Nat \X (1 .. n)
        PROVE  x[1] + RecordSize(v[x[2]]) \in Nat
    BY <1>2
  <2> QED  BY <2>1
<1>4. PICK f \in [0 .. n -> Nat] : Loop(f, n, 0, step)
  <2> HIDE DEF step, n
  <2> QED  BY <1>1, <1>3, LoopExists, 0 \in Nat
<1>5. f[0] = 0 /\ \A i \in 1 .. n : f[i] = f[i - 1] + RecordSize(v[i])
  <2>1. ASSUME NEW i \in 1 .. n
        PROVE  f[i] = f[i - 1] + RecordSize(v[i])
    <3>1. f[i - 1] \in Nat
      <4>1. i - 1 \in 0 .. n
        BY ONLY <1>1, i \in 1 .. n
      <4> QED  BY <4>1
    <3>2. f[i] = step[<<f[i - 1], i>>]
      BY <1>4 DEF Loop
    <3> HIDE DEF n
    <3> QED  BY <3>1, <3>2
  <2> QED  BY <1>4, <2>1 DEF Loop
<1>6. Is(f)
  <2>1. ASSUME NEW i \in 0 .. n
        PROVE  f[i] = IF i = 0 THEN 0 ELSE f[i - 1] + RecordSize(v[i])
    <3>1. CASE i = 0
      BY <1>5, <3>1
    <3>2. CASE i # 0
      <4>1. i \in 1 .. n
        BY ONLY <1>1, <3>2, i \in 0 .. n
      <4> QED  BY <1>5, <3>2, <4>1
    <3> QED  BY <3>1, <3>2
  <2>2. f = [i \in 0 .. n |-> f[i]]
    OBVIOUS
  <2> QED  BY <2>1, <2>2
<1>7. Is(Ends(v))
  <2>1. Ends(v) = CHOOSE e : Is(e)
    BY DEF Ends
  <2> HIDE DEF Is
  <2> QED  BY <1>6, <2>1
<1> DEFINE e == Ends(v)
<1> HIDE DEF e
<1>8. /\ DOMAIN e = 0 .. n
      /\ e = [i \in 0 .. n |-> e[i]]
      /\ e[0] = 0
      /\ \A i \in 1 .. n : e[i] = e[i - 1] + RecordSize(v[i])
  <2>1. e = [i \in 0 .. n |-> IF i = 0 THEN 0 ELSE e[i - 1] + RecordSize(v[i])]
    BY <1>7 DEF e
  <2>2. 0 \in 0 .. n /\ \A i \in 1 .. n : i \in 0 .. n /\ i # 0
    BY ONLY <1>1
  <2> QED  BY <2>1, <2>2
<1> DEFINE K == {k \in Nat : k <= n => e[k] \in Nat}
<1>9. \A k \in Nat : k \in K
  <2>1. 0 \in K
    BY <1>8
  <2>2. ASSUME NEW k \in Nat, k \in K PROVE k + 1 \in K
    <3> SUFFICES ASSUME k + 1 <= n PROVE e[k + 1] \in Nat
      OBVIOUS
    <3>1. k + 1 \in 1 .. n /\ (k + 1) - 1 = k /\ k <= n
      BY ONLY <1>1, k \in Nat, k + 1 <= n
    <3>2. e[k] \in Nat
      BY <2>2, <3>1
    <3>3. e[k + 1] = e[k] + RecordSize(v[k + 1]) /\ RecordSize(v[k + 1]) \in Nat
      BY <1>2, <1>8, <3>1
    <3> QED  BY <3>2, <3>3
  <2> HIDE DEF K
  <2> QED  BY <2>1, <2>2, Induction
<1>10. e \in [0 .. n -> Nat]
  <2>1. \A i \in 0 .. n : e[i] \in Nat
    BY <1>1, <1>9
  <2> QED  BY <1>8, <2>1
<1> QED  BY <1>8, <1>10 DEF e

LEMMA DataLoop ==
  ASSUME NEW v \in Seq(Records)
  PROVE  /\ Data(v) \in [0 .. Len(v) -> Seq(Byte)]
         /\ Data(v)[0] = << >>
         /\ \A i \in 1 .. Len(v) :
              Data(v)[i] = Data(v)[i - 1]
                             \o EncodeRecord(v[i], i = 1, i = Len(v))
<1> DEFINE n == Len(v)
           enc(i) == EncodeRecord(v[i], i = 1, i = n)
           step == [x \in Seq(Byte) \X (1 .. n) |-> x[1] \o enc(x[2])]
           Is(d) == d = [i \in 0 .. n |->
                           IF i = 0 THEN << >> ELSE d[i - 1] \o enc(i)]
<1>1. n \in Nat
  BY LenProperties
<1>2. \A i \in 1 .. n : enc(i) \in Seq(Byte)
  <2> TAKE i \in 1 .. n
  <2>1. v[i] \in Records
    BY ElementOfSeq
  <2> QED  BY <2>1, EncodingHasItsSize, (i = 1) \in BOOLEAN, (i = n) \in BOOLEAN
<1> HIDE DEF enc
<1>3. step \in [Seq(Byte) \X (1 .. n) -> Seq(Byte)]
  <2>1. ASSUME NEW x \in Seq(Byte) \X (1 .. n)
        PROVE  x[1] \o enc(x[2]) \in Seq(Byte)
    <3>1. x[1] \in Seq(Byte) /\ enc(x[2]) \in Seq(Byte)
      BY <1>2
    <3> QED  BY <3>1, ConcatProperties
  <2> QED  BY <2>1
<1>4. PICK f \in [0 .. n -> Seq(Byte)] : Loop(f, n, << >>, step)
  <2>1. << >> \in Seq(Byte)
    BY EmptySeq
  <2> HIDE DEF step, n
  <2> QED  BY <1>1, <1>3, <2>1, LoopExists
<1>5. f[0] = << >> /\ \A i \in 1 .. n : f[i] = f[i - 1] \o enc(i)
  <2>1. ASSUME NEW i \in 1 .. n
        PROVE  f[i] = f[i - 1] \o enc(i)
    <3>1. f[i - 1] \in Seq(Byte)
      <4>1. i - 1 \in 0 .. n
        BY ONLY <1>1, i \in 1 .. n
      <4> QED  BY <4>1
    <3>2. f[i] = step[<<f[i - 1], i>>]
      BY <1>4 DEF Loop
    <3> HIDE DEF n
    <3> QED  BY <3>1, <3>2
  <2> QED  BY <1>4, <2>1 DEF Loop
<1>6. Is(f)
  <2>1. ASSUME NEW i \in 0 .. n
        PROVE  f[i] = IF i = 0 THEN << >> ELSE f[i - 1] \o enc(i)
    <3>1. CASE i = 0
      BY <1>5, <3>1
    <3>2. CASE i # 0
      <4>1. i \in 1 .. n
        BY ONLY <1>1, <3>2, i \in 0 .. n
      <4> QED  BY <1>5, <3>2, <4>1
    <3> QED  BY <3>1, <3>2
  <2>2. f = [i \in 0 .. n |-> f[i]]
    OBVIOUS
  <2> QED  BY <2>1, <2>2
<1>7. Is(Data(v))
  <2>1. Data(v) = CHOOSE d : Is(d)
    BY DEF Data, enc
  <2> HIDE DEF Is
  <2> QED  BY <1>6, <2>1
<1> DEFINE d == Data(v)
<1> HIDE DEF d
<1>8. /\ DOMAIN d = 0 .. n
      /\ d = [i \in 0 .. n |-> d[i]]
      /\ d[0] = << >>
      /\ \A i \in 1 .. n : d[i] = d[i - 1] \o enc(i)
  <2>1. d = [i \in 0 .. n |-> IF i = 0 THEN << >> ELSE d[i - 1] \o enc(i)]
    BY <1>7 DEF d
  <2>2. 0 \in 0 .. n /\ \A i \in 1 .. n : i \in 0 .. n /\ i # 0
    BY ONLY <1>1
  <2> QED  BY <2>1, <2>2
<1> DEFINE K == {k \in Nat : k <= n => d[k] \in Seq(Byte)}
<1>9. \A k \in Nat : k \in K
  <2>1. 0 \in K
    BY <1>8, EmptySeq
  <2>2. ASSUME NEW k \in Nat, k \in K PROVE k + 1 \in K
    <3> SUFFICES ASSUME k + 1 <= n PROVE d[k + 1] \in Seq(Byte)
      OBVIOUS
    <3>1. k + 1 \in 1 .. n /\ (k + 1) - 1 = k /\ k <= n
      BY ONLY <1>1, k \in Nat, k + 1 <= n
    <3>2. d[k] \in Seq(Byte)
      BY <2>2, <3>1
    <3>3. d[k + 1] = d[k] \o enc(k + 1) /\ enc(k + 1) \in Seq(Byte)
      BY <1>2, <1>8, <3>1
    <3> QED  BY <3>2, <3>3, ConcatProperties
  <2> HIDE DEF K
  <2> QED  BY <2>1, <2>2, Induction
<1>10. d \in [0 .. n -> Seq(Byte)]
  <2>1. \A i \in 0 .. n : d[i] \in Seq(Byte)
    BY <1>1, <1>9
  <2> QED  BY <1>8, <2>1
<1> QED  BY <1>8, <1>10 DEF d, enc

LEMMA Joined ==
  \A a, b \in Seq(Byte) :
    /\ a \o b \in Seq(Byte)
    /\ Len(a \o b) = Len(a) + Len(b)
    /\ \A j \in 1 .. Len(a) : (a \o b)[j] = a[j]
    /\ \A j \in 1 .. Len(b) : (a \o b)[Len(a) + j] = b[j]
BY TwoParts

\* After i records, encode has written as many bytes as getEncodedSize adds.
LEMMA DataLength ==
  ASSUME NEW v \in Seq(Records)
  PROVE  \A i \in 0 .. Len(v) : Len(Data(v)[i]) = Ends(v)[i]
<1> DEFINE n == Len(v)
           d == Data(v)
           e == Ends(v)
           enc(i) == EncodeRecord(v[i], i = 1, i = n)
           K == {k \in Nat : k <= n => Len(d[k]) = e[k]}
<1>1. n \in Nat
  BY LenProperties
<1>2. /\ d \in [0 .. n -> Seq(Byte)] /\ d[0] = << >>
      /\ \A i \in 1 .. n : d[i] = d[i - 1] \o enc(i)
  BY DataLoop
<1>3. /\ e \in [0 .. n -> Nat] /\ e[0] = 0
      /\ \A i \in 1 .. n : e[i] = e[i - 1] + RecordSize(v[i])
  BY EndsLoop
<1>4. \A i \in 1 .. n : enc(i) \in Seq(Byte) /\ Len(enc(i)) = RecordSize(v[i])
  <2> TAKE i \in 1 .. n
  <2>1. v[i] \in Records
    BY ElementOfSeq
  <2> QED  BY <2>1, EncodingHasItsSize, (i = 1) \in BOOLEAN, (i = n) \in BOOLEAN
<1> HIDE DEF d, e, enc
<1>5. 0 \in K
  <2>1. Len(d[0]) = 0
    BY <1>2, EmptySeq
  <2> QED  BY <1>3, <2>1
<1>6. ASSUME NEW k \in Nat, k \in K PROVE k + 1 \in K
  <2> SUFFICES ASSUME k + 1 <= n PROVE Len(d[k + 1]) = e[k + 1]
    OBVIOUS
  <2>1. k + 1 \in 1 .. n /\ (k + 1) - 1 = k /\ k <= n /\ k \in 0 .. n
    BY ONLY <1>1, k \in Nat, k + 1 <= n
  <2>2. d[k] \in Seq(Byte) /\ Len(d[k]) = e[k]
    BY <1>2, <1>6, <2>1
  <2>3. d[k + 1] = d[k] \o enc(k + 1) /\ e[k + 1] = e[k] + RecordSize(v[k + 1])
    BY <1>2, <1>3, <2>1
  <2>4. Len(d[k] \o enc(k + 1)) = Len(d[k]) + Len(enc(k + 1))
    <3>1. enc(k + 1) \in Seq(Byte)
      BY <1>4, <2>1
    <3> QED  BY ONLY <2>2, <3>1, Joined
  <2> QED  BY <1>4, <2>1, <2>2, <2>3, <2>4
<1>7. \A k \in Nat : k \in K
  <2> HIDE DEF K
  <2> QED  BY <1>5, <1>6, Induction
<1>8. \A i \in 0 .. n : i \in Nat /\ i <= n
  BY ONLY <1>1
<1> QED  BY <1>7, <1>8 DEF d, e

\* The data of every record stay in their place while the later ones are
\* written.
LEMMA DataStays ==
  ASSUME NEW v \in Seq(Records), NEW i \in 1 .. Len(v)
  PROVE  LET all == Data(v)[Len(v)]
         IN  /\ Ends(v)[i] <= Len(all)
             /\ \A j \in 1 .. RecordSize(v[i]) :
                  all[Ends(v)[i - 1] + j]
                    = EncodeRecord(v[i], i = 1, i = Len(v))[j]
<1> DEFINE n == Len(v)
           d == Data(v)
           e == Ends(v)
           enc(k) == EncodeRecord(v[k], k = 1, k = n)
           size == RecordSize(v[i])
           Kept(k) == /\ e[i] <= Len(d[k])
                      /\ \A j \in 1 .. size : d[k][e[i - 1] + j] = enc(i)[j]
           K == {k \in Nat : i <= k /\ k <= n => Kept(k)}
<1>1. n \in Nat /\ i \in Nat /\ 1 <= i /\ i <= n /\ i - 1 \in 0 .. n /\ i \in 0 .. n
      /\ n \in 0 .. n
  BY ONLY Len(v) \in Nat, i \in 1 .. Len(v), LenProperties
<1>2. /\ d \in [0 .. n -> Seq(Byte)]
      /\ \A k \in 1 .. n : d[k] = d[k - 1] \o enc(k)
  BY DataLoop
<1>3. /\ e \in [0 .. n -> Nat] /\ e[i] = e[i - 1] + size
  BY EndsLoop
<1>4. \A k \in 1 .. n : enc(k) \in Seq(Byte) /\ Len(enc(k)) = RecordSize(v[k])
  <2> TAKE k \in 1 .. n
  <2>1. v[k] \in Records
    BY ElementOfSeq
  <2> QED  BY <2>1, EncodingHasItsSize, (k = 1) \in BOOLEAN, (k = n) \in BOOLEAN
<1>5. \A k \in 0 .. n : Len(d[k]) = e[k]
  BY DataLength
<1>6. size \in Nat
  BY ElementOfSeq, SizePositive
<1>7. e[i] \in Nat /\ e[i - 1] \in Nat
  BY <1>1, <1>3
<1> HIDE DEF d, e, enc, size
<1>8. 0 \in K
  BY ONLY <1>1
<1>9. ASSUME NEW k \in Nat, k \in K PROVE k + 1 \in K
  <2> SUFFICES ASSUME i <= k + 1, k + 1 <= n PROVE Kept(k + 1)
    OBVIOUS
  <2>1. k + 1 \in 1 .. n /\ (k + 1) - 1 = k /\ k <= n /\ k \in 0 .. n
    BY ONLY <1>1, k \in Nat, k + 1 <= n
  <2>2. /\ d[k] \in Seq(Byte) /\ Len(d[k]) = e[k]
        /\ enc(k + 1) \in Seq(Byte) /\ d[k + 1] = d[k] \o enc(k + 1)
    BY <1>2, <1>4, <1>5, <2>1
  <2>3. Len(d[k]) \in Nat /\ Len(enc(k + 1)) \in Nat
    BY <2>2, LenProperties
  <2>4. /\ Len(d[k + 1]) = Len(d[k]) + Len(enc(k + 1))
        /\ \A j \in 1 .. Len(d[k]) : d[k + 1][j] = d[k][j]
        /\ \A j \in 1 .. Len(enc(k + 1)) :
             d[k + 1][Len(d[k]) + j] = enc(k + 1)[j]
    <3> DEFINE a == d[k]
               b == enc(k + 1)
               c == d[k + 1]
    <3>1. a \in Seq(Byte) /\ b \in Seq(Byte) /\ c = a \o b
      BY <2>2
    <3> HIDE DEF a, b, c
    <3>2. /\ Len(c) = Len(a) + Len(b)
          /\ \A j \in 1 .. Len(a) : c[j] = a[j]
          /\ \A j \in 1 .. Len(b) : c[Len(a) + j] = b[j]
      BY ONLY <3>1, Joined
    <3> QED  BY <3>2 DEF a, b, c
  <2>5. CASE i = k + 1
    <3>1. Len(enc(i)) = size /\ i - 1 = k
      BY <1>1, <1>4, <2>1, <2>5 DEF size
    <3>2. \A j \in 1 .. size : d[k + 1][e[i - 1] + j] = enc(i)[j]
      BY <2>2, <2>4, <2>5, <3>1
    <3>3. e[i] <= Len(d[k + 1])
      <4>1. Len(d[k + 1]) = e[i - 1] + size
        BY <2>2, <2>4, <2>5, <3>1
      <4> QED  BY ONLY <1>3, <1>6, <1>7, <4>1
    <3> QED  BY <3>2, <3>3
  <2>6. CASE i # k + 1
    <3>1. i <= k
      BY ONLY <1>1, <2>6, k \in Nat, i <= k + 1
    <3>2. Kept(k)
      BY <1>9, <2>1, <3>1
    <3>3. e[i] <= Len(d[k + 1])
      <4>1. e[i] <= Len(d[k])
        BY <3>2
      <4>2. Len(d[k + 1]) = Len(d[k]) + Len(enc(k + 1))
        BY <2>4
      <4>3. \A a, b, c \in Nat : a <= b => a <= b + c
        OBVIOUS
      <4> QED  BY ONLY <1>7, <2>3, <4>1, <4>2, <4>3
    <3>4. ASSUME NEW j \in 1 .. size
          PROVE  d[k + 1][e[i - 1] + j] = enc(i)[j]
      <4>1. e[i] <= Len(d[k]) /\ d[k][e[i - 1] + j] = enc(i)[j]
        BY <3>2
      <4>2. e[i - 1] + j \in 1 .. Len(d[k])
        BY ONLY <1>3, <1>6, <1>7, <2>3, <4>1, j \in 1 .. size, SMTT(30)
      <4> QED  BY <2>4, <4>1, <4>2
    <3> QED  BY <3>3, <3>4
  <2> QED  BY <2>5, <2>6
<1>10. n \in K
  <2> HIDE DEF K
  <2> QED  BY <1>1, <1>8, <1>9, Induction
<1>11. Kept(n)
  BY ONLY <1>1, <1>10
<1> QED  BY <1>11 DEF d, e, enc, size

\* getEncodedSize tells how many bytes encode writes, for every message.
THEOREM MessageHasItsSize ==
  ASSUME NEW v \in Seq(Records)
  PROVE  /\ Data(v)[Len(v)] \in Seq(Byte)
         /\ Len(Data(v)[Len(v)]) = Ends(v)[Len(v)]
<1>1. Len(v) \in 0 .. Len(v)
  BY LenProperties
<1> QED  BY <1>1, DataLength, DataLoop

\* The decoder reads what the encoder wrote as the message it was given.
THEOREM MessageReadBack ==
  ASSUME NEW v \in Seq(Records), \A i \in 1 .. Len(v) : Encodable(v[i])
  PROVE  LET all == Data(v)[Len(v)]
         IN  /\ Ends(v) \in [0 .. Len(v) -> 0 .. Len(all)]
             /\ ReadsAs(all, v, Ends(v))
<1> DEFINE n == Len(v)
           all == Data(v)[n]
           e == Ends(v)
<1>1. n \in Nat
  BY LenProperties
<1>2. all \in Seq(Byte) /\ Len(all) = e[n] /\ Len(all) \in Nat
  BY MessageHasItsSize, LenProperties
<1>3. /\ e \in [0 .. n -> Nat] /\ e[0] = 0
      /\ \A i \in 1 .. n : e[i] = e[i - 1] + RecordSize(v[i])
  BY EndsLoop
<1>4. ASSUME NEW i \in 1 .. n
      PROVE  /\ e[i] <= Len(all) /\ e[i - 1] < Len(all)
             /\ Decoded(all, e[i - 1]).record = v[i]
             /\ Decoded(all, e[i - 1]).last = (i = n)
             /\ Decoded(all, e[i - 1]).next = e[i]
  <2>1. /\ v[i] \in Records /\ Encodable(v[i])
        /\ (i = 1) \in BOOLEAN /\ (i = n) \in BOOLEAN
    BY ElementOfSeq
  <2>2. i - 1 \in 0 .. n /\ i \in 0 .. n
    BY ONLY <1>1, i \in 1 .. n
  <2>3. e[i - 1] \in Nat /\ e[i] \in Nat /\ e[i] = e[i - 1] + RecordSize(v[i])
    BY <1>3, <2>2
  <2>4. /\ e[i] <= Len(all)
        /\ \A j \in 1 .. RecordSize(v[i]) :
             all[e[i - 1] + j] = EncodeRecord(v[i], i = 1, i = n)[j]
    BY DataStays
  <2>5. RecordSize(v[i]) \in Nat /\ RecordSize(v[i]) >= 3
    BY <2>1, SizePositive
  <2>6. e[i - 1] < Len(all)
    BY ONLY <1>2, <2>3, <2>4, <2>5
  <2> HIDE DEF all, e
  <2>7. e[i - 1] + RecordSize(v[i]) <= Len(all)
    BY <2>3, <2>4
  <2>8. /\ Decoded(all, e[i - 1]).record = v[i]
        /\ Decoded(all, e[i - 1]).last = (i = n)
        /\ Decoded(all, e[i - 1]).next = e[i - 1] + RecordSize(v[i])
    <3> DEFINE r == v[i]
               first == (i = 1)
               last == (i = n)
               at == e[i - 1]
    <3>1. /\ all \in Seq(Byte) /\ at \in Nat /\ r \in Records /\ Encodable(r)
          /\ first \in BOOLEAN /\ last \in BOOLEAN
          /\ WrittenAt(all, at, r, first, last)
      BY <1>2, <2>1, <2>3, <2>4, <2>7 DEF WrittenAt
    <3> HIDE DEF r, first, last, at
    <3>2. /\ Decoded(all, at).record = r
          /\ Decoded(all, at).last = last
          /\ Decoded(all, at).next = at + RecordSize(r)
      BY ONLY <3>1, DecodingInvertsEncoding
    <3> QED  BY <3>2 DEF r, first, last, at
  <2> QED  BY <2>3, <2>4, <2>6, <2>8
<1> HIDE DEF all, e
<1>5. e \in [0 .. n -> 0 .. Len(all)]
  <2>1. ASSUME NEW i \in 0 .. n PROVE e[i] \in 0 .. Len(all)
    <3>1. CASE i = 0
      BY <1>2, <1>3, <3>1
    <3>2. CASE i # 0
      <4>1. i \in 1 .. n
        BY ONLY <3>2, i \in 0 .. n, <1>1
      <4>2. e[i] \in Nat /\ e[i] <= Len(all)
        BY <1>3, <1>4, <4>1
      <4> QED  BY <1>2, <4>2
    <3> QED  BY <3>1, <3>2
  <2> QED  BY <1>3, <2>1
<1>6. ReadsAs(all, v, e)
  <2>1. e[n] >= Len(all)
    BY <1>2
  <2> QED  BY <1>3, <1>4, <2>1 DEF ReadsAs
<1> QED  BY <1>5, <1>6 DEF all, e
-----------------------------------------------------------------------------
(***************************************************************************)
(* The heap and the arrays of pointers.                                    *)
(***************************************************************************)
PointersOf(array) == {array[i] : i \in 1 .. Len(array)}

\* Ownership, of a set of created records and a function of arrays.
OwnedOnce(created, arrays) ==
  /\ \A s \in DOMAIN arrays : IsInjective(arrays[s])
  /\ \A s, t \in DOMAIN arrays :
       s # t => PointersOf(arrays[s]) \cap PointersOf(arrays[t]) = {}
  /\ created = UNION {PointersOf(arrays[s]) : s \in DOMAIN arrays}

LEMMA OwnershipOwnedOnce == Ownership <=> OwnedOnce(DOMAIN heap, records)
BY DEF Ownership, OwnedOnce, PointersOf, Owned

LEMMA OwnershipOwnedOnceNext ==
  Ownership' <=> OwnedOnce(DOMAIN heap', records')
BY DEF Ownership, OwnedOnce, PointersOf, Owned

LEMMA FreshPointers ==
  ASSUME NEW n \in Nat, Room(n)
  PROVE  /\ Fresh(n) \in [1 .. n -> FreePointers]
         /\ IsInjective(Fresh(n))
<1>1. Fresh(n) \in Places(n)
  BY DEF Fresh, Room
<1> QED  BY <1>1 DEF Places

LEMMA FreshArray ==
  ASSUME NEW n \in Nat, Room(n)
  PROVE  /\ Fresh(n) \in Seq(Pointers) /\ Len(Fresh(n)) = n
         /\ IsInjective(Fresh(n))
         /\ PointersOf(Fresh(n)) = Range(Fresh(n))
         /\ PointersOf(Fresh(n)) \subseteq Pointers
         /\ PointersOf(Fresh(n)) \cap DOMAIN heap = {}
<1> DEFINE f == Fresh(n)
<1>1. f \in [1 .. n -> FreePointers] /\ IsInjective(f)
  BY FreshPointers
<1> HIDE DEF f
<1>2. FreePointers \subseteq Pointers /\ FreePointers \cap DOMAIN heap = {}
  BY DEF FreePointers
<1>3. f \in [1 .. n -> Pointers] /\ DOMAIN f = 1 .. n
  BY <1>1, <1>2
<1>4. f \in Seq(Pointers)
  BY <1>3, SeqDef
<1>5. Len(f) = n
  BY <1>3, <1>4, LenProperties
<1>6. PointersOf(f) = Range(f)
  BY <1>3, <1>5 DEF PointersOf, Range
<1>7. PointersOf(f) \subseteq FreePointers
  BY <1>1, <1>5 DEF PointersOf
<1> QED  BY <1>1, <1>2, <1>4, <1>5, <1>6, <1>7 DEF f

\* New records are at their pointers, and the others where they were.
LEMMA CreatedHeap ==
  ASSUME NEW n \in Nat, Room(n), NEW values \in Seq(Records), Len(values) = n
  PROVE  LET new == Create(Fresh(n), values)
         IN  /\ DOMAIN new = DOMAIN heap \cup PointersOf(Fresh(n))
             /\ \A p \in DOMAIN heap : new[p] = heap[p]
             /\ \A i \in 1 .. n : new[Fresh(n)[i]] = values[i]
<1> DEFINE f == Fresh(n)
           new == Create(f, values)
           Is(p) == CHOOSE i \in DOMAIN f : f[i] = p
<1>1. f \in [1 .. n -> FreePointers] /\ IsInjective(f) /\ DOMAIN f = 1 .. n
  BY FreshPointers
<1>2. PointersOf(f) = Range(f) /\ PointersOf(f) \cap DOMAIN heap = {}
  BY FreshArray
<1>3. new = [p \in DOMAIN heap \cup Range(f) |->
               IF p \in DOMAIN heap THEN heap[p] ELSE values[Is(p)]]
  BY DEF Create
<1> HIDE DEF f, new, Is
<1>4. ASSUME NEW i \in 1 .. n PROVE new[f[i]] = values[i]
  <2>1. f[i] \in Range(f) /\ f[i] \notin DOMAIN heap
    <3>1. f[i] \in FreePointers /\ f[i] \in Range(f)
      BY <1>1 DEF Range
    <3> QED  BY <3>1 DEF FreePointers
  <2>2. Is(f[i]) \in DOMAIN f /\ f[Is(f[i])] = f[i]
    BY <1>1 DEF Is
  <2>3. Is(f[i]) = i
    BY <1>1, <2>2 DEF IsInjective
  <2> QED  BY <1>3, <2>1, <2>3
<1> QED  BY <1>2, <1>3, <1>4 DEF f, new

\* An array that is extended by fresh pointers.
LEMMA ExtendedArray ==
  ASSUME NEW array \in Seq(Pointers), IsInjective(array),
         NEW new \in Seq(Pointers), IsInjective(new),
         PointersOf(array) \cap PointersOf(new) = {}
  PROVE  /\ array \o new \in Seq(Pointers)
         /\ Len(array \o new) = Len(array) + Len(new)
         /\ IsInjective(array \o new)
         /\ PointersOf(array \o new) = PointersOf(array) \cup PointersOf(new)
<1> DEFINE all == array \o new
           a == Len(array)
           b == Len(new)
<1>1. a \in Nat /\ b \in Nat /\ DOMAIN array = 1 .. a /\ DOMAIN new = 1 .. b
  BY LenProperties
<1>2. /\ all \in Seq(Pointers) /\ Len(all) = a + b
      /\ \A j \in 1 .. a : all[j] = array[j]
      /\ \A j \in 1 .. b : all[a + j] = new[j]
  BY TwoParts
<1>3. DOMAIN all = 1 .. (a + b)
  BY <1>2, LenProperties
<1> HIDE DEF all, a, b
<1>4. ASSUME NEW k \in 1 .. (a + b)
      PROVE  \/ k \in 1 .. a
             \/ k > a /\ (k - a) \in 1 .. b /\ all[k] = new[k - a]
  <2>1. k > a => (k - a) \in 1 .. b /\ a + (k - a) = k
    BY ONLY <1>1, k \in 1 .. (a + b)
  <2>2. k \in 1 .. a \/ k > a
    BY ONLY <1>1, k \in 1 .. (a + b)
  <2> QED  BY <1>2, <2>1, <2>2
<1>5. /\ \A k \in 1 .. a : array[k] \in PointersOf(array)
      /\ \A k \in 1 .. b : new[k] \in PointersOf(new)
  BY DEF PointersOf, a, b
<1>6. ASSUME NEW k \in 1 .. (a + b), NEW l \in 1 .. (a + b), all[k] = all[l]
      PROVE  k = l
  <2>1. CASE k \in 1 .. a /\ l \in 1 .. a
    BY <1>1, <1>2, <1>6, <2>1 DEF IsInjective
  <2>2. CASE k \in 1 .. a /\ l > a
    <3>1. l \notin 1 .. a
      BY <1>1, <2>2
    <3>2. all[l] \in PointersOf(new)
      BY <1>4, <1>5, <3>1
    <3>3. all[k] \in PointersOf(array)
      BY <1>2, <1>5, <2>2
    <3> QED  BY <1>6, <3>2, <3>3
  <2>3. CASE k > a /\ l \in 1 .. a
    <3>1. k \notin 1 .. a
      BY <1>1, <2>3
    <3>2. all[k] \in PointersOf(new)
      BY <1>4, <1>5, <3>1
    <3>3. all[l] \in PointersOf(array)
      BY <1>2, <1>5, <2>3
    <3> QED  BY <1>6, <3>2, <3>3
  <2>4. CASE k > a /\ l > a
    <3>1. k \notin 1 .. a /\ l \notin 1 .. a
      BY <1>1, <2>4
    <3>2. k - a \in 1 .. b /\ l - a \in 1 .. b /\ new[k - a] = new[l - a]
      BY <1>4, <1>6, <3>1
    <3>3. k - a = l - a
      BY <1>1, <3>2 DEF IsInjective
    <3> QED  BY ONLY <3>3, <1>1, k \in 1 .. (a + b), l \in 1 .. (a + b)
  <2>5. (k \in 1 .. a \/ k > a) /\ (l \in 1 .. a \/ l > a)
    BY <1>4
  <2> QED  BY <2>1, <2>2, <2>3, <2>4, <2>5
<1>7. IsInjective(all)
  BY <1>3, <1>6 DEF IsInjective
<1>8. PointersOf(all) \subseteq PointersOf(array) \cup PointersOf(new)
  <2>1. ASSUME NEW k \in 1 .. (a + b)
        PROVE  all[k] \in PointersOf(array) \cup PointersOf(new)
    <3>1. CASE k \in 1 .. a
      BY <1>2, <1>5, <3>1
    <3>2. CASE k \notin 1 .. a
      BY <1>4, <1>5, <3>2
    <3> QED  BY <3>1, <3>2
  <2>2. PointersOf(all) = {all[k] : k \in 1 .. (a + b)}
    BY <1>2 DEF PointersOf
  <2> QED  BY <2>1, <2>2
<1>9. PointersOf(array) \cup PointersOf(new) \subseteq PointersOf(all)
  <2>1. ASSUME NEW k \in 1 .. a PROVE array[k] \in PointersOf(all)
    <3>1. k \in 1 .. (a + b) /\ all[k] = array[k]
      BY <1>1, <1>2
    <3> QED  BY <1>2, <3>1 DEF PointersOf
  <2>2. ASSUME NEW k \in 1 .. b PROVE new[k] \in PointersOf(all)
    <3>1. a + k \in 1 .. (a + b) /\ all[a + k] = new[k]
      BY <1>1, <1>2
    <3> QED  BY <1>2, <3>1 DEF PointersOf
  <2> QED  BY <2>1, <2>2 DEF PointersOf, a, b
<1> QED  BY <1>2, <1>7, <1>8, <1>9 DEF all, a, b

Extends(created, arrays, s, array, fresh, grown) ==
  /\ fresh \cap created = {}
  /\ IsInjective(array)
  /\ PointersOf(array) =
       fresh \cup (IF s \in DOMAIN arrays THEN PointersOf(arrays[s]) ELSE {})
  /\ DOMAIN grown = DOMAIN arrays \cup {s}
  /\ grown[s] = array
  /\ \A t \in DOMAIN arrays : t # s => grown[t] = arrays[t]

LEMMA GrownOwnedOnce ==
  \A created, arrays, s, array, fresh, grown :
    OwnedOnce(created, arrays) /\ Extends(created, arrays, s, array, fresh, grown)
      => OwnedOnce(created \cup fresh, grown)
<1> TAKE created, arrays, s, array, fresh, grown
<1> HAVE OwnedOnce(created, arrays) /\ Extends(created, arrays, s, array, fresh, grown)
<1> USE DEF Extends
<1>1. \A t \in DOMAIN arrays : PointersOf(arrays[t]) \subseteq created
  BY DEF OwnedOnce
<1>2. \A t \in DOMAIN grown : IsInjective(grown[t])
  BY DEF OwnedOnce
<1>3. ASSUME NEW t \in DOMAIN grown, t # s
      PROVE  PointersOf(grown[t]) \cap PointersOf(grown[s]) = {}
  <2>1. t \in DOMAIN arrays /\ grown[t] = arrays[t]
    BY <1>3
  <2>2. PointersOf(arrays[t]) \cap fresh = {}
    BY <1>1, <2>1
  <2>3. s \in DOMAIN arrays =>
          PointersOf(arrays[t]) \cap PointersOf(arrays[s]) = {}
    BY <1>3, <2>1 DEF OwnedOnce
  <2> QED  BY <2>1, <2>2, <2>3
<1>4. ASSUME NEW t \in DOMAIN grown, NEW u \in DOMAIN grown, t # u
      PROVE  PointersOf(grown[t]) \cap PointersOf(grown[u]) = {}
  <2>1. CASE t = s
    <3>1. PointersOf(grown[u]) \cap PointersOf(grown[s]) = {}
      BY <1>3, <1>4, <2>1
    <3> QED  BY <2>1, <3>1
  <2>2. CASE u = s
    BY <1>3, <1>4, <2>2
  <2>3. CASE t # s /\ u # s
    <3>1. /\ t \in DOMAIN arrays /\ u \in DOMAIN arrays
          /\ grown[t] = arrays[t] /\ grown[u] = arrays[u]
      BY <2>3
    <3> QED  BY <1>4, <3>1 DEF OwnedOnce
  <2> QED  BY <2>1, <2>2, <2>3
<1>5. created \cup fresh = UNION {PointersOf(grown[t]) : t \in DOMAIN grown}
  <2>1. created = UNION {PointersOf(arrays[t]) : t \in DOMAIN arrays}
    BY DEF OwnedOnce
  <2>2. \A t \in DOMAIN arrays : PointersOf(arrays[t]) \subseteq PointersOf(grown[t])
    <3> TAKE t \in DOMAIN arrays
    <3>1. CASE t = s
      BY <3>1
    <3>2. CASE t # s
      BY <3>2
    <3> QED  BY <3>1, <3>2
  <2>3. fresh \subseteq PointersOf(grown[s]) /\ s \in DOMAIN grown
    OBVIOUS
  <2>4. created \cup fresh \subseteq UNION {PointersOf(grown[t]) : t \in DOMAIN grown}
    BY <2>1, <2>2, <2>3
  <2>5. ASSUME NEW t \in DOMAIN grown
        PROVE  PointersOf(grown[t]) \subseteq created \cup fresh
    <3>1. CASE t = s
      BY <1>1, <3>1
    <3>2. CASE t # s
      <4>1. t \in DOMAIN arrays /\ grown[t] = arrays[t]
        BY <3>2
      <4> QED  BY <1>1, <4>1
    <3> QED  BY <3>1, <3>2
  <2> QED  BY <2>4, <2>5
<1> QED  BY <1>2, <1>4, <1>5 DEF OwnedOnce

LEMMA ShrunkOwnedOnce ==
  ASSUME NEW created, NEW arrays, OwnedOnce(created, arrays),
         NEW s \in DOMAIN arrays, NEW shrunk,
         DOMAIN shrunk \subseteq DOMAIN arrays,
         DOMAIN arrays \ {s} \subseteq DOMAIN shrunk,
         \A t \in DOMAIN shrunk :
           shrunk[t] = IF t = s THEN << >> ELSE arrays[t]
  PROVE  OwnedOnce(created \ PointersOf(arrays[s]), shrunk)
<1>1. IsInjective(<< >>) /\ PointersOf(<< >>) = {}
  BY EmptySeq DEF IsInjective, PointersOf
<1>2. \A t \in DOMAIN shrunk : IsInjective(shrunk[t])
  BY <1>1 DEF OwnedOnce
<1>3. \A t \in DOMAIN shrunk :
        PointersOf(shrunk[t]) = IF t = s THEN {} ELSE PointersOf(arrays[t])
  BY <1>1
<1>4. \A t, u \in DOMAIN shrunk :
        t # u => PointersOf(shrunk[t]) \cap PointersOf(shrunk[u]) = {}
  BY <1>3 DEF OwnedOnce
<1>5. created \ PointersOf(arrays[s])
        = UNION {PointersOf(shrunk[t]) : t \in DOMAIN shrunk}
  <2>1. created = UNION {PointersOf(arrays[t]) : t \in DOMAIN arrays}
    BY DEF OwnedOnce
  <2>2. \A t \in DOMAIN arrays :
          t # s => PointersOf(arrays[t]) \cap PointersOf(arrays[s]) = {}
    BY DEF OwnedOnce
  <2>3. ASSUME NEW p \in created \ PointersOf(arrays[s])
        PROVE  \E t \in DOMAIN shrunk : p \in PointersOf(shrunk[t])
    <3>1. PICK t \in DOMAIN arrays : p \in PointersOf(arrays[t])
      BY <2>1
    <3>2. t # s /\ t \in DOMAIN shrunk
      BY <3>1
    <3> QED  BY <1>3, <3>1, <3>2
  <2>4. ASSUME NEW t \in DOMAIN shrunk, NEW p \in PointersOf(shrunk[t])
        PROVE  p \in created \ PointersOf(arrays[s])
    <3>1. t # s /\ t \in DOMAIN arrays /\ p \in PointersOf(arrays[t])
      BY <1>3
    <3> QED  BY <2>1, <2>2, <3>1
  <2> QED  BY <2>3, <2>4
<1> QED  BY <1>2, <1>4, <1>5 DEF OwnedOnce
-----------------------------------------------------------------------------
(***************************************************************************)
(* The inductive invariant of the ownership of records: the types, without *)
(* the bound of the arrays, and that a message being decoded exists.       *)
(***************************************************************************)
HeapTyped == /\ DOMAIN heap \subseteq Pointers
             /\ \A p \in DOMAIN heap : heap[p] \in Records
ArraysTyped == /\ DOMAIN records \subseteq Slots
               /\ \A s \in DOMAIN records : records[s] \in Seq(Pointers)
DecodingTyped == /\ buffer \in Seq(Byte)
                 /\ decoding \in [slot : Slots \cup {"none"}, at : Nat]
                 /\ decoding # NotDecoding => decoding.slot \in DOMAIN records

HeapInv == HeapTyped /\ ArraysTyped /\ Ownership
IInv == HeapInv /\ DecodingTyped

LEMMA ValueTyped ==
  ASSUME HeapInv, NEW s \in DOMAIN records
  PROVE  /\ Len(records[s]) \in Nat
         /\ Value(s) \in Seq(Records)
         /\ Len(Value(s)) = Len(records[s])
         /\ \A i \in 1 .. Len(records[s]) :
              records[s][i] \in DOMAIN heap /\ Value(s)[i] = heap[records[s][i]]
<1> DEFINE n == Len(records[s])
<1>1. n \in Nat
  BY LenProperties DEF HeapInv, ArraysTyped
<1>2. \A i \in 1 .. n : records[s][i] \in DOMAIN heap
  BY DEF HeapInv, Ownership, Owned
<1>3. Value(s) = [i \in 1 .. n |-> heap[records[s][i]]]
  BY DEF Value
<1> HIDE DEF n
<1>4. Value(s) \in [1 .. n -> Records]
  BY <1>2, <1>3 DEF HeapInv, HeapTyped
<1>5. Value(s) \in Seq(Records)
  BY <1>1, <1>4, SeqDef
<1>6. Len(Value(s)) = n
  BY <1>1, <1>4, <1>5, LenProperties
<1> QED  BY <1>1, <1>2, <1>3, <1>5, <1>6 DEF n

\* What a step does to the heap and the arrays: it adds records to one
\* message, which may be a new one, or deletes those of one message.
ArrayOf(s) == IF Alive(s) THEN records[s] ELSE << >>
ValueOf(s) == IF Alive(s) THEN Value(s) ELSE << >>

Grows(s, fresh, values) ==
  /\ s \in Slots
  /\ fresh \in Seq(Pointers) /\ IsInjective(fresh)
  /\ PointersOf(fresh) \cap DOMAIN heap = {}
  /\ values \in Seq(Records) /\ Len(values) = Len(fresh)
  /\ DOMAIN heap' = DOMAIN heap \cup PointersOf(fresh)
  /\ \A p \in DOMAIN heap : heap'[p] = heap[p]
  /\ \A i \in 1 .. Len(fresh) : heap'[fresh[i]] = values[i]
  /\ DOMAIN records' = DOMAIN records \cup {s}
  /\ records'[s] = ArrayOf(s) \o fresh
  /\ \A t \in DOMAIN records : t # s => records'[t] = records[t]

Shrinks(s) ==
  /\ Alive(s)
  /\ heap' = Delete(Owned(s))
  /\ DOMAIN records' \subseteq DOMAIN records
  /\ DOMAIN records \ {s} \subseteq DOMAIN records'
  /\ \A t \in DOMAIN records' :
       records'[t] = IF t = s THEN << >> ELSE records[t]

LEMMA ArrayOfTyped ==
  ASSUME HeapInv, NEW s
  PROVE  /\ ArrayOf(s) \in Seq(Pointers) /\ IsInjective(ArrayOf(s))
         /\ PointersOf(ArrayOf(s)) \subseteq DOMAIN heap
         /\ Len(ArrayOf(s)) \in Nat
         /\ ValueOf(s) \in Seq(Records) /\ Len(ValueOf(s)) = Len(ArrayOf(s))
         /\ \A i \in 1 .. Len(ArrayOf(s)) : ValueOf(s)[i] = heap[ArrayOf(s)[i]]
<1>1. CASE Alive(s)
  <2>1. s \in DOMAIN records
    BY <1>1 DEF Alive
  <2>2. records[s] \in Seq(Pointers) /\ IsInjective(records[s])
    BY <2>1 DEF HeapInv, ArraysTyped, Ownership
  <2> QED  BY <1>1, <2>1, <2>2, ValueTyped DEF ArrayOf, ValueOf, PointersOf
<1>2. CASE ~Alive(s)
  <2>1. /\ << >> \in Seq(Pointers) /\ << >> \in Seq(Records) /\ Len(<< >>) = 0
        /\ IsInjective(<< >>) /\ PointersOf(<< >>) = {}
    BY EmptySeq DEF IsInjective, PointersOf
  <2> QED  BY <1>2, <2>1 DEF ArrayOf, ValueOf
<1> QED  BY <1>1, <1>2

LEMMA GrownHeap ==
  ASSUME HeapInv, NEW s, NEW fresh, NEW values, Grows(s, fresh, values)
  PROVE  HeapInv'
<1> DEFINE array == ArrayOf(s) \o fresh
<1>1. /\ ArrayOf(s) \in Seq(Pointers) /\ IsInjective(ArrayOf(s))
      /\ PointersOf(ArrayOf(s)) \cap PointersOf(fresh) = {}
  BY ArrayOfTyped DEF Grows
<1>2. /\ array \in Seq(Pointers) /\ IsInjective(array)
      /\ PointersOf(array) = PointersOf(ArrayOf(s)) \cup PointersOf(fresh)
  BY <1>1, ExtendedArray DEF Grows
<1> HIDE DEF array
<1>3. ArraysTyped'
  <2>1. ASSUME NEW t \in DOMAIN records' PROVE records'[t] \in Seq(Pointers)
    <3>1. CASE t = s
      BY <1>2, <3>1 DEF Grows, array
    <3>2. CASE t # s
      BY <3>2 DEF Grows, HeapInv, ArraysTyped
    <3> QED  BY <3>1, <3>2
  <2> QED  BY <2>1 DEF Grows, HeapInv, ArraysTyped
<1>4. HeapTyped'
  <2>1. ASSUME NEW p \in DOMAIN heap' PROVE heap'[p] \in Records /\ p \in Pointers
    <3>1. CASE p \in DOMAIN heap
      BY <3>1 DEF Grows, HeapInv, HeapTyped
    <3>2. CASE p \notin DOMAIN heap
      <4>1. p \in PointersOf(fresh)
        BY <3>2 DEF Grows
      <4>2. PICK i \in 1 .. Len(fresh) : p = fresh[i]
        BY <4>1 DEF PointersOf
      <4>3. heap'[p] = values[i] /\ i \in 1 .. Len(values)
        BY <4>2 DEF Grows
      <4>4. values[i] \in Records /\ fresh[i] \in Pointers
        BY <4>2, <4>3, ElementOfSeq DEF Grows
      <4> QED  BY <4>2, <4>3, <4>4
    <3> QED  BY <3>1, <3>2
  <2> QED  BY <2>1 DEF HeapTyped
<1>5. Ownership'
  <2> DEFINE created == DOMAIN heap
             free == PointersOf(fresh)
             grown == records'
  <2>1. OwnedOnce(created, records)
    BY OwnershipOwnedOnce DEF HeapInv
  <2>2. PointersOf(array) =
          free \cup (IF s \in DOMAIN records THEN PointersOf(records[s]) ELSE {})
    <3>1. CASE Alive(s)
      BY <1>2, <3>1 DEF ArrayOf, Alive
    <3>2. CASE ~Alive(s)
      <4>1. ArrayOf(s) = << >>
        BY <3>2 DEF ArrayOf
      <4>2. PointersOf(<< >>) = {}
        BY EmptySeq DEF PointersOf
      <4> QED  BY <1>2, <3>2, <4>1, <4>2 DEF Alive
    <3> QED  BY <3>1, <3>2
  <2>3. /\ free \cap created = {} /\ DOMAIN grown = DOMAIN records \cup {s}
        /\ grown[s] = array
        /\ \A t \in DOMAIN records : t # s => grown[t] = records[t]
        /\ DOMAIN heap' = created \cup free
    BY DEF Grows, array
  <2> HIDE DEF created, free, grown
  <2>5. Extends(created, records, s, array, free, grown)
    BY <1>2, <2>2, <2>3 DEF Extends
  <2>4. OwnedOnce(created \cup free, grown)
    BY ONLY <2>1, <2>5, GrownOwnedOnce
  <2> QED  BY <2>3, <2>4, OwnershipOwnedOnceNext DEF grown
<1> QED  BY <1>3, <1>4, <1>5 DEF HeapInv

LEMMA JoinedRecords ==
  \A a, b \in Seq(Records) :
    /\ a \o b \in Seq(Records)
    /\ Len(a \o b) = Len(a) + Len(b)
    /\ \A j \in 1 .. Len(a) : (a \o b)[j] = a[j]
    /\ \A j \in 1 .. Len(b) : (a \o b)[Len(a) + j] = b[j]
BY TwoParts

\* The other messages keep their values; the one that grows is appended to.
LEMMA GrownValue ==
  ASSUME HeapInv, NEW s, NEW fresh, NEW values, Grows(s, fresh, values)
  PROVE  /\ Value(s)' = ValueOf(s) \o values
         /\ \A t \in DOMAIN records : t # s => Value(t)' = Value(t)
<1>1. ASSUME NEW t \in DOMAIN records, t # s PROVE Value(t)' = Value(t)
  <2>1. records'[t] = records[t]
    BY <1>1 DEF Grows
  <2>2. \A i \in 1 .. Len(records[t]) :
          heap'[records[t][i]] = heap[records[t][i]]
    BY ValueTyped DEF Grows
  <2>3. Value(t)' = [i \in 1 .. Len(records'[t]) |-> heap'[records'[t][i]]]
    BY DEF Value
  <2>4. Value(t) = [i \in 1 .. Len(records[t]) |-> heap[records[t][i]]]
    BY DEF Value
  <2> QED  BY <2>1, <2>2, <2>3, <2>4
<1>2. Value(s)' = ValueOf(s) \o values
  <2> DEFINE array == ArrayOf(s)
             old == ValueOf(s)
             a == Len(array)
             b == Len(fresh)
             all == array \o fresh
             now == Value(s)'
             both == old \o values
  <2>1. /\ array \in Seq(Pointers) /\ old \in Seq(Records) /\ Len(old) = a
        /\ a \in Nat /\ \A i \in 1 .. a : old[i] = heap[array[i]]
        /\ PointersOf(array) \subseteq DOMAIN heap
    BY ArrayOfTyped
  <2>2. /\ fresh \in Seq(Pointers) /\ values \in Seq(Records) /\ Len(values) = b
        /\ b \in Nat
    BY LenProperties DEF Grows
  <2>3. /\ Len(all) = a + b
        /\ \A j \in 1 .. a : all[j] = array[j]
        /\ \A j \in 1 .. b : all[a + j] = fresh[j]
    BY <2>1, <2>2, TwoParts
  <2>4. /\ both \in Seq(Records) /\ Len(both) = a + b
        /\ \A j \in 1 .. a : both[j] = old[j]
        /\ \A j \in 1 .. b : both[a + j] = values[j]
    <3> HIDE DEF array, old, a, b
    <3>1. /\ both \in Seq(Records) /\ Len(both) = Len(old) + Len(values)
          /\ \A j \in 1 .. Len(old) : both[j] = old[j]
          /\ \A j \in 1 .. Len(values) : both[Len(old) + j] = values[j]
      BY ONLY <2>1, <2>2, JoinedRecords
    <3> QED  BY <2>1, <2>2, <3>1
  <2>5. now = [i \in 1 .. (a + b) |-> heap'[all[i]]]
    <3>1. now = [i \in 1 .. Len(records'[s]) |-> heap'[records'[s][i]]]
      BY DEF Value
    <3>2. records'[s] = all
      BY DEF Grows
    <3> QED  BY <2>3, <3>1, <3>2
  <2>6. \A i \in 1 .. a : array[i] \in DOMAIN heap
    BY <2>1 DEF PointersOf
  <2>7. /\ \A p \in DOMAIN heap : heap'[p] = heap[p]
        /\ \A i \in 1 .. b : heap'[fresh[i]] = values[i]
    BY DEF Grows
  <2>8. DOMAIN both = 1 .. (a + b) /\ both = [i \in DOMAIN both |-> both[i]]
    BY <2>4, LenProperties
  <2> HIDE DEF array, old, a, b, all, now, both
  <2>9. ASSUME NEW i \in 1 .. (a + b) PROVE heap'[all[i]] = both[i]
    <3>1. CASE i \in 1 .. a
      BY <2>1, <2>3, <2>4, <2>6, <2>7, <3>1
    <3>2. CASE i \notin 1 .. a
      <4>1. i - a \in 1 .. b /\ a + (i - a) = i
        BY ONLY <2>1, <2>2, <3>2, i \in 1 .. (a + b)
      <4>2. all[i] = fresh[i - a] /\ both[i] = values[i - a]
        BY <2>3, <2>4, <4>1
      <4> QED  BY <2>7, <4>1, <4>2
    <3> QED  BY <3>1, <3>2
  <2>10. now = both
    BY <2>5, <2>8, <2>9
  <2> QED  BY <2>10 DEF now, both, old
<1> QED  BY <1>1, <1>2

LEMMA ShrunkHeap ==
  ASSUME HeapInv, NEW s, Shrinks(s)
  PROVE  HeapInv'
<1>1. s \in DOMAIN records /\ Owned(s) = PointersOf(records[s])
  BY DEF Shrinks, Alive, Owned, PointersOf
<1>2. /\ DOMAIN heap' = DOMAIN heap \ PointersOf(records[s])
      /\ \A p \in DOMAIN heap' : p \in DOMAIN heap /\ heap'[p] = heap[p]
  BY <1>1 DEF Shrinks, Delete
<1>3. HeapTyped'
  BY <1>2 DEF HeapInv, HeapTyped
<1>4. ArraysTyped'
  <2>1. << >> \in Seq(Pointers)
    BY EmptySeq
  <2> QED  BY <2>1 DEF Shrinks, HeapInv, ArraysTyped
<1>5. Ownership'
  <2> DEFINE created == DOMAIN heap
             shrunk == records'
  <2>1. OwnedOnce(created, records)
    BY OwnershipOwnedOnce DEF HeapInv
  <2>2. /\ DOMAIN shrunk \subseteq DOMAIN records
        /\ DOMAIN records \ {s} \subseteq DOMAIN shrunk
        /\ \A t \in DOMAIN shrunk :
             shrunk[t] = IF t = s THEN << >> ELSE records[t]
    BY DEF Shrinks
  <2> HIDE DEF created, shrunk
  <2>3. OwnedOnce(created \ PointersOf(records[s]), shrunk)
    BY ONLY <1>1, <2>1, <2>2, ShrunkOwnedOnce
  <2> QED  BY <1>2, <2>3, OwnershipOwnedOnceNext DEF created, shrunk
<1> QED  BY <1>3, <1>4, <1>5 DEF HeapInv

LEMMA ShrunkValue ==
  ASSUME HeapInv, NEW s, Shrinks(s)
  PROVE  \A t \in DOMAIN records' : t # s => Value(t)' = Value(t)
<1> SUFFICES ASSUME NEW t \in DOMAIN records', t # s
             PROVE  Value(t)' = Value(t)
  OBVIOUS
<1>1. t \in DOMAIN records /\ s \in DOMAIN records /\ records'[t] = records[t]
  BY DEF Shrinks, Alive
<1>2. Owned(t) \cap Owned(s) = {}
  BY <1>1 DEF HeapInv, Ownership
<1>3. ASSUME NEW i \in 1 .. Len(records[t])
      PROVE  heap'[records[t][i]] = heap[records[t][i]]
  <2>1. records[t][i] \in DOMAIN heap
    BY <1>1, ValueTyped
  <2>2. records[t][i] \notin Owned(s)
    BY <1>2 DEF Owned
  <2> QED  BY <2>1, <2>2 DEF Shrinks, Delete
<1>4. Value(t)' = [i \in 1 .. Len(records'[t]) |-> heap'[records'[t][i]]]
  BY DEF Value
<1>5. Value(t) = [i \in 1 .. Len(records[t]) |-> heap[records[t][i]]]
  BY DEF Value
<1> QED  BY <1>1, <1>3, <1>4, <1>5
-----------------------------------------------------------------------------
(* The steps, as growing and shrinking messages. *)

LEMMA FreshGrows ==
  ASSUME HeapInv, NEW s \in Slots, NEW values \in Seq(Records),
         Room(Len(values)),
         heap' = Create(Fresh(Len(values)), values),
         DOMAIN records' = DOMAIN records \cup {s},
         records'[s] = ArrayOf(s) \o Fresh(Len(values)),
         \A t \in DOMAIN records : t # s => records'[t] = records[t]
  PROVE  Grows(s, Fresh(Len(values)), values)
<1> DEFINE n == Len(values)
<1>1. n \in Nat
  BY LenProperties
<1>2. /\ Fresh(n) \in Seq(Pointers) /\ Len(Fresh(n)) = n
      /\ IsInjective(Fresh(n)) /\ PointersOf(Fresh(n)) \cap DOMAIN heap = {}
  BY <1>1, FreshArray
<1>3. /\ DOMAIN heap' = DOMAIN heap \cup PointersOf(Fresh(n))
      /\ \A p \in DOMAIN heap : heap'[p] = heap[p]
      /\ \A i \in 1 .. n : heap'[Fresh(n)[i]] = values[i]
  BY <1>1, CreatedHeap
<1> HIDE DEF n
<1> QED  BY <1>2, <1>3 DEF Grows, n

\* A new message without records.
LEMMA NewGrows ==
  ASSUME HeapInv, NEW s \in Slots, ~Alive(s),
         records' = With(s, << >>), heap' = heap
  PROVE  Grows(s, << >>, << >>)
<1>1. /\ << >> \in Seq(Pointers) /\ << >> \in Seq(Records) /\ Len(<< >>) = 0
      /\ IsInjective(<< >>) /\ PointersOf(<< >>) = {} /\ 1 .. 0 = {}
  BY EmptySeq DEF IsInjective, PointersOf
<1>2. << >> \o << >> = << >>
  BY ConcatEmptySeq, <1>1
<1>3. /\ DOMAIN records' = DOMAIN records \cup {s} /\ records'[s] = << >>
      /\ \A t \in DOMAIN records : t # s => records'[t] = records[t]
  BY DEF With
<1>4. records'[s] = ArrayOf(s) \o << >>
  BY <1>2, <1>3 DEF ArrayOf
<1>5. \A i \in 1 .. 0 : heap'[<< >>[i]] = << >>[i]
  BY <1>1
<1> QED  BY <1>1, <1>3, <1>4, <1>5 DEF Grows

LEMMA OneRecord ==
  ASSUME NEW r \in Records
  PROVE  <<r>> \in Seq(Records) /\ Len(<<r>>) = 1 /\ <<r>>[1] = r
OBVIOUS

LEMMA AddRecordGrows ==
  ASSUME HeapInv, NEW s \in Slots, NEW r \in NewRecords, AddRecord(s, r)
  PROVE  \/ UNCHANGED <<heap, records>>
         \/ /\ Len(records[s]) < MAX_NDEF_RECORDS
            /\ Grows(s, Fresh(1), <<r>>)
<1>1. s \in DOMAIN records
  BY DEF AddRecord, Alive
<1>2. <<r>> \in Seq(Records) /\ Len(<<r>>) = 1
  BY MessageAssumption, OneRecord
<1>3. CASE Len(records[s]) < MAX_NDEF_RECORDS
  <2>1. /\ records' = [records EXCEPT ![s] = @ \o Fresh(1)]
        /\ heap' = Create(Fresh(1), <<r>>) /\ Room(1)
    BY <1>3 DEF AddRecord
  <2>2. /\ DOMAIN records' = DOMAIN records \cup {s}
        /\ records'[s] = ArrayOf(s) \o Fresh(1)
        /\ \A t \in DOMAIN records : t # s => records'[t] = records[t]
    BY <1>1, <2>1 DEF ArrayOf, Alive
  <2>3. Grows(s, Fresh(1), <<r>>)
    <3> DEFINE values == <<r>>
    <3>1. values \in Seq(Records) /\ Len(values) = 1
      BY <1>2
    <3>2. heap' = Create(Fresh(1), values)
      BY <2>1
    <3> HIDE DEF values
    <3>3. Grows(s, Fresh(Len(values)), values)
      BY <2>1, <2>2, <3>1, <3>2, FreshGrows
    <3> QED  BY <3>1, <3>3 DEF values
  <2> QED  BY <1>3, <2>3
<1>4. CASE ~(Len(records[s]) < MAX_NDEF_RECORDS)
  BY <1>4 DEF AddRecord
<1> QED  BY <1>3, <1>4

\* What the copy constructor copies: the value of the other message, cut
\* at the length of the array.
LEMMA CopiedPart ==
  ASSUME HeapInv, NEW rhs \in DOMAIN records
  PROVE  /\ Copied(rhs) \in Seq(Records)
         /\ Len(Copied(rhs)) <= MAX_NDEF_RECORDS
         /\ Len(Copied(rhs)) <= Len(Value(rhs))
         /\ \A i \in 1 .. Len(Copied(rhs)) : Copied(rhs)[i] = Value(rhs)[i]
<1> DEFINE v == Value(rhs)
           m == IF Len(records[rhs]) < MAX_NDEF_RECORDS
                  THEN Len(records[rhs]) ELSE MAX_NDEF_RECORDS
<1>1. v \in Seq(Records) /\ Len(v) = Len(records[rhs]) /\ Len(v) \in Nat
  BY ValueTyped
<1>2. m \in Nat /\ m <= Len(v) /\ m <= MAX_NDEF_RECORDS
  BY <1>1, MessageAssumption
<1>3. Copied(rhs) = SubSeq(v, 1, m)
  BY DEF Copied
<1> HIDE DEF v, m
<1>4. /\ SubSeq(v, 1, m) \in Seq(Records) /\ Len(SubSeq(v, 1, m)) = m
      /\ \A i \in 1 .. m : SubSeq(v, 1, m)[i] = v[i]
  BY <1>1, <1>2
<1> QED  BY <1>2, <1>3, <1>4 DEF v

LEMMA CopyGrows ==
  ASSUME HeapInv, NEW s \in Slots, NEW rhs \in Slots, Copy(s, rhs)
  PROVE  /\ ~Alive(s) /\ rhs \in DOMAIN records
         /\ Grows(s, Fresh(Len(Copied(rhs))), Copied(rhs))
<1> DEFINE values == Copied(rhs)
           fresh == Fresh(Len(values))
<1>1. /\ ~Alive(s) /\ rhs \in DOMAIN records /\ Room(Len(values))
      /\ records' = With(s, fresh) /\ heap' = Create(fresh, values)
  BY DEF Copy, Alive
<1>2. values \in Seq(Records) /\ Len(values) \in Nat
  BY <1>1, CopiedPart, LenProperties
<1> HIDE DEF values
<1>3. fresh \in Seq(Pointers)
  BY <1>1, <1>2, FreshArray
<1>4. /\ DOMAIN records' = DOMAIN records \cup {s} /\ records'[s] = fresh
      /\ \A t \in DOMAIN records : t # s => records'[t] = records[t]
  BY <1>1 DEF With
<1>5. records'[s] = ArrayOf(s) \o fresh
  BY <1>1, <1>3, <1>4, ConcatEmptySeq DEF ArrayOf
<1>6. Grows(s, Fresh(Len(values)), values)
  BY <1>1, <1>2, <1>4, <1>5, FreshGrows
<1> QED  BY <1>1, <1>6 DEF values

LEMMA AssignShrinks ==
  ASSUME HeapInv, NEW s \in Slots, NEW rhs \in Slots, Assign(s, rhs)
  PROVE  Shrinks(s)
BY DEF Assign, Shrinks, Alive

LEMMA DestroyShrinks ==
  ASSUME HeapInv, NEW s \in Slots, Destroy(s)
  PROVE  Shrinks(s) /\ s \notin DOMAIN records'
BY DEF Destroy, Shrinks, Alive

LEMMA DecodeRecordGrows ==
  ASSUME IInv, DecodeRecord
  PROVE  LET d == Decoded(buffer, decoding.at)
         IN  /\ d.record \in Records /\ d.next \in Nat
             /\ decoding.slot \in DOMAIN records
             /\ Grows(decoding.slot, Fresh(1), <<d.record>>)
<1> DEFINE d == Decoded(buffer, decoding.at)
           s == decoding.slot
<1>1. /\ s \in DOMAIN records /\ s \in Slots /\ decoding.at \in Nat
      /\ buffer \in Seq(Byte)
  BY DEF DecodeRecord, IInv, HeapInv, ArraysTyped, DecodingTyped
<1>2. d.record \in Records /\ d.next \in Nat
  BY <1>1, DecodingMakesRecords
<1>3. /\ records' = [records EXCEPT ![s] = @ \o Fresh(1)] /\ Room(1)
      /\ heap' = Create(Fresh(1), <<d.record>>)
  BY DEF DecodeRecord
<1> HIDE DEF d, s
<1>4. /\ DOMAIN records' = DOMAIN records \cup {s}
      /\ records'[s] = ArrayOf(s) \o Fresh(1)
      /\ \A t \in DOMAIN records : t # s => records'[t] = records[t]
  BY <1>1, <1>3 DEF ArrayOf, Alive
<1> DEFINE values == <<d.record>>
<1>5. values \in Seq(Records) /\ Len(values) = 1
  BY <1>2, OneRecord
<1>6. heap' = Create(Fresh(1), values)
  BY <1>3
<1> HIDE DEF values
<1>7. HeapInv
  BY DEF IInv
<1>8. Grows(s, Fresh(Len(values)), values)
  BY <1>1, <1>3, <1>4, <1>5, <1>6, <1>7, FreshGrows
<1>9. Grows(s, Fresh(1), values)
  BY <1>5, <1>8
<1> QED  BY <1>1, <1>2, <1>9 DEF values, d, s
-----------------------------------------------------------------------------
(***************************************************************************)
(* Every message owns its records, and its size is that of its encoding,   *)
(* whatever the data and the records are.                                  *)
(***************************************************************************)
LEMMA EncodedTyped ==
  ASSUME HeapInv, NEW s \in DOMAIN records
  PROVE  Encoded(s) \in Seq(Byte) /\ Len(Encoded(s)) = Size(s)
<1>1. Value(s) \in Seq(Records)
  BY ValueTyped
<1> QED  BY <1>1, MessageHasItsSize DEF Encoded, Size

LEMMA UnchangedHeap ==
  ASSUME HeapInv, UNCHANGED <<heap, records>>
  PROVE  /\ HeapInv'
         /\ \A t \in DOMAIN records : Value(t)' = Value(t)
<1>1. HeapTyped' /\ ArraysTyped'
  BY DEF HeapInv, HeapTyped, ArraysTyped
<1>2. Ownership'
  <2>1. heap' = heap /\ records' = records
    OBVIOUS
  <2>2. \A s : Owned(s)' = Owned(s)
    BY <2>1 DEF Owned
  <2> QED  BY <2>1, <2>2 DEF HeapInv, Ownership
<1> QED  BY <1>1, <1>2 DEF HeapInv, Value

LEMMA IInvInit == Init => IInv
<1> SUFFICES ASSUME Init PROVE IInv
  OBVIOUS
<1>1. DOMAIN heap = {} /\ DOMAIN records = {}
  BY DEF Init
<1>2. HeapInv
  BY <1>1 DEF HeapInv, HeapTyped, ArraysTyped, Ownership
<1>3. DecodingTyped
  BY MessageAssumption DEF Init, DecodingTyped, NotDecoding
<1> QED  BY <1>2, <1>3 DEF IInv

LEMMA IInvStep == IInv /\ [Next]_vars => IInv'
<1> SUFFICES ASSUME IInv, [Next]_vars PROVE IInv'
  OBVIOUS
<1>1. HeapInv /\ DecodingTyped
  BY DEF IInv
<1>2. ASSUME UNCHANGED <<buffer, decoding>>, DOMAIN records \subseteq DOMAIN records'
      PROVE  DecodingTyped'
  BY <1>1, <1>2 DEF DecodingTyped
<1>3. ASSUME UNCHANGED <<buffer, decoding>>, decoding = NotDecoding
      PROVE  DecodingTyped'
  BY <1>1, <1>3 DEF DecodingTyped
<1>4. ASSUME NEW s \in Slots, Construct(s) PROVE IInv'
  <2>1. Grows(s, << >>, << >>)
    BY <1>1, <1>4, NewGrows DEF Construct
  <2>2. HeapInv'
    BY <1>1, <2>1, GrownHeap
  <2>3. DecodingTyped'
    BY <1>3, <1>4 DEF Construct, Calls
  <2> QED  BY <2>2, <2>3 DEF IInv
<1>5. ASSUME NEW s \in Slots, Encode(s) PROVE IInv'
  <2>1. HeapInv'
    BY <1>1, <1>5, UnchangedHeap DEF Encode
  <2>2. s \in DOMAIN records
    BY <1>5 DEF Encode, Alive
  <2>3. buffer' \in Seq(Byte)
    BY <1>1, <1>5, <2>2, EncodedTyped DEF Encode
  <2>4. DecodingTyped'
    BY <1>1, <1>5, <2>3 DEF DecodingTyped, Encode, Calls
  <2> QED  BY <2>1, <2>4 DEF IInv
<1>6. ASSUME NEW s \in Slots, StartDecode(s) PROVE IInv'
  <2>1. Grows(s, << >>, << >>)
    BY <1>1, <1>6, NewGrows DEF StartDecode
  <2>2. HeapInv'
    BY <1>1, <2>1, GrownHeap
  <2>3. s \in DOMAIN records'
    BY <2>1 DEF Grows
  <2>4. DecodingTyped'
    BY <1>1, <1>6, <2>3 DEF DecodingTyped, StartDecode
  <2> QED  BY <2>2, <2>4 DEF IInv
<1>7. ASSUME NEW s \in Slots, Destroy(s) PROVE IInv'
  <2>1. HeapInv'
    BY <1>1, <1>7, DestroyShrinks, ShrunkHeap
  <2>2. DecodingTyped'
    BY <1>3, <1>7 DEF Destroy, Calls
  <2> QED  BY <2>1, <2>2 DEF IInv
<1>8. ASSUME NEW s \in Slots, NEW r \in NewRecords, AddRecord(s, r) PROVE IInv'
  <2>1. HeapInv'
    <3>1. CASE UNCHANGED <<heap, records>>
      BY <1>1, <3>1, UnchangedHeap
    <3>2. CASE Grows(s, Fresh(1), <<r>>)
      BY <1>1, <3>2, GrownHeap
    <3> QED  BY <1>1, <1>8, <3>1, <3>2, AddRecordGrows
  <2>2. DecodingTyped'
    BY <1>3, <1>8 DEF AddRecord, Calls
  <2> QED  BY <2>1, <2>2 DEF IInv
<1>9. ASSUME NEW s \in Slots, NEW rhs \in Slots, Copy(s, rhs) PROVE IInv'
  <2>1. HeapInv'
    BY <1>1, <1>9, CopyGrows, GrownHeap
  <2>2. DecodingTyped'
    BY <1>3, <1>9 DEF Copy, Calls
  <2> QED  BY <2>1, <2>2 DEF IInv
<1>10. ASSUME NEW s \in Slots, NEW rhs \in Slots, Assign(s, rhs) PROVE IInv'
  <2>1. HeapInv'
    BY <1>1, <1>10, AssignShrinks, ShrunkHeap
  <2>2. DecodingTyped'
    BY <1>3, <1>10 DEF Assign, Calls
  <2> QED  BY <2>1, <2>2 DEF IInv
<1>11. ASSUME DecodeRecord PROVE IInv'
  <2> DEFINE d == Decoded(buffer, decoding.at)
             s == decoding.slot
  <2>1. /\ s \in DOMAIN records /\ Grows(s, Fresh(1), <<d.record>>)
        /\ d.next \in Nat
    BY <1>11, DecodeRecordGrows
  <2>2. decoding' = IF d.last THEN NotDecoding
                    ELSE [decoding EXCEPT !.at = d.next]
    BY <1>11 DEF DecodeRecord
  <2> HIDE DEF d
  <2>3. HeapInv'
    BY <1>1, <2>1, GrownHeap
  <2>4. s \in DOMAIN records'
    BY <2>1 DEF Grows
  <2>5. DecodingTyped'
    <3>1. buffer' = buffer
      BY <1>11 DEF DecodeRecord
    <3>2. decoding \in [slot : Slots \cup {"none"}, at : Nat]
      BY <1>1 DEF DecodingTyped
    <3>3. CASE d.last
      BY <1>1, <2>2, <3>1, <3>3 DEF DecodingTyped, NotDecoding
    <3>4. CASE ~d.last
      <4>1. decoding' = [slot |-> s, at |-> d.next]
        BY <2>2, <3>2, <3>4
      <4> QED  BY <1>1, <2>1, <2>4, <3>1, <3>2, <4>1 DEF DecodingTyped
    <3> QED  BY <3>3, <3>4
  <2> QED  BY <2>3, <2>5 DEF IInv
<1>12. ASSUME EndDecode PROVE IInv'
  <2>1. HeapInv'
    BY <1>1, <1>12, UnchangedHeap DEF EndDecode
  <2>2. DecodingTyped'
    BY <1>1, <1>12 DEF EndDecode, DecodingTyped, NotDecoding
  <2> QED  BY <2>1, <2>2 DEF IInv
<1>13. CASE UNCHANGED vars
  <2>1. UNCHANGED <<heap, records>> /\ UNCHANGED <<buffer, decoding>>
    BY <1>13 DEF vars
  <2> QED  BY <1>1, <1>2, <2>1, UnchangedHeap DEF IInv
<1> QED  BY <1>4, <1>5, <1>6, <1>7, <1>8, <1>9, <1>10, <1>11, <1>12, <1>13
         DEF Next

THEOREM HeapInvariance == Spec => []IInv
BY IInvInit, IInvStep, PTL DEF Spec

\* No method leaks a record, deletes it twice or leaves it in two messages,
\* whatever is decoded, copied and assigned in whatever order.
THEOREM RecordsOwned == Spec => []Ownership
<1>1. IInv => Ownership
  BY DEF IInv, HeapInv
<1> QED  BY <1>1, HeapInvariance, PTL

\* encode writes exactly the bytes that getEncodedSize counts.
THEOREM SizeExact == Spec => []SizeIsExact
<1>1. IInv => SizeIsExact
  BY EncodedTyped DEF IInv, SizeIsExact
<1> QED  BY <1>1, HeapInvariance, PTL

\* Heap, arrays and buffer keep their types, whatever data are decoded.
THEOREM HeapTypes == Spec => []HeapTypeOK
<1>1. IInv => HeapTypeOK
  BY DEF IInv, HeapInv, HeapTyped, ArraysTyped, DecodingTyped, HeapTypeOK
<1> QED  BY <1>1, HeapInvariance, PTL

\* A message that grows from no record has those that are added, and nothing
\* is overfilled when these fit.
LEMMA GrownBound ==
  ASSUME HeapInv, NEW s, NEW fresh, NEW values, Grows(s, fresh, values),
         Len(ArrayOf(s)) + Len(values) <= MAX_NDEF_RECORDS
  PROVE  \A t \in DOMAIN records' :
           \/ Len(records'[t]) <= MAX_NDEF_RECORDS
           \/ t \in DOMAIN records /\ records'[t] = records[t]
<1>1. /\ ArrayOf(s) \in Seq(Pointers) /\ fresh \in Seq(Pointers)
      /\ Len(fresh) = Len(values)
  BY ArrayOfTyped DEF Grows
<1>2. Len(ArrayOf(s) \o fresh) = Len(ArrayOf(s)) + Len(values)
  BY <1>1, ConcatProperties
<1>3. Len(records'[s]) <= MAX_NDEF_RECORDS
  BY <1>2 DEF Grows
<1> QED  BY <1>3 DEF Grows

\* Only the decoder puts more records into an array than it has room for,
\* whatever data are received, copied and assigned.
THEOREM OnlyTheDecoderOverfills == Spec => OnlyDecoderOverfills
<1> DEFINE Kept(t) ==
             \/ Len(records'[t]) <= MAX_NDEF_RECORDS
             \/ decoding # NotDecoding /\ t = decoding.slot
             \/ t \in DOMAIN records /\ records'[t] = records[t]
<1>1. IInv /\ [Next]_vars => \A t \in DOMAIN records' : Kept(t)
  <2> SUFFICES ASSUME IInv, [Next]_vars, NEW t \in DOMAIN records'
               PROVE  Kept(t)
    OBVIOUS
  <2>1. HeapInv /\ MAX_NDEF_RECORDS \in Nat /\ MAX_NDEF_RECORDS >= 1
    BY MessageAssumption DEF IInv
  <2>2. ASSUME NEW s \in Slots, ~Alive(s), records' = With(s, << >>)
        PROVE  Kept(t)
    <3>1. records'[s] = << >> /\ Len(<< >>) = 0
      BY <2>2, EmptySeq DEF With
    <3> QED  BY <2>1, <2>2, <3>1 DEF With
  <2>3. ASSUME NEW s \in Slots, Construct(s) \/ StartDecode(s)
        PROVE  Kept(t)
    BY <2>2, <2>3 DEF Construct, StartDecode
  <2>4. ASSUME NEW s \in Slots, Encode(s)
        PROVE  Kept(t)
    BY <2>4 DEF Encode
  <2>5. ASSUME NEW s \in Slots, Shrinks(s)
        PROVE  Kept(t)
    <3>1. Len(<< >>) = 0
      BY EmptySeq
    <3> QED  BY <2>1, <2>5, <3>1 DEF Shrinks
  <2>6. ASSUME NEW s \in Slots, NEW r \in NewRecords, AddRecord(s, r)
        PROVE  Kept(t)
    <3>1. CASE UNCHANGED <<heap, records>>
      BY <3>1
    <3>2. CASE /\ Len(records[s]) < MAX_NDEF_RECORDS
               /\ Grows(s, Fresh(1), <<r>>)
      <4>1. Alive(s) /\ s \in DOMAIN records
        BY <2>6 DEF AddRecord, Alive
      <4>2. Len(<<r>>) = 1
        OBVIOUS
      <4>3. Len(ArrayOf(s)) + Len(<<r>>) <= MAX_NDEF_RECORDS
        BY <2>1, <3>2, <4>1, <4>2, ValueTyped DEF ArrayOf
      <4> QED  BY <2>1, <3>2, <4>3, GrownBound
    <3> QED  BY <2>1, <2>6, <3>1, <3>2, AddRecordGrows
  <2>7. ASSUME NEW s \in Slots, NEW rhs \in Slots, Copy(s, rhs)
        PROVE  Kept(t)
    <3>1. /\ ~Alive(s) /\ rhs \in DOMAIN records
          /\ Grows(s, Fresh(Len(Copied(rhs))), Copied(rhs))
      BY <2>1, <2>7, CopyGrows
    <3>2. Copied(rhs) \in Seq(Records) /\ Len(Copied(rhs)) <= MAX_NDEF_RECORDS
      BY <2>1, <3>1, CopiedPart
    <3>3. Len(Copied(rhs)) \in Nat /\ Len(ArrayOf(s)) = 0
      BY <3>1, <3>2, LenProperties, EmptySeq DEF ArrayOf
    <3>4. Len(ArrayOf(s)) + Len(Copied(rhs)) <= MAX_NDEF_RECORDS
      BY <2>1, <3>2, <3>3
    <3> QED  BY <2>1, <3>1, <3>4, GrownBound
  <2>8. CASE DecodeRecord
    BY <2>8 DEF DecodeRecord
  <2>9. CASE EndDecode
    BY <2>9 DEF EndDecode
  <2>10. CASE UNCHANGED vars
    BY <2>10 DEF vars
  <2>11. ASSUME NEW s \in Slots, Destroy(s)
         PROVE  Kept(t)
    BY <2>1, <2>5, <2>11, DestroyShrinks
  <2>12. ASSUME NEW s \in Slots, NEW rhs \in Slots, Assign(s, rhs)
         PROVE  Kept(t)
    BY <2>1, <2>5, <2>12, AssignShrinks
  <2> HIDE DEF Kept
  <2> QED  BY <2>3, <2>4, <2>6, <2>7, <2>8, <2>9, <2>10, <2>11, <2>12 DEF Next
<1>2. IInv /\ [Next]_vars => [OverfullByDecoder]_vars
  <2> SUFFICES ASSUME IInv, [Next]_vars, NEW t \in DOMAIN records',
                      Len(records'[t]) > MAX_NDEF_RECORDS
               PROVE  \/ decoding # NotDecoding /\ t = decoding.slot
                      \/ t \in DOMAIN records /\ records'[t] = records[t]
    BY DEF OverfullByDecoder
  <2>1. IInv'
    BY IInvStep
  <2>2. records'[t] \in Seq(Pointers)
    BY <2>1 DEF IInv, HeapInv, ArraysTyped
  <2>3. Len(records'[t]) \in Nat /\ MAX_NDEF_RECORDS \in Nat
    BY <2>2, LenProperties, MessageAssumption
  <2>4. ~(Len(records'[t]) <= MAX_NDEF_RECORDS)
    BY <2>3
  <2> QED  BY <1>1, <2>4
<1> QED  BY <1>2, HeapInvariance, PTL DEF Spec, OnlyDecoderOverfills
-----------------------------------------------------------------------------
(***************************************************************************)
(* The loop of the decoder, on data that stand for the message v: after k  *)
(* records it has the first k of v and is at the end of the k-th.          *)
(***************************************************************************)
ReadSoFar(read, at, v, ends, length) ==
  /\ Len(read) <= Len(v) /\ at = ends[Len(read)]
  /\ Len(read) = Len(v) => at >= length
  /\ \A i \in 1 .. Len(read) : read[i] = v[i]

Reading(data, v, ends, read, at) ==
  /\ data \in Seq(Byte) /\ v \in Seq(Records) /\ read \in Seq(Records)
  /\ ends \in [0 .. Len(v) -> 0 .. Len(data)]
  /\ ReadsAs(data, v, ends)
  /\ ReadSoFar(read, at, v, ends, Len(data))

LEMMA SameSeq ==
  ASSUME NEW v \in Seq(Records), NEW w \in Seq(Records), Len(v) = Len(w),
         \A i \in 1 .. Len(w) : v[i] = w[i]
  PROVE  v = w
<1>1. v = [i \in 1 .. Len(v) |-> v[i]] /\ w = [i \in 1 .. Len(w) |-> w[i]]
  BY LenProperties
<1> QED  BY <1>1

LEMMA ReadStart ==
  \A data, v, ends :
    /\ data \in Seq(Byte) /\ v \in Seq(Records)
    /\ ends \in [0 .. Len(v) -> 0 .. Len(data)]
    /\ ReadsAs(data, v, ends)
    => ReadSoFar(<< >>, 0, v, ends, Len(data))
<1> TAKE data, v, ends
<1> HAVE /\ data \in Seq(Byte) /\ v \in Seq(Records)
         /\ ends \in [0 .. Len(v) -> 0 .. Len(data)]
         /\ ReadsAs(data, v, ends)
<1>1. Len(<< >>) = 0 /\ 1 .. 0 = {} /\ Len(v) \in Nat
  BY EmptySeq, LenProperties
<1>2. ends[0] = 0
  BY DEF ReadsAs
<1>3. Len(v) = 0 => ends[0] >= Len(data)
  BY DEF ReadsAs
<1> QED  BY <1>1, <1>2, <1>3 DEF ReadSoFar

LEMMA ReadOne ==
  \A data, v, ends, read, at :
    Reading(data, v, ends, read, at) /\ at < Len(data)
    => LET d == Decoded(data, at)
       IN  /\ Len(read) < Len(v)
           /\ Len(read) + 1 \in 1 .. Len(v)
           /\ d.record = v[Len(read) + 1]
           /\ d.next = ends[Len(read) + 1] /\ d.next <= Len(data)
           /\ d.last => Len(v) = Len(read) + 1
           /\ ~d.last /\ Len(v) = Len(read) + 1 => d.next >= Len(data)
<1> TAKE data, v, ends, read, at
<1> HAVE Reading(data, v, ends, read, at) /\ at < Len(data)
<1> DEFINE k == Len(read)
           n == Len(v)
           d == Decoded(data, at)
           l == Len(data)
<1>1. k \in Nat /\ n \in Nat /\ l \in Nat
  BY LenProperties DEF Reading
<1>2. k <= n /\ at = ends[k] /\ (k = n => at >= l) /\ at < l
  BY DEF Reading, ReadSoFar
<1>3. at \in Nat /\ \A i \in 0 .. n : ends[i] \in 0 .. l
  <2>1. \A i \in 0 .. n : ends[i] \in 0 .. l
    BY DEF Reading
  <2>2. k \in 0 .. n
    BY ONLY <1>1, <1>2
  <2> QED  BY <1>2, <2>1, <2>2
<1>4. k < n /\ k + 1 \in 1 .. n /\ (k + 1) - 1 = k /\ k + 1 \in 0 .. n
  BY ONLY <1>1, <1>2, <1>3
<1>5. /\ d.record = v[k + 1] /\ d.next = ends[k + 1]
      /\ d.last => k + 1 = n
  <2>1. \A i \in 1 .. n :
          /\ Decoded(data, ends[i - 1]).record = v[i]
          /\ Decoded(data, ends[i - 1]).next = ends[i]
          /\ Decoded(data, ends[i - 1]).last => i = n
    BY DEF Reading, ReadsAs
  <2> HIDE DEF k, n
  <2>2. /\ Decoded(data, ends[(k + 1) - 1]).record = v[k + 1]
        /\ Decoded(data, ends[(k + 1) - 1]).next = ends[k + 1]
        /\ Decoded(data, ends[(k + 1) - 1]).last => k + 1 = n
    BY ONLY <1>4, <2>1
  <2> QED  BY <1>2, <1>4, <2>2
<1>6. ends[k + 1] <= l
  BY <1>1, <1>3, <1>4, SMTT(30)
<1>7. ~d.last /\ n = k + 1 => d.next >= l
  <2> SUFFICES ASSUME ~d.last, n = k + 1 PROVE ends[n] >= l
    BY <1>5
  <2>1. ends[n] >= l \/ Decoded(data, ends[n - 1]).last
    BY DEF Reading, ReadsAs
  <2>2. n - 1 = k
    BY <1>1
  <2> QED  BY <1>2, <2>1, <2>2
<1> QED  BY <1>4, <1>5, <1>6, <1>7

LEMMA ReadOn ==
  \A data, v, ends, read, at :
    Reading(data, v, ends, read, at) /\ at < Len(data)
    => LET d == Decoded(data, at)
           now == read \o <<d.record>>
       IN  /\ d.last => now = v
           /\ ~d.last => ReadSoFar(now, d.next, v, ends, Len(data))
<1> TAKE data, v, ends, read, at
<1> HAVE Reading(data, v, ends, read, at) /\ at < Len(data)
<1> DEFINE k == Len(read)
           n == Len(v)
           d == Decoded(data, at)
           r == d.record
           now == read \o <<r>>
<1>1. k \in Nat /\ n \in Nat
  BY LenProperties DEF Reading
<1>2. /\ k < n /\ k + 1 \in 1 .. n /\ r = v[k + 1]
      /\ d.next = ends[k + 1]
      /\ d.last => n = k + 1
      /\ ~d.last /\ n = k + 1 => d.next >= Len(data)
  BY ReadOne
<1>3. v \in Seq(Records) /\ read \in Seq(Records) /\ r \in Records
  BY <1>2, ElementOfSeq DEF Reading
<1>4. \A i \in 1 .. k : read[i] = v[i]
  BY DEF Reading, ReadSoFar
<1> HIDE DEF k, n, d, r
<1>5. /\ now \in Seq(Records) /\ Len(now) = k + 1
      /\ \A i \in 1 .. k : now[i] = read[i]
      /\ now[k + 1] = r
  <2> DEFINE one == <<r>>
  <2>1. one \in Seq(Records) /\ Len(one) = 1 /\ one[1] = r /\ 1 \in 1 .. 1
    BY <1>3, OneRecord
  <2> HIDE DEF one
  <2>2. /\ read \o one \in Seq(Records) /\ Len(read \o one) = Len(read) + Len(one)
        /\ \A j \in 1 .. Len(read) : (read \o one)[j] = read[j]
        /\ \A j \in 1 .. Len(one) : (read \o one)[Len(read) + j] = one[j]
    BY ONLY <1>3, <2>1, JoinedRecords
  <2> QED  BY <2>1, <2>2 DEF one, k
<1> HIDE DEF now
<1>6. \A i \in 1 .. (k + 1) : now[i] = v[i]
  <2> TAKE i \in 1 .. (k + 1)
  <2>1. CASE i = k + 1
    BY <1>2, <1>5, <2>1
  <2>2. CASE i # k + 1
    <3>1. i \in 1 .. k
      BY ONLY <1>1, <2>2, i \in 1 .. (k + 1)
    <3> QED  BY <1>4, <1>5, <3>1
  <2> QED  BY <2>1, <2>2
<1>7. ASSUME d.last PROVE now = v
  <2>1. Len(now) = Len(v) /\ \A i \in 1 .. Len(v) : now[i] = v[i]
    BY <1>2, <1>5, <1>6, <1>7 DEF n
  <2> QED  BY <1>3, <1>5, <2>1, SameSeq
<1>8. ASSUME ~d.last PROVE ReadSoFar(now, d.next, v, ends, Len(data))
  <2>1. k + 1 <= n
    BY <1>1, <1>2
  <2> QED  BY <1>2, <1>5, <1>6, <1>8, <2>1 DEF ReadSoFar, n
<1> QED  BY <1>7, <1>8 DEF d, now, r

LEMMA ReadEnd ==
  \A data, v, ends, read, at :
    Reading(data, v, ends, read, at) /\ at >= Len(data) => read = v
<1> TAKE data, v, ends, read, at
<1> HAVE Reading(data, v, ends, read, at) /\ at >= Len(data)
<1> DEFINE k == Len(read)
           n == Len(v)
<1>1. k \in Nat /\ n \in Nat /\ Len(data) \in Nat
  BY LenProperties DEF Reading
<1>2. k <= n /\ at = ends[k]
  BY DEF Reading, ReadSoFar
<1>3. k = n
  <2> SUFFICES ASSUME k < n PROVE FALSE
    BY <1>1, <1>2
  <2>1. k + 1 \in 1 .. n /\ (k + 1) - 1 = k /\ k \in 0 .. n
    BY ONLY <1>1, k < n
  <2>2. \A i \in 1 .. n : ends[i - 1] < Len(data)
    BY DEF Reading, ReadsAs
  <2>3. ends[k] < Len(data)
    BY <2>1, <2>2
  <2>4. ends[k] \in Nat
    <3>1. ends[k] \in 0 .. Len(data)
      BY <2>1 DEF Reading
    <3> QED  BY <1>1, <3>1
  <2> QED  BY <1>1, <1>2, <2>3, <2>4
<1>4. \A i \in 1 .. Len(v) : read[i] = v[i]
  BY <1>3 DEF Reading, ReadSoFar
<1> QED  BY <1>3, <1>4, SameSeq DEF Reading
-----------------------------------------------------------------------------
(***************************************************************************)
(* Decoding, as the invariant of its loop: whatever message the buffer     *)
(* stands for, the message being decoded is the part of it before the      *)
(* index.                                                                  *)
(***************************************************************************)
ReadsPart(s, at) ==
  \A v \in Seq(Records) : \A ends \in [0 .. Len(v) -> 0 .. Len(buffer)] :
    ReadsAs(buffer, v, ends)
      => ReadSoFar(Value(s), at, v, ends, Len(buffer))

DecodeInv == \A s \in Slots :
  decoding # NotDecoding /\ s = decoding.slot => ReadsPart(s, decoding.at)

LEMMA DecodingSlot ==
  ASSUME IInv, decoding # NotDecoding
  PROVE  \E s \in Slots : /\ s = decoding.slot /\ s \in DOMAIN records
                          /\ decoding.at \in Nat
                          /\ decoding = [slot |-> s, at |-> decoding.at]
<1>1. /\ decoding.slot \in DOMAIN records /\ decoding.slot \in Slots
      /\ decoding.at \in Nat
      /\ decoding \in [slot : Slots \cup {"none"}, at : Nat]
  BY DEF IInv, HeapInv, ArraysTyped, DecodingTyped
<1> QED  BY <1>1

LEMMA PartIsReading ==
  ASSUME IInv, NEW s \in DOMAIN records, ReadsPart(s, decoding.at),
         NEW v \in Seq(Records), NEW ends \in [0 .. Len(v) -> 0 .. Len(buffer)],
         ReadsAs(buffer, v, ends)
  PROVE  Reading(buffer, v, ends, Value(s), decoding.at)
<1>1. Value(s) \in Seq(Records) /\ buffer \in Seq(Byte)
  BY ValueTyped DEF IInv, DecodingTyped
<1>2. ReadSoFar(Value(s), decoding.at, v, ends, Len(buffer))
  BY DEF ReadsPart
<1> QED  BY <1>1, <1>2 DEF Reading

\* A round of the loop: one more record, and then the end or the next round.
LEMMA DecodeRecordReads ==
  ASSUME IInv, DecodeRecord, NEW s \in Slots, s = decoding.slot,
         ReadsPart(s, decoding.at),
         NEW v \in Seq(Records), NEW ends \in [0 .. Len(v) -> 0 .. Len(buffer)],
         ReadsAs(buffer, v, ends)
  PROVE  /\ s \in DOMAIN records
         /\ Len(Value(s)) < Len(v)
         /\ DecodeEnded => Value(s)' = v
         /\ ~DecodeEnded =>
              /\ decoding'.slot = s
              /\ ReadSoFar(Value(s)', decoding'.at, v, ends, Len(buffer))
<1> DEFINE at == decoding.at
           d == Decoded(buffer, at)
<1>1. /\ d.record \in Records /\ d.next \in Nat /\ s \in DOMAIN records
      /\ Grows(s, Fresh(1), <<d.record>>)
  BY DecodeRecordGrows
<1>2. HeapInv /\ decoding \in [slot : Slots \cup {"none"}, at : Nat]
  BY DEF IInv, DecodingTyped
<1>3. decoding # NotDecoding /\ at < Len(buffer) /\ buffer' = buffer
  BY DEF DecodeRecord
<1>4. decoding' = IF d.last THEN NotDecoding ELSE [decoding EXCEPT !.at = d.next]
  BY DEF DecodeRecord
<1>5. Reading(buffer, v, ends, Value(s), at)
  BY <1>1, PartIsReading
<1> DEFINE read == Value(s)
           now == Value(s)'
<1> HIDE DEF at, read, now
<1>6. /\ Len(read) < Len(v)
      /\ d.last => read \o <<d.record>> = v
      /\ ~d.last => ReadSoFar(read \o <<d.record>>, d.next, v, ends, Len(buffer))
  <2>1. Reading(buffer, v, ends, read, at) /\ at < Len(buffer)
    BY <1>3, <1>5 DEF read
  <2>2. Len(read) < Len(v)
    BY ONLY <2>1, ReadOne
  <2>3. /\ d.last => read \o <<d.record>> = v
        /\ ~d.last => ReadSoFar(read \o <<d.record>>, d.next, v, ends, Len(buffer))
    BY ONLY <2>1, ReadOn
  <2> QED  BY <2>2, <2>3
<1>7. now = read \o <<d.record>>
  <2> DEFINE values == <<d.record>>
             fresh == Fresh(1)
  <2>1. Grows(s, fresh, values)
    BY <1>1
  <2>2. ValueOf(s) = read
    BY <1>1 DEF ValueOf, Alive, read
  <2> HIDE DEF values, fresh
  <2>3. Value(s)' = ValueOf(s) \o values
    BY ONLY <1>2, <2>1, GrownValue
  <2> QED  BY <2>2, <2>3 DEF now, values
<1> HIDE DEF d
<1>8. CASE d.last
  <2>1. decoding' = NotDecoding
    BY <1>4, <1>8
  <2> QED  BY <1>1, <1>3, <1>6, <1>7, <1>8, <2>1 DEF DecodeEnded, read, now
<1>9. CASE ~d.last
  <2>1. decoding' = [slot |-> s, at |-> d.next]
    BY <1>2, <1>4, <1>9
  <2>2. s # "none"
    BY MessageAssumption
  <2>3. decoding' # NotDecoding
    <3>1. decoding'.slot = s
      BY <2>1
    <3>2. NotDecoding.slot = "none"
      BY DEF NotDecoding
    <3> QED  BY <2>2, <3>1, <3>2
  <2> QED  BY <1>1, <1>6, <1>7, <1>9, <2>1, <2>3 DEF DecodeEnded, read, now
<1> QED  BY <1>8, <1>9

LEMMA EndDecodeReads ==
  ASSUME IInv, EndDecode, NEW s \in Slots, s = decoding.slot,
         ReadsPart(s, decoding.at),
         NEW v \in Seq(Records), NEW ends \in [0 .. Len(v) -> 0 .. Len(buffer)],
         ReadsAs(buffer, v, ends)
  PROVE  s \in DOMAIN records /\ Value(s)' = v
<1>1. s \in DOMAIN records /\ HeapInv
  BY DEF IInv, DecodingTyped, EndDecode
<1>2. decoding.at >= Len(buffer) /\ UNCHANGED <<heap, records>>
  BY DEF EndDecode
<1>3. Value(s) = v
  BY <1>1, <1>2, PartIsReading, ReadEnd
<1>4. Value(s)' = Value(s)
  BY <1>1, <1>2, UnchangedHeap
<1> QED  BY <1>1, <1>3, <1>4

LEMMA DecodeInvInit == Init => DecodeInv
BY DEF Init, DecodeInv

LEMMA DecodeInvStep == IInv /\ DecodeInv /\ [Next]_vars => DecodeInv'
<1> SUFFICES ASSUME IInv, DecodeInv, [Next]_vars PROVE DecodeInv'
  OBVIOUS
<1>1. SUFFICES ASSUME NEW s \in Slots, decoding' # NotDecoding,
                      s = decoding'.slot
               PROVE  ReadsPart(s, decoding.at)'
  BY DEF DecodeInv, NotDecoding
<1>2. SUFFICES ASSUME NEW v \in Seq(Records),
                      NEW ends \in [0 .. Len(v) -> 0 .. Len(buffer')],
                      ReadsAs(buffer', v, ends)
               PROVE  ReadSoFar(Value(s)', decoding'.at, v, ends, Len(buffer'))
  BY DEF ReadsPart
<1>3. ASSUME NEW r \in Slots, StartDecode(r)
      PROVE  ReadSoFar(Value(s)', decoding'.at, v, ends, Len(buffer'))
  <2>1. /\ decoding' = [slot |-> r, at |-> 0] /\ buffer' = buffer
        /\ ~Alive(r) /\ records' = With(r, << >>) /\ heap' = heap
    BY <1>3 DEF StartDecode
  <2>2. s = r /\ decoding'.at = 0
    BY <1>1, <2>1
  <2>3. Grows(s, << >>, << >>)
    BY <2>1, <2>2, NewGrows DEF IInv
  <2>4. Value(s)' = << >>
    <3>1. records'[s] = << >> /\ Len(<< >>) = 0 /\ 1 .. 0 = {}
      BY <2>1, <2>2, EmptySeq DEF With
    <3>2. Value(s)' = [i \in 1 .. Len(records'[s]) |-> heap'[records'[s][i]]]
      BY DEF Value
    <3>3. ValueOf(s) = << >> /\ << >> \in Seq(Records)
      BY <2>1, <2>2, EmptySeq DEF ValueOf
    <3>4. Value(s)' = ValueOf(s) \o << >>
      BY <2>3, GrownValue DEF IInv
    <3> QED  BY <3>3, <3>4, ConcatEmptySeq
  <2>5. ReadSoFar(<< >>, 0, v, ends, Len(buffer))
    BY <1>2, <2>1, ReadStart DEF IInv, DecodingTyped
  <2> QED  BY <2>1, <2>2, <2>4, <2>5
<1>4. ASSUME DecodeRecord
      PROVE  ReadSoFar(Value(s)', decoding'.at, v, ends, Len(buffer'))
  <2>1. decoding # NotDecoding /\ buffer' = buffer
    BY <1>4 DEF DecodeRecord
  <2>2. PICK r \in Slots : r = decoding.slot
    BY <2>1, DecodingSlot
  <2>3. ReadsPart(r, decoding.at)
    BY <2>1, <2>2 DEF DecodeInv
  <2>4. ~DecodeEnded
    BY <1>1 DEF DecodeEnded
  <2>5. ends \in [0 .. Len(v) -> 0 .. Len(buffer)] /\ ReadsAs(buffer, v, ends)
    BY <1>2, <2>1
  <2>6. /\ decoding'.slot = r
        /\ ReadSoFar(Value(r)', decoding'.at, v, ends, Len(buffer))
    BY <1>4, <2>2, <2>3, <2>4, <2>5, DecodeRecordReads
  <2>7. r = s
    BY <1>1, <2>6
  <2> QED  BY <2>1, <2>6, <2>7
<1>5. ASSUME UNCHANGED vars
      PROVE  ReadSoFar(Value(s)', decoding'.at, v, ends, Len(buffer'))
  <2>1. /\ decoding' = decoding /\ buffer' = buffer
        /\ heap' = heap /\ records' = records
    BY <1>5 DEF vars
  <2>2. ReadsPart(s, decoding.at)
    BY <1>1, <2>1 DEF DecodeInv
  <2>3. ReadSoFar(Value(s), decoding.at, v, ends, Len(buffer))
    BY <1>2, <2>1, <2>2 DEF ReadsPart
  <2>4. Value(s)' = Value(s)
    BY <2>1 DEF Value
  <2> QED  BY <2>1, <2>3, <2>4
<1>6. ASSUME NEW r \in Slots, Construct(r) \/ Encode(r) \/ Destroy(r)
      PROVE  decoding' = NotDecoding
  BY <1>6 DEF Construct, Encode, Destroy, Calls
<1>7. ASSUME NEW r \in Slots, NEW new \in NewRecords, AddRecord(r, new)
      PROVE  decoding' = NotDecoding
  BY <1>7 DEF AddRecord, Calls
<1>8. ASSUME NEW r \in Slots, NEW rhs \in Slots, Copy(r, rhs) \/ Assign(r, rhs)
      PROVE  decoding' = NotDecoding
  BY <1>8 DEF Copy, Assign, Calls
<1>9. ASSUME EndDecode PROVE decoding' = NotDecoding
  BY <1>9 DEF EndDecode
<1> QED  BY <1>1, <1>3, <1>4, <1>5, <1>6, <1>7, <1>8, <1>9 DEF Next

THEOREM DecodeInvariance == Spec => []DecodeInv
<1>1. IInv /\ Init => DecodeInv
  BY DecodeInvInit
<1> QED  BY <1>1, HeapInvariance, DecodeInvStep, PTL DEF Spec
-----------------------------------------------------------------------------
\* The message a decoding step ends with.
LEMMA EndedMessage ==
  ASSUME IInv, DecodeInv, Next, DecodeEnded,
         NEW s \in Slots, s = decoding.slot,
         NEW v \in Seq(Records), Readable(buffer, v)
  PROVE  Value(s)' = v
<1>1. decoding # NotDecoding /\ ReadsPart(s, decoding.at)
  BY DEF DecodeEnded, DecodeInv
<1>2. PICK ends \in [0 .. Len(v) -> 0 .. Len(buffer)] : ReadsAs(buffer, v, ends)
  BY DEF Readable
<1>3. DecodeRecord \/ EndDecode
  BY <1>1 DEF Next, Construct, Encode, StartDecode, Destroy, AddRecord, Copy,
              Assign, Calls
<1>4. CASE DecodeRecord
  BY <1>1, <1>2, <1>4, DecodeRecordReads
<1>5. CASE EndDecode
  BY <1>1, <1>2, <1>5, EndDecodeReads
<1> QED  BY <1>3, <1>4, <1>5

\* What encode wrote for a message can be read as that message.
LEMMA EncodedReadable ==
  ASSUME HeapInv, NEW s \in DOMAIN records,
         \A i \in 1 .. Len(Value(s)) : Encodable(Value(s)[i])
  PROVE  Value(s) \in Seq(Records) /\ Readable(Encoded(s), Value(s))
<1> DEFINE v == Value(s)
           ends == Ends(v)
           all == Data(v)[Len(v)]
<1>1. v \in Seq(Records)
  BY ValueTyped
<1>2. Encoded(s) = all
  BY DEF Encoded
<1>3. \A i \in 1 .. Len(v) : Encodable(v[i])
  OBVIOUS
<1> HIDE DEF v
<1>4. ends \in [0 .. Len(v) -> 0 .. Len(all)] /\ ReadsAs(all, v, ends)
  BY <1>1, <1>3, MessageReadBack
<1> HIDE DEF ends, all
<1>5. Readable(all, v)
  BY <1>4 DEF Readable
<1> QED  BY <1>1, <1>2, <1>5 DEF v

\* A message decoded from the encoding of another one is equal to it, and
\* the foreign encodings are decoded to what they mean.
THEOREM DecodingRoundTrip ==
  ASSUME WholeMessages
  PROVE  Spec => RoundTrip
<1>1. ASSUME IInv, DecodeInv, Next, DecodeEnded PROVE DecodedRight
  <2> SUFFICES ASSUME NEW d \in Slots, d = decoding.slot
               PROVE  /\ \A t \in DOMAIN records \ {d} :
                           /\ \A i \in DOMAIN records[t] : Encodable(Value(t)[i])
                           /\ Encoded(t) = buffer
                           => Value(d)' = Value(t)
                      /\ buffer \in ForeignData => Value(d)' = Meaning[buffer]
    BY DEF DecodedRight
  <2>1. \A v \in Seq(Records) : Readable(buffer, v) => Value(d)' = v
    BY <1>1, EndedMessage
  <2>2. ASSUME NEW t \in DOMAIN records \ {d},
               \A i \in DOMAIN records[t] : Encodable(Value(t)[i]),
               Encoded(t) = buffer
        PROVE  Value(d)' = Value(t)
    <3>1. Len(Value(t)) = Len(records[t]) /\ records[t] \in Seq(Pointers)
      BY <1>1, ValueTyped DEF IInv, HeapInv, ArraysTyped
    <3>2. DOMAIN records[t] = 1 .. Len(Value(t))
      BY <3>1, LenProperties
    <3>3. Value(t) \in Seq(Records) /\ Readable(Encoded(t), Value(t))
      BY <1>1, <2>2, <3>2, EncodedReadable DEF IInv
    <3> QED  BY <2>1, <2>2, <3>3
  <2>3. ASSUME buffer \in ForeignData PROVE Value(d)' = Meaning[buffer]
    <3>1. Meaning[buffer] \in Seq(Records) /\ Readable(buffer, Meaning[buffer])
      BY <2>3, MeaningAssumption DEF WholeMessages
    <3> QED  BY <2>1, <3>1
  <2> QED  BY <2>2, <2>3
<1>2. IInv /\ DecodeInv /\ [Next]_vars => [DecodeEnded => DecodedRight]_vars
  BY <1>1
<1> QED  BY <1>2, HeapInvariance, DecodeInvariance, PTL DEF Spec, RoundTrip
-----------------------------------------------------------------------------
(***************************************************************************)
(* The arrays hold what is stored in them, and the decoder stays inside    *)
(* its data, if what comes from elsewhere is whole and fits.               *)
(***************************************************************************)
MessagesFit == \A s \in DOMAIN records : Fits(Value(s))
BufferFits == \E v \in Seq(Records) : Fits(v) /\ Readable(buffer, v)

LEMMA AppendFits ==
  ASSUME NEW v \in Seq(Records), NEW r \in Records, Fits(v), Encodable(r),
         Len(v) < MAX_NDEF_RECORDS
  PROVE  Fits(v \o <<r>>)
<1> DEFINE one == <<r>>
           now == v \o one
<1>1. one \in Seq(Records) /\ Len(one) = 1 /\ one[1] = r /\ 1 \in 1 .. 1
  BY OneRecord
<1> HIDE DEF one
<1>2. /\ Len(now) = Len(v) + 1
      /\ \A j \in 1 .. Len(v) : now[j] = v[j]
      /\ now[Len(v) + 1] = r
  <2>1. /\ Len(v \o one) = Len(v) + Len(one)
        /\ \A j \in 1 .. Len(v) : (v \o one)[j] = v[j]
        /\ \A j \in 1 .. Len(one) : (v \o one)[Len(v) + j] = one[j]
    BY ONLY v \in Seq(Records), <1>1, JoinedRecords
  <2> QED  BY <1>1, <2>1
<1>3. Len(v) \in Nat
  BY LenProperties
<1>4. \A i \in 1 .. (Len(v) + 1) : i \in 1 .. Len(v) \/ i = Len(v) + 1
  BY ONLY <1>3
<1>5. Len(v) + 1 <= MAX_NDEF_RECORDS
  BY <1>3, MessageAssumption
<1> HIDE DEF now
<1>6. \A i \in 1 .. Len(now) : Encodable(now[i])
  BY <1>2, <1>4 DEF Fits
<1> QED  BY <1>2, <1>5, <1>6 DEF Fits, now, one

LEMMA EmptyFits == Fits(<< >>)
<1>1. Len(<< >>) = 0 /\ 1 .. 0 = {}
  BY EmptySeq
<1> QED  BY <1>1, MessageAssumption DEF Fits

LEMMA GrownFits ==
  ASSUME HeapInv, MessagesFit, NEW s, NEW fresh, NEW values,
         Grows(s, fresh, values), Fits(ValueOf(s) \o values)
  PROVE  MessagesFit'
<1>1. ASSUME NEW t \in DOMAIN records' PROVE Fits(Value(t)')
  <2>1. CASE t = s
    <3>1. Value(s)' = ValueOf(s) \o values
      BY GrownValue
    <3> QED  BY <2>1, <3>1
  <2>2. CASE t # s
    <3>1. t \in DOMAIN records
      BY <2>2 DEF Grows
    <3>2. Value(t)' = Value(t)
      BY <2>2, <3>1, GrownValue
    <3> QED  BY <3>1, <3>2 DEF MessagesFit
  <2> QED  BY <2>1, <2>2
<1> QED  BY <1>1 DEF MessagesFit, Fits

LEMMA ShrunkFits ==
  ASSUME HeapInv, MessagesFit, NEW s, Shrinks(s)
  PROVE  MessagesFit'
<1>1. ASSUME NEW t \in DOMAIN records' PROVE Fits(Value(t)')
  <2>1. CASE t = s
    <3>1. records'[s] = << >>
      BY <2>1 DEF Shrinks
    <3>2. Len(<< >>) = 0 /\ 1 .. 0 = {}
      BY EmptySeq
    <3>3. Value(s)' = [i \in 1 .. Len(records'[s]) |-> heap'[records'[s][i]]]
      BY DEF Value
    <3>4. Value(s)' = [i \in 1 .. 0 |-> heap'[records'[s][i]]]
      BY <3>1, <3>2, <3>3
    <3>5. Value(s)' = << >>
      BY <3>2, <3>4
    <3> QED  BY <2>1, <3>5, EmptyFits
  <2>2. CASE t # s
    <3>1. t \in DOMAIN records /\ Value(t)' = Value(t)
      BY <2>2, ShrunkValue DEF Shrinks
    <3> QED  BY <3>1 DEF MessagesFit
  <2> QED  BY <2>1, <2>2
<1> QED  BY <1>1 DEF MessagesFit, Fits

LEMMA UnchangedFits ==
  ASSUME HeapInv, MessagesFit, UNCHANGED <<heap, records>>
  PROVE  MessagesFit'
<1>1. ASSUME NEW t \in DOMAIN records' PROVE Fits(Value(t)')
  BY UnchangedHeap DEF MessagesFit
<1> QED  BY <1>1 DEF MessagesFit, Fits

LEMMA NewFits ==
  ASSUME HeapInv, MessagesFit, NEW s \in Slots, ~Alive(s),
         records' = With(s, << >>), heap' = heap
  PROVE  MessagesFit'
<1>1. Grows(s, << >>, << >>)
  BY NewGrows
<1>2. ValueOf(s) \o << >> = << >>
  <2>1. ValueOf(s) = << >> /\ << >> \in Seq(Records)
    BY EmptySeq DEF ValueOf
  <2> QED  BY <2>1, ConcatEmptySeq
<1>3. Fits(ValueOf(s) \o << >>)
  BY <1>2, EmptyFits
<1> QED  BY <1>1, <1>3, GrownFits

LEMMA FitInit ==
  ASSUME WholeMessages, Init
  PROVE  MessagesFit /\ BufferFits
<1>1. DOMAIN records = {} /\ buffer \in ForeignData
  BY DEF Init
<1>2. /\ Meaning[buffer] \in Seq(Records) /\ Fits(Meaning[buffer])
      /\ Readable(buffer, Meaning[buffer])
  BY <1>1, MeaningAssumption DEF WholeMessages
<1> QED  BY <1>1, <1>2 DEF MessagesFit, BufferFits

LEMMA FitStep ==
  ASSUME EncodableRecords, IInv, DecodeInv, MessagesFit, BufferFits, [Next]_vars
  PROVE  MessagesFit' /\ BufferFits'
<1>1. HeapInv
  BY DEF IInv
<1>2. buffer' = buffer => BufferFits'
  BY DEF BufferFits
<1>3. ASSUME NEW s \in Slots, Construct(s) \/ StartDecode(s)
      PROVE  MessagesFit' /\ BufferFits'
  BY <1>1, <1>2, <1>3, NewFits DEF Construct, StartDecode
<1>4. ASSUME NEW s \in Slots, Encode(s) PROVE MessagesFit' /\ BufferFits'
  <2>1. s \in DOMAIN records /\ buffer' = Encoded(s) /\ UNCHANGED <<heap, records>>
    BY <1>4 DEF Encode, Alive
  <2>2. Fits(Value(s))
    BY <2>1 DEF MessagesFit
  <2>3. Value(s) \in Seq(Records) /\ Readable(Encoded(s), Value(s))
    BY <1>1, <2>1, <2>2, EncodedReadable DEF Fits
  <2>4. Readable(buffer', Value(s))
    BY <2>1, <2>3
  <2>5. BufferFits'
    <3> DEFINE v == Value(s)
    <3>1. v \in Seq(Records) /\ Fits(v) /\ Readable(buffer', v)
      BY <2>2, <2>3, <2>4
    <3> HIDE DEF v
    <3> QED  BY <3>1 DEF BufferFits
  <2> QED  BY <1>1, <2>1, <2>5, UnchangedFits
<1>5. ASSUME NEW s \in Slots, Destroy(s) PROVE MessagesFit' /\ BufferFits'
  <2>1. MessagesFit'
    BY <1>1, <1>5, DestroyShrinks, ShrunkFits
  <2> QED  BY <1>2, <1>5, <2>1 DEF Destroy
<1>6. ASSUME NEW s \in Slots, NEW r \in NewRecords, AddRecord(s, r)
      PROVE  MessagesFit' /\ BufferFits'
  <2>1. CASE UNCHANGED <<heap, records>>
    BY <1>1, <1>2, <1>6, <2>1, UnchangedFits DEF AddRecord
  <2>2. CASE Len(records[s]) < MAX_NDEF_RECORDS /\ Grows(s, Fresh(1), <<r>>)
    <3>1. s \in DOMAIN records /\ r \in Records /\ Encodable(r)
      BY <1>6, MessageAssumption DEF AddRecord, Alive, EncodableRecords
    <3>2. /\ Value(s) \in Seq(Records) /\ Len(Value(s)) = Len(records[s])
          /\ Fits(Value(s)) /\ ValueOf(s) = Value(s)
      BY <1>1, <3>1, ValueTyped DEF MessagesFit, ValueOf, Alive
    <3>3. Fits(ValueOf(s) \o <<r>>)
      BY <2>2, <3>1, <3>2, AppendFits
    <3> QED  BY <1>1, <1>2, <1>6, <2>2, <3>3, GrownFits DEF AddRecord
  <2> QED  BY <1>1, <1>6, <2>1, <2>2, AddRecordGrows
<1>7. ASSUME NEW s \in Slots, NEW rhs \in Slots, Copy(s, rhs)
      PROVE  MessagesFit' /\ BufferFits'
  <2> DEFINE values == Copied(rhs)
  <2>1. /\ ~Alive(s) /\ rhs \in DOMAIN records
        /\ Grows(s, Fresh(Len(values)), values)
    BY <1>1, <1>7, CopyGrows
  <2>2. /\ values \in Seq(Records) /\ Len(values) <= MAX_NDEF_RECORDS
        /\ Len(values) <= Len(Value(rhs))
        /\ \A i \in 1 .. Len(values) : values[i] = Value(rhs)[i]
    BY <1>1, <2>1, CopiedPart
  <2> HIDE DEF values
  <2>3. Len(values) \in Nat /\ Len(Value(rhs)) \in Nat
    BY <1>1, <2>1, <2>2, ValueTyped, LenProperties
  <2>4. \A i \in 1 .. Len(values) : i \in 1 .. Len(Value(rhs))
    BY <2>2, <2>3
  <2>5. Fits(values)
    BY <2>1, <2>2, <2>4 DEF MessagesFit, Fits
  <2>6. ValueOf(s) \o values = values
    BY <2>1, <2>2, ConcatEmptySeq DEF ValueOf
  <2>7. MessagesFit'
    BY <1>1, <2>1, <2>5, <2>6, GrownFits
  <2> QED  BY <1>2, <1>7, <2>7 DEF Copy
<1>8. ASSUME NEW s \in Slots, NEW rhs \in Slots, Assign(s, rhs)
      PROVE  MessagesFit' /\ BufferFits'
  <2>1. MessagesFit'
    BY <1>1, <1>8, AssignShrinks, ShrunkFits
  <2> QED  BY <1>2, <1>8, <2>1 DEF Assign
<1>9. ASSUME DecodeRecord PROVE MessagesFit' /\ BufferFits'
  <2>1. decoding # NotDecoding /\ decoding.at < Len(buffer) /\ buffer' = buffer
    BY <1>9 DEF DecodeRecord
  <2>2. PICK s \in Slots : s = decoding.slot /\ s \in DOMAIN records
    BY <2>1, DecodingSlot
  <2>3. PICK v \in Seq(Records) : Fits(v) /\ Readable(buffer, v)
    BY DEF BufferFits
  <2>4. PICK ends \in [0 .. Len(v) -> 0 .. Len(buffer)] : ReadsAs(buffer, v, ends)
    BY <2>3 DEF Readable
  <2> DEFINE at == decoding.at
             r == Decoded(buffer, at).record
             read == Value(s)
             k == Len(read)
  <2>5. Reading(buffer, v, ends, read, at)
    BY <2>1, <2>2, <2>4, PartIsReading DEF DecodeInv
  <2>6. Grows(s, Fresh(1), <<r>>) /\ r \in Records
    BY <1>9, <2>2, DecodeRecordGrows
  <2> HIDE DEF at, read
  <2>7. k < Len(v) /\ k + 1 \in 1 .. Len(v) /\ r = v[k + 1]
    <3>1. at < Len(buffer)
      BY <2>1 DEF at
    <3> QED  BY ONLY <2>5, <3>1, ReadOne
  <2> HIDE DEF r
  <2>8. read \in Seq(Records) /\ Fits(read) /\ ValueOf(s) = read
    BY <1>1, <2>2, ValueTyped DEF MessagesFit, ValueOf, Alive, read
  <2>9. Encodable(r) /\ k < MAX_NDEF_RECORDS
    <3>1. Encodable(r) /\ Len(v) <= MAX_NDEF_RECORDS
      BY <2>3, <2>7 DEF Fits
    <3>2. Len(v) \in Nat /\ k \in Nat
      BY <2>8, LenProperties
    <3> QED  BY <2>7, <3>1, <3>2, MessageAssumption
  <2>10. Fits(ValueOf(s) \o <<r>>)
    BY <2>6, <2>8, <2>9, AppendFits
  <2> QED  BY <1>1, <1>2, <2>1, <2>6, <2>10, GrownFits
<1>10. ASSUME EndDecode PROVE MessagesFit' /\ BufferFits'
  BY <1>1, <1>2, <1>10, UnchangedFits DEF EndDecode
<1>11. ASSUME UNCHANGED vars PROVE MessagesFit' /\ BufferFits'
  <2>1. UNCHANGED <<heap, records>> /\ buffer' = buffer
    BY <1>11 DEF vars
  <2> QED  BY <1>1, <1>2, <2>1, UnchangedFits
<1> QED  BY <1>3, <1>4, <1>5, <1>6, <1>7, <1>8, <1>9, <1>10, <1>11 DEF Next

LEMMA FitInvariance ==
  ASSUME WholeMessages, EncodableRecords
  PROVE  Spec => [](MessagesFit /\ BufferFits)
<1>1. Init => MessagesFit /\ BufferFits
  BY FitInit
<1>2. IInv /\ DecodeInv /\ (MessagesFit /\ BufferFits) /\ [Next]_vars
        => (MessagesFit /\ BufferFits)'
  BY FitStep
<1> QED  BY <1>1, <1>2, HeapInvariance, DecodeInvariance, PTL DEF Spec

\* The decoder reads no byte behind the end of a whole message.
THEOREM DecoderStaysInside ==
  ASSUME WholeMessages, EncodableRecords
  PROVE  Spec => []StaysInside
<1>1. IInv /\ DecodeInv /\ BufferFits => StaysInside
  <2> SUFFICES ASSUME IInv, DecodeInv, BufferFits, decoding # NotDecoding,
                      decoding.at < Len(buffer)
               PROVE  ~OutOfData(buffer, decoding.at)
    BY DEF StaysInside
  <2>1. PICK s \in Slots : /\ s = decoding.slot /\ s \in DOMAIN records
                           /\ decoding.at \in Nat
    BY DecodingSlot
  <2>2. PICK v \in Seq(Records) : Readable(buffer, v)
    BY DEF BufferFits
  <2>3. PICK ends \in [0 .. Len(v) -> 0 .. Len(buffer)] : ReadsAs(buffer, v, ends)
    BY <2>2 DEF Readable
  <2> DEFINE at == decoding.at
             read == Value(s)
             l == Len(buffer)
  <2>4. Reading(buffer, v, ends, read, at) /\ at < l
    BY <2>1, <2>3, PartIsReading DEF DecodeInv
  <2>5. buffer \in Seq(Byte) /\ at \in Nat /\ l \in Nat
    BY <2>1, LenProperties DEF IInv, DecodingTyped
  <2> HIDE DEF at, read
  <2>6. Decoded(buffer, at).next <= l
    BY ONLY <2>4, ReadOne
  <2>7. Decoded(buffer, at).next \in Nat
    BY <2>5, DecodingMakesRecords
  <2> QED  BY <2>5, <2>6, <2>7 DEF OutOfData, at
<1> QED  BY <1>1, FitInvariance, HeapInvariance, DecodeInvariance, PTL
=============================================================================

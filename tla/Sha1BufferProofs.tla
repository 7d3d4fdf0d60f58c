--------------------------- MODULE Sha1BufferProofs ---------------------------
(***************************************************************************)
(* SHA1Result() gives the digest of the padded message, for every word     *)
(* size and every sequence of calls.                                       *)
(***************************************************************************)
EXTENDS Sha1Buffer, TLAPS

LEMMA InitInv == Init => IInv
<1> SUFFICES ASSUME Init PROVE IInv
  OBVIOUS
<1> USE WordAssumption DEF Init
<1>1. TypeOK
  <2>1. Byte(255) \in Bytes
    BY DEF Byte, Bytes
  <2>2. block \in [Place -> Bytes] /\ index \in Place /\ digest \in Seq([Place -> Bytes])
    BY <2>1 DEF Place
  <2>3. low \in 0..(Word - 1) /\ high \in 0..(Word - 1)
    OBVIOUS
  <2>4. length \in Nat /\ taken \in Nat /\ given \in Nat /\ resets \in Nat
    OBVIOUS
  <2>5. computed \in BOOLEAN /\ corrupted \in BOOLEAN
    OBVIOUS
  <2> QED
    BY <2>2, <2>3, <2>4, <2>5 DEF TypeOK
<1>2. Buffered /\ Counted /\ ResultIsPaddedMessage
  BY DEF Buffered, Counted, ResultIsPaddedMessage
<1> QED
  BY <1>1, <1>2 DEF IInv

(* A byte of a length word is a byte. *)
LEMMA ByteOfType ==
  ASSUME NEW w \in Nat, NEW unit \in {1, 256, 65536, 16777216}
  PROVE  ByteOf(w, unit) \in Bytes
<1>1. (w \div unit) % 256 \in 0..255
  OBVIOUS
<1> QED
  BY <1>1 DEF ByteOf, Byte, Bytes

LEMMA LengthBytesType ==
  ASSUME NEW hi \in Nat, NEW lo \in Nat
  PROVE  LengthBytes(hi, lo) \in [1..8 -> Bytes]
<1> DEFINE h(u) == ByteOf(hi, u)
           l(u) == ByteOf(lo, u)
<1>1. \A u \in {1, 256, 65536, 16777216} : h(u) \in Bytes /\ l(u) \in Bytes
  BY ByteOfType
<1> HIDE DEF h, l
<1>2. <<h(16777216), h(65536), h(256), h(1), l(16777216), l(65536), l(256), l(1)>>
        \in [1..8 -> Bytes]
  BY <1>1
<1> QED
  BY <1>2 DEF LengthBytes, h, l

LEMMA ResetInv == ASSUME IInv, SHA1Reset PROVE IInv'
<1> USE WordAssumption DEF SHA1Reset
<1>1. TypeOK'
  <2>1. block' \in [Place -> Bytes] /\ index' \in Place /\ digest' \in Seq([Place -> Bytes])
    BY DEF IInv, TypeOK, Place
  <2>2. low' \in 0..(Word - 1) /\ high' \in 0..(Word - 1)
    OBVIOUS
  <2>3. length' \in Nat /\ taken' \in Nat /\ given' \in Nat /\ resets' \in Nat
    BY DEF IInv, TypeOK
  <2>4. computed' \in BOOLEAN /\ corrupted' \in BOOLEAN
    OBVIOUS
  <2> QED
    BY <2>1, <2>2, <2>3, <2>4 DEF TypeOK
<1>2. Buffered' /\ Counted' /\ ResultIsPaddedMessage'
  BY DEF Buffered, Counted, ResultIsPaddedMessage
<1> QED
  BY <1>1, <1>2 DEF IInv

LEMMA InputInv == ASSUME IInv, NEW n \in Lengths, SHA1Input(n) PROVE IInv'
<1> USE LengthsAssumption, WordAssumption DEF SHA1Input, IInv
<1>1. TypeOK'
  <2>1. corrupted' \in BOOLEAN
    BY DEF TypeOK
  <2>2. length' \in Nat /\ given' \in Nat
    BY DEF TypeOK
  <2> QED
    BY <2>1, <2>2 DEF TypeOK
<1>2. Buffered'
  BY DEF Buffered
<1>3. Counted'
  BY DEF Counted, TypeOK
<1>4. ResultIsPaddedMessage'
  BY DEF ResultIsPaddedMessage
<1> QED
  BY <1>1, <1>2, <1>3, <1>4

(* Length_Low wraps around exactly when it reaches Word. *)
LEMMA WrapAround ==
  ASSUME NEW b \in Nat \ {0}, NEW a \in 0..b
  PROVE  a % b = IF a = b THEN 0 ELSE a
<1>1. b % b = 0
  BY Z3
<1>2. a # b => a % b = a
  BY Z3
<1> QED
  BY <1>1, <1>2

(* The two words go on counting the bits, or the context is corrupted. *)
LEMMA CountStep ==
  ASSUME IInv, ~corrupted, Count
  PROVE  /\ low' \in 0..(Word - 1) /\ high' \in 0..(Word - 1) /\ low' % 8 = 0
         /\ ~corrupted' => high' * Word + low' = 8 * (taken + 1)
<1> USE WordAssumption DEF IInv
<1>1. low \in Nat /\ high \in Nat /\ low < Word /\ high < Word /\ low % 8 = 0 /\ taken \in Nat
  BY DEF TypeOK, Counted
<1>2. low + 8 <= Word
  BY <1>1
<1>3. low' = IF low + 8 = Word THEN 0 ELSE low + 8
  BY <1>1, <1>2, WrapAround DEF Count
<1>4. (high + 1) % Word = IF high + 1 = Word THEN 0 ELSE high + 1
  <2>1. Word \in Nat \ {0} /\ high + 1 \in 0..Word
    BY <1>1
  <2> HIDE DEF IInv
  <2> QED
    BY <2>1, WrapAround
<1>5. high * Word + low = 8 * taken
  BY DEF Counted
<1>6. CASE low + 8 = Word
  <2>1. low' = 0 /\ high' = IF high + 1 = Word THEN 0 ELSE high + 1
    BY <1>1, <1>3, <1>4, <1>6 DEF Count
  <2>2. high' # 0 => high' * Word + low' = 8 * (taken + 1)
    <3>1. (high + 1) * Word = high * Word + Word
      BY <1>1
    <3> QED
      BY <1>1, <1>5, <1>6, <2>1, <3>1
  <2>3. ~corrupted' => high' # 0
    BY <2>1 DEF Count
  <2> QED
    BY <1>1, <2>1, <2>2, <2>3
<1>7. CASE low + 8 # Word
  BY <1>1, <1>2, <1>3, <1>5, <1>7 DEF Count
<1> QED
  BY <1>6, <1>7

LEMMA DataType == ASSUME NEW n \in Nat PROVE Data(n) \in Bytes
  BY DEF Data, Bytes

(* What a turn of the loop does, flag by flag. *)
LEMMA InputByteEffect ==
  ASSUME IInv, InputByte
  PROVE  /\ ~corrupted /\ ~computed /\ ~computed' /\ corrupted' \in BOOLEAN
         /\ length' = (IF corrupted' THEN 0 ELSE length - 1)
<1>1. ~corrupted /\ ~computed
  BY DEF IInv, Counted, TypeOK, InputByte
<1>2. ~computed' /\ length' = (IF corrupted' THEN 0 ELSE length - 1) /\ Count
  BY <1>1 DEF InputByte
<1>3. corrupted' = TRUE \/ corrupted' = corrupted
  BY <1>2 DEF Count
<1>4. corrupted \in BOOLEAN
  BY DEF IInv, TypeOK
<1> QED
  BY <1>1, <1>2, <1>3, <1>4, Zenon

(* One byte more, in the block or with a block handed on. *)
LEMMA InputByteInv == ASSUME IInv, InputByte PROVE IInv'
<1>1. /\ taken \in Nat /\ length \in Nat \ {0} /\ index \in Place /\ given \in Nat
      /\ block \in [Place -> Bytes] /\ digest \in Seq([Place -> Bytes]) /\ Len(digest) \in Nat
  BY DEF IInv, TypeOK, InputByte
<1>2. /\ low' \in 0..(Word - 1) /\ high' \in 0..(Word - 1) /\ low' % 8 = 0
      /\ ~corrupted' => high' * Word + low' = 8 * (taken + 1)
  BY InputByteEffect, CountStep DEF InputByte
<1>3. /\ taken = 64 * Len(digest) + index
      /\ \A k \in 1..Len(digest), i \in Place : digest[k][i] = Data(64 * (k - 1) + i + 1)
      /\ \A i \in 0..(index - 1) : block[i] = Data(64 * Len(digest) + i + 1)
  BY InputByteEffect DEF IInv, Buffered
<1>4. /\ block' \in [Place -> Bytes]
      /\ \A i \in Place : block'[i] = IF i = index THEN Data(taken + 1) ELSE block[i]
  <2>1. Data(taken + 1) \in Bytes
    BY <1>1, DataType
  <2> QED
    BY <1>1, <2>1 DEF InputByte
<1>5. taken' = taken + 1 /\ given' = given /\ resets' = resets
  BY DEF InputByte
<1>6. \/ index = 63 /\ index' = 0 /\ digest' = Append(digest, block')
      \/ index # 63 /\ index' = index + 1 /\ digest' = digest
  BY DEF InputByte
<1>7. TypeOK'
  <2>1. corrupted' \in BOOLEAN /\ computed' \in BOOLEAN
    <3>1. computed \in BOOLEAN /\ computed' = computed
      BY DEF IInv, TypeOK, InputByte
    <3> QED
      BY <3>1, InputByteEffect, Zenon
  <2>2. length' \in Nat
    <3>1. length' = 0 \/ length' = length - 1
      BY InputByteEffect, Zenon
    <3> QED
      BY <1>1, <3>1
  <2>3. index' \in Place
    <3>1. CASE index = 63 /\ index' = 0
      BY <3>1 DEF Place
    <3>2. CASE index # 63 /\ index' = index + 1
      BY <1>1, <3>2 DEF Place
    <3> QED
      BY <1>6, <3>1, <3>2
  <2>4. digest' \in Seq([Place -> Bytes])
    BY <1>1, <1>4, <1>6
  <2>5. taken' \in Nat /\ given' \in Nat /\ resets' \in Nat
    BY <1>1, <1>5 DEF IInv, TypeOK
  <2> QED
    BY <1>2, <1>4, <2>1, <2>2, <2>3, <2>4, <2>5, Zenon DEF TypeOK
<1>8. Buffered'
  <2>1. CASE index = 63
    <3>1. index' = 0 /\ digest' = Append(digest, block')
      BY <1>6, <2>1
    <3>2. Len(digest') = Len(digest) + 1 /\ digest'[Len(digest) + 1] = block'
      BY <1>1, <1>4, <3>1
    <3>3. \A k \in 1..Len(digest) : digest'[k] = digest[k]
      BY <1>1, <1>4, <3>1
    <3>4. ASSUME NEW i \in Place PROVE block'[i] = Data(64 * Len(digest) + i + 1)
      <4>1. CASE i = index
        BY <1>1, <1>3, <1>4, <4>1
      <4>2. CASE i # index
        <5>1. i \in 0..(index - 1)
          BY <2>1, <4>2 DEF Place
        <5> QED
          BY <1>3, <1>4, <4>2, <5>1
      <4> QED
        BY <4>1, <4>2
    <3>5. ASSUME NEW k \in 1..Len(digest'), NEW i \in Place
          PROVE  digest'[k][i] = Data(64 * (k - 1) + i + 1)
      <4>1. CASE k \in 1..Len(digest)
        BY <1>3, <3>3, <4>1
      <4>2. CASE k = Len(digest) + 1
        <5>1. 64 * (k - 1) = 64 * Len(digest)
          BY <1>1, <4>2
        <5> QED
          BY <3>2, <3>4, <4>2, <5>1
      <4> QED
        BY <1>1, <3>2, <4>1, <4>2
    <3>6. taken' = 64 * Len(digest') + index'
      BY <1>1, <1>3, <1>5, <2>1, <3>1, <3>2
    <3>7. 0..(index' - 1) = {}
      BY <3>1
    <3> QED
      BY <3>5, <3>6, <3>7 DEF Buffered
  <2>2. CASE index # 63
    <3>1. digest' = digest /\ index' = index + 1
      BY <1>6, <2>2
    <3>2. ASSUME NEW i \in 0..(index' - 1)
          PROVE  block'[i] = Data(64 * Len(digest) + i + 1)
      <4>1. i \in Place /\ (i = index \/ i \in 0..(index - 1))
        <5>1. index \in 0..62
          BY <1>1, <2>2 DEF Place
        <5>2. i \in 0..index
          BY <3>1, <5>1
        <5> QED
          BY <5>1, <5>2 DEF Place
      <4>2. CASE i = index
        BY <1>1, <1>3, <1>4, <4>2
      <4>3. CASE i \in 0..(index - 1)
        <5>1. i # index
          BY <1>1, <4>3 DEF Place
        <5> QED
          BY <1>3, <1>4, <4>1, <4>3, <5>1
      <4> QED
        BY <4>1, <4>2, <4>3
    <3>3. taken' = 64 * Len(digest') + index'
      <4>1. index \in Nat
        BY <1>1 DEF Place
      <4>2. Len(digest') = Len(digest)
        BY <3>1
      <4> QED
        BY <1>1, <1>3, <1>5, <3>1, <4>1, <4>2
    <3> QED
      BY <1>3, <3>1, <3>2, <3>3 DEF Buffered
  <2> QED
    BY <2>1, <2>2
<1>9. Counted'
  <2>1. taken + length = given
    BY InputByteEffect DEF IInv, Counted
  <2>2. ~corrupted' => taken' + length' = given'
    BY <1>1, <1>5, <2>1, InputByteEffect
  <2>3. ~corrupted' => high' * Word + low' = 8 * taken'
    BY <1>2, <1>5
  <2>4. corrupted' \/ computed' => length' = 0
    BY InputByteEffect
  <2> QED
    BY <1>2, <2>2, <2>3, <2>4 DEF Counted
<1>10. ResultIsPaddedMessage'
  BY InputByteEffect DEF ResultIsPaddedMessage
<1> QED
  BY <1>7, <1>8, <1>9, <1>10 DEF IInv

(* The last block of a message of L whole blocks and x bytes. *)
LEMMA PaddedLenOf ==
  ASSUME NEW L \in Nat, NEW x \in Place
  PROVE  PaddedLen(64 * L + x) = IF x > 55 THEN 64 * (L + 2) ELSE 64 * (L + 1)
<1>1. x \in 0..63
  BY DEF Place
<1>2. CASE x > 55
  <2>1. (64 * L + x + 72) \div 64 = L + 2
    BY <1>1, <1>2, Z3
  <2> QED
    BY <1>2, <2>1 DEF PaddedLen
<1>3. CASE ~(x > 55)
  <2>1. (64 * L + x + 72) \div 64 = L + 1
    BY <1>1, <1>3, Z3
  <2> QED
    BY <1>3, <2>1 DEF PaddedLen
<1> QED
  BY <1>2, <1>3

(* The blocks that SHA1PadMessage() makes are blocks. *)
LEMMA FilledType == ASSUME IInv PROVE Filled \in [Place -> Bytes]
<1>1. Byte(128) \in Bytes /\ Byte(0) \in Bytes
  BY DEF Byte, Bytes
<1> QED
  BY <1>1 DEF Filled, IInv, TypeOK

LEMMA WithLengthType ==
  ASSUME IInv, NEW b \in [Place -> Bytes]
  PROVE  WithLength(b) \in [Place -> Bytes]
<1>1. high \in Nat /\ low \in Nat
  BY WordAssumption DEF IInv, TypeOK
<1>2. LengthBytes(high, low) \in [1..8 -> Bytes]
  BY <1>1, LengthBytesType
<1>3. ASSUME NEW i \in Place, ~(i < 56) PROVE i - 55 \in 1..8
  BY <1>3 DEF Place
<1> QED
  BY <1>2, <1>3 DEF WithLength

(* SHA1Result() makes the last one or two blocks of the padded message. *)
LEMMA ResultInv == ASSUME IInv, SHA1Result PROVE IInv'
<1> DEFINE L == Len(digest)
           zeros == [i \in Place |-> Byte(0)]
           last == WithLength(IF TwoBlocks THEN zeros ELSE Filled)
<1>1. /\ ~corrupted /\ ~computed /\ length = 0
      /\ digest' = digest \o (IF TwoBlocks THEN <<Filled, last>> ELSE <<last>>)
      /\ block' = last /\ index' = 0 /\ computed' = TRUE
  BY DEF SHA1Result, SHA1PadMessage
<1>2. /\ low' = low /\ high' = high /\ corrupted' = corrupted /\ length' = length
      /\ taken' = taken /\ given' = given /\ resets' = resets
  BY DEF SHA1Result
<1>3. /\ given = 64 * L + index /\ high * Word + low = 8 * given
      /\ index \in Place /\ L \in Nat /\ digest \in Seq([Place -> Bytes])
      /\ high \in 0..(Word - 1) /\ low \in 0..(Word - 1)
  <2>1. index \in Place /\ L \in Nat /\ digest \in Seq([Place -> Bytes])
    BY DEF IInv, TypeOK
  <2>2. high \in 0..(Word - 1) /\ low \in 0..(Word - 1) /\ taken \in Nat
    BY DEF IInv, TypeOK
  <2>3. taken + length = given /\ high * Word + low = 8 * taken
    BY <1>1 DEF IInv, Counted
  <2>4. taken = 64 * L + index
    BY <1>1 DEF IInv, Buffered
  <2> QED
    BY <1>1, <2>1, <2>2, <2>3, <2>4
<1>4. /\ \A k \in 1..L, i \in Place : digest[k][i] = Data(64 * (k - 1) + i + 1)
      /\ \A i \in 0..(index - 1) : block[i] = Data(64 * L + i + 1)
  BY <1>1 DEF IInv, Buffered
<1>5. zeros \in [Place -> Bytes] /\ Filled \in [Place -> Bytes] /\ last \in [Place -> Bytes]
  <2>1. zeros \in [Place -> Bytes]
    BY DEF Byte, Bytes
  <2> HIDE DEF zeros
  <2>2. Filled \in [Place -> Bytes]
    BY FilledType
  <2> QED
    BY <2>1, <2>2, WithLengthType
<1>6. /\ \A i \in Place : i < 56 => last[i] = (IF TwoBlocks THEN zeros ELSE Filled)[i]
      /\ \A i \in Place : i >= 56 => last[i] = LengthBytes(high, low)[i - 55]
  BY DEF WithLength, Place
<1>7. \A i \in Place : zeros[i] = Byte(0)
  OBVIOUS
<1> HIDE DEF L, zeros, last
<1>8. TypeOK'
  <2>1. digest' \in Seq([Place -> Bytes])
    <3>1. CASE TwoBlocks
      <4>1. <<Filled, last>> \in Seq([Place -> Bytes])
        BY <1>5
      <4> QED
        BY <1>1, <1>3, <3>1, <4>1
    <3>2. CASE ~TwoBlocks
      <4>1. <<last>> \in Seq([Place -> Bytes])
        BY <1>5
      <4> QED
        BY <1>1, <1>3, <3>2, <4>1
    <3> QED
      BY <3>1, <3>2
  <2>2. index' \in Place
    BY <1>1 DEF Place
  <2>3. computed' \in BOOLEAN /\ corrupted' \in BOOLEAN
    BY <1>1, <1>2, Zenon DEF IInv, TypeOK
  <2>4. block' \in [Place -> Bytes]
    BY <1>1, <1>5
  <2> QED
    BY <1>2, <1>3, <2>1, <2>2, <2>3, <2>4 DEF IInv, TypeOK
<1>9. Buffered' /\ Counted'
  <2>1. Buffered'
    BY <1>1 DEF Buffered
  <2>2. length' = 0 /\ (~corrupted' => taken' + length' = given' /\ high' * Word + low' = 8 * taken')
    BY <1>1, <1>2 DEF IInv, Counted
  <2>3. low' % 8 = 0
    BY <1>2 DEF IInv, Counted
  <2> QED
    BY <2>1, <2>2, <2>3 DEF Counted
<1>10. /\ 64 * Len(digest') = PaddedLen(given)
       /\ \A k \in 1..Len(digest'), i \in Place :
            digest'[k][i] = Padded(given, high, low, 64 * (k - 1) + i)
  <2>1. \A k \in 1..L, i \in Place : digest[k][i] = Padded(given, high, low, 64 * (k - 1) + i)
    <3> SUFFICES ASSUME NEW k \in 1..L, NEW i \in Place
                 PROVE  digest[k][i] = Padded(given, high, low, 64 * (k - 1) + i)
      OBVIOUS
    <3>1. 64 * (k - 1) + i < given
      BY <1>3 DEF Place
    <3> QED
      BY <1>4, <3>1 DEF Padded
  <2>2. \A i \in Place : i <= index \/ 64 * L + i < PaddedLen(given) - 8 =>
                           Filled[i] = Padded(given, high, low, 64 * L + i)
    <3> SUFFICES ASSUME NEW i \in Place, i <= index \/ 64 * L + i < PaddedLen(given) - 8
                 PROVE  Filled[i] = Padded(given, high, low, 64 * L + i)
      OBVIOUS
    <3>1. CASE i < index
      <4>1. i \in 0..(index - 1) /\ 64 * L + i < given /\ i # index /\ ~(i > index)
        BY <1>3, <3>1 DEF Place
      <4> QED
        BY <1>4, <4>1 DEF Filled, Padded
    <3>2. CASE i = index
      <4>1. 64 * L + i = given /\ ~(64 * L + i < given)
        BY <1>3, <3>2 DEF Place
      <4> QED
        BY <3>2, <4>1 DEF Filled, Padded
    <3>3. CASE i > index
      <4>1. ~(64 * L + i < given) /\ 64 * L + i # given /\ i # index
        BY <1>3, <3>3 DEF Place
      <4>2. 64 * L + i < PaddedLen(given) - 8
        BY <1>3, <3>3 DEF Place
      <4> QED
        BY <3>3, <4>1, <4>2 DEF Filled, Padded
    <3> QED
      BY <1>3, <3>1, <3>2, <3>3 DEF Place
  <2>3. CASE TwoBlocks
    <3>1. PaddedLen(given) = 64 * (L + 2) /\ index \in 56..63
      <4>1. index \in 56..63
        <5>1. index \in 0..63 /\ index > 55
          BY <1>3, <2>3, Zenon DEF TwoBlocks, Place
        <5> QED
          BY <5>1
      <4>2. PaddedLen(64 * L + index) = 64 * (L + 2)
        BY <1>3, <4>1, PaddedLenOf
      <4> QED
        BY <1>3, <4>1, <4>2
    <3>2. /\ Len(digest') = L + 2 /\ \A k \in 1..L : digest'[k] = digest[k]
          /\ digest'[L + 1] = Filled /\ digest'[L + 2] = last
      BY <1>1, <1>3, <1>5, <2>3 DEF L
    <3>3. ASSUME NEW i \in Place PROVE last[i] = Padded(given, high, low, 64 * (L + 1) + i)
      <4>1. ~(64 * (L + 1) + i < given) /\ 64 * (L + 1) + i # given
        BY <1>3, <3>1 DEF Place
      <4>2. CASE i < 56
        <5>1. 64 * (L + 1) + i < PaddedLen(given) - 8
          BY <1>3, <3>1, <4>2 DEF Place
        <5> QED
          BY <1>6, <1>7, <2>3, <4>1, <4>2, <5>1 DEF Padded
      <4>3. CASE i >= 56
        <5>1. ~(64 * (L + 1) + i < given) /\ 64 * (L + 1) + i # given
          BY <1>3, <3>1, <4>3 DEF Place
        <5>2. ~(64 * (L + 1) + i < PaddedLen(given) - 8)
          BY <1>3, <3>1, <4>3 DEF Place
        <5>3. (64 * (L + 1) + i) - PaddedLen(given) + 9 = i - 55
          BY <1>3, <3>1 DEF Place
        <5>4. Padded(given, high, low, 64 * (L + 1) + i)
                = LengthBytes(high, low)[(64 * (L + 1) + i) - PaddedLen(given) + 9]
          BY <5>1, <5>2, Zenon DEF Padded
        <5> QED
          BY <1>6, <4>3, <5>3, <5>4
      <4> QED
        BY <4>2, <4>3 DEF Place
    <3>4. \A i \in Place : Filled[i] = Padded(given, high, low, 64 * L + i)
      <4>1. \A i \in Place : 64 * L + i < PaddedLen(given) - 8
        BY <1>3, <3>1 DEF Place
      <4> QED
        BY <2>2, <4>1
    <3>5. ASSUME NEW k \in 1..Len(digest'), NEW i \in Place
          PROVE  digest'[k][i] = Padded(given, high, low, 64 * (k - 1) + i)
      <4>1. CASE k \in 1..L
        BY <2>1, <3>2, <4>1
      <4>2. CASE k = L + 1
        <5>1. k - 1 = L
          BY <1>3, <4>2
        <5> QED
          BY <3>2, <3>4, <4>2, <5>1
      <4>3. CASE k = L + 2
        <5>1. k - 1 = L + 1
          BY <1>3, <4>3
        <5> QED
          BY <3>2, <3>3, <4>3, <5>1
      <4> QED
        BY <1>3, <3>2, <4>1, <4>2, <4>3
    <3> QED
      BY <1>3, <3>1, <3>2, <3>5
  <2>4. CASE ~TwoBlocks
    <3>1. PaddedLen(given) = 64 * (L + 1) /\ index \in 0..55
      <4>1. index \in 0..55
        BY <1>3, <2>4 DEF TwoBlocks, Place
      <4>2. PaddedLen(64 * L + index) = 64 * (L + 1)
        BY <1>3, <4>1, PaddedLenOf
      <4> QED
        BY <1>3, <4>1, <4>2
    <3>2. /\ Len(digest') = L + 1 /\ \A k \in 1..L : digest'[k] = digest[k]
          /\ digest'[L + 1] = last
      BY <1>1, <1>3, <1>5, <2>4 DEF L
    <3>3. ASSUME NEW i \in Place PROVE last[i] = Padded(given, high, low, 64 * L + i)
      <4>1. CASE i < 56
        <5>1. 64 * L + i < PaddedLen(given) - 8
          BY <1>3, <3>1, <4>1 DEF Place
        <5> QED
          BY <1>6, <2>2, <2>4, <4>1, <5>1
      <4>2. CASE i >= 56
        <5>1. ~(64 * L + i < given) /\ 64 * L + i # given
          BY <1>3, <3>1, <4>2 DEF Place
        <5>2. ~(64 * L + i < PaddedLen(given) - 8)
          BY <1>3, <3>1, <4>2 DEF Place
        <5>3. (64 * L + i) - PaddedLen(given) + 9 = i - 55
          BY <1>3, <3>1 DEF Place
        <5>4. Padded(given, high, low, 64 * L + i)
                = LengthBytes(high, low)[(64 * L + i) - PaddedLen(given) + 9]
          BY <5>1, <5>2, Zenon DEF Padded
        <5> QED
          BY <1>6, <4>2, <5>3, <5>4
      <4> QED
        BY <4>1, <4>2 DEF Place
    <3>4. ASSUME NEW k \in 1..Len(digest'), NEW i \in Place
          PROVE  digest'[k][i] = Padded(given, high, low, 64 * (k - 1) + i)
      <4>1. CASE k \in 1..L
        BY <2>1, <3>2, <4>1
      <4>2. CASE k = L + 1
        <5>1. k - 1 = L
          BY <1>3, <4>2
        <5> QED
          BY <3>2, <3>3, <4>2, <5>1
      <4> QED
        BY <1>3, <3>2, <4>1, <4>2
    <3> QED
      BY <1>3, <3>1, <3>2, <3>4
  <2> QED
    BY <2>3, <2>4
<1>11. ResultIsPaddedMessage'
  BY <1>2, <1>3, <1>10 DEF ResultIsPaddedMessage
<1> QED
  BY <1>8, <1>9, <1>11 DEF IInv

LEMMA StutterInv == ASSUME IInv, UNCHANGED vars PROVE IInv'
<1> USE DEF vars
<1>1. TypeOK'
  BY DEF IInv, TypeOK
<1>2. Buffered'
  BY DEF IInv, Buffered
<1>3. Counted'
  BY DEF IInv, Counted
<1>4. ResultIsPaddedMessage'
  BY DEF IInv, ResultIsPaddedMessage
<1> QED
  BY <1>1, <1>2, <1>3, <1>4 DEF IInv

(* The invariant is inductive: the block, the blocks before it and the two *)
(* words of the length follow what SHA1Input() was given.                  *)
THEOREM Inductive == Spec => []IInv
<1>1. Init => IInv
  BY InitInv
<1>2. IInv /\ [Next]_vars => IInv'
  BY ResetInv, InputInv, InputByteInv, ResultInv, StutterInv DEF Next
<1> QED
  BY <1>1, <1>2, PTL DEF Spec

(* Every variable keeps its type; Message_Block_Index stays in the block.  *)
THEOREM TypeCorrect == Spec => []TypeOK
<1>1. IInv => TypeOK
  BY DEF IInv
<1> QED
  BY <1>1, Inductive, PTL

(* For every message and every way of cutting it into calls, SHA1Result()  *)
(* hashes the message padded as FIPS 180 has it.                           *)
THEOREM ResultCorrect == Spec => []ResultIsPaddedMessage
<1>1. IInv => ResultIsPaddedMessage
  BY DEF IInv
<1> QED
  BY <1>1, Inductive, PTL
=============================================================================

--------------------------- MODULE WsDeliveryProofs ---------------------------
(***************************************************************************)
(* What reaches the peer: the key it can accept, the lines typed at the    *)
(* chat server's keyboard, and the echoes of its own messages, in order.   *)
(***************************************************************************)
EXTENDS WsServerProofs

-----------------------------------------------------------------------------
(* Base64.  The bits of a byte, and the byte of its bits.                  *)
BitTable(x) ==
  /\ BitOf(x, 0) = (x \div 128) % 2 /\ BitOf(x, 1) = (x \div 64) % 2
  /\ BitOf(x, 2) = (x \div 32) % 2 /\ BitOf(x, 3) = (x \div 16) % 2
  /\ BitOf(x, 4) = (x \div 8) % 2 /\ BitOf(x, 5) = (x \div 4) % 2
  /\ BitOf(x, 6) = (x \div 2) % 2 /\ BitOf(x, 7) = x % 2

LEMMA BitDefs == ASSUME NEW x \in Nat PROVE BitTable(x)
<1>1. x \div 1 = x
  OBVIOUS
<1> QED
  BY <1>1 DEF BitOf, BitTable

Octet == 0..255
Binary == 0..1

Byte(a, b, c, d, e, f, g, h) == 128 * a + 64 * b + 32 * c + 16 * d + 8 * e + 4 * f + 2 * g + h

OfBits(x) == Byte(BitOf(x, 0), BitOf(x, 1), BitOf(x, 2), BitOf(x, 3),
                  BitOf(x, 4), BitOf(x, 5), BitOf(x, 6), BitOf(x, 7))

Bits(x) ==
  /\ BitOf(x, 0) \in Binary /\ BitOf(x, 1) \in Binary /\ BitOf(x, 2) \in Binary /\ BitOf(x, 3) \in Binary
  /\ BitOf(x, 4) \in Binary /\ BitOf(x, 5) \in Binary /\ BitOf(x, 6) \in Binary /\ BitOf(x, 7) \in Binary
  /\ x = OfBits(x)

LEMMA ByteBits == ASSUME NEW x \in 0..255 PROVE Bits(x)
<1>1. PICK a, b, c, d, e, f, g, h \in 0..1 :
        x = 128 * a + 64 * b + 32 * c + 16 * d + 8 * e + 4 * f + 2 * g + h
  OBVIOUS
<1>2. /\ x \div 128 = a /\ x \div 64 = 2 * a + b /\ x \div 32 = 4 * a + 2 * b + c
      /\ x \div 16 = 8 * a + 4 * b + 2 * c + d /\ x \div 8 = 16 * a + 8 * b + 4 * c + 2 * d + e
      /\ x \div 4 = 32 * a + 16 * b + 8 * c + 4 * d + 2 * e + f
      /\ x \div 2 = 64 * a + 32 * b + 16 * c + 8 * d + 4 * e + 2 * f + g
  BY <1>1
<1>3. /\ (x \div 128) % 2 = a /\ (x \div 64) % 2 = b /\ (x \div 32) % 2 = c /\ (x \div 16) % 2 = d
      /\ (x \div 8) % 2 = e /\ (x \div 4) % 2 = f /\ (x \div 2) % 2 = g /\ x % 2 = h
  BY <1>1, <1>2
<1>4. /\ BitOf(x, 0) = a /\ BitOf(x, 1) = b /\ BitOf(x, 2) = c /\ BitOf(x, 3) = d
      /\ BitOf(x, 4) = e /\ BitOf(x, 5) = f /\ BitOf(x, 6) = g /\ BitOf(x, 7) = h
  <2>1. x \in Nat
    OBVIOUS
  <2>2. BitTable(x)
    BY <2>1, BitDefs
  <2> QED
    BY <1>3, <2>2 DEF BitTable
<1>5. x = Byte(a, b, c, d, e, f, g, h)
  BY <1>1 DEF Byte
<1> QED
  BY <1>4, <1>5 DEF Bits, OfBits, Binary

(* What a byte that may be missing counts for, and one bit of them all. *)
ByteAt(bytes, i) == IF i <= Len(bytes) THEN bytes[i] ELSE 0
Bit(bytes, b) == IF b < 8 * Len(bytes) THEN BitOf(bytes[b \div 8 + 1], b % 8) ELSE 0

LEMMA ElementOf ==
  ASSUME NEW S, NEW s \in Seq(S), NEW i \in DOMAIN s
  PROVE  s[i] \in S
  OBVIOUS

LEMMA ByFour ==
  ASSUME NEW m \in Nat
  PROVE  \E g \in Nat, i \in 0..3 : m = 4 * g + i
<1>1. m \div 4 \in Nat
  OBVIOUS
<1>2. m % 4 \in 0..3
  OBVIOUS
<1>3. m = 4 * (m \div 4) + (m % 4)
  OBVIOUS
<1> QED
  BY <1>1, <1>2, <1>3

LEMMA ByteAtType ==
  ASSUME NEW bytes \in Seq(0..255), NEW i \in Nat \ {0}
  PROVE  ByteAt(bytes, i) \in 0..255
<1>1. CASE i <= Len(bytes)
  <2>1. i \in DOMAIN bytes
    BY <1>1
  <2>2. bytes[i] \in 0..255
    BY <2>1, ElementOf
  <2> QED
    BY <1>1, <2>2 DEF ByteAt
<1>2. CASE ~(i <= Len(bytes))
  BY <1>2 DEF ByteAt
<1> QED
  BY <1>1, <1>2

LEMMA GroupBit ==
  ASSUME NEW bytes \in Seq(0..255), NEW g \in Nat, NEW q \in 0..2, NEW j \in 0..7
  PROVE  Bit(bytes, 24 * g + 8 * q + j) = BitOf(ByteAt(bytes, 3 * g + q + 1), j)
<1>1. PICK b : b = 24 * g + 8 * q + j
  OBVIOUS
<1>2. b \div 8 = 3 * g + q /\ b % 8 = j
  BY <1>1
<1>3. PICK n \in Nat : n = Len(bytes)
  OBVIOUS
<1>4. b < 8 * n <=> 3 * g + q + 1 <= n
  BY <1>1
<1>5. CASE 3 * g + q + 1 <= n
  BY <1>1, <1>2, <1>3, <1>4, <1>5 DEF Bit, ByteAt
<1>6. CASE ~(3 * g + q + 1 <= n)
  <2>1. Bit(bytes, b) = 0 /\ ByteAt(bytes, 3 * g + q + 1) = 0
    BY <1>3, <1>4, <1>6 DEF Bit, ByteAt
  <2>2. BitOf(0, j) = 0
    <3>1. \A m \in {128, 64, 32, 16, 8, 4, 2, 1} : (0 \div m) % 2 = 0
      OBVIOUS
    <3>2. <<128, 64, 32, 16, 8, 4, 2, 1>>[j + 1] \in {128, 64, 32, 16, 8, 4, 2, 1}
      BY j \in {0, 1, 2, 3, 4, 5, 6, 7}
    <3> QED
      BY <3>1, <3>2 DEF BitOf
  <2> QED
    BY <1>1, <2>1, <2>2
<1> QED
  BY <1>5, <1>6

Six(a, b, c, d, e, f) == 32 * a + 16 * b + 8 * c + 4 * d + 2 * e + f
RfcChar(bytes, b) ==
  Six(Bit(bytes, b), Bit(bytes, b + 1), Bit(bytes, b + 2), Bit(bytes, b + 3), Bit(bytes, b + 4),
      Bit(bytes, b + 5))

LEMMA SixFirst == ASSUME NEW p \in Nat PROVE SixBits(p, 0) = (p \div 262144) % 64
  BY SMT DEF SixBits
LEMMA SixSecond == ASSUME NEW p \in Nat PROVE SixBits(p, 1) = (p \div 4096) % 64
  BY SMT DEF SixBits
LEMMA SixThird == ASSUME NEW p \in Nat PROVE SixBits(p, 2) = (p \div 64) % 64
  BY SMT DEF SixBits
LEMMA SixLast == ASSUME NEW p \in Nat PROVE SixBits(p, 3) = p % 64
<1>1. p \div 1 = p
  OBVIOUS
<1> QED
  BY <1>1, SMT DEF SixBits

(* The group as a number. *)
Group(x, y, z) == 65536 * x + 256 * y + z

LEMMA GroupNat ==
  ASSUME NEW x \in 0..255, NEW y \in 0..255, NEW z \in 0..255
  PROVE  Group(x, y, z) \in Nat
  BY DEF Group

FirstIs(a, b, c, d, e, f, g, h, y, z) ==
  SixBits(Group(Byte(a, b, c, d, e, f, g, h), y, z), 0) = Six(a, b, c, d, e, f)
LEMMA FirstNumber ==
  ASSUME NEW a \in Binary, NEW b \in Binary, NEW c \in Binary, NEW d \in Binary, NEW e \in Binary,
         NEW f \in Binary, NEW g \in Binary, NEW h \in Binary, NEW y \in Octet, NEW z \in Octet
  PROVE  FirstIs(a, b, c, d, e, f, g, h, y, z)
<1>1. PICK s : s = 32 * a + 16 * b + 8 * c + 4 * d + 2 * e + f
  OBVIOUS
<1>2. s \in 0..63
  BY <1>1 DEF Octet, Binary
<1>3. PICK p \in Nat : p = 65536 * (4 * s + 2 * g + h) + 256 * y + z
  BY <1>2 DEF Octet, Binary
<1>4. p \div 262144 = s
  BY <1>2, <1>3 DEF Octet, Binary
<1>5. (p \div 262144) % 64 = s
  BY <1>2, <1>4
<1>6. p = Group(Byte(a, b, c, d, e, f, g, h), y, z)
  BY <1>1, <1>3 DEF Group, Byte, Octet, Binary
<1>7. SixBits(p, 0) = s
  BY <1>5, SixFirst
<1>8. s = Six(a, b, c, d, e, f)
  BY <1>1 DEF Six
<1> QED
  BY <1>6, <1>7, <1>8 DEF FirstIs

SecondIs(a, b, c, d, e, f, g, h, k, l, m, n, o, q, r, u, z) ==
  SixBits(Group(Byte(a, b, c, d, e, f, g, h), Byte(k, l, m, n, o, q, r, u), z), 1)
           = Six(g, h, k, l, m, n)
LEMMA SecondNumber ==
  ASSUME NEW a \in Binary, NEW b \in Binary, NEW c \in Binary, NEW d \in Binary, NEW e \in Binary,
         NEW f \in Binary, NEW g \in Binary, NEW h \in Binary,
         NEW k \in Binary, NEW l \in Binary, NEW m \in Binary, NEW n \in Binary, NEW o \in Binary,
         NEW q \in Binary, NEW r \in Binary, NEW u \in Binary, NEW z \in Octet
  PROVE  SecondIs(a, b, c, d, e, f, g, h, k, l, m, n, o, q, r, u, z)
<1>1. PICK t, s, w : /\ t = 32 * a + 16 * b + 8 * c + 4 * d + 2 * e + f
                     /\ s = 32 * g + 16 * h + 8 * k + 4 * l + 2 * m + n
                     /\ w = 8 * o + 4 * q + 2 * r + u
  OBVIOUS
<1>2. s \in 0..63 /\ t \in 0..63 /\ w \in 0..15
  BY <1>1 DEF Octet, Binary
<1>3. PICK p \in Nat : p = 4096 * (64 * t + s) + 256 * w + z
  BY <1>2 DEF Octet, Binary
<1>4. p \div 4096 = 64 * t + s
  BY <1>2, <1>3 DEF Octet, Binary
<1>5. (p \div 4096) % 64 = s
  BY <1>2, <1>4
<1>6. p = Group(Byte(a, b, c, d, e, f, g, h), Byte(k, l, m, n, o, q, r, u), z)
  BY <1>1, <1>3 DEF Group, Byte, Octet, Binary
<1>7. SixBits(p, 1) = s
  BY <1>5, SixSecond
<1>8. s = Six(g, h, k, l, m, n)
  BY <1>1 DEF Six
<1> QED
  BY <1>6, <1>7, <1>8 DEF SecondIs

ThirdIs(x, a, b, c, d, e, f, g, h, k, l, m, n, o, q, r, u) ==
  SixBits(Group(x, Byte(a, b, c, d, e, f, g, h), Byte(k, l, m, n, o, q, r, u)), 2)
           = Six(e, f, g, h, k, l)
LEMMA ThirdNumber ==
  ASSUME NEW a \in Binary, NEW b \in Binary, NEW c \in Binary, NEW d \in Binary, NEW e \in Binary,
         NEW f \in Binary, NEW g \in Binary, NEW h \in Binary,
         NEW k \in Binary, NEW l \in Binary, NEW m \in Binary, NEW n \in Binary, NEW o \in Binary,
         NEW q \in Binary, NEW r \in Binary, NEW u \in Binary, NEW x \in Octet
  PROVE  ThirdIs(x, a, b, c, d, e, f, g, h, k, l, m, n, o, q, r, u)
<1>1. PICK t, s, w : /\ t = 8 * a + 4 * b + 2 * c + d
                     /\ s = 32 * e + 16 * f + 8 * g + 4 * h + 2 * k + l
                     /\ w = 32 * m + 16 * n + 8 * o + 4 * q + 2 * r + u
  OBVIOUS
<1>2. s \in 0..63 /\ t \in 0..15 /\ w \in 0..63
  BY <1>1 DEF Octet, Binary
<1>3. PICK p \in Nat : p = 64 * (64 * (16 * x + t) + s) + w
  BY <1>2 DEF Octet, Binary
<1>4. p \div 64 = 64 * (16 * x + t) + s
  BY <1>2, <1>3 DEF Octet, Binary
<1>5. (p \div 64) % 64 = s
  BY <1>2, <1>4 DEF Octet, Binary
<1>6. p = Group(x, Byte(a, b, c, d, e, f, g, h), Byte(k, l, m, n, o, q, r, u))
  BY <1>1, <1>3 DEF Group, Byte, Octet, Binary
<1>7. SixBits(p, 2) = s
  BY <1>5, SixThird
<1>8. s = Six(e, f, g, h, k, l)
  BY <1>1 DEF Six
<1> QED
  BY <1>6, <1>7, <1>8 DEF ThirdIs

FourthIs(x, y, a, b, c, d, e, f, g, h) ==
  SixBits(Group(x, y, Byte(a, b, c, d, e, f, g, h)), 3) = Six(c, d, e, f, g, h)
LEMMA FourthNumber ==
  ASSUME NEW a \in Binary, NEW b \in Binary, NEW c \in Binary, NEW d \in Binary, NEW e \in Binary,
         NEW f \in Binary, NEW g \in Binary, NEW h \in Binary, NEW x \in Octet, NEW y \in Octet
  PROVE  FourthIs(x, y, a, b, c, d, e, f, g, h)
<1>1. PICK s : s = 32 * c + 16 * d + 8 * e + 4 * f + 2 * g + h
  OBVIOUS
<1>2. s \in 0..63
  BY <1>1 DEF Octet, Binary
<1>3. PICK p \in Nat : p = 64 * (1024 * x + 4 * y + 2 * a + b) + s
  BY <1>2 DEF Octet, Binary
<1>4. p % 64 = s
  BY <1>2, <1>3 DEF Octet, Binary
<1>5. p = Group(x, y, Byte(a, b, c, d, e, f, g, h))
  BY <1>1, <1>3 DEF Group, Byte, Octet, Binary
<1>6. SixBits(p, 3) = s
  BY <1>4, SixLast
<1>7. s = Six(c, d, e, f, g, h)
  BY <1>1 DEF Six
<1> QED
  BY <1>5, <1>6, <1>7 DEF FourthIs

LEMMA FirstSix ==
  ASSUME NEW x \in Octet, NEW y \in Octet, NEW z \in Octet
  PROVE  SixBits(Group(x, y, z), 0) =
           Six(BitOf(x, 0), BitOf(x, 1), BitOf(x, 2), BitOf(x, 3), BitOf(x, 4), BitOf(x, 5))
<1>1. Bits(x)
  BY ByteBits DEF Octet
<1>2. FirstIs(BitOf(x, 0), BitOf(x, 1), BitOf(x, 2), BitOf(x, 3),
              BitOf(x, 4), BitOf(x, 5), BitOf(x, 6), BitOf(x, 7), y, z)
  BY <1>1, FirstNumber DEF Bits
<1>3. SixBits(Group(OfBits(x), y, z), 0) =
        Six(BitOf(x, 0), BitOf(x, 1), BitOf(x, 2), BitOf(x, 3), BitOf(x, 4), BitOf(x, 5))
  BY <1>2 DEF FirstIs, OfBits
<1>4. x = OfBits(x)
  BY <1>1 DEF Bits
<1> QED
  BY <1>3, <1>4

LEMMA SecondSix ==
  ASSUME NEW x \in Octet, NEW y \in Octet, NEW z \in Octet
  PROVE  SixBits(Group(x, y, z), 1) =
           Six(BitOf(x, 6), BitOf(x, 7), BitOf(y, 0), BitOf(y, 1), BitOf(y, 2), BitOf(y, 3))
<1>1. Bits(x) /\ Bits(y)
  BY ByteBits DEF Octet
<1>2. SecondIs(BitOf(x, 0), BitOf(x, 1), BitOf(x, 2), BitOf(x, 3),
               BitOf(x, 4), BitOf(x, 5), BitOf(x, 6), BitOf(x, 7),
               BitOf(y, 0), BitOf(y, 1), BitOf(y, 2), BitOf(y, 3),
               BitOf(y, 4), BitOf(y, 5), BitOf(y, 6), BitOf(y, 7), z)
  BY <1>1, SecondNumber DEF Bits
<1>3. SixBits(Group(OfBits(x), OfBits(y), z), 1) =
        Six(BitOf(x, 6), BitOf(x, 7), BitOf(y, 0), BitOf(y, 1), BitOf(y, 2), BitOf(y, 3))
  BY <1>2 DEF SecondIs, OfBits
<1>4. x = OfBits(x) /\ y = OfBits(y)
  BY <1>1 DEF Bits
<1> QED
  BY <1>3, <1>4

LEMMA ThirdSix ==
  ASSUME NEW x \in Octet, NEW y \in Octet, NEW z \in Octet
  PROVE  SixBits(Group(x, y, z), 2) =
           Six(BitOf(y, 4), BitOf(y, 5), BitOf(y, 6), BitOf(y, 7), BitOf(z, 0), BitOf(z, 1))
<1>1. Bits(y) /\ Bits(z)
  BY ByteBits DEF Octet
<1>2. ThirdIs(x, BitOf(y, 0), BitOf(y, 1), BitOf(y, 2), BitOf(y, 3),
              BitOf(y, 4), BitOf(y, 5), BitOf(y, 6), BitOf(y, 7),
              BitOf(z, 0), BitOf(z, 1), BitOf(z, 2), BitOf(z, 3),
              BitOf(z, 4), BitOf(z, 5), BitOf(z, 6), BitOf(z, 7))
  BY <1>1, ThirdNumber DEF Bits
<1>3. SixBits(Group(x, OfBits(y), OfBits(z)), 2) =
        Six(BitOf(y, 4), BitOf(y, 5), BitOf(y, 6), BitOf(y, 7), BitOf(z, 0), BitOf(z, 1))
  BY <1>2 DEF ThirdIs, OfBits
<1>4. y = OfBits(y) /\ z = OfBits(z)
  BY <1>1 DEF Bits
<1> QED
  BY <1>3, <1>4

LEMMA FourthSix ==
  ASSUME NEW x \in Octet, NEW y \in Octet, NEW z \in Octet
  PROVE  SixBits(Group(x, y, z), 3) =
           Six(BitOf(z, 2), BitOf(z, 3), BitOf(z, 4), BitOf(z, 5), BitOf(z, 6), BitOf(z, 7))
<1>1. Bits(z)
  BY ByteBits DEF Octet
<1>2. FourthIs(x, y, BitOf(z, 0), BitOf(z, 1), BitOf(z, 2), BitOf(z, 3),
               BitOf(z, 4), BitOf(z, 5), BitOf(z, 6), BitOf(z, 7))
  BY <1>1, FourthNumber DEF Bits
<1>3. SixBits(Group(x, y, OfBits(z)), 3) =
        Six(BitOf(z, 2), BitOf(z, 3), BitOf(z, 4), BitOf(z, 5), BitOf(z, 6), BitOf(z, 7))
  BY <1>2 DEF FourthIs, OfBits
<1>4. z = OfBits(z)
  BY <1>1 DEF Bits
<1> QED
  BY <1>3, <1>4

(* Whatever the bytes are, base64_encode() writes what RFC 4648 says:      *)
(* the sextets in order, the last group padded.                            *)
THEOREM EncodesAsRfc ==
  ASSUME NEW bytes \in Seq(0..255)
  PROVE  base64_encode(bytes) = RfcBase64(bytes)
<1>1. PICK n \in Nat : n = Len(bytes)
  OBVIOUS
<1>2. PICK K \in Nat : K = 4 * ((n + 2) \div 3)
  OBVIOUS
<1>3. base64_encode(bytes) =
        [k \in 1..K |-> IF n - 3 * ((k - 1) \div 4) < (k - 1) % 4 THEN 64
                        ELSE SixBits(Prepare(bytes, (k - 1) \div 4), (k - 1) % 4)]
  BY <1>1, <1>2 DEF base64_encode
<1>4. RfcBase64(bytes) =
        [k \in 1..K |-> IF 6 * (k - 1) >= 8 * n THEN 64 ELSE RfcChar(bytes, 6 * (k - 1))]
  BY <1>1, <1>2 DEF RfcBase64, RfcChar, Six, Bit
<1>5. ASSUME NEW k \in 1..K
      PROVE  (IF n - 3 * ((k - 1) \div 4) < (k - 1) % 4 THEN 64
              ELSE SixBits(Prepare(bytes, (k - 1) \div 4), (k - 1) % 4))
             = (IF 6 * (k - 1) >= 8 * n THEN 64 ELSE RfcChar(bytes, 6 * (k - 1)))
  <2>1. PICK g \in Nat, i \in 0..3 : k - 1 = 4 * g + i
    <3>1. PICK m \in Nat : m = k - 1
      OBVIOUS
    <3>2. \E g \in Nat, i \in 0..3 : m = 4 * g + i
      BY ByFour
    <3> QED
      BY <3>1, <3>2
  <2>2. (k - 1) \div 4 = g /\ (k - 1) % 4 = i
    BY <2>1
  <2>3. 3 * g < n
    BY <1>2, <2>1
  <2>4. n - 3 * g < i <=> 6 * (4 * g + i) >= 8 * n
    BY <2>3
  <2>5. SixBits(Prepare(bytes, g), i) = RfcChar(bytes, 6 * (4 * g + i))
    <3>1. PICK x, y, z \in 0..255 :
            /\ x = ByteAt(bytes, 3 * g + 1) /\ y = ByteAt(bytes, 3 * g + 2) /\ z = ByteAt(bytes, 3 * g + 3)
      <4>1. 3 * g + 1 \in Nat \ {0} /\ 3 * g + 2 \in Nat \ {0} /\ 3 * g + 3 \in Nat \ {0}
        OBVIOUS
      <4> QED
        BY <4>1, ByteAtType
    <3>2. Prepare(bytes, g) = Group(x, y, z)
      BY <3>1 DEF Prepare, ByteAt, Group
    <3>3. \A j \in 0..7 : /\ Bit(bytes, 24 * g + j) = BitOf(x, j)
                          /\ Bit(bytes, 24 * g + 8 + j) = BitOf(y, j)
                          /\ Bit(bytes, 24 * g + 16 + j) = BitOf(z, j)
      <4>1. ASSUME NEW j \in 0..7
            PROVE  /\ Bit(bytes, 24 * g + 8 * 0 + j) = BitOf(ByteAt(bytes, 3 * g + 0 + 1), j)
                   /\ Bit(bytes, 24 * g + 8 * 1 + j) = BitOf(ByteAt(bytes, 3 * g + 1 + 1), j)
                   /\ Bit(bytes, 24 * g + 8 * 2 + j) = BitOf(ByteAt(bytes, 3 * g + 2 + 1), j)
        <5>1. 0 \in 0..2 /\ 1 \in 0..2 /\ 2 \in 0..2
          OBVIOUS
        <5> QED
          BY <5>1, GroupBit, Zenon
      <4>2. /\ 3 * g + 0 + 1 = 3 * g + 1 /\ 3 * g + 1 + 1 = 3 * g + 2 /\ 3 * g + 2 + 1 = 3 * g + 3
        OBVIOUS
      <4>3. \A j \in 0..7 : /\ 24 * g + 8 * 0 + j = 24 * g + j
                            /\ 24 * g + 8 * 1 + j = 24 * g + 8 + j
                            /\ 24 * g + 8 * 2 + j = 24 * g + 16 + j
        OBVIOUS
      <4> QED
        BY <3>1, <4>1, <4>2, <4>3
    <3>8. x \in Octet /\ y \in Octet /\ z \in Octet
      BY DEF Octet
    <3>4. CASE i = 0
      <4>1. /\ 6 * (4 * g + i) = 24 * g + 0 /\ 24 * g + 0 + 1 = 24 * g + 1 /\ 24 * g + 0 + 2 = 24 * g + 2
            /\ 24 * g + 0 + 3 = 24 * g + 3 /\ 24 * g + 0 + 4 = 24 * g + 4 /\ 24 * g + 0 + 5 = 24 * g + 5
        BY <3>4
      <4>2. RfcChar(bytes, 24 * g + 0) = Six(BitOf(x, 0), BitOf(x, 1), BitOf(x, 2),
               BitOf(x, 3), BitOf(x, 4), BitOf(x, 5))
        BY <3>3, <4>1 DEF RfcChar
      <4>3. SixBits(Group(x, y, z), 0) = Six(BitOf(x, 0), BitOf(x, 1), BitOf(x, 2),
               BitOf(x, 3), BitOf(x, 4), BitOf(x, 5))
        BY FirstSix DEF Octet
      <4> QED
        BY <3>2, <3>4, <4>1, <4>2, <4>3
    <3>5. CASE i = 1
      <4>1. /\ 6 * (4 * g + i) = 24 * g + 6 /\ 24 * g + 6 + 1 = 24 * g + 7 /\ 24 * g + 6 + 2 = 24 * g + 8 + 0
            /\ 24 * g + 6 + 3 = 24 * g + 8 + 1 /\ 24 * g + 6 + 4 = 24 * g + 8 + 2
            /\ 24 * g + 6 + 5 = 24 * g + 8 + 3
        BY <3>5
      <4>2. RfcChar(bytes, 24 * g + 6) = Six(BitOf(x, 6), BitOf(x, 7), BitOf(y, 0),
               BitOf(y, 1), BitOf(y, 2), BitOf(y, 3))
        BY <3>3, <4>1 DEF RfcChar
      <4>3. SixBits(Group(x, y, z), 1) = Six(BitOf(x, 6), BitOf(x, 7), BitOf(y, 0),
               BitOf(y, 1), BitOf(y, 2), BitOf(y, 3))
        BY <3>8, SecondSix, Zenon
      <4> QED
        BY <3>2, <3>5, <4>1, <4>2, <4>3
    <3>6. CASE i = 2
      <4>1. /\ 6 * (4 * g + i) = 24 * g + 8 + 4 /\ 24 * g + 8 + 4 + 1 = 24 * g + 8 + 5
            /\ 24 * g + 8 + 4 + 2 = 24 * g + 8 + 6 /\ 24 * g + 8 + 4 + 3 = 24 * g + 8 + 7
            /\ 24 * g + 8 + 4 + 4 = 24 * g + 16 + 0 /\ 24 * g + 8 + 4 + 5 = 24 * g + 16 + 1
        BY <3>6
      <4>2. RfcChar(bytes, 24 * g + 8 + 4) = Six(BitOf(y, 4), BitOf(y, 5), BitOf(y, 6),
               BitOf(y, 7), BitOf(z, 0), BitOf(z, 1))
        BY <3>3, <4>1 DEF RfcChar
      <4>3. SixBits(Group(x, y, z), 2) = Six(BitOf(y, 4), BitOf(y, 5), BitOf(y, 6),
               BitOf(y, 7), BitOf(z, 0), BitOf(z, 1))
        BY <3>8, ThirdSix, Zenon
      <4> QED
        BY <3>2, <3>6, <4>1, <4>2, <4>3
    <3>7. CASE i = 3
      <4>1. /\ 6 * (4 * g + i) = 24 * g + 16 + 2 /\ 24 * g + 16 + 2 + 1 = 24 * g + 16 + 3
            /\ 24 * g + 16 + 2 + 2 = 24 * g + 16 + 4 /\ 24 * g + 16 + 2 + 3 = 24 * g + 16 + 5
            /\ 24 * g + 16 + 2 + 4 = 24 * g + 16 + 6 /\ 24 * g + 16 + 2 + 5 = 24 * g + 16 + 7
        BY <3>7
      <4>2. RfcChar(bytes, 24 * g + 16 + 2) = Six(BitOf(z, 2), BitOf(z, 3), BitOf(z, 4),
               BitOf(z, 5), BitOf(z, 6), BitOf(z, 7))
        BY <3>3, <4>1 DEF RfcChar
      <4>3. SixBits(Group(x, y, z), 3) = Six(BitOf(z, 2), BitOf(z, 3), BitOf(z, 4),
               BitOf(z, 5), BitOf(z, 6), BitOf(z, 7))
        BY <3>8, FourthSix, Zenon
      <4> QED
        BY <3>2, <3>7, <4>1, <4>2, <4>3
    <3> QED
      BY <3>4, <3>5, <3>6, <3>7
  <2> QED
    BY <2>1, <2>2, <2>4, <2>5
<1> QED
  BY <1>3, <1>4, <1>5

(* The bytes in front of the first zero byte. *)
IsPrefix0(d, n) ==
  /\ n \in 0..Len(d) /\ \A i \in 1..n : d[i] # 0
  /\ n < Len(d) => d[n + 1] = 0

LEMMA PrefixExists == ASSUME NEW d \in Seq(0..255) PROVE \E n : IsPrefix0(d, n)
<1>1. PICK m \in Nat : m = Len(d)
  OBVIOUS
<1> DEFINE T == {k \in 1..m : d[k] = 0}
<1>2. CASE T = {}
  BY <1>1, <1>2 DEF IsPrefix0
<1>3. CASE T # {}
  <2>1. T \subseteq Nat
    OBVIOUS
  <2>2. PICK x \in T : \A y \in T : x <= y
    BY <1>3, <2>1, Least
  <2>3. x \in 1..m /\ d[x] = 0
    BY <2>2
  <2>4. \A i \in 1..(x - 1) : d[i] # 0
    BY <1>1, <2>2, <2>3
  <2>5. IsPrefix0(d, x - 1)
    BY <1>1, <2>3, <2>4 DEF IsPrefix0
  <2> QED
    BY <2>5
<1> QED
  BY <1>2, <1>3

LEMMA UpToZeroIs ==
  ASSUME NEW d \in Seq(0..255)
  PROVE  \E n : IsPrefix0(d, n) /\ UpToZero(d) = SubSeq(d, 1, n)
<1> DEFINE c == CHOOSE k \in 0..Len(d) : /\ \A i \in 1..k : d[i] # 0
                                         /\ k < Len(d) => d[k + 1] = 0
<1>1. UpToZero(d) = SubSeq(d, 1, c)
  BY DEF UpToZero
<1>2. \E k \in 0..Len(d) : (\A i \in 1..k : d[i] # 0) /\ (k < Len(d) => d[k + 1] = 0)
  BY PrefixExists DEF IsPrefix0
<1>3. c \in 0..Len(d) /\ (\A i \in 1..c : d[i] # 0) /\ (c < Len(d) => d[c + 1] = 0)
  BY <1>2
<1> QED
  BY <1>1, <1>3 DEF IsPrefix0

(* What RFC 4648 makes of bytes tells how many there are. *)
LEMMA RfcLen ==
  ASSUME NEW bytes \in Seq(0..255)
  PROVE  /\ DOMAIN RfcBase64(bytes) = 1..(4 * ((Len(bytes) + 2) \div 3))
         /\ \A k \in 1..(4 * ((Len(bytes) + 2) \div 3)) :
              RfcBase64(bytes)[k] = IF 6 * (k - 1) >= 8 * Len(bytes) THEN 64
                                   ELSE RfcChar(bytes, 6 * (k - 1))
  BY DEF RfcBase64, RfcChar, Six, Bit

LEMMA BitType == ASSUME NEW bytes \in Seq(0..255), NEW b \in Nat PROVE Bit(bytes, b) \in 0..1
<1>1. PICK n \in Nat : n = Len(bytes)
  OBVIOUS
<1>2. CASE b < 8 * n
  <2>1. PICK q \in Nat, j \in 0..7 : b \div 8 = q /\ b % 8 = j /\ b = 8 * q + j
    <3>1. b \div 8 \in Nat /\ b % 8 \in 0..7
      OBVIOUS
    <3>2. b = 8 * (b \div 8) + (b % 8)
      OBVIOUS
    <3> QED
      BY <3>1, <3>2
  <2>2. q + 1 \in DOMAIN bytes
    <3>1. q + 1 \in 1..n
      BY <1>2, <2>1
    <3>2. DOMAIN bytes = 1..n
      BY <1>1
    <3> QED
      BY <3>1, <3>2
  <2>3. bytes[q + 1] \in 0..255
    BY <2>2, ElementOf
  <2>4. Bits(bytes[q + 1])
    BY <2>3, ByteBits
  <2>5. BitOf(bytes[q + 1], j) \in 0..1
    BY <2>4, j \in {0, 1, 2, 3, 4, 5, 6, 7} DEF Bits, Binary
  <2> QED
    BY <1>1, <1>2, <2>1, <2>5 DEF Bit
<1>3. CASE ~(b < 8 * n)
  BY <1>1, <1>3 DEF Bit
<1> QED
  BY <1>2, <1>3

LEMMA RfcCharType ==
  ASSUME NEW bytes \in Seq(0..255), NEW b \in Nat
  PROVE  RfcChar(bytes, b) # 64
<1>1. /\ Bit(bytes, b) \in 0..1 /\ Bit(bytes, b + 1) \in 0..1 /\ Bit(bytes, b + 2) \in 0..1
      /\ Bit(bytes, b + 3) \in 0..1 /\ Bit(bytes, b + 4) \in 0..1 /\ Bit(bytes, b + 5) \in 0..1
  BY BitType
<1>2. ASSUME NEW p \in 0..1, NEW q \in 0..1, NEW r \in 0..1, NEW s \in 0..1, NEW t \in 0..1,
             NEW u \in 0..1
      PROVE  Six(p, q, r, s, t, u) # 64
  BY DEF Six
<1> QED
  BY <1>1, <1>2 DEF RfcChar

LEMMA RfcTellsLength ==
  ASSUME NEW d \in Seq(0..255), NEW e \in Seq(0..255), RfcBase64(d) = RfcBase64(e)
  PROVE  ~(Len(d) < Len(e))
<1>1. PICK n \in Nat, m \in Nat : n = Len(d) /\ m = Len(e)
  OBVIOUS
<1>2. SUFFICES ASSUME n < m PROVE FALSE
  BY <1>1
<1>3. PICK p \in Nat, q \in Nat : p = 4 * ((n + 2) \div 3) /\ q = 4 * ((m + 2) \div 3)
  OBVIOUS
<1>4. DOMAIN RfcBase64(d) = 1..p /\ DOMAIN RfcBase64(e) = 1..q
  BY <1>1, <1>3, RfcLen
<1>5. p = q
  <2>1. 1..p = 1..q
    BY <1>4
  <2> QED
    BY <2>1
<1>6. \E k \in 1..p : 6 * (k - 1) >= 8 * n /\ 6 * (k - 1) < 8 * m
  <2>1. PICK g \in Nat : (n + 2) \div 3 = g /\ (m + 2) \div 3 = g
    BY <1>3, <1>5
  <2>2. 3 * g <= n + 2 /\ n < 3 * g + 1 /\ m < 3 * g + 1 /\ 3 * g <= m + 2
    BY <2>1
  <2>3. p = 4 * g
    BY <1>3, <2>1
  <2>4. n = 3 * g - 2 \/ n = 3 * g - 1
    BY <1>2, <2>2
  <2>5. g >= 1
    BY <1>2, <2>2
  <2>6. CASE n = 3 * g - 2
    <3>1. 6 * (4 * g - 1 - 1) >= 8 * n /\ 6 * (4 * g - 1 - 1) < 8 * m /\ 4 * g - 1 \in 1..p
      BY <1>2, <2>3, <2>5, <2>6
    <3> QED
      BY <3>1
  <2>7. CASE n = 3 * g - 1
    <3>1. 6 * (4 * g - 1) >= 8 * n /\ 6 * (4 * g - 1) < 8 * m /\ 4 * g \in 1..p
      BY <1>2, <2>3, <2>5, <2>7
    <3> QED
      BY <3>1
  <2> QED
    BY <2>4, <2>6, <2>7
<1>7. PICK k \in 1..p : 6 * (k - 1) >= 8 * n /\ 6 * (k - 1) < 8 * m
  BY <1>6
<1>8. RfcBase64(d)[k] = 64
  BY <1>1, <1>3, <1>7, RfcLen
<1>9. RfcBase64(e)[k] = RfcChar(e, 6 * (k - 1))
  BY <1>1, <1>3, <1>5, <1>7, RfcLen
<1>10. 6 * (k - 1) \in Nat
  BY <1>7
<1> QED
  BY <1>8, <1>9, <1>10, RfcCharType

(* strlen() costs the key its text exactly if there is a zero byte. *)
LEMMA KeyText ==
  ASSUME NEW d \in Seq(0..255)
  PROVE  base64_encode(UpToZero(d)) = RfcBase64(d) <=> \A i \in DOMAIN d : d[i] # 0
<1>1. PICK n : IsPrefix0(d, n) /\ UpToZero(d) = SubSeq(d, 1, n)
  BY UpToZeroIs
<1>2. n \in 0..Len(d) /\ DOMAIN d = 1..Len(d) /\ Len(d) \in Nat
  BY <1>1 DEF IsPrefix0
<1>3. PICK e : e = SubSeq(d, 1, n)
  OBVIOUS
<1>4. e \in Seq(0..255) /\ Len(e) = n
  BY <1>2, <1>3
<1>5. base64_encode(UpToZero(d)) = RfcBase64(e)
  BY <1>1, <1>3, <1>4, EncodesAsRfc
<1>6. CASE n = Len(d)
  <2>1. e = d
    BY <1>2, <1>3, <1>6
  <2>2. \A i \in DOMAIN d : d[i] # 0
    BY <1>1, <1>2, <1>6 DEF IsPrefix0
  <2> QED
    BY <1>5, <2>1, <2>2
<1>7. CASE n < Len(d)
  <2>1. d[n + 1] = 0 /\ n + 1 \in DOMAIN d
    BY <1>1, <1>2, <1>7 DEF IsPrefix0
  <2>2. RfcBase64(e) # RfcBase64(d)
    BY <1>4, <1>7, RfcTellsLength
  <2> QED
    BY <1>5, <2>1, <2>2
<1>8. n = Len(d) \/ n < Len(d)
  <2>1. \A m \in Nat : \A k \in 0..m : k = m \/ k < m
    OBVIOUS
  <2> QED
    BY <1>2, <2>1, Zenon
<1> QED
  BY <1>6, <1>7, <1>8

LEMMA HtoiType == ASSUME NEW d \in Seq(0..15) PROVE Htoi(d) \in Seq(0..255)
<1>1. PICK n \in Nat : n = Len(d)
  OBVIOUS
<1>2. PICK m \in Nat : m = n \div 2
  OBVIOUS
<1>3. Htoi(d) = [i \in 1..m |-> 16 * d[2 * i - 1] + d[2 * i]]
  BY <1>1, <1>2 DEF Htoi
<1>4. ASSUME NEW i \in 1..m PROVE 16 * d[2 * i - 1] + d[2 * i] \in 0..255
  <2>1. 2 * i - 1 \in 1..n /\ 2 * i \in 1..n
    BY <1>2
  <2>2. DOMAIN d = 1..n
    BY <1>1
  <2>3. d[2 * i - 1] \in 0..15 /\ d[2 * i] \in 0..15
    BY <2>1, <2>2, ElementOf
  <2>4. \A a \in 0..15, b \in 0..15 : 16 * a + b \in 0..255
    OBVIOUS
  <2> QED
    BY <2>3, <2>4
<1> QED
  BY <1>3, <1>4

-----------------------------------------------------------------------------
(* The answer to the handshake. *)
LEMMA Packed == ASSUME NEW m PROVE ~IsAnswer(packData(m)) /\ packData(m).body = Counted(m)
  BY DEF packData, IsAnswer

(* What a step may add to what the peer has been sent. *)
AnswerWritten ==
  /\ ShakeHand /\ out = <<>>
  /\ \E d \in Digests : out' = <<Answer(d)>>
EchoWritten ==
  /\ Respond /\ ~data.null
  /\ out' = Append(out, packData(data.text))
LineWritten ==
  /\ SendLine
  /\ out' = Append(out, packData(line))

LEMMA OutStep ==
  ASSUME IInv, [Next]_vars
  PROVE  out' = out \/ AnswerWritten \/ EchoWritten \/ LineWritten
<1>1. CASE ShakeHand
  <2>1. main = "shake" /\ out = <<>>
    BY <1>1, Parts DEF ShakeHand, Handshake
  <2>2. ASSUME NEW d \in Digests, Write(Answer(d), "no") PROVE out' = out \/ out' = <<Answer(d)>>
    BY <2>1, <2>2 DEF Write
  <2> QED
    BY <1>1, <2>1, <2>2 DEF ShakeHand, AnswerWritten
<1>2. CASE Respond
  BY <1>2 DEF Respond, Reply, Write, EchoWritten
<1>3. CASE SendLine
  BY <1>3 DEF SendLine, Reply, Write, LineWritten
<1>4. CASE ~(ShakeHand \/ Respond \/ SendLine)
  BY <1>4 DEF Next, Main, Keyboard, Peer, User, ReadRequest, ReadFrame, KeyOverflows, FrameOverruns, Fgets,
              Ask, SendFrame, Hangup, Type, EndTyping, vars, mainVars, keyVars, userVars, peerVars
<1> QED
  BY <1>1, <1>2, <1>3, <1>4

(* The answer is made of one of the digests. *)
AnswerMade ==
  Answered => \E d \in Digests : /\ out[1].digest = Htoi(d)
                                 /\ out[1].accept = base64_encode(UpToZero(Htoi(d)))

LEMMA AnswerMadeStep == ASSUME IInv, [Next]_vars, AnswerMade PROVE AnswerMade'
<1>1. CASE out' = out
  BY <1>1 DEF AnswerMade, Answered
<1>2. CASE AnswerWritten
  <2>1. PICK d \in Digests : out' = <<Answer(d)>>
    BY <1>2 DEF AnswerWritten
  <2>2. out'[1] = Answer(d)
    BY <2>1
  <2>3. Answer(d).digest = Htoi(d) /\ Answer(d).accept = base64_encode(UpToZero(Htoi(d)))
    BY DEF Answer
  <2> QED
    BY <2>2, <2>3 DEF AnswerMade
<1>3. ASSUME NEW m, out' = Append(out, packData(m)) PROVE AnswerMade'
  <2>1. PICK o : o = out
    OBVIOUS
  <2>2. o \in Seq({o[i] : i \in DOMAIN o})
    BY <2>1, Parts DEF OutInv
  <2>3. CASE o = <<>>
    <3>1. out'[1] = packData(m)
      BY <1>3, <2>1, <2>3
    <3> QED
      BY <3>1, Packed DEF AnswerMade, Answered
  <2>4. CASE o # <<>>
    <3>1. 1 \in DOMAIN o
      BY <2>2, <2>4
    <3>2. Append(o, packData(m))[1] = o[1]
      BY <2>2, <3>1, AppendAny
    <3>3. out'[1] = out[1] /\ out # <<>>
      BY <1>3, <2>1, <2>4, <3>2
    <3> QED
      BY <3>3 DEF AnswerMade, Answered
  <2> QED
    BY <2>3, <2>4
<1> QED
  BY <1>1, <1>2, <1>3, OutStep DEF EchoWritten, LineWritten

(* The peer accepts the answer exactly if the first read() held the whole  *)
(* key and no byte of the digest is zero, whatever digests SHA-1 yields:   *)
(* base64_encode() is the encoding of RFC 4648, and what strlen() cuts off *)
(* always shows.                                                           *)
THEOREM AcceptKey == Spec => []AcceptKeyRight
<1>1. Init => AnswerMade
  BY DEF Init, AnswerMade, Answered
<1>2. IInv /\ AnswerMade /\ [Next]_vars => AnswerMade'
  BY AnswerMadeStep
<1>3. AnswerMade => AcceptKeyRight
  <2> SUFFICES ASSUME AnswerMade, Answered
               PROVE  Accepts(out[1]) <=>
                        out[1].key = "whole" /\ \A i \in DOMAIN out[1].digest : out[1].digest[i] # 0
    BY DEF AcceptKeyRight
  <2>1. PICK d \in Digests : /\ out[1].digest = Htoi(d)
                             /\ out[1].accept = base64_encode(UpToZero(Htoi(d)))
    BY DEF AnswerMade
  <2>2. Htoi(d) \in Seq(0..255)
    BY DigestsAssumption, HtoiType
  <2>3. PICK h : h = Htoi(d)
    OBVIOUS
  <2>4. base64_encode(UpToZero(h)) = RfcBase64(h) <=> \A i \in DOMAIN h : h[i] # 0
    BY <2>2, <2>3, KeyText
  <2> QED
    BY <2>1, <2>3, <2>4 DEF Accepts
<1> QED
  BY <1>1, <1>2, <1>3, Inductive, PTL DEF Spec

-----------------------------------------------------------------------------
(* upTo, of Joined(): the texts of the first i frames. *)
UpTo(fs, f) == f = [i \in 0..Len(fs) |-> IF i = 0 THEN <<>> ELSE f[i - 1] \o fs[i].body]

(* The recursion holds as far as n. *)
Starts(fs, f, n) ==
  /\ DOMAIN f = 0..n /\ f[0] = <<>>
  /\ \A i \in 1..n : f[i] = f[i - 1] \o fs[i].body

LEMMA StartsNext ==
  ASSUME NEW fs, NEW n \in Nat, NEW f, Starts(fs, f, n)
  PROVE  \E g : Starts(fs, g, n + 1)
<1> DEFINE g == [i \in 0..(n + 1) |-> IF i <= n THEN f[i] ELSE f[n] \o fs[n + 1].body]
<1>1. DOMAIN g = 0..(n + 1) /\ g[0] = <<>>
  BY DEF Starts
<1>2. ASSUME NEW i \in 1..(n + 1) PROVE g[i] = g[i - 1] \o fs[i].body
  <2>1. CASE i <= n
    <3>1. i \in 1..n /\ i \in 0..(n + 1) /\ i - 1 \in 0..(n + 1) /\ i - 1 <= n
      BY <2>1
    <3>2. g[i] = f[i] /\ g[i - 1] = f[i - 1]
      BY <2>1, <3>1
    <3> QED
      BY <3>1, <3>2 DEF Starts
  <2>2. CASE i = n + 1
    BY <2>2
  <2>3. i <= n \/ i = n + 1
    OBVIOUS
  <2> HIDE DEF g
  <2> QED
    BY <2>1, <2>2, <2>3
<1> HIDE DEF g
<1> QED
  BY <1>1, <1>2 DEF Starts

LEMMA StartsAll == ASSUME NEW fs, NEW n \in Nat PROVE \E f : Starts(fs, f, n)
<1> DEFINE T == {k \in Nat : ~ \E f : Starts(fs, f, k)}
<1> SUFFICES ASSUME T # {} PROVE FALSE
  OBVIOUS
<1>1. PICK k \in T : \A y \in T : k <= y
  <2>1. T \subseteq Nat
    OBVIOUS
  <2> HIDE DEF T
  <2> QED
    BY <2>1, Least
<1>2. k # 0
  <2>1. Starts(fs, [i \in 0..0 |-> <<>>], 0)
    BY DEF Starts
  <2> QED
    BY <2>1
<1>3. k - 1 \in Nat /\ k - 1 \notin T
  BY <1>1, <1>2
<1>4. PICK f : Starts(fs, f, k - 1)
  BY <1>3
<1>5. \E g : Starts(fs, g, k - 1 + 1)
  BY <1>3, <1>4, StartsNext
<1>6. k - 1 + 1 = k
  BY <1>1
<1> QED
  BY <1>1, <1>5, <1>6

(* It leaves no choice. *)
SameTexts(fs, gs, n) == \A i \in 1..n : gs[i].body = fs[i].body

LEMMA StartsOnce ==
  ASSUME NEW fs, NEW gs, NEW n \in Nat, NEW f, NEW g,
         Starts(fs, f, n), Starts(gs, g, n + 1), SameTexts(fs, gs, n)
  PROVE  f[n] = g[n]
<1> DEFINE T == {k \in 0..n : f[k] # g[k]}
<1> SUFFICES ASSUME T # {} PROVE FALSE
  OBVIOUS
<1>1. PICK k \in T : \A y \in T : k <= y
  <2>1. T \subseteq Nat
    OBVIOUS
  <2> HIDE DEF T
  <2> QED
    BY <2>1, Least
<1>2. k # 0
  BY DEF Starts
<1>3. k - 1 \in 0..n /\ k - 1 \notin T /\ k \in 1..n /\ k \in 1..(n + 1)
  BY <1>1, <1>2
<1>4. f[k - 1] = g[k - 1]
  BY <1>3
<1>5. f[k] = f[k - 1] \o fs[k].body /\ g[k] = g[k - 1] \o gs[k].body
  BY <1>3 DEF Starts
<1> QED
  BY <1>1, <1>3, <1>4, <1>5 DEF SameTexts

LEMMA UpToStarts ==
  ASSUME NEW fs, Len(fs) \in Nat, NEW f
  PROVE  Starts(fs, f, Len(fs)) => UpTo(fs, f)
<1> SUFFICES ASSUME Starts(fs, f, Len(fs)) PROVE UpTo(fs, f)
  OBVIOUS
<1> PICK n \in Nat : n = Len(fs)
  OBVIOUS
<1> QED
  BY DEF Starts, UpTo

LEMMA JoinedIs ==
  ASSUME NEW fs, Len(fs) \in Nat
  PROVE  \E f : Starts(fs, f, Len(fs)) /\ Joined(fs) = f[Len(fs)]
<1>1. \E f : UpTo(fs, f)
  BY StartsAll, UpToStarts
<1> DEFINE f == CHOOSE u : u = [i \in 0..Len(fs) |-> IF i = 0 THEN <<>> ELSE u[i - 1] \o fs[i].body]
<1>2. Joined(fs) = f[Len(fs)]
  BY DEF Joined
<1>3. f = [i \in 0..Len(fs) |-> IF i = 0 THEN <<>> ELSE f[i - 1] \o fs[i].body]
  BY <1>1 DEF UpTo
<1> PICK n \in Nat : n = Len(fs)
  OBVIOUS
<1>4. PICK h : h = f
  OBVIOUS
<1>5. h = [i \in 0..n |-> IF i = 0 THEN <<>> ELSE h[i - 1] \o fs[i].body]
  BY <1>3, <1>4
<1>6. Starts(fs, h, n)
  <2>1. DOMAIN h = 0..n
    BY <1>5
  <2>2. h[0] = <<>>
    BY <1>5
  <2>3. ASSUME NEW i \in 1..n PROVE h[i] = h[i - 1] \o fs[i].body
    <3>1. i \in 0..n /\ i # 0
      OBVIOUS
    <3>2. h[i] = IF i = 0 THEN <<>> ELSE h[i - 1] \o fs[i].body
      BY <1>5, <3>1
    <3> QED
      BY <3>1, <3>2
  <2> QED
    BY <2>1, <2>2, <2>3 DEF Starts
<1> QED
  BY <1>2, <1>4, <1>6

(* One more frame is one more text. *)
LEMMA JoinedAppend ==
  ASSUME NEW fs, NEW gs, NEW n \in Nat, Len(fs) = n, Len(gs) = n + 1, \A i \in 1..n : gs[i] = fs[i]
  PROVE  Joined(gs) = Joined(fs) \o gs[n + 1].body
<1>1. PICK f : Starts(fs, f, n) /\ Joined(fs) = f[n]
  BY JoinedIs
<1>2. PICK g : Starts(gs, g, n + 1) /\ Joined(gs) = g[n + 1]
  BY JoinedIs
<1>3. f[n] = g[n]
  <2>1. SameTexts(fs, gs, n)
    BY DEF SameTexts
  <2> QED
    BY <1>1, <1>2, <2>1, StartsOnce
<1>4. g[n + 1] = g[n] \o gs[n + 1].body
  <2>1. PICK N : N = n + 1
    OBVIOUS
  <2>2. Starts(gs, g, N) /\ N \in 1..N /\ N - 1 = n
    BY <1>2, <2>1
  <2>3. g[N] = g[N - 1] \o gs[N].body
    BY <2>2 DEF Starts
  <2> QED
    BY <2>1, <2>2, <2>3
<1> QED
  BY <1>1, <1>2, <1>3, <1>4

LEMMA JoinedNone == ASSUME NEW fs, Len(fs) = 0 PROVE Joined(fs) = <<>>
<1>1. PICK f : Starts(fs, f, Len(fs)) /\ Joined(fs) = f[Len(fs)]
  BY JoinedIs
<1> QED
  BY <1>1 DEF Starts

-----------------------------------------------------------------------------
(* The keyboard thread. *)
LEMMA BodiesAppend ==
  ASSUME OutInv, NEW m, out' = Append(out, packData(m))
  PROVE  \E n \in Nat : /\ Len(Bodies) = n /\ Len(Bodies') = n + 1
                        /\ DOMAIN Bodies = 1..n /\ DOMAIN Bodies' = 1..(n + 1)
                        /\ \A i \in 1..n : Bodies'[i] = Bodies[i]
                        /\ Bodies'[n + 1].body = Counted(m)
<1>1. PICK o, r : o = out /\ r = out'
  OBVIOUS
<1>2. PICK S : o \in Seq(S) /\ packData(m) \in S
  <2>1. o \in Seq({o[i] : i \in DOMAIN o})
    BY <1>1 DEF OutInv
  <2>2. PICK S : S = {o[i] : i \in DOMAIN o} \cup {packData(m)}
    OBVIOUS
  <2>3. o \in Seq(S) /\ packData(m) \in S
    BY <2>1, <2>2, SeqMonotonic
  <2> QED
    BY <2>3
<1>3. PICK n \in Nat : n = Len(o)
  BY <1>2
<1>4. /\ r \in Seq(S) /\ Len(r) = n + 1 /\ r[n + 1] = packData(m)
      /\ DOMAIN o = 1..n /\ DOMAIN r = 1..(n + 1)
      /\ \A i \in 1..n : r[i] = o[i]
  BY <1>1, <1>2, <1>3
<1>5. CASE n = 0
  <2>1. o = <<>> /\ r[1] = packData(m) /\ Len(r) = 1
    <3>1. n + 1 = 1
      BY <1>5
    <3>2. o = <<>>
      BY <1>2, <1>3, <1>5, EmptySeq
    <3> QED
      BY <1>4, <3>1, <3>2
  <2>2. Bodies = o /\ Bodies' = r
    BY <1>1, <2>1, Packed DEF Bodies, Answered
  <2> QED
    BY <1>3, <1>4, <1>5, <2>2, Packed
<1>6. CASE n # 0 /\ ~IsAnswer(o[1])
  <2>1. o # <<>> /\ r # <<>> /\ r[1] = o[1]
    BY <1>2, <1>3, <1>4, <1>6
  <2>2. Bodies = o /\ Bodies' = r
    BY <1>1, <1>6, <2>1 DEF Bodies, Answered
  <2> QED
    BY <1>3, <1>4, <2>2, Packed
<1>7. CASE n # 0 /\ IsAnswer(o[1])
  <2>1. o # <<>> /\ r # <<>> /\ r[1] = o[1]
    BY <1>2, <1>3, <1>4, <1>7
  <2>2. Bodies = Tail(o) /\ Bodies' = Tail(r)
    BY <1>1, <1>7, <2>1 DEF Bodies, Answered
  <2>3. /\ Len(Tail(o)) = n - 1 /\ Len(Tail(r)) = n
        /\ DOMAIN Tail(o) = 1..(n - 1) /\ DOMAIN Tail(r) = 1..n
        /\ \A i \in 1..(n - 1) : Tail(o)[i] = o[i + 1]
        /\ \A i \in 1..n : Tail(r)[i] = r[i + 1]
    BY <1>2, <1>3, <1>4, <1>7
  <2>4. n - 1 \in Nat /\ n - 1 + 1 = n /\ n \in 1..n
    BY <1>7
  <2>5. \A i \in 1..(n - 1) : Tail(r)[i] = Tail(o)[i]
    <3> SUFFICES ASSUME NEW i \in 1..(n - 1) PROVE Tail(r)[i] = Tail(o)[i]
      OBVIOUS
    <3>1. i \in 1..n /\ i + 1 \in 1..n
      BY <1>7
    <3> QED
      BY <1>4, <2>3, <3>1
  <2>6. Tail(r)[n - 1 + 1].body = Counted(m)
    BY <1>4, <2>3, <2>4, Packed
  <2> QED
    BY <2>2, <2>3, <2>4, <2>5, <2>6
<1> QED
  BY <1>5, <1>6, <1>7

LEMMA BodiesAnswer ==
  ASSUME AnswerWritten
  PROVE  Bodies' = <<>> /\ Bodies = <<>>
<1>1. PICK d \in Digests : out' = <<Answer(d)>> /\ out = <<>>
  BY DEF AnswerWritten
<1>2. IsAnswer(Answer(d))
  BY DEF IsAnswer, Answer
<1>3. out' # <<>> /\ out'[1] = Answer(d) /\ Tail(out') = <<>>
  BY <1>1
<1> QED
  BY <1>1, <1>2, <1>3 DEF Bodies, Answered

(* What has been sent is the front of what was typed: up to the line in    *)
(* hand, as long as the peer is there.                                     *)
Delivered ==
  program = "chat" /\ NoNul(typed) =>
    \E n \in 0..Len(typed) : /\ SentText = SubSeq(typed, 1, n)
                             /\ peer = "open" => n = Before

LEMMA DeliveredSame ==
  ASSUME Delivered, UNCHANGED <<program, typed>>, Bodies' = Bodies, Before' = Before,
         peer' = "open" => peer = "open"
  PROVE  Delivered'
  BY DEF Delivered, SentText

LEMMA DeliveredType ==
  ASSUME Delivered, KeyType, UNCHANGED <<program, peer, out>>, NEW l \in Lines,
         typed' = typed \o l, Before' = Before
  PROVE  Delivered'
<1> SUFFICES ASSUME program = "chat", NoNul(typed') PROVE Delivered'
  BY DEF Delivered
<1>2. l \in Seq(Chars)
  BY TextType
<1>3. PICK s, t : s = typed /\ t = typed'
  OBVIOUS
<1>a. s \in Seq(Chars) /\ t = s \o l
  BY <1>3 DEF KeyType
<1>b. NoNul(s)
  <2> SUFFICES ASSUME NEW i \in DOMAIN s PROVE s[i] # Nul
    BY DEF NoNul
  <2>1. i \in DOMAIN t /\ t[i] = s[i]
    BY <1>2, <1>a
  <2> QED
    BY <1>3, <2>1 DEF NoNul
<1>1. PICK n \in 0..Len(typed) : SentText = SubSeq(typed, 1, n) /\ (peer = "open" => n = Before)
  BY <1>3, <1>b DEF Delivered
<1>4. s \in Seq(Chars) /\ t = s \o l /\ n \in 0..Len(s)
  BY <1>1, <1>3, <1>a
<1>5. n \in 0..Len(t) /\ SubSeq(t, 1, n) = SubSeq(s, 1, n)
  BY <1>2, <1>4
<1>6. SentText' = SentText
  BY DEF SentText, Bodies, Answered
<1> QED
  BY <1>1, <1>3, <1>5, <1>6 DEF Delivered

(* A front of s, and what comes next in s. *)
Follows(s, l, b) == b + Len(l) <= Len(s) /\ \A i \in 1..Len(l) : l[i] = s[b + i]

LEMMA Extends ==
  ASSUME NEW s \in Seq(Chars), NEW l \in Seq(Chars), NEW b \in Nat, Follows(s, l, b)
  PROVE  SubSeq(s, 1, b) \o l = SubSeq(s, 1, b + Len(l))
<1> PICK L : L = Len(l)
  OBVIOUS
<1> L \in Nat /\ b + L <= Len(s) /\ \A i \in 1..L : l[i] = s[b + i]
  BY DEF Follows
<1>1. PICK p, q : p = SubSeq(s, 1, b) \o l /\ q = SubSeq(s, 1, b + L)
  OBVIOUS
<1>2. p \in Seq(Chars) /\ q \in Seq(Chars) /\ Len(p) = b + L /\ Len(q) = b + L
  BY <1>1
<1>3. ASSUME NEW i \in 1..(b + L) PROVE p[i] = q[i]
  <2>1. q[i] = s[i]
    BY <1>1
  <2>2. CASE i <= b
    BY <1>1, <2>1, <2>2
  <2>3. CASE i > b
    <3>1. PICK j : j = i - b
      OBVIOUS
    <3>2. j \in 1..L /\ i = b + j
      BY <2>3, <3>1
    <3>3. p[i] = l[j]
      <4>1. PICK r : r = SubSeq(s, 1, b)
        OBVIOUS
      <4>2. r \in Seq(Chars) /\ Len(r) = b /\ b \in Nat
        BY <4>1
      <4>3. (r \o l)[b + j] = l[j]
        BY <3>2, <4>2
      <4> QED
        BY <1>1, <3>2, <4>1, <4>3
    <3> QED
      BY <2>1, <3>2, <3>3
  <2> QED
    BY <2>2, <2>3
<1> QED
  BY <1>1, <1>2, <1>3, SeqEqual

LEMMA DeliveredLine ==
  ASSUME Delivered, KeyType, KeyInv, OutInv, UNCHANGED <<program, typed>>,
         peer = "open", out' = Append(out, packData(line)), Before' = Before + Len(line)
  PROVE  Delivered'
<1> SUFFICES ASSUME program = "chat", NoNul(typed) PROVE Delivered'
  BY DEF Delivered
<1>1. PICK b \in 0..Len(typed) : SentText = SubSeq(typed, 1, b) /\ b = Before
  BY DEF Delivered
<1>2. PICK n \in Nat : /\ Len(Bodies) = n /\ Len(Bodies') = n + 1
                       /\ \A i \in 1..n : Bodies'[i] = Bodies[i]
                       /\ Bodies'[n + 1].body = Counted(line)
  BY BodiesAppend
<1>4. PICK s, l : s = typed /\ l = line
  OBVIOUS
<1>5. PICK N, L : N = Len(s) /\ L = Len(l)
  OBVIOUS
<1>6. /\ s \in Seq(Chars) /\ l \in Seq(Chars) /\ N \in Nat /\ L \in Nat /\ b \in 0..N
      /\ \A i \in 1..L : l[i] = s[b + i]
  <2>1. s \in Seq(Chars) /\ l \in Seq(Chars) /\ N \in Nat /\ L \in Nat /\ b \in 0..N
    BY <1>1, <1>4, <1>5 DEF KeyType
  <2>2. DOMAIN l = 1..L
    BY <1>5, <2>1
  <2>3. \A i \in DOMAIN line : line[i] = typed[Before + i]
    BY DEF KeyInv, Typing
  <2> QED
    BY <1>1, <1>4, <2>1, <2>2, <2>3
<1>7. b + L \in 0..N
  <2>1. Len(tty) \in Nat /\ Len(stdio) \in Nat
    BY DEF KeyType
  <2>2. b = N - Len(tty) - Len(stdio) - L
    BY <1>1, <1>4, <1>5 DEF Before
  <2> QED
    BY <1>6, <2>1, <2>2
<1>3. SentText' = SentText \o line
  <2>1. NoNul(l)
    <3> SUFFICES ASSUME NEW i \in DOMAIN l PROVE l[i] # Nul
      BY DEF NoNul
    <3>1. i \in 1..L /\ b + i \in 1..N /\ l[i] = s[b + i]
      BY <1>5, <1>6, <1>7
    <3>2. b + i \in DOMAIN s
      BY <1>5, <1>6, <3>1
    <3> QED
      BY <1>4, <3>1, <3>2 DEF NoNul
  <2>2. Counted(line) = line
    BY <1>4, <1>6, <2>1, CountedIs
  <2> QED
    BY <1>2, <2>2, JoinedAppend DEF SentText
<1>8. SubSeq(s, 1, b) \o l = SubSeq(s, 1, b + L)
  <2>1. Follows(s, l, b)
    BY <1>5, <1>6, <1>7 DEF Follows
  <2>2. b \in Nat
    BY <1>6
  <2>3. SubSeq(s, 1, b) \o l = SubSeq(s, 1, b + Len(l))
    BY <1>6, <2>1, <2>2, Extends
  <2> QED
    BY <1>5, <2>3
<1> QED
  BY <1>1, <1>3, <1>4, <1>5, <1>7, <1>8 DEF Delivered

LEMMA DeliveredStep == ASSUME IInv, [Next]_vars, Delivered PROVE Delivered'
<1> USE Parts
<1>1. CASE SendLine
  <2>1. Before' = Before + Len(line) /\ UNCHANGED <<program, typed>>
    BY <1>1, SendLineKey DEF SendLine, userVars
  <2>2. Packable(line)
    <3>1. line \in Seq(Chars) /\ Len(line) \in Nat /\ Len(line) < LineSize
      BY DEF KeyType
    <3>2. Len(Counted(line)) <= Len(line) /\ Len(Counted(line)) \in Nat
      BY <3>1, CountedIs
    <3> QED
      BY <3>1, <3>2, Sizes, LineSizeAssumption DEF Packable
  <2>3. Write(packData(line), IF Exits THEN "exit" ELSE "no")
    BY <1>1, <2>2 DEF SendLine, Reply
  <2>4. CASE peer = "open" /\ out' = Append(out, packData(line))
    BY <2>1, <2>4, DeliveredLine
  <2>5. CASE peer' # "open" /\ out' = out
    BY <2>1, <2>5 DEF Delivered, SentText, Bodies, Answered
  <2> QED
    BY <2>3, <2>4, <2>5 DEF Write
<1>2. ASSUME NEW l \in Lines, Type(l) PROVE Delivered'
  BY <1>2, TypeKey, DeliveredType DEF Type
<1>3. CASE Fgets
  <2>1. Before' = Before /\ UNCHANGED <<program, typed, peer, out>>
    BY <1>3, FgetsKey DEF Fgets, userVars
  <2> QED
    BY <2>1, DeliveredSame DEF Bodies, Answered
<1>4. CASE ~(SendLine \/ Fgets \/ \E l \in Lines : Type(l))
  <2>1. UNCHANGED <<program, line, stdio, tty, typed>>
    BY <1>4 DEF Next, Main, Keyboard, Peer, User, ReadRequest, ReadFrame, KeyOverflows, FrameOverruns,
                ShakeHand, Respond, Ask, SendFrame, Hangup, EndTyping, vars, mainVars, keyVars, userVars,
                peerVars
  <2>2. Before' = Before
    BY <2>1 DEF Before
  <2>3. peer' = "open" => peer = "open"
    BY <1>4 DEF Next, Main, Keyboard, Peer, User, ReadRequest, ReadFrame, KeyOverflows, FrameOverruns,
                ShakeHand, Respond, Reply, Write, Read, Ask, SendFrame, Hangup, EndTyping, vars
  <2>4. CASE out' = out
    BY <2>1, <2>2, <2>3, <2>4, DeliveredSame DEF Bodies, Answered
  <2>5. CASE AnswerWritten
    BY <2>1, <2>2, <2>3, <2>5, BodiesAnswer, DeliveredSame
  <2>6. CASE EchoWritten
    <3>1. program # "chat"
      BY <2>6 DEF EchoWritten, Respond, Control
    <3> QED
      BY <2>1, <3>1 DEF Delivered
  <2> QED
    BY <1>4, <2>4, <2>5, <2>6, OutStep DEF LineWritten
<1> QED
  BY <1>1, <1>2, <1>3, <1>4

(* The line, stdio and the terminal hold what is missing. *)
LEMMA DeliveredAll == ASSUME IInv, Delivered PROVE LinesConserved
<1> SUFFICES ASSUME program = "chat", NoNul(typed)
             PROVE  \/ SentText \o line \o stdio \o tty = typed
                    \/ peer # "open" /\ \E n \in 0..Len(typed) : SentText = SubSeq(typed, 1, n)
  BY DEF LinesConserved
<1> USE Parts
<1>1. PICK b \in 0..Len(typed) : SentText = SubSeq(typed, 1, b) /\ (peer = "open" => b = Before)
  BY DEF Delivered
<1>2. CASE peer # "open"
  BY <1>1, <1>2
<1>3. CASE peer = "open"
  <2>1. PICK s, u, l, o, t : s = SubSeq(typed, 1, b) /\ u = typed /\ l = line /\ o = stdio /\ t = tty
    OBVIOUS
  <2>2. u \in Seq(Chars) /\ l \in Seq(Chars) /\ o \in Seq(Chars) /\ t \in Seq(Chars)
    BY <2>1 DEF KeyType
  <2>3. PICK N, L, O, T \in Nat : N = Len(u) /\ L = Len(l) /\ O = Len(o) /\ T = Len(t)
    BY <2>2
  <2>4. s \in Seq(Chars) /\ Len(s) = b /\ b \in Nat /\ \A i \in 1..b : s[i] = u[i]
    BY <1>1, <2>1, <2>2
  <2>5. b + L + O + T = N
    BY <1>1, <1>3, <2>1, <2>3, <2>4 DEF Before
  <2>6. /\ \A i \in 1..L : l[i] = u[b + i]
        /\ \A i \in 1..O : o[i] = u[b + L + i]
        /\ \A i \in 1..T : t[i] = u[b + L + O + i]
    <3>1. DOMAIN l = 1..L /\ DOMAIN o = 1..O /\ DOMAIN t = 1..T
      BY <2>2, <2>3
    <3>2. Before = b
      BY <1>1, <1>3
    <3> QED
      BY <2>1, <2>3, <3>1, <3>2 DEF KeyInv, Typing
  <2>7. s \o l = SubSeq(u, 1, b + L)
    <3>1. Follows(u, l, b)
      BY <2>3, <2>4, <2>5, <2>6 DEF Follows
    <3>2. SubSeq(u, 1, b) \o l = SubSeq(u, 1, b + Len(l))
      BY <2>2, <2>4, <3>1, Extends
    <3> QED
      BY <2>1, <2>3, <3>2
  <2>8. SubSeq(u, 1, b + L) \o o = SubSeq(u, 1, b + L + O)
    <3>1. Follows(u, o, b + L) /\ b + L \in Nat
      BY <2>3, <2>4, <2>5, <2>6 DEF Follows
    <3>2. SubSeq(u, 1, b + L) \o o = SubSeq(u, 1, b + L + Len(o))
      BY <2>2, <3>1, Extends
    <3> QED
      BY <2>3, <3>2
  <2>9. SubSeq(u, 1, b + L + O) \o t = SubSeq(u, 1, b + L + O + T)
    <3>1. Follows(u, t, b + L + O) /\ b + L + O \in Nat
      BY <2>3, <2>4, <2>5, <2>6 DEF Follows
    <3>2. SubSeq(u, 1, b + L + O) \o t = SubSeq(u, 1, b + L + O + Len(t))
      BY <2>2, <3>1, Extends
    <3> QED
      BY <2>3, <3>2
  <2>10. SubSeq(u, 1, N) = u
    BY <2>2, <2>3
  <2> QED
    BY <1>1, <2>1, <2>5, <2>7, <2>8, <2>9, <2>10
<1> QED
  BY <1>2, <1>3

(* Nothing that is typed is lost, repeated or put out of order on its way  *)
(* to a peer that is still there, however stdio and select() share it out, *)
(* unless a Nul is typed.                                                  *)
THEOREM LinesKept == Spec => []LinesConserved
<1>1. Init => Delivered
  <2> SUFFICES ASSUME Init PROVE Delivered
    OBVIOUS
  <2>1. typed = <<>> /\ Len(typed) = 0 /\ Before = 0 - 0 - 0 - 0
    BY DEF Init, Before
  <2>2. SentText = <<>>
    BY JoinedNone DEF Init, SentText, Bodies, Answered
  <2>3. 0 \in 0..Len(typed) /\ SubSeq(typed, 1, 0) = <<>> /\ Before = 0
    BY <2>1
  <2> QED
    BY <2>2, <2>3 DEF Delivered
<1>2. IInv /\ Delivered /\ [Next]_vars => Delivered'
  BY DeliveredStep
<1>3. IInv /\ Delivered => LinesConserved
  BY DeliveredAll
<1> QED
  BY <1>1, <1>2, <1>3, Inductive, PTL DEF Spec
-----------------------------------------------------------------------------
(* The order of the frames.  Units are counted from the first that was     *)
(* ever sent: frame j starts at unit p[j], and r units have left net.      *)
FrameOf(frame) == Frame(frame.whole, frame.text)
Lies(s, i, f) == i + Len(f) <= Len(s) + 1 /\ \A m \in 1..Len(f) : s[i + m - 1] = f[m]

InOrder(p, n) == \A j, k \in 1..n : j < k => p[j] < p[k]
AllThere(s, sends, p, r) ==
  \A j \in DOMAIN sends, i \in DOMAIN s : p[j] = r + i => Lies(s, i, FrameOf(sends[j]))
AllKnown(s, sends, p, r) ==
  \A i \in DOMAIN s : s[i].unit = "first" => \E j \in DOMAIN sends : p[j] = r + i

Placed(s, sends, p, r) ==
  /\ p \in [DOMAIN sends -> Nat] /\ r \in Nat
  /\ InOrder(p, Len(sends))
  /\ \A j \in DOMAIN sends : p[j] <= r + Len(s)
  /\ AllThere(s, sends, p, r)
  /\ AllKnown(s, sends, p, r)

Sends == Seq([whole : BOOLEAN, text : Texts])

LEMMA FrameUnits ==
  ASSUME NEW sends \in Sends, NEW j \in DOMAIN sends
  PROVE  /\ sends[j] \in [whole : BOOLEAN, text : Texts]
         /\ FrameOf(sends[j]) \in Seq(Unit) /\ Len(FrameOf(sends[j])) \in Nat
         /\ Len(FrameOf(sends[j])) >= 3
<1>1. PICK S : S = [whole : BOOLEAN, text : Texts]
  OBVIOUS
<1>2. sends[j] \in S
  BY <1>1, ElementOf DEF Sends
<1>3. PICK w, t : w = sends[j].whole /\ t = sends[j].text
  OBVIOUS
<1>4. w \in BOOLEAN /\ t \in Texts
  BY <1>1, <1>2, <1>3
<1>5. PICK f : f = Frame(w, t)
  OBVIOUS
<1>6. f \in Seq(Unit) /\ Len(f) = Len(t) + (IF Len(t) < Short THEN 3 ELSE 4) /\ Len(t) \in Nat
  BY <1>4, <1>5, FrameShape
<1>7. Len(f) \in Nat /\ Len(f) >= 3
  BY <1>6
<1> QED
  BY <1>1, <1>2, <1>3, <1>5, <1>6, <1>7 DEF FrameOf

(* A read takes units from the front. *)
LEMMA LiesRest ==
  ASSUME NEW s \in Seq(Unit), NEW q \in Seq(Unit), NEW n \in Nat, Rest(s, n, q),
         NEW f, Len(f) \in Nat, NEW i \in DOMAIN q, Lies(s, n + i, f)
  PROVE  Lies(q, i, f)
<1>1. Len(s) \in Nat /\ Len(q) \in Nat /\ Len(q) = Len(s) - n /\ i \in 1..Len(q)
  BY DEF Rest
<1>2. i + Len(f) <= Len(q) + 1
  BY <1>1 DEF Lies
<1>3. Alike(s, n, q, i, Len(f))
  BY <1>1, <1>2, RestAlike
<1> QED
  BY <1>2, <1>3 DEF Lies, Alike

LEMMA PlacedRest ==
  ASSUME NEW s \in Seq(Unit), NEW q \in Seq(Unit), NEW n \in Nat, n <= Len(s), Rest(s, n, q),
         NEW sends \in Sends, NEW p, NEW r, Placed(s, sends, p, r)
  PROVE  Placed(q, sends, p, r + n)
<1>1. PICK N, M \in Nat : N = Len(s) /\ M = Len(q) /\ DOMAIN s = 1..N /\ DOMAIN q = 1..M /\ M = N - n
  BY DEF Rest
<1>2. r \in Nat /\ r + n \in Nat /\ p \in [DOMAIN sends -> Nat] /\ InOrder(p, Len(sends))
  BY DEF Placed
<1>3. ASSUME NEW j \in DOMAIN sends PROVE p[j] <= r + n + Len(q)
  <2>1. p[j] <= r + N /\ p[j] \in Nat
    BY <1>1 DEF Placed
  <2> QED
    BY <1>1, <1>2, <2>1
<1>4. ASSUME NEW i \in DOMAIN q PROVE n + i \in DOMAIN s /\ q[i] = s[n + i] /\ r + n + i = r + (n + i)
  BY <1>1, <1>2 DEF Rest
<1>5. AllThere(q, sends, p, r + n)
  <2> SUFFICES ASSUME NEW j \in DOMAIN sends, NEW i \in DOMAIN q, p[j] = r + n + i
               PROVE  Lies(q, i, FrameOf(sends[j]))
    BY DEF AllThere
  <2>1. Lies(s, n + i, FrameOf(sends[j]))
    BY <1>4 DEF Placed, AllThere
  <2> QED
    BY <2>1, FrameUnits, LiesRest
<1>6. AllKnown(q, sends, p, r + n)
  BY <1>4 DEF Placed, AllKnown
<1> QED
  BY <1>2, <1>3, <1>5, <1>6 DEF Placed

(* What is sent goes behind. *)
Behinds(s, q, t) ==
  /\ Len(t) = Len(s) + Len(q) /\ \A i \in 1..Len(s) : t[i] = s[i]
  /\ \A i \in 1..Len(q) : t[Len(s) + i] = q[i]

LEMMA LiesLonger ==
  ASSUME NEW s \in Seq(Unit), NEW q \in Seq(Unit), NEW t, Behinds(s, q, t),
         NEW f, Len(f) \in Nat, NEW i \in DOMAIN s, Lies(s, i, f)
  PROVE  Lies(t, i, f)
<1>1. PICK N, R, F \in Nat : N = Len(s) /\ R = Len(q) /\ F = Len(f) /\ DOMAIN s = 1..N
  OBVIOUS
<1>2. i + F <= N + 1 /\ Len(t) = N + R /\ i \in 1..N
  BY <1>1 DEF Lies, Behinds
<1>3. ASSUME NEW m \in 1..F PROVE t[i + m - 1] = f[m]
  <2>1. i + m - 1 \in 1..N
    BY <1>2
  <2>2. s[i + m - 1] = f[m]
    BY <1>1 DEF Lies
  <2> QED
    BY <1>1, <2>1, <2>2 DEF Behinds
<1> QED
  BY <1>1, <1>2, <1>3 DEF Lies

LEMMA PlacedLonger ==
  ASSUME NEW s \in Seq(Unit), NEW q \in Seq(Unit), NEW t \in Seq(Unit), Behinds(s, q, t),
         NEW sends \in Sends, NEW p, NEW r, Placed(s, sends, p, r),
         \A i \in DOMAIN q : q[i].unit # "first"
  PROVE  Placed(t, sends, p, r)
<1>1. PICK N, R \in Nat : N = Len(s) /\ R = Len(q) /\ DOMAIN s = 1..N /\ DOMAIN q = 1..R
  OBVIOUS
<1>2. DOMAIN t = 1..(N + R) /\ Len(t) = N + R
  BY <1>1 DEF Behinds
<1>3. r \in Nat /\ p \in [DOMAIN sends -> Nat] /\ InOrder(p, Len(sends))
  BY DEF Placed
<1>4. ASSUME NEW j \in DOMAIN sends PROVE p[j] <= r + N /\ p[j] <= r + Len(t) /\ p[j] \in Nat
  <2>1. p[j] <= r + N /\ p[j] \in Nat
    BY <1>1 DEF Placed
  <2> QED
    BY <1>2, <1>3, <2>1
<1>5. AllThere(t, sends, p, r)
  <2> SUFFICES ASSUME NEW j \in DOMAIN sends, NEW i \in DOMAIN t, p[j] = r + i
               PROVE  Lies(t, i, FrameOf(sends[j]))
    BY DEF AllThere
  <2>1. i \in DOMAIN s
    BY <1>1, <1>2, <1>3, <1>4
  <2>2. Lies(s, i, FrameOf(sends[j]))
    BY <2>1 DEF Placed, AllThere
  <2> QED
    BY <2>1, <2>2, FrameUnits, LiesLonger
<1>6. AllKnown(t, sends, p, r)
  <2> SUFFICES ASSUME NEW i \in DOMAIN t, t[i].unit = "first"
               PROVE  \E j \in DOMAIN sends : p[j] = r + i
    BY DEF AllKnown
  <2>1. CASE i \in 1..N
    BY <1>1, <2>1 DEF Behinds, Placed, AllKnown
  <2>2. CASE i \notin 1..N
    <3>1. PICK k : k = i - N
      OBVIOUS
    <3>2. k \in 1..R /\ i = N + k
      BY <1>2, <2>2, <3>1
    <3>3. t[i] = q[k]
      BY <1>1, <3>2 DEF Behinds
    <3> QED
      BY <1>1, <3>2, <3>3
  <2> QED
    BY <2>1, <2>2
<1> QED
  BY <1>3, <1>4, <1>5, <1>6 DEF Placed

Extended(a, b, n) == \A j \in 1..n : b[j] = a[j]

LEMMA PlacedSend ==
  ASSUME NEW s \in Seq(Unit), NEW q \in Seq(Unit), NEW t \in Seq(Unit), Behinds(s, q, t),
         NEW sends \in Sends, NEW more \in Sends, NEW K \in Nat, Len(sends) = K, Len(more) = K + 1,
         Extended(sends, more, K), q = FrameOf(more[K + 1]),
         \A i \in 2..Len(q) : q[i].unit # "first",
         NEW p, NEW r, Placed(s, sends, p, r)
  PROVE  \E p2 : Placed(t, more, p2, r) /\ Extended(p, p2, K)
<1>1. PICK N, R \in Nat : N = Len(s) /\ R = Len(q) /\ DOMAIN s = 1..N /\ DOMAIN q = 1..R
  OBVIOUS
<1>2. DOMAIN t = 1..(N + R) /\ Len(t) = N + R /\ DOMAIN sends = 1..K /\ DOMAIN more = 1..(K + 1)
  BY <1>1 DEF Behinds, Sends
<1>3. r \in Nat /\ p \in [1..K -> Nat] /\ InOrder(p, K)
  BY <1>2 DEF Placed
<1>4. ASSUME NEW j \in 1..K PROVE p[j] <= r + N /\ p[j] \in Nat
  BY <1>1, <1>2, <1>3 DEF Placed
<1>5. R >= 3
  <2>1. K + 1 \in DOMAIN more
    BY <1>2
  <2> QED
    BY <1>1, <2>1, FrameUnits
<1>6. PICK p2 : p2 = [j \in 1..(K + 1) |-> IF j <= K THEN p[j] ELSE r + N + 1]
  OBVIOUS
<1>7. /\ p2[K + 1] = r + N + 1
      /\ \A j \in 1..K : p2[j] = p[j]
  BY <1>6
<1>8. p2 \in [DOMAIN more -> Nat]
  BY <1>2, <1>3, <1>4, <1>6
<1>9. InOrder(p2, K + 1)
  <2> SUFFICES ASSUME NEW j \in 1..(K + 1), NEW k \in 1..(K + 1), j < k PROVE p2[j] < p2[k]
    BY DEF InOrder
  <2>1. j \in 1..K
    OBVIOUS
  <2>2. CASE k \in 1..K
    BY <1>3, <1>7, <2>1, <2>2 DEF InOrder
  <2>3. CASE k = K + 1
    BY <1>1, <1>3, <1>4, <1>7, <2>1, <2>3
  <2> QED
    BY <2>2, <2>3
<1>10. ASSUME NEW j \in 1..(K + 1) PROVE p2[j] <= r + Len(t)
  <2>1. CASE j \in 1..K
    BY <1>1, <1>2, <1>3, <1>4, <1>7, <2>1
  <2>2. CASE j = K + 1
    BY <1>1, <1>2, <1>3, <1>5, <1>7, <2>2
  <2> QED
    BY <2>1, <2>2
<1>11. AllThere(t, more, p2, r)
  <2> SUFFICES ASSUME NEW j \in 1..(K + 1), NEW i \in 1..(N + R), p2[j] = r + i
               PROVE  Lies(t, i, FrameOf(more[j]))
    BY <1>2 DEF AllThere
  <2>1. CASE j \in 1..K
    <3>1. p[j] = r + i /\ i \in DOMAIN s /\ more[j] = sends[j] /\ j \in DOMAIN sends
      BY <1>1, <1>2, <1>3, <1>4, <1>7, <2>1 DEF Extended
    <3>2. Lies(s, i, FrameOf(sends[j]))
      BY <3>1 DEF Placed, AllThere
    <3> QED
      BY <3>1, <3>2, FrameUnits, LiesLonger
  <2>2. CASE j = K + 1
    <3>1. i = N + 1
      BY <1>1, <1>3, <1>7, <2>2
    <3>2. ASSUME NEW m \in 1..R PROVE t[i + m - 1] = q[m]
      <4>1. i + m - 1 = N + m
        BY <1>1, <3>1
      <4> QED
        BY <1>1, <4>1 DEF Behinds
    <3>3. i + R <= Len(t) + 1
      BY <1>1, <1>2, <3>1
    <3> QED
      BY <1>1, <2>2, <3>2, <3>3 DEF Lies
  <2> QED
    BY <2>1, <2>2
<1>12. AllKnown(t, more, p2, r)
  <2> SUFFICES ASSUME NEW i \in 1..(N + R), t[i].unit = "first"
               PROVE  \E j \in 1..(K + 1) : p2[j] = r + i
    BY <1>2 DEF AllKnown
  <2>1. CASE i \in 1..N
    <3>1. s[i].unit = "first"
      BY <1>1, <2>1 DEF Behinds
    <3>2. PICK j \in 1..K : p[j] = r + i
      BY <1>1, <1>2, <2>1, <3>1 DEF Placed, AllKnown
    <3> QED
      BY <1>7, <3>2
  <2>2. CASE i \notin 1..N
    <3>1. PICK k : k = i - N
      OBVIOUS
    <3>2. k \in 1..R /\ i = N + k
      BY <1>1, <2>2, <3>1
    <3>3. q[k].unit = "first"
      BY <1>1, <3>2 DEF Behinds
    <3>4. k = 1
      BY <1>1, <3>2, <3>3
    <3>5. p2[K + 1] = r + i /\ K + 1 \in 1..(K + 1)
      BY <1>1, <1>3, <1>7, <3>2, <3>4
    <3> QED
      BY <3>5
  <2> QED
    BY <2>1, <2>2
<1>13. Placed(t, more, p2, r)
  BY <1>2, <1>3, <1>8, <1>9, <1>10, <1>11, <1>12 DEF Placed
<1> QED
  BY <1>7, <1>13 DEF Extended

-----------------------------------------------------------------------------
(* What a step does to what is under way. *)
LEMMA ConcatBehinds ==
  ASSUME NEW s \in Seq(Unit), NEW q \in Seq(Unit)
  PROVE  s \o q \in Seq(Unit) /\ Behinds(s, q, s \o q)
<1>1. PICK t, N, R : t = s \o q /\ N = Len(s) /\ R = Len(q)
  OBVIOUS
<1>2. t \in Seq(Unit) /\ Len(t) = N + R
  BY <1>1
<1>3. (\A i \in 1..N : t[i] = s[i]) /\ (\A i \in 1..R : t[N + i] = q[i])
  BY <1>1
<1> QED
  BY <1>1, <1>2, <1>3 DEF Behinds

LEMMA PlacedRead ==
  ASSUME NetInv, NEW n, Read(n), net' = SubSeq(net, n + 1, Len(net)), sent' = sent,
         NEW p, NEW r, Placed(net, sent, p, r)
  PROVE  n \in Nat /\ Placed(net', sent', p, r + n)
<1>1. PICK q : q = net'
  OBVIOUS
<1>2. n \in Nat /\ n <= Len(net) /\ q \in Seq(Unit) /\ Rest(net, n, q)
  BY <1>1, ReadUnits DEF Rest, NetInv
<1>3. Placed(q, sent, p, r + n)
  BY <1>2, PlacedRest DEF NetInv, Sends
<1> QED
  BY <1>1, <1>2, <1>3

LEMMA PlacedAsk ==
  ASSUME NetInv, NEW kind, net' = net \o Request(kind), sent' = sent,
         NEW p, NEW r, Placed(net, sent, p, r)
  PROVE  Placed(net', sent', p, r)
<1>1. PICK q, t : q = Request(kind) /\ t = net \o q
  OBVIOUS
<1>2. q \in Seq(Unit) /\ \A i \in DOMAIN q : q[i].unit # "first"
  BY <1>1, RequestType
<1>3. t \in Seq(Unit) /\ Behinds(net, q, t)
  BY <1>1, <1>2, ConcatBehinds DEF NetInv
<1>4. Placed(t, sent, p, r)
  BY <1>2, <1>3, PlacedLonger DEF NetInv, Sends
<1> QED
  BY <1>1, <1>4

LEMMA PlacedReset ==
  ASSUME NetInv, net' = <<>>, sent' = sent, NEW p, NEW r, Placed(net, sent, p, r)
  PROVE  Len(net) \in Nat /\ Placed(net', sent', p, r + Len(net))
<1>1. PICK q : q = net'
  OBVIOUS
<1>2. PICK n \in Nat : n = Len(net)
  BY DEF NetInv
<1>3. q \in Seq(Unit) /\ Rest(net, n, q) /\ n <= Len(net)
  BY <1>1, <1>2, EmptySeq DEF Rest
<1>4. Placed(q, sent, p, r + n)
  BY <1>3, PlacedRest DEF NetInv, Sends
<1> QED
  BY <1>1, <1>2, <1>4

LEMMA PlacedSendFrame ==
  ASSUME NetInv, NEW w \in BOOLEAN, NEW text \in Texts,
         sent' = Append(sent, [whole |-> w, text |-> text]), net' = net \o Frame(w, text),
         NEW p, NEW r, Placed(net, sent, p, r)
  PROVE  \E p2 : Placed(net', sent', p2, r) /\ Extended(p, p2, Len(sent))
<1>1. PICK q, t, e, more : q = Frame(w, text) /\ t = net \o q /\ e = [whole |-> w, text |-> text]
                           /\ more = Append(sent, e)
  OBVIOUS
<1>2. q \in Seq(Unit) /\ \A i \in 2..Len(q) : q[i].unit # "first"
  <2>1. q \in Seq(Unit) /\ \A i \in 2..Len(q) : q[i].unit \in {"second", "ext", "masks", "char"}
    BY <1>1, FrameShape
  <2> QED
    BY <2>1
<1>3. t \in Seq(Unit) /\ Behinds(net, q, t)
  BY <1>1, <1>2, ConcatBehinds DEF NetInv
<1>4. PICK S, K : S = [whole : BOOLEAN, text : Texts] /\ K = Len(sent)
  OBVIOUS
<1>5. e \in S /\ sent \in Seq(S) /\ K \in Nat
  BY <1>1, <1>4 DEF NetInv
<1>6. more \in Seq(S) /\ Len(more) = K + 1 /\ more[K + 1] = e /\ \A j \in 1..K : more[j] = sent[j]
  BY <1>1, <1>4, <1>5
<1>7. q = FrameOf(more[K + 1]) /\ Extended(sent, more, K)
  <2>1. e.whole = w /\ e.text = text
    BY <1>1
  <2> QED
    BY <1>1, <1>6, <2>1 DEF FrameOf, Extended
<1>8. more \in Sends /\ sent \in Sends /\ net \in Seq(Unit)
  BY <1>4, <1>5, <1>6 DEF Sends, NetInv
<1>9. \E p2 : Placed(t, more, p2, r) /\ Extended(p, p2, K)
  BY <1>2, <1>3, <1>4, <1>5, <1>6, <1>7, <1>8, PlacedSend
<1> QED
  BY <1>1, <1>4, <1>9

-----------------------------------------------------------------------------
(* Until a read() has ended inside it, the connection holds frames only    *)
(* once the first read() is over.                                          *)
FramesOnly(s) == (\A i \in DOMAIN s : s[i].unit # "http") /\ (s # <<>> => s[1].unit = "first")

Begun ==
  /\ connected \/ main = "shake" => asked # "nothing" \/ peer # "open"
  /\ ~connected => sent = <<>>
  /\ (connected \/ main = "shake") /\ ~cut => FramesOnly(net)

LEMMA RequestRest ==
  ASSUME NEW kind, NEW n \in Nat \ {0}, NEW q \in Seq(Unit), Rest(Request(kind), n, q), q # <<>>
  PROVE  ~StartsItem(q[1])
<1>1. PICK s : s = Request(kind)
  OBVIOUS
<1>2. s \in Seq(Unit) /\ (kind = "upgrade" => Len(s) = 3 /\ s[2] = Line("key1") /\ s[3] = Line("key2"))
      /\ (kind # "upgrade" => Len(s) = 1)
  BY <1>1, RequestType
<1>3. Len(q) >= 1 /\ Len(q) = Len(s) - n /\ q[1] = s[n + 1] /\ Len(q) \in Nat
  <2>1. Len(q) \in Nat /\ Len(q) # 0
    BY EmptySeq
  <2>2. 1 \in 1..Len(q)
    BY <2>1
  <2> QED
    BY <1>1, <2>1, <2>2 DEF Rest
<1>4. q[1] \in {Line("key1"), Line("key2")}
  <2>1. Len(s) = 3 /\ n \in {1, 2}
    BY <1>2, <1>3
  <2>2. CASE n = 1
    BY <1>2, <1>3, <2>1, <2>2
  <2>3. CASE n = 2
    BY <1>2, <1>3, <2>1, <2>3
  <2> QED
    BY <2>1, <2>2, <2>3
<1> QED
  BY <1>4 DEF Line, StartsItem, First

LEMMA BegunRequest ==
  ASSUME IInv, Begun, NEW n, ReadRequest(n)
  PROVE  Begun'
<1> USE Parts
<1>1. /\ main = "read" /\ ~connected /\ ~connected' /\ Read(n) /\ net' = SubSeq(net, n + 1, Len(net))
      /\ cut' = (cut \/ (net' # <<>> /\ ~StartsItem(net'[1])))
      /\ UNCHANGED <<asked, sent>>
  BY DEF ReadRequest, peerVars
<1>2. PICK q : q = net'
  OBVIOUS
<1>3. n \in Nat /\ n <= Len(net) /\ q \in Seq(Unit) /\ Rest(net, n, q) /\ Len(net) \in Nat
  BY <1>1, <1>2, ReadUnits DEF Rest, NetInv
<1>4. net = <<>> \/ (asked # "nothing" /\ net = Request(asked))
  BY <1>1 DEF Handshake
<1>5. asked' # "nothing" \/ peer' # "open"
  <2>1. CASE net = <<>>
    <3>1. n = 0
      BY <1>3, <2>1
    <3> QED
      BY <1>1, <3>1 DEF Read
  <2> QED
    BY <1>1, <1>4, <2>1
<1>6. ~cut' => FramesOnly(net')
  <2> SUFFICES ASSUME ~cut' PROVE q = <<>>
    BY <1>2 DEF FramesOnly
  <2>1. q = <<>> \/ StartsItem(q[1])
    BY <1>1, <1>2
  <2>2. CASE n = 0
    <3>1. net = <<>>
      BY <1>1, <2>2 DEF Read
    <3>2. Len(q) = 0
      BY <1>3, <2>2, <3>1 DEF Rest
    <3> QED
      BY <1>3, <3>2, EmptySeq
  <2>3. CASE n # 0
    <3>1. net # <<>>
      BY <1>3, <2>3
    <3> QED
      BY <1>3, <1>4, <2>1, <2>3, <3>1, RequestRest
  <2> QED
    BY <2>2, <2>3
<1>7. sent' = <<>>
  BY <1>1 DEF Begun
<1> QED
  BY <1>5, <1>6, <1>7 DEF Begun

LEMMA BegunFrame ==
  ASSUME IInv, Begun, NEW n, ReadFrame(n)
  PROVE  Begun'
<1> USE Parts
<1>1. /\ connected /\ connected' = connected /\ Read(n) /\ net' = SubSeq(net, n + 1, Len(net))
      /\ cut' = (cut \/ (net' # <<>> /\ ~StartsItem(net'[1])))
      /\ UNCHANGED <<asked, sent>>
  BY DEF ReadFrame, peerVars
<1>2. PICK q : q = net'
  OBVIOUS
<1>3. n \in Nat /\ n <= Len(net) /\ q \in Seq(Unit) /\ Rest(net, n, q)
      /\ \A i \in DOMAIN q : n + i \in DOMAIN net
  BY <1>1, <1>2, ReadUnits DEF Rest, NetInv
<1>4. peer # "open" => peer' # "open"
  BY <1>1 DEF Read
<1>5. ~cut' => FramesOnly(net')
  <2> SUFFICES ASSUME ~cut' PROVE FramesOnly(q)
    BY <1>2
  <2>1. FramesOnly(net)
    BY <1>1 DEF Begun, Control
  <2>2. \A i \in DOMAIN q : q[i].unit # "http"
    BY <1>3, <2>1 DEF Rest, FramesOnly
  <2>3. q # <<>> => StartsItem(q[1]) /\ 1 \in DOMAIN q
    <3>1. q # <<>> => 1 \in DOMAIN q
      BY <1>3
    <3> QED
      BY <1>1, <1>2, <3>1
  <2>4. q # <<>> => q[1].unit = "first"
    BY <2>2, <2>3 DEF StartsItem, Line, First
  <2> QED
    BY <2>2, <2>4 DEF FramesOnly
<1> QED
  BY <1>1, <1>4, <1>5 DEF Begun

LEMMA BegunSend ==
  ASSUME IInv, Begun, NEW w \in BOOLEAN, NEW text \in Texts, SendFrame(w, text)
  PROVE  Begun'
<1> USE Parts
<1>1. /\ net' = net \o Frame(w, text) /\ out # <<>>
      /\ UNCHANGED <<asked, peer, connected, main, cut>>
  BY DEF SendFrame, mainVars, Answered
<1>2. connected
  BY <1>1 DEF Handshake
<1>3. PICK q, t : q = Frame(w, text) /\ t = net \o q
  OBVIOUS
<1>4. /\ q \in Seq(Unit) /\ q[1] = First(w) /\ Len(q) \in Nat /\ Len(q) >= 3
      /\ \A i \in 2..Len(q) : q[i].unit \in {"second", "ext", "masks", "char"}
  <2>1. /\ q \in Seq(Unit) /\ Len(q) = Len(text) + (IF Len(text) < Short THEN 3 ELSE 4)
        /\ Len(text) \in Nat /\ q[1] = First(w)
        /\ \A i \in 2..Len(q) : q[i].unit \in {"second", "ext", "masks", "char"}
    BY <1>3, FrameShape
  <2> QED
    BY <2>1
<1>5. \A i \in 1..Len(q) : q[i].unit # "http"
  BY <1>4 DEF First
<1>6. PICK N, R \in Nat : N = Len(net) /\ R = Len(q) /\ DOMAIN net = 1..N
  BY <1>4 DEF NetInv
<1>7. t \in Seq(Unit) /\ Behinds(net, q, t) /\ DOMAIN t = 1..(N + R)
  BY <1>3, <1>4, <1>6, ConcatBehinds DEF NetInv, Behinds
<1>8. FramesOnly(net) => FramesOnly(t)
  <2> SUFFICES ASSUME FramesOnly(net) PROVE FramesOnly(t)
    OBVIOUS
  <2>1. ASSUME NEW i \in 1..(N + R) PROVE t[i].unit # "http"
    <3>1. CASE i \in 1..N
      BY <1>6, <1>7, <3>1 DEF Behinds, FramesOnly
    <3>2. CASE i \notin 1..N
      <4>1. PICK k : k = i - N
        OBVIOUS
      <4>2. k \in 1..R /\ i = N + k
        BY <3>2, <4>1
      <4> QED
        BY <1>5, <1>6, <1>7, <4>2 DEF Behinds
    <3> QED
      BY <3>1, <3>2
  <2>2. t[1].unit = "first"
    <3>1. CASE N = 0
      <4>1. 1 \in 1..R /\ N + 1 = 1
        BY <1>4, <1>6, <3>1
      <4>2. t[1] = q[1]
        BY <1>6, <1>7, <4>1 DEF Behinds
      <4> QED
        BY <1>4, <4>2 DEF First
    <3>2. CASE N # 0
      <4>1. 1 \in 1..N /\ net # <<>>
        BY <1>6, <3>2
      <4> QED
        BY <1>6, <1>7, <4>1 DEF Behinds, FramesOnly
    <3> QED
      BY <3>1, <3>2
  <2> QED
    BY <1>7, <2>1, <2>2 DEF FramesOnly
<1> QED
  BY <1>1, <1>2, <1>3, <1>8 DEF Begun

LEMMA BegunStep == ASSUME IInv, [Next]_vars, Begun PROVE Begun'
<1> USE Parts
<1>1. ASSUME NEW kind \in {"upgrade", "plain"}, Ask(kind) PROVE Begun'
  BY <1>1 DEF Ask, Begun, mainVars
<1>2. ASSUME NEW how \in {"closed", "reset"}, Hangup(how) PROVE Begun'
  <2>1. peer' # "open" /\ UNCHANGED <<connected, main, asked, sent, cut>> /\ net' \in {net, <<>>}
    BY <1>2 DEF Hangup, mainVars, peerVars
  <2>2. FramesOnly(<<>>)
    BY DEF FramesOnly
  <2> QED
    BY <2>1, <2>2 DEF Begun
<1>3. CASE ShakeHand
  <2>1. main = "shake" /\ connected' /\ main' = "read" /\ UNCHANGED <<asked, sent, net, cut>>
    BY <1>3 DEF ShakeHand, peerVars
  <2>2. peer # "open" => peer' # "open"
    BY <1>3 DEF ShakeHand, Write
  <2> QED
    BY <2>1, <2>2 DEF Begun
<1>4. CASE Respond
  <2>1. connected /\ main' = "read" /\ UNCHANGED <<asked, sent, net, cut, connected>>
    BY <1>4 DEF Respond, peerVars, Handshake
  <2>2. peer # "open" => peer' # "open"
    BY <1>4 DEF Respond, Reply, Write
  <2> QED
    BY <2>1, <2>2 DEF Begun
<1>5. CASE SendLine
  <2>1. UNCHANGED <<asked, sent, net, cut, connected, main>>
    BY <1>5 DEF SendLine, peerVars, mainVars
  <2>2. peer # "open" => peer' # "open"
    BY <1>5 DEF SendLine, Reply, Write
  <2> QED
    BY <2>1, <2>2 DEF Begun
<1>6. CASE UNCHANGED <<asked, sent, net, cut, connected, main, peer>>
  BY <1>6 DEF Begun
<1>7. CASE KeyOverflows \/ FrameOverruns \/ Fgets \/ EndTyping \/ UNCHANGED vars
           \/ \E l \in Lines : Type(l)
  BY <1>6, <1>7 DEF KeyOverflows, FrameOverruns, Fgets, EndTyping, Type, vars, mainVars, peerVars
<1> QED
  BY <1>1, <1>2, <1>3, <1>4, <1>5, <1>7, BegunRequest, BegunFrame, BegunSend
     DEF Next, Main, Keyboard, Peer, User

-----------------------------------------------------------------------------
(* What analyData() makes of a frame that has arrived as a whole.          *)
LEMMA ArrivedWhole ==
  ASSUME NEW w \in BOOLEAN, NEW text \in Texts, NEW buf \in Seq(Unit), NEW F \in Nat,
         F = Len(Frame(w, text)), F <= Len(buf), \A m \in 1..F : buf[m] = Frame(w, text)[m]
  PROVE  Arrived(buf) = text
<1>1. PICK f, n, k : f = Frame(w, text) /\ n = Len(text) /\ k = IF n < Short THEN 3 ELSE 4
  OBVIOUS
<1>2. /\ n \in Nat /\ F = n + k /\ k \in {3, 4}
      /\ n < Short => f[2].len7 = n
      /\ n >= Short => f[2].len7 \in Nat /\ f[2].len7 >= Short /\ f[3] = Ext(n)
      /\ \A i \in 1..n : f[k + i] = Char(text[i])
  <2> DEFINE g == Frame(w, text)
             j == IF Len(text) < Short THEN 3 ELSE 4
  <2>1. /\ Len(text) \in Nat /\ Len(g) = Len(text) + j
        /\ Len(text) < Short => g[2].len7 = Len(text)
        /\ Len(text) >= Short => g[2].len7 \in Nat /\ g[2].len7 >= Short /\ g[3] = Ext(Len(text))
        /\ \A i \in 1..Len(text) : g[j + i] = Char(text[i])
    BY FrameShape
  <2>2. j \in {3, 4}
    OBVIOUS
  <2>3. f = g /\ k = j
    BY <1>1
  <2> HIDE DEF g, j
  <2> QED
    BY <1>1, <2>1, <2>2, <2>3 DEF g
<1>3. n < Short \/ n >= Short
  BY <1>2, Sizes
<1>4. PICK L \in Nat : L = Len(buf)
  OBVIOUS
<1>5. F >= 3 /\ 2 \in 1..F /\ 3 \in 1..F
  BY <1>2
<1>6. buf[2] = f[2] /\ buf[3] = f[3] /\ L >= 3
  BY <1>1, <1>4, <1>5
<1>7. (buf[2].len7 < Short <=> n < Short) /\ (n >= Short => buf[3].n = n)
  BY <1>2, <1>3, <1>6, Sizes DEF Ext
<1>8. PICK start, size, last :
        /\ start = IF buf[2].len7 < Short THEN 4 ELSE 5
        /\ size = IF buf[2].len7 < Short THEN buf[2].len7 ELSE IF Len(buf) < 3 THEN 0 ELSE buf[3].n
        /\ last = IF Len(buf) < start + size - 1 THEN Len(buf) ELSE start + size - 1
  OBVIOUS
<1>9. Arrived(buf) = [i \in 1..(IF last < start THEN 0 ELSE last - start + 1) |-> buf[start + i - 1].c]
  BY <1>8 DEF Arrived
<1>10. start = k + 1 /\ size = n
  BY <1>1, <1>2, <1>3, <1>4, <1>6, <1>7, <1>8
<1>11. last = k + n
  <2>1. ~(L < k + 1 + n - 1) /\ k + 1 + n - 1 = k + n
    BY <1>2, <1>4
  <2> QED
    BY <1>4, <1>8, <1>10, <2>1
<1>12. (IF last < start THEN 0 ELSE last - start + 1) = n
  BY <1>2, <1>10, <1>11
<1>13. ASSUME NEW i \in 1..n PROVE buf[start + i - 1].c = text[i]
  <2>1. start + i - 1 = k + i /\ k + i \in 1..F
    BY <1>2, <1>10
  <2>2. buf[k + i] = Char(text[i])
    BY <1>1, <1>2, <2>1
  <2> QED
    BY <2>1, <2>2 DEF Char
<1>14. Arrived(buf) = [i \in 1..n |-> text[i]]
  BY <1>9, <1>12, <1>13
<1> QED
  BY <1>1, <1>2, <1>14, TextType

-----------------------------------------------------------------------------
(* The echoes bs are the texts of the frames f[1], f[2], ..., which have   *)
(* been read, and the text in hand, d, is that of a later one.             *)
Echoes(bs, sends, f) ==
  /\ f \in [DOMAIN bs -> DOMAIN sends]
  /\ \A i, j \in DOMAIN bs : i < j => f[i] < f[j]
  /\ \A i \in DOMAIN bs : sends[f[i]].whole /\ bs[i].body \in Returned(sends[f[i]].text)

Owed(bs, sends, d, p, r, f, j) ==
  /\ sends[j].whole /\ Counted(d.text) \in Returned(sends[j].text)
  /\ p[j] <= r /\ \A i \in DOMAIN bs : f[i] < j

Echoed(bs, sends, d, p, r, f) ==
  /\ Echoes(bs, sends, f)
  /\ \A i \in DOMAIN bs : p[f[i]] <= r
  /\ ~d.null => \E j \in DOMAIN sends : Owed(bs, sends, d, p, r, f, j)

EchoInv ==
  \E p, r : /\ Placed(net, sent, p, r)
            /\ program = "echo" /\ ~cut => \E f : Echoed(Bodies, sent, data, p, r, f)

(* More may be sent and read behind it. *)
LEMMA EchoedOn ==
  ASSUME NEW bs, NEW sends, NEW d, NEW p, NEW r \in Nat, NEW f, Echoed(bs, sends, d, p, r, f),
         NEW K \in Nat, DOMAIN sends = 1..K, p \in [1..K -> Nat],
         NEW more, 1..K \subseteq DOMAIN more, Extended(sends, more, K),
         NEW p2, Extended(p, p2, K), NEW r2 \in Nat, r <= r2
  PROVE  Echoed(bs, more, d, p2, r2, f)
<1>1. \A j \in 1..K : more[j] = sends[j] /\ p2[j] = p[j] /\ p[j] \in Nat /\ j \in DOMAIN more
  BY DEF Extended
<1>2. \A i \in DOMAIN bs : f[i] \in 1..K
  BY DEF Echoed, Echoes
<1>3. Echoes(bs, more, f)
  <2>1. f \in [DOMAIN bs -> DOMAIN more]
    BY DEF Echoed, Echoes
  <2> QED
    BY <1>1, <1>2, <2>1 DEF Echoed, Echoes
<1>4. \A j \in 1..K : p[j] <= r => p2[j] <= r2
  <2> SUFFICES ASSUME NEW j \in 1..K, p[j] <= r PROVE p2[j] <= r2
    OBVIOUS
  <2>1. p2[j] = p[j] /\ p[j] \in Nat
    BY <1>1
  <2> QED
    BY <2>1
<1>5. \A i \in DOMAIN bs : p2[f[i]] <= r2
  BY <1>2, <1>4 DEF Echoed
<1>6. ASSUME ~d.null PROVE \E j \in DOMAIN more : Owed(bs, more, d, p2, r2, f, j)
  <2>1. PICK j \in 1..K : Owed(bs, sends, d, p, r, f, j)
    BY <1>6 DEF Echoed
  <2>2. Owed(bs, more, d, p2, r2, f, j)
    BY <1>1, <1>4, <2>1 DEF Owed
  <2> QED
    BY <1>1, <2>2
<1> QED
  BY <1>3, <1>5, <1>6 DEF Echoed

LEMMA FrameRead ==
  ASSUME IInv, Begun, NEW n, ReadFrame(n), program = "echo", ~cut',
         NEW p, NEW r, NEW f, Placed(net, sent, p, r), Echoed(Bodies, sent, data, p, r, f)
  PROVE  Echoed(Bodies, sent, data', p, r + n, f)
<1> USE Parts
<1>1. /\ connected /\ Read(n) /\ net' = SubSeq(net, n + 1, Len(net))
      /\ cut' = (cut \/ (net' # <<>> /\ ~StartsItem(net'[1])))
      /\ data' \in analyData(SubSeq(net, 1, n))
  BY DEF ReadFrame
<1>2. ~cut /\ (net' = <<>> \/ StartsItem(net'[1]))
  BY <1>1 DEF Control
<1>3. PICK buf, q : buf = SubSeq(net, 1, n) /\ q = net'
  OBVIOUS
<1>4. /\ n \in Nat /\ n <= Len(net)
      /\ buf \in Seq(Unit) /\ Len(buf) = n /\ \A i \in 1..n : buf[i] = net[i]
  BY <1>1, <1>3, ReadUnits DEF NetInv
<1>5. q \in Seq(Unit) /\ Len(q) = Len(net) - n /\ \A i \in 1..Len(q) : q[i] = net[n + i]
  BY <1>1, <1>3, ReadUnits DEF NetInv
<1>6. PICK K \in Nat : K = Len(sent) /\ DOMAIN sent = 1..K
  BY DEF NetInv
<1>7. r \in Nat /\ p \in [1..K -> Nat] /\ r + n \in Nat /\ InOrder(p, K)
  BY <1>4, <1>6 DEF Placed
<1>8. Echoes(Bodies, sent, f) /\ \A i \in DOMAIN Bodies : p[f[i]] <= r /\ f[i] \in 1..K
  BY <1>6 DEF Echoed, Echoes
<1>9. \A i \in DOMAIN Bodies : p[f[i]] <= r + n
  <2>1. \A i \in DOMAIN Bodies : p[f[i]] \in Nat
    BY <1>7, <1>8
  <2> QED
    BY <1>4, <1>7, <1>8, <2>1
<1>10. ASSUME ~data'.null PROVE \E j \in DOMAIN sent : Owed(Bodies, sent, data', p, r + n, f, j)
  <2>1. PICK d : d = data'
    OBVIOUS
  <2>2. d \in analyData(buf) /\ d # Null
    BY <1>1, <1>3, <1>10, <2>1 DEF Null
  <2>3. n # 0
    BY <1>4, <2>2 DEF analyData
  <2>4. 1 \in DOMAIN net /\ net # <<>> /\ Len(net) \in Nat
    BY <1>4, <2>3 DEF NetInv
  <2>5. net[1].unit = "first"
    BY <1>1, <1>2, <2>4 DEF Begun, FramesOnly
  <2>6. PICK j \in 1..K : p[j] = r + 1
    BY <1>6, <2>4, <2>5 DEF Placed, AllKnown
  <2>7. Lies(net, 1, FrameOf(sent[j]))
    BY <1>6, <2>4, <2>6 DEF Placed, AllThere
  <2>8. sent[j].whole \in BOOLEAN /\ sent[j].text \in Texts
    BY <1>6, FrameUnits DEF NetInv, Sends
  <2>9. PICK w, text : w = sent[j].whole /\ text = sent[j].text
    OBVIOUS
  <2>10. w \in BOOLEAN /\ text \in Texts
    BY <2>8, <2>9
  <2>11. PICK g, F : g = Frame(w, text) /\ F = Len(g)
    OBVIOUS
  <2>12. /\ F \in Nat /\ F >= 3 /\ g[1] = First(w)
         /\ \A i \in 2..F : g[i].unit \in {"second", "ext", "masks", "char"}
    <3>1. /\ F = Len(text) + (IF Len(text) < Short THEN 3 ELSE 4) /\ Len(text) \in Nat /\ g[1] = First(w)
          /\ \A i \in 2..F : g[i].unit \in {"second", "ext", "masks", "char"}
      BY <2>10, <2>11, FrameShape
    <3> QED
      BY <3>1
  <2>13. F <= Len(net) /\ \A m \in 1..F : net[m] = g[m]
    <3>1. 1 + F <= Len(net) + 1 /\ \A m \in 1..F : net[1 + m - 1] = g[m]
      BY <2>7, <2>9, <2>11 DEF Lies, FrameOf
    <3>2. \A m \in 1..F : 1 + m - 1 = m
      BY <2>12
    <3> QED
      BY <2>4, <2>12, <3>1, <3>2
  <2>14. F <= n
    <3> SUFFICES ASSUME n < F PROVE FALSE
      BY <1>4, <2>12
    <3>1. n + 1 \in 2..F /\ Len(q) >= 1 /\ Len(q) \in Nat
      BY <1>4, <1>5, <2>3, <2>4, <2>12, <2>13
    <3>2. q # <<>> /\ q[1] = g[n + 1]
      <4>1. 1 \in 1..Len(q) /\ n + 1 \in 1..F
        BY <2>12, <3>1
      <4>2. q # <<>>
        BY <3>1, EmptySeq
      <4> QED
        BY <1>5, <2>13, <4>1, <4>2
    <3>3. q[1].unit \in {"second", "ext", "masks", "char"}
      BY <2>12, <3>1, <3>2
    <3> QED
      BY <1>2, <1>3, <3>2, <3>3 DEF StartsItem, Line, First
  <2>15. Arrived(buf) = text
    <3>1. F <= Len(buf) /\ \A m \in 1..F : buf[m] = Frame(w, text)[m]
      <4>1. \A m \in 1..F : m \in 1..n
        BY <1>4, <2>12, <2>14
      <4> QED
        BY <1>4, <2>11, <2>13, <2>14, <4>1
    <3> QED
      BY <1>4, <2>10, <2>11, <2>12, <3>1, ArrivedWhole
  <2>16. buf[1] = First(w)
    <3>1. 1 \in 1..F /\ 1 \in 1..n
      BY <1>4, <2>12, <2>14
    <3> QED
      BY <1>4, <2>12, <2>13, <3>1
  <2>17. w /\ d \in Payloads(text)
    <3>1. buf[1].unit = "first" /\ buf[1].fin = w
      BY <2>16 DEF First
    <3>2. buf[1].fin /\ d \in Payloads(Arrived(buf))
      BY <2>2, <3>1 DEF analyData, Inside
    <3> QED
      BY <2>10, <2>15, <3>1, <3>2
  <2>18. Counted(d.text) \in Returned(text)
    BY <2>17 DEF Payloads, Data, Returned
  <2>19. ASSUME NEW i \in DOMAIN Bodies PROVE f[i] < j
    <3>1. f[i] \in 1..K /\ p[f[i]] <= r
      BY <1>8
    <3>2. PICK k \in 1..K : k = f[i]
      BY <3>1
    <3>3. p[k] <= r /\ p[k] \in Nat /\ p[j] = r + 1
      BY <1>7, <2>6, <3>1, <3>2
    <3>4. k # j /\ ~(p[j] < p[k])
      BY <1>7, <3>3
    <3>5. ~(j < k)
      BY <1>7, <3>4 DEF InOrder
    <3> QED
      BY <3>2, <3>4, <3>5
  <2>20. p[j] <= r + n
    BY <1>4, <1>7, <2>3, <2>6
  <2> QED
    BY <1>6, <2>1, <2>9, <2>17, <2>18, <2>19, <2>20 DEF Owed
<1> QED
  BY <1>8, <1>9, <1>10 DEF Echoed

(* response() sends the text in hand. *)
LEMMA EchoedMore ==
  ASSUME NEW bs, NEW bs2, NEW n \in Nat, DOMAIN bs = 1..n, DOMAIN bs2 = 1..(n + 1),
         \A i \in 1..n : bs2[i] = bs[i],
         NEW sends, NEW K \in Nat, DOMAIN sends = 1..K, NEW p, NEW r, NEW f,
         NEW d, NEW e, ~d.null, e.null, bs2[n + 1].body = Counted(d.text), Echoed(bs, sends, d, p, r, f)
  PROVE  \E g : Echoed(bs2, sends, e, p, r, g)
<1>1. PICK j \in 1..K : Owed(bs, sends, d, p, r, f, j)
  BY DEF Echoed
<1>2. PICK g : g = [i \in 1..(n + 1) |-> IF i <= n THEN f[i] ELSE j]
  OBVIOUS
<1>3. g[n + 1] = j /\ \A i \in 1..n : g[i] = f[i]
  BY <1>2
<1>4. \A i \in 1..n : f[i] \in 1..K /\ f[i] < j
  BY <1>1 DEF Echoed, Echoes, Owed
<1>5. g \in [1..(n + 1) -> 1..K]
  BY <1>2, <1>4
<1>6. \A i \in 1..(n + 1) : i \in 1..n \/ i = n + 1
  OBVIOUS
<1>7. ASSUME NEW i \in 1..(n + 1), NEW k \in 1..(n + 1), i < k PROVE g[i] < g[k]
  <2>1. i \in 1..n
    BY <1>7
  <2>2. CASE k \in 1..n
    BY <1>3, <1>7, <2>1, <2>2 DEF Echoed, Echoes
  <2>3. CASE k = n + 1
    BY <1>3, <1>4, <2>1, <2>3
  <2> QED
    BY <1>6, <2>2, <2>3
<1>8. ASSUME NEW i \in 1..(n + 1)
      PROVE  /\ sends[g[i]].whole /\ bs2[i].body \in Returned(sends[g[i]].text)
             /\ p[g[i]] <= r
  <2>1. CASE i \in 1..n
    BY <1>3, <2>1 DEF Echoed, Echoes
  <2>2. CASE i = n + 1
    BY <1>1, <1>3, <2>2 DEF Owed
  <2> QED
    BY <1>6, <2>1, <2>2
<1>9. Echoes(bs2, sends, g)
  BY <1>5, <1>7, <1>8 DEF Echoes
<1> QED
  BY <1>8, <1>9 DEF Echoed

LEMMA EchoedEmpty ==
  ASSUME NEW sends, NEW d, d.null, NEW p, NEW r
  PROVE  \E f : Echoed(<<>>, sends, d, p, r, f)
<1>1. DOMAIN <<>> = {}
  OBVIOUS
<1>2. PICK f : f = [i \in {} |-> i]
  OBVIOUS
<1>3. f \in [{} -> DOMAIN sends]
  BY <1>2
<1> QED
  BY <1>1, <1>3 DEF Echoed, Echoes

LEMMA EchoSame ==
  ASSUME EchoInv, UNCHANGED <<net, sent, program, cut, data>>, Bodies' = Bodies
  PROVE  EchoInv'
  BY DEF EchoInv

LEMMA EchoRequest == ASSUME IInv, Begun, EchoInv, NEW n, ReadRequest(n) PROVE EchoInv'
<1> USE Parts
<1>1. /\ ~connected /\ Read(n) /\ net' = SubSeq(net, n + 1, Len(net))
      /\ cut' = (cut \/ (net' # <<>> /\ ~StartsItem(net'[1])))
      /\ UNCHANGED <<sent, program, data, out>>
  BY DEF ReadRequest, peerVars
<1>2. PICK p, r : /\ Placed(net, sent, p, r)
                  /\ program = "echo" /\ ~cut => \E f : Echoed(Bodies, sent, data, p, r, f)
  BY DEF EchoInv
<1>3. n \in Nat /\ Placed(net', sent', p, r + n)
  BY <1>1, <1>2, PlacedRead
<1>4. PICK K \in Nat : K = Len(sent) /\ DOMAIN sent = 1..K
  BY DEF NetInv
<1>5. r \in Nat /\ r + n \in Nat /\ r <= r + n /\ p \in [1..K -> Nat]
  BY <1>2, <1>3, <1>4 DEF Placed
<1>6. ASSUME program' = "echo", ~cut' PROVE \E f : Echoed(Bodies', sent', data', p, r + n, f)
  <2>1. PICK f : Echoed(Bodies, sent, data, p, r, f)
    BY <1>1, <1>2, <1>6 DEF Control
  <2>2. Extended(sent, sent, K) /\ Extended(p, p, K)
    BY DEF Extended
  <2>3. Echoed(Bodies, sent, data, p, r + n, f)
    BY <1>4, <1>5, <2>1, <2>2, EchoedOn
  <2>4. Bodies' = Bodies
    BY <1>1 DEF Bodies, Answered
  <2> QED
    BY <1>1, <2>3, <2>4
<1> QED
  BY <1>3, <1>6 DEF EchoInv

LEMMA EchoFrame == ASSUME IInv, Begun, EchoInv, NEW n, ReadFrame(n) PROVE EchoInv'
<1> USE Parts
<1>1. /\ Read(n) /\ net' = SubSeq(net, n + 1, Len(net))
      /\ cut' = (cut \/ (net' # <<>> /\ ~StartsItem(net'[1])))
      /\ UNCHANGED <<sent, program, out>>
  BY DEF ReadFrame, peerVars
<1>2. PICK p, r : /\ Placed(net, sent, p, r)
                  /\ program = "echo" /\ ~cut => \E f : Echoed(Bodies, sent, data, p, r, f)
  BY DEF EchoInv
<1>3. n \in Nat /\ Placed(net', sent', p, r + n)
  BY <1>1, <1>2, PlacedRead
<1>4. ASSUME program' = "echo", ~cut' PROVE \E f : Echoed(Bodies', sent', data', p, r + n, f)
  <2>1. PICK f : Echoed(Bodies, sent, data, p, r, f)
    BY <1>1, <1>2, <1>4 DEF Control
  <2>2. Echoed(Bodies, sent, data', p, r + n, f)
    BY <1>1, <1>2, <1>4, <2>1, FrameRead
  <2>3. Bodies' = Bodies
    BY <1>1 DEF Bodies, Answered
  <2> QED
    BY <1>1, <2>2, <2>3
<1> QED
  BY <1>3, <1>4 DEF EchoInv

LEMMA EchoSend ==
  ASSUME IInv, EchoInv, NEW w \in BOOLEAN, NEW text \in Texts, SendFrame(w, text)
  PROVE  EchoInv'
<1> USE Parts
<1>1. /\ sent' = Append(sent, [whole |-> w, text |-> text]) /\ net' = net \o Frame(w, text)
      /\ UNCHANGED <<program, cut, data, out>>
  BY DEF SendFrame, mainVars
<1>2. PICK p, r : /\ Placed(net, sent, p, r)
                  /\ program = "echo" /\ ~cut => \E f : Echoed(Bodies, sent, data, p, r, f)
  BY DEF EchoInv
<1>3. PICK K \in Nat : K = Len(sent) /\ DOMAIN sent = 1..K
  BY DEF NetInv
<1>4. PICK p2 : Placed(net', sent', p2, r) /\ Extended(p, p2, K)
  BY <1>1, <1>2, <1>3, PlacedSendFrame
<1>5. PICK more : more = sent'
  OBVIOUS
<1>6. 1..K \subseteq DOMAIN more /\ Extended(sent, more, K)
  <2>1. PICK S, e : S = [whole : BOOLEAN, text : Texts] /\ e = [whole |-> w, text |-> text]
    OBVIOUS
  <2>2. sent \in Seq(S) /\ e \in S /\ more = Append(sent, e)
    BY <1>1, <1>5, <2>1 DEF NetInv
  <2> QED
    BY <1>3, <2>2 DEF Extended
<1>7. r \in Nat /\ r <= r /\ p \in [1..K -> Nat]
  BY <1>2, <1>3 DEF Placed
<1>8. ASSUME program' = "echo", ~cut' PROVE \E f : Echoed(Bodies', sent', data', p2, r, f)
  <2>1. PICK f : Echoed(Bodies, sent, data, p, r, f)
    BY <1>1, <1>2, <1>8
  <2>2. Echoed(Bodies, more, data, p2, r, f)
    BY <1>3, <1>4, <1>6, <1>7, <2>1, EchoedOn
  <2>3. Bodies' = Bodies
    BY <1>1 DEF Bodies, Answered
  <2> QED
    BY <1>1, <1>5, <2>2, <2>3
<1> QED
  BY <1>4, <1>8 DEF EchoInv

LEMMA EchoAsk == ASSUME IInv, EchoInv, NEW kind, Ask(kind) PROVE EchoInv'
<1> USE Parts
<1>1. net' = net \o Request(kind) /\ UNCHANGED <<sent, program, cut, data, out>>
  BY DEF Ask, mainVars
<1>2. PICK p, r : /\ Placed(net, sent, p, r)
                  /\ program = "echo" /\ ~cut => \E f : Echoed(Bodies, sent, data, p, r, f)
  BY DEF EchoInv
<1>3. Placed(net', sent', p, r)
  BY <1>1, <1>2, PlacedAsk
<1>4. Bodies' = Bodies
  BY <1>1 DEF Bodies, Answered
<1> QED
  BY <1>1, <1>2, <1>3, <1>4 DEF EchoInv

LEMMA EchoHangup == ASSUME IInv, EchoInv, NEW how, Hangup(how) PROVE EchoInv'
<1> USE Parts
<1>1. net' \in {net, <<>>} /\ UNCHANGED <<sent, program, cut, data, out>>
  BY DEF Hangup, mainVars, peerVars
<1>2. Bodies' = Bodies
  BY <1>1 DEF Bodies, Answered
<1>3. CASE net' = net
  BY <1>1, <1>2, <1>3, EchoSame
<1>4. CASE net' = <<>>
  <2>1. PICK p, r : /\ Placed(net, sent, p, r)
                    /\ program = "echo" /\ ~cut => \E f : Echoed(Bodies, sent, data, p, r, f)
    BY DEF EchoInv
  <2>2. PICK n : n = Len(net)
    OBVIOUS
  <2>3. n \in Nat /\ Placed(net', sent', p, r + n)
    BY <1>1, <1>4, <2>1, <2>2, PlacedReset
  <2>4. PICK K \in Nat : K = Len(sent) /\ DOMAIN sent = 1..K
    BY DEF NetInv
  <2>5. r \in Nat /\ r + n \in Nat /\ r <= r + n /\ p \in [1..K -> Nat]
    BY <2>1, <2>3, <2>4 DEF Placed
  <2>6. ASSUME program' = "echo", ~cut' PROVE \E f : Echoed(Bodies', sent', data', p, r + n, f)
    <3>1. PICK f : Echoed(Bodies, sent, data, p, r, f)
      BY <1>1, <2>1, <2>6
    <3>2. Extended(sent, sent, K) /\ Extended(p, p, K)
      BY DEF Extended
    <3>3. Echoed(Bodies, sent, data, p, r + n, f)
      BY <2>4, <2>5, <3>1, <3>2, EchoedOn
    <3> QED
      BY <1>1, <1>2, <3>3
  <2> QED
    BY <2>3, <2>6 DEF EchoInv
<1> QED
  BY <1>1, <1>3, <1>4

LEMMA EchoRespond == ASSUME IInv, EchoInv, Respond PROVE EchoInv'
<1> USE Parts
<1>1. data' = Null /\ UNCHANGED <<net, sent, program, cut>>
  BY DEF Respond, peerVars
<1>2. Null.null
  BY DEF Null
<1>3. PICK p, r : /\ Placed(net, sent, p, r)
                  /\ program = "echo" /\ ~cut => \E f : Echoed(Bodies, sent, data, p, r, f)
  BY DEF EchoInv
<1>4. ASSUME program' = "echo", ~cut' PROVE \E f : Echoed(Bodies', sent', data', p, r, f)
  <2>1. PICK f : Echoed(Bodies, sent, data, p, r, f)
    BY <1>1, <1>3, <1>4
  <2>2. CASE out' = out
    <3>1. Bodies' = Bodies
      BY <2>2 DEF Bodies, Answered
    <3> QED
      BY <1>1, <1>2, <2>1, <3>1 DEF Echoed
  <2>3. CASE ~data.null /\ out' = Append(out, packData(data.text))
    <3>1. PICK n \in Nat : /\ DOMAIN Bodies = 1..n /\ DOMAIN Bodies' = 1..(n + 1)
                           /\ \A i \in 1..n : Bodies'[i] = Bodies[i]
                           /\ Bodies'[n + 1].body = Counted(data.text)
      BY <2>3, BodiesAppend
    <3>2. PICK K \in Nat : DOMAIN sent = 1..K
      BY DEF NetInv
    <3>3. PICK bs, bs2, d, e : bs = Bodies /\ bs2 = Bodies' /\ d = data /\ e = data'
      OBVIOUS
    <3>4. ~d.null /\ e.null
      BY <1>1, <1>2, <2>3, <3>3
    <3>5. \E g : Echoed(bs2, sent, e, p, r, g)
      BY <2>1, <3>1, <3>2, <3>3, <3>4, EchoedMore
    <3> QED
      BY <1>1, <3>3, <3>5
  <2> QED
    BY <2>2, <2>3 DEF Respond, Reply, Write
<1> QED
  BY <1>1, <1>3, <1>4 DEF EchoInv

LEMMA EchoStep == ASSUME IInv, Begun, EchoInv, [Next]_vars PROVE EchoInv'
<1> USE Parts
<1>1. CASE ShakeHand
  <2>1. UNCHANGED <<net, sent, program, cut, data>> /\ out = <<>>
    BY <1>1 DEF ShakeHand, peerVars, Handshake
  <2>2. CASE out' = out
    BY <2>1, <2>2, EchoSame DEF Bodies, Answered
  <2>3. CASE AnswerWritten
    BY <2>1, <2>3, BodiesAnswer, EchoSame
  <2>4. out' = out \/ AnswerWritten
    BY <1>1, <2>1 DEF ShakeHand, Write, AnswerWritten
  <2> QED
    BY <2>2, <2>3, <2>4
<1>2. CASE SendLine
  <2>1. UNCHANGED <<net, sent, program, cut, data>>
    BY <1>2 DEF SendLine, peerVars, mainVars
  <2>2. program = "chat"
    BY <1>2 DEF SendLine, Control
  <2> QED
    BY <2>1, <2>2 DEF EchoInv
<1>3. CASE UNCHANGED <<net, sent, program, cut, data, out>>
  BY <1>3, EchoSame DEF Bodies, Answered
<1>4. CASE KeyOverflows \/ FrameOverruns \/ Fgets \/ EndTyping \/ UNCHANGED vars
           \/ \E l \in Lines : Type(l)
  BY <1>3, <1>4 DEF KeyOverflows, FrameOverruns, Fgets, EndTyping, Type, vars, mainVars, peerVars
<1> QED
  BY <1>1, <1>2, <1>4, EchoRequest, EchoFrame, EchoSend, EchoAsk, EchoHangup, EchoRespond
     DEF Next, Main, Keyboard, Peer, User

(* Whatever the texts and the sizes, and however TCP cuts the stream, as   *)
(* long as no read() has ended inside a frame the echoes are what strlen() *)
(* counts of the texts of whole frames, in the order of the frames, none   *)
(* of them twice.                                                          *)
THEOREM EchoesOrdered == Spec => []EchoesInOrder
<1>1. Init => Begun /\ EchoInv
  <2> SUFFICES ASSUME Init PROVE Begun /\ EchoInv
    OBVIOUS
  <2>1. Begun
    BY DEF Init, Begun
  <2>2. net = <<>> /\ sent = <<>> /\ Bodies = <<>> /\ data.null
    BY DEF Init, Bodies, Answered, Null
  <2>3. PICK p : p = [j \in {} |-> 0]
    OBVIOUS
  <2>4. Placed(net, sent, p, 0)
    <3>1. DOMAIN sent = {} /\ DOMAIN net = {} /\ Len(sent) = 0
      BY <2>2
    <3>2. InOrder(p, Len(sent))
      BY <3>1 DEF InOrder
    <3>3. p \in [{} -> Nat]
      BY <2>3
    <3> QED
      BY <3>1, <3>2, <3>3 DEF Placed, AllThere, AllKnown
  <2>5. \E f : Echoed(Bodies, sent, data, p, 0, f)
    BY <2>2, EchoedEmpty
  <2> QED
    BY <2>1, <2>4, <2>5 DEF EchoInv
<1>2. IInv /\ Begun /\ EchoInv /\ [Next]_vars => Begun' /\ EchoInv'
  BY BegunStep, EchoStep
<1>3. EchoInv => EchoesInOrder
  BY DEF EchoInv, Echoed, Echoes, EchoesInOrder
<1> QED
  BY <1>1, <1>2, <1>3, Inductive, PTL DEF Spec
===============================================================================

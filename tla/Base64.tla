-------------------------------- MODULE Base64 --------------------------------
(***************************************************************************)
(* From the hexadecimal digest of sha1_hash() to the text of the accept    *)
(* key: htoi() of intLib.h, strlen() and base64_encode() of base64.h.  A   *)
(* character of base[] is known by its index, '=' by 64.                   *)
(***************************************************************************)
EXTENDS Naturals, Sequences

(* htoi() of each pair of digits, as computeAcceptKey() calls it.  The     *)
(* prefix 0x, which htoi() would skip, is never there.                     *)
Htoi(hex) == [i \in 1..(Len(hex) \div 2) |-> 16 * hex[2 * i - 1] + hex[2 * i]]

(* The bytes that strlen() counts: those before the first zero byte. *)
UpToZero(data) ==
  LET n == CHOOSE k \in 0..Len(data) : /\ \A i \in 1..k : data[i] # 0
                                       /\ k < Len(data) => data[k + 1] = 0
  IN  SubSeq(data, 1, n)

(* The three bytes of group g, as one number; missing ones are zero. *)
Prepare(data, g) ==
  LET at(i) == IF i <= Len(data) THEN data[i] ELSE 0
  IN  65536 * at(3 * g + 1) + 256 * at(3 * g + 2) + at(3 * g + 3)

(* Six bits of them, for character i of the group: prepare>>((3-i)*6). *)
SixBits(prepare, i) == (prepare \div <<262144, 4096, 64, 1>>[i + 1]) % 64

(* Mutant: one '=' too many behind a short group. *)
base64_encodePadded(data) ==
  [k \in 1..(4 * ((Len(data) + 2) \div 3)) |->
    LET g == (k - 1) \div 4
        i == (k - 1) % 4
    IN  IF Len(data) - 3 * g <= i THEN 64 ELSE SixBits(Prepare(data, g), i)]

(* Four characters for every group of three bytes; what a short group does *)
(* not fill is '='.                                                        *)
base64_encode(data) ==
  [k \in 1..(4 * ((Len(data) + 2) \div 3)) |->
    LET g == (k - 1) \div 4
        i == (k - 1) % 4
    IN  IF Len(data) - 3 * g < i THEN 64 ELSE SixBits(Prepare(data, g), i)]

(* Bit j of a byte, counted from its highest. *)
BitOf(byte, j) == (byte \div <<128, 64, 32, 16, 8, 4, 2, 1>>[j + 1]) % 2

(* RFC 4648, which the peer's Base64 follows: six bits to a character, and *)
(* '=' up to a multiple of four characters.                                *)
RfcBase64(data) ==
  LET bit(b) == IF b < 8 * Len(data) THEN BitOf(data[b \div 8 + 1], b % 8) ELSE 0
  IN  [k \in 1..(4 * ((Len(data) + 2) \div 3)) |->
        LET b == 6 * (k - 1)
        IN  IF b >= 8 * Len(data) THEN 64
            ELSE 32 * bit(b) + 16 * bit(b + 1) + 8 * bit(b + 2)
                 + 4 * bit(b + 3) + 2 * bit(b + 4) + bit(b + 5)]
=============================================================================

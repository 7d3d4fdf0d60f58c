------------------------------ MODULE Sha1Buffer ------------------------------
(***************************************************************************)
(* The buffering of sha1.h: a SHA1Context takes the bytes of a message in  *)
(* any number of SHA1Input() calls, cuts them into blocks of 64 bytes, and *)
(* SHA1Result() pads the last one.                                         *)
(*                                                                         *)
(* The compression function is left out: the digest is modelled by the     *)
(* sequence of blocks it was computed from.  The code treats all bytes of  *)
(* a message alike, so a byte is known by its position in the message.     *)
(***************************************************************************)
EXTENDS Naturals, Sequences

CONSTANTS
  Word,      \* 2^32, where Length_Low and Length_High wrap around
  Lengths,   \* lengths of the messages given to SHA1Input()
  MaxBytes,  \* bound: bytes given to one context
  MaxResets  \* bound: how often the context is used again

ASSUME WordAssumption == Word \in Nat \ {0} /\ Word % 8 = 0
ASSUME LengthsAssumption == Lengths \subseteq Nat \ {0}

VARIABLES
  index,      \* Message_Block_Index
  block,      \* Message_Block
  low, high,  \* Length_Low, Length_High
  computed,   \* Computed
  corrupted,  \* Corrupted
  digest,     \* Message_Digest: the blocks it was computed from
  length,     \* what SHA1Input() has still to take, 0 outside of it
  taken,      \* bytes that went into the block since the last reset
  given,      \* history: bytes given to SHA1Input() since the last reset
  resets      \* calls of SHA1Reset() so far (bounded by MaxResets)

vars == <<index, block, low, high, computed, corrupted, digest, length, taken, given, resets>>

Place == 0..63
Data(n) == <<"data", n>>
Byte(v) == <<"byte", v>>
Bytes == ({"data"} \X Nat) \cup ({"byte"} \X (0..255))

(* The context of sha1_hash() is a local variable: its block starts out    *)
(* with whatever the stack holds.                                          *)
Init ==
  /\ index = 0
  /\ block = [i \in Place |-> Byte(255)]
  /\ low = 0
  /\ high = 0
  /\ computed = FALSE
  /\ corrupted = FALSE
  /\ digest = <<>>
  /\ length = 0
  /\ taken = 0
  /\ given = 0
  /\ resets = 0

(* SHA1Reset() leaves the block as it is. *)
SHA1Reset ==
  /\ length = 0
  /\ resets < MaxResets
  /\ resets' = resets + 1
  /\ index' = 0
  /\ low' = 0
  /\ high' = 0
  /\ computed' = FALSE
  /\ corrupted' = FALSE
  /\ digest' = <<>>
  /\ taken' = 0
  /\ given' = 0
  /\ UNCHANGED <<block, length>>

(* Mutant: a context that has given its result takes more. *)
SHA1InputAfterResult(n) ==
  /\ length = 0
  /\ given + n <= MaxBytes
  /\ given' = given + n
  /\ length' = IF corrupted THEN 0 ELSE n
  /\ UNCHANGED <<index, block, low, high, computed, corrupted, digest, taken, resets>>

(* SHA1Input(): a context that has given its result, or is corrupted,      *)
(* takes nothing and stays corrupted.  A length of 0 changes nothing.      *)
SHA1Input(n) ==
  /\ length = 0
  /\ given + n <= MaxBytes
  /\ given' = given + n
  /\ IF computed \/ corrupted
     THEN corrupted' = TRUE /\ UNCHANGED length
     ELSE length' = n /\ UNCHANGED corrupted
  /\ UNCHANGED <<index, block, low, high, computed, digest, taken, resets>>

(* Mutant: the overflow of the length goes unnoticed. *)
CountOn ==
  /\ low' = (low + 8) % Word
  /\ high' = IF low' = 0 THEN (high + 1) % Word ELSE high
  /\ UNCHANGED corrupted

(* Length_Low += 8, with the carry into Length_High. *)
Count ==
  /\ low' = (low + 8) % Word
  /\ high' = IF low' = 0 THEN (high + 1) % Word ELSE high
  /\ IF low' = 0 /\ high' = 0 THEN corrupted' = TRUE ELSE UNCHANGED corrupted

(* Mutant: the block is handed on one byte late. *)
InputByteLate ==
  /\ length > 0
  /\ block' = [block EXCEPT ![index] = Data(taken + 1)]
  /\ taken' = taken + 1
  /\ Count
  /\ length' = IF corrupted' THEN 0 ELSE length - 1
  /\ IF index = 64
     THEN digest' = Append(digest, block') /\ index' = 0
     ELSE index' = index + 1 /\ UNCHANGED digest
  /\ UNCHANGED <<computed, given, resets>>

(* One turn of the loop of SHA1Input(), which stops when the context is    *)
(* corrupted.                                                              *)
InputByte ==
  /\ length > 0
  /\ block' = [block EXCEPT ![index] = Data(taken + 1)]
  /\ taken' = taken + 1
  /\ Count
  /\ length' = IF corrupted' THEN 0 ELSE length - 1
  /\ IF index = 63
     THEN digest' = Append(digest, block') /\ index' = 0
     ELSE index' = index + 1 /\ UNCHANGED digest
  /\ UNCHANGED <<computed, given, resets>>

-----------------------------------------------------------------------------
(* Mutant: no room for the length is asked for. *)
TwoBlocksLate == index > 56

(* From 56 bytes on, the length does not fit into the block. *)
TwoBlocks == index > 55

(* The byte of a word that unit is shifted to. *)
ByteOf(word, unit) == Byte((word \div unit) % 256)

(* Message_Block[56] to [63]. *)
LengthBytes(hi, lo) ==
  <<ByteOf(hi, 16777216), ByteOf(hi, 65536), ByteOf(hi, 256), ByteOf(hi, 1),
    ByteOf(lo, 16777216), ByteOf(lo, 65536), ByteOf(lo, 256), ByteOf(lo, 1)>>

(* 0x80 behind the message, and zeros up to the end of the block. *)
Filled ==
  [i \in Place |-> IF i = index THEN Byte(128) ELSE IF i > index THEN Byte(0) ELSE block[i]]

(* The last block: the length is written over what is in b. *)
WithLength(b) == [i \in Place |-> IF i < 56 THEN b[i] ELSE LengthBytes(high, low)[i - 55]]

(* SHA1PadMessage() *)
SHA1PadMessage ==
  LET last == WithLength(IF TwoBlocks THEN [i \in Place |-> Byte(0)] ELSE Filled)
  IN  /\ digest' = digest \o (IF TwoBlocks THEN <<Filled, last>> ELSE <<last>>)
      /\ block' = last
      /\ index' = 0

(* SHA1Result() of a context that has not given one yet; otherwise nothing *)
(* changes.  It returns 1 unless the context is corrupted.                 *)
SHA1Result ==
  /\ length = 0
  /\ ~corrupted /\ ~computed
  /\ SHA1PadMessage
  /\ computed' = TRUE
  /\ UNCHANGED <<low, high, corrupted, length, taken, given, resets>>

Next ==
  \/ SHA1Reset
  \/ \E n \in Lengths : SHA1Input(n)
  \/ InputByte
  \/ SHA1Result

Spec == Init /\ [][Next]_vars

-----------------------------------------------------------------------------
(* The padded message of n bytes, by its definition: 0x80, as few zeros as *)
(* fill up the last block, and the length in bits, in two words.           *)
PaddedLen(n) == 64 * ((n + 72) \div 64)

Padded(n, hi, lo, i) ==
  IF i < n THEN Data(i + 1)
  ELSE IF i = n THEN Byte(128)
  ELSE IF i < PaddedLen(n) - 8 THEN Byte(0)
  ELSE LengthBytes(hi, lo)[i - PaddedLen(n) + 9]

TypeOK ==
  /\ index \in Place
  /\ block \in [Place -> Bytes]
  /\ low \in 0..(Word - 1)
  /\ high \in 0..(Word - 1)
  /\ computed \in BOOLEAN
  /\ corrupted \in BOOLEAN
  /\ digest \in Seq([Place -> Bytes])
  /\ length \in Nat
  /\ taken \in Nat
  /\ given \in Nat
  /\ resets \in Nat

(* The digest that SHA1Result() returns 1 for is the digest of everything  *)
(* that was given since the last reset, in order, padded as it should be:  *)
(* no byte is lost, left over from an earlier use of the context, or added *)
(* after the result.                                                       *)
ResultIsPaddedMessage ==
  computed /\ ~corrupted =>
    \E hi, lo \in 0..(Word - 1) :
      /\ hi * Word + lo = 8 * given
      /\ 64 * Len(digest) = PaddedLen(given)
      /\ \A k \in 1..Len(digest), i \in Place :
           digest[k][i] = Padded(given, hi, lo, 64 * (k - 1) + i)

(* Before the result, digest and block hold the bytes taken so far. *)
Buffered ==
  ~computed =>
    /\ taken = 64 * Len(digest) + index
    /\ \A k \in 1..Len(digest), i \in Place : digest[k][i] = Data(64 * (k - 1) + i + 1)
    /\ \A i \in 0..(index - 1) : block[i] = Data(64 * Len(digest) + i + 1)

(* Nothing that was given is missing, unless the context is corrupted, and *)
(* the two words hold the length in bits.                                  *)
Counted ==
  /\ ~corrupted => taken + length = given /\ high * Word + low = 8 * taken
  /\ corrupted \/ computed => length = 0
  /\ low % 8 = 0

IInv == TypeOK /\ Buffered /\ Counted /\ ResultIsPaddedMessage
=============================================================================

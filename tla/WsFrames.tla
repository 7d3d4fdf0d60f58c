------------------------------- MODULE WsFrames -------------------------------
(***************************************************************************)
(* What the two WebSocket servers read and write: the peer's request and   *)
(* frames as they come out of read(), fetchSecKey(), analyData() and       *)
(* packData().                                                             *)
(*                                                                         *)
(* A read is a sequence of units: the parts of the request line by line,   *)
(* the two first bytes of a frame, its extended length, its mask, and the  *)
(* characters of its payload.  TCP may cut it between any two of them.     *)
(***************************************************************************)
EXTENDS Naturals, Sequences

CONSTANTS
  Short,   \* 126: lengths below it fit into the second byte
  Long,    \* 0xFFFF: packData() sends nothing from here on
  Buffer,  \* REQUEST_LEN_MAX, in units
  Nul,     \* the character that ends a string
  Junk,    \* characters that nobody sent
  MaxJunk  \* bound: how many of them make a text, or follow one

ASSUME LengthsAssumption == Short \in Nat /\ Long \in Nat /\ Short < Long
ASSUME BufferAssumption == Buffer \in Nat \ {0}
ASSUME MaxJunkAssumption == MaxJunk \in Nat

(* What analyData() returns: NULL, or a text. *)
Null == [null |-> TRUE, text |-> <<>>]
Data(text) == [null |-> FALSE, text |-> text]

-----------------------------------------------------------------------------
(* The request, and the frames of a peer that follows RFC 6455.  The key   *)
(* may be cut in two; whole is FALSE for a fragment, which has no FIN bit. *)
Line(part) == [unit |-> "http", part |-> part]

Request(kind) ==
  LET parts == IF kind = "upgrade" THEN <<"line", "key1", "key2">> ELSE <<"line">>
  IN  [i \in 1..Len(parts) |-> Line(parts[i])]

First(whole) == [unit |-> "first", fin |-> whole]
Second(len7) == [unit |-> "second", mask |-> TRUE, len7 |-> len7]
Ext(n) == [unit |-> "ext", n |-> n]
Masks == [unit |-> "masks"]
Char(c) == [unit |-> "char", c |-> c]

Payload(text) == [i \in 1..Len(text) |-> Char(text[i])]

Frame(whole, text) ==
  LET n == Len(text)
      head == IF n < Short THEN <<Second(n)>>
              ELSE IF n <= Long THEN <<Second(Short), Ext(n)>>
              ELSE <<Second(Short + 1), Ext(n)>>
  IN  <<First(whole)>> \o head \o <<Masks>> \o Payload(text)

(* The units a request or a frame starts with. *)
StartsItem(u) == u \in {Line("line"), First(TRUE), First(FALSE)}

-----------------------------------------------------------------------------
(* fetchSecKey(): NULL without the header field, and whatever part of the  *)
(* key the read holds otherwise.                                           *)
fetchSecKey(buf) ==
  LET has(part) == \E i \in DOMAIN buf : buf[i] = Line(part)
  IN  IF ~has("key1") THEN "none"
      ELSE IF has("key2") THEN "whole" ELSE "part"

(* Bytes that are nobody's text. *)
JunkText(k) == [i \in 1..k |-> Junk]

(* The texts that response() may make of a payload: it is not terminated,  *)
(* so strlen() may count what lies behind it.                              *)
Unterminated(text) == {text \o JunkText(k) : k \in 0..MaxJunk}

Payloads(text) == {Data(t) : t \in Unterminated(text)}

(* The characters of a frame that have arrived.  The bytes that have not   *)
(* are zeros, which the mask turns into anything.                          *)
Arrived(buf) ==
  LET start == IF buf[2].len7 < Short THEN 4 ELSE 5
      n == IF buf[2].len7 < Short THEN buf[2].len7
           ELSE IF Len(buf) < 3 THEN 0 ELSE buf[3].n
      last == IF Len(buf) < start + n - 1 THEN Len(buf) ELSE start + n - 1
  IN  [i \in 1..(IF last < start THEN 0 ELSE last - start + 1) |-> buf[start + i - 1].c]

(* A read that starts inside a frame, and whether it has n bytes: of the   *)
(* units only the extended length and the masks are more than one.         *)
Inside(buf) == buf # <<>> /\ buf[1].unit \notin {"http", "first"}

Width(u) ==
  IF u.unit = "masks" THEN 4
  ELSE IF u.unit # "ext" THEN 1
  ELSE IF u.n <= Long THEN 2 ELSE 8

HasBytes(buf, n) == \E i \in DOMAIN buf : Len(buf) - 1 + Width(buf[i]) >= n

(* The payload is said to be longer than the buffer.  A read that starts   *)
(* inside a frame may say so with any three bytes, and may name a length   *)
(* for which malloc() returns NULL.                                        *)
Overruns(buf) ==
  \/ /\ Len(buf) >= 3 /\ buf[1] = First(TRUE)
     /\ buf[2].len7 >= Short /\ buf[3].n + 4 > Buffer
  \/ Inside(buf) /\ HasBytes(buf, 3)

(* What analyData() makes of a read that starts inside a frame, whose      *)
(* bytes it takes for a header.                                            *)
Garbled(buf) ==
  IF HasBytes(buf, 2) THEN {Null} \cup Payloads(<<>>) ELSE {Null}

(* Mutant: the FIN bit is not looked at. *)
analyDataNoFin(buf) ==
  IF Len(buf) = 0 THEN {Null}
  ELSE IF buf[1].unit = "http" THEN {Null}
  ELSE IF Inside(buf) THEN Garbled(buf)
  ELSE IF Len(buf) = 1 THEN {Null}
  ELSE Payloads(Arrived(buf))

(* analyData(): what it may return.  Only the first frame of a read is     *)
(* looked at.  The text of a request has no FIN bit.                       *)
analyData(buf) ==
  IF Len(buf) = 0 THEN {Null}
  ELSE IF buf[1].unit = "http" THEN {Null}
  ELSE IF Inside(buf) THEN Garbled(buf)
  ELSE IF Len(buf) = 1 \/ ~buf[1].fin THEN {Null}
  ELSE IF ~buf[2].mask THEN {Null}
  ELSE Payloads(Arrived(buf))

-----------------------------------------------------------------------------
(* What strlen() counts of a text: the characters before the first Nul. *)
Counted(text) ==
  LET n == CHOOSE k \in 0..Len(text) : /\ \A i \in 1..k : text[i] # Nul
                                       /\ k < Len(text) => text[k + 1] = Nul
  IN  SubSeq(text, 1, n)

(* packData() returns NULL for a text that is too long. *)
Packable(message) == Len(Counted(message)) < Long

(* Mutant: 126 in the second byte for a length. *)
packDataLate(message) ==
  LET body == Counted(message)
      n == Len(body)
  IN  IF n <= Short THEN [len7 |-> n, ext |-> 0, body |-> body]
                    ELSE [len7 |-> Short, ext |-> n, body |-> body]

(* packData(): a frame of what strlen() counts. *)
packData(message) ==
  LET body == Counted(message)
      n == Len(body)
  IN  IF n < Short THEN [len7 |-> n, ext |-> 0, body |-> body]
                   ELSE [len7 |-> Short, ext |-> n, body |-> body]

(* RFC 6455: the length a peer reads in the header of a frame. *)
RfcLength(frame) == IF frame.len7 < Short THEN frame.len7 ELSE frame.ext
=============================================================================

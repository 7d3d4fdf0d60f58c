---------------------------- MODULE WsServerProofs ----------------------------
(***************************************************************************)
(* The handshake is answered first or never, a frame's header tells its    *)
(* length, and the process ends for one of six reasons - for every set of  *)
(* texts, lines and digests and every size of the buffers.                 *)
(***************************************************************************)
EXTENDS WsServer, SequenceTheorems, WellFoundedInduction, TLAPS

LEMMA Sizes ==
  /\ Short \in Nat /\ Long \in Nat /\ Short < Long /\ Buffer \in Nat /\ Buffer > 0
  /\ LineSize \in Nat /\ LineSize >= 2
  BY LengthsAssumption, BufferAssumption, LineSizeAssumption

(* What is sent or typed is made of the characters in Chars. *)
LEMMA TextType == ASSUME NEW t \in Texts \cup Lines PROVE t \in Seq(Chars)
<1>1. t \in Seq({t[i] : i \in DOMAIN t})
  BY TextsAssumption
<1>2. {t[i] : i \in DOMAIN t} \subseteq Chars
  BY DEF Chars
<1> QED
  BY <1>1, <1>2

(* Sequences of anything. *)
LEMMA AppendAny ==
  ASSUME NEW s, s \in Seq({s[i] : i \in DOMAIN s}), NEW e
  PROVE  /\ Append(s, e) \in Seq({Append(s, e)[i] : i \in DOMAIN Append(s, e)})
         /\ DOMAIN Append(s, e) = DOMAIN s \cup {Len(s) + 1}
         /\ Len(s) \in Nat /\ DOMAIN s = 1..Len(s)
         /\ \A i \in DOMAIN s : Append(s, e)[i] = s[i]
         /\ Append(s, e)[Len(s) + 1] = e
<1> DEFINE S == {s[i] : i \in DOMAIN s} \cup {e}
<1>1. s \in Seq(S)
  BY SeqMonotonic
<1>2. e \in S
  OBVIOUS
<1> HIDE DEF S
<1>3. PICK r : r = Append(s, e)
  OBVIOUS
<1>4. /\ r \in Seq(S) /\ Len(r) = Len(s) + 1
      /\ \A i \in 1..Len(s) : r[i] = s[i]
      /\ r[Len(s) + 1] = e
      /\ Len(s) \in Nat /\ DOMAIN s = 1..Len(s) /\ DOMAIN r = 1..Len(r)
  BY <1>1, <1>2, <1>3
<1>5. r \in Seq({r[i] : i \in DOMAIN r})
  BY <1>4
<1> QED
  BY <1>3, <1>4, <1>5

(* A set of natural numbers has a least one. *)
LEMMA Least == ASSUME NEW T, T \subseteq Nat, T # {} PROVE \E x \in T : \A y \in T : x <= y
<1> DEFINE R == {ss \in Nat \X Nat : ss[1] < ss[2]}
<1>1. IsWellFoundedOn(R, Nat)
  BY NatLessThanWellFounded DEF OpToRel
<1>2. PICK x \in T : \A y \in T : ~ (<<y, x>> \in R)
  <2> HIDE DEF R
  <2> QED
    BY <1>1, WFMin
<1>3. \A y \in T : ~(y < x)
  BY <1>2
<1> QED
  BY <1>3

-----------------------------------------------------------------------------
(* The units of a frame. *)
LEMMA Units ==
  /\ \A part \in {"line", "key1", "key2"} : Line(part) \in Unit
  /\ \A w \in BOOLEAN : First(w) \in Unit
  /\ \A n \in Nat : Second(n) \in Unit /\ Ext(n) \in Unit
  /\ Masks \in Unit
  /\ \A c \in Chars : Char(c) \in Unit
<1>1. \A part \in {"line", "key1", "key2"} : Line(part) \in Unit
  BY DEF Unit, Line
<1>2. \A w \in BOOLEAN : First(w) \in Unit
  BY DEF Unit, First
<1>3. \A n \in Nat : Second(n) \in Unit
  BY DEF Unit, Second
<1>4. \A n \in Nat : Ext(n) \in Unit
  BY DEF Unit, Ext
<1>5. Masks \in Unit
  BY DEF Unit, Masks
<1>6. \A c \in Chars : Char(c) \in Unit
  BY DEF Unit, Char
<1> QED
  BY <1>1, <1>2, <1>3, <1>4, <1>5, <1>6

LEMMA RequestType ==
  ASSUME NEW kind
  PROVE  /\ Request(kind) \in Seq(Unit)
         /\ kind = "upgrade" => /\ Len(Request(kind)) = 3
                                /\ Request(kind)[2] = Line("key1")
                                /\ Request(kind)[3] = Line("key2")
         /\ kind # "upgrade" => Len(Request(kind)) = 1
         /\ Request(kind)[1] = Line("line")
         /\ \A i \in DOMAIN Request(kind) : Request(kind)[i].unit = "http"
<1>1. CASE kind = "upgrade"
  BY <1>1, Units DEF Request, Line
<1>2. CASE kind # "upgrade"
  BY <1>2, Units DEF Request, Line
<1> QED
  BY <1>1, <1>2

(* A frame: two bytes, the length once more if it is long, the masks, and  *)
(* the text.                                                               *)
Header(w, n) ==
  <<First(w)>> \o (IF n < Short THEN <<Second(n)>>
                   ELSE IF n <= Long THEN <<Second(Short), Ext(n)>>
                   ELSE <<Second(Short + 1), Ext(n)>>) \o <<Masks>>

LEMMA FrameShape ==
  ASSUME NEW w \in BOOLEAN, NEW text \in Texts
  PROVE  LET f == Frame(w, text)
             n == Len(text)
             k == IF n < Short THEN 3 ELSE 4
         IN  /\ f \in Seq(Unit) /\ n \in Nat /\ Len(f) = n + k
             /\ f[1] = First(w)
             /\ f[2].unit = "second"
             /\ n < Short => f[2].len7 = n
             /\ n >= Short => f[2].len7 \in Nat /\ f[2].len7 >= Short /\ f[3] = Ext(n)
             /\ \A i \in 2..Len(f) : f[i].unit \in {"second", "ext", "masks", "char"}
             /\ \A i \in 1..n : f[k + i] = Char(text[i])
<1> DEFINE n == Len(text)
           k == IF n < Short THEN 3 ELSE 4
           p == Payload(text)
           h == Header(w, n)
<1>1. text \in Seq(Chars) /\ n \in Nat /\ DOMAIN text = 1..n
  BY TextType
<1>2. /\ p \in Seq(Unit) /\ Len(p) = n
      /\ \A i \in 1..n : p[i] = Char(text[i])
  BY <1>1, Units DEF Payload
<1>3. /\ h \in Seq(Unit) /\ Len(h) = k
      /\ h[1] = First(w)
      /\ n < Short => h[2] = Second(n) /\ h[3] = Masks
      /\ n >= Short => /\ h[2] \in {Second(Short), Second(Short + 1)}
                       /\ h[3] = Ext(n) /\ h[4] = Masks
  <2> HIDE DEF n, p
  <2>1. CASE n < Short
    BY <1>1, <2>1, Units, Sizes DEF Header
  <2>2. CASE ~(n < Short) /\ n <= Long
    BY <1>1, <2>2, Units, Sizes DEF Header
  <2>3. CASE ~(n < Short) /\ ~(n <= Long)
    BY <1>1, <2>3, Units, Sizes DEF Header
  <2> QED
    BY <1>1, <2>1, <2>2, <2>3, Sizes
<1>4. PICK f : f = h \o p
  OBVIOUS
<1>5. Frame(w, text) = f
  <2>1. CASE n < Short
    BY <1>4, <2>1, <1>1, <1>2, Units, Sizes, ConcatAssociative DEF Frame, Header
  <2>2. CASE ~(n < Short)
    BY <1>4, <2>2, <1>1, <1>2, Units, Sizes, ConcatAssociative DEF Frame, Header
  <2> QED
    BY <2>1, <2>2
<1>6. /\ f \in Seq(Unit) /\ Len(f) = n + k
      /\ \A i \in 1..k : f[i] = h[i]
      /\ \A i \in 1..n : f[k + i] = p[i]
  <2>1. k \in Nat
    OBVIOUS
  <2> HIDE DEF n, k, p, h
  <2>2. /\ f \in Seq(Unit) /\ Len(f) = k + n
        /\ \A i \in 1..(k + n) : f[i] = IF i <= k THEN h[i] ELSE p[i - k]
    BY <1>2, <1>3, <1>4, ConcatProperties
  <2> QED
    BY <1>1, <2>1, <2>2
<1> HIDE DEF p, h
<1>7. f[2].unit = "second"
  BY <1>1, <1>3, <1>6, Sizes DEF Second
<1>8. /\ n < Short => f[2].len7 = n
      /\ n >= Short => f[2].len7 \in Nat /\ f[2].len7 >= Short /\ f[3] = Ext(n)
  BY <1>1, <1>3, <1>6, Sizes DEF Second
<1>9. \A i \in 2..Len(f) : f[i].unit \in {"second", "ext", "masks", "char"}
  <2> SUFFICES ASSUME NEW i \in 2..Len(f) PROVE f[i].unit \in {"second", "ext", "masks", "char"}
    OBVIOUS
  <2>1. CASE i <= k
    <3>1. f[i] = h[i] /\ i \in 2..k
      BY <2>1, <1>1, <1>6
    <3>2. h[i] \in {Second(n), Second(Short), Second(Short + 1), Ext(n), Masks}
      BY <1>1, <1>3, <3>1, Sizes
    <3> QED
      BY <3>1, <3>2 DEF Second, Ext, Masks
  <2>2. CASE i > k
    <3>1. PICK j \in 1..n : i = k + j
      <4>1. k \in Nat
        OBVIOUS
      <4> HIDE DEF n, k
      <4>2. i - k \in 1..n /\ i = k + (i - k)
        BY <2>2, <4>1, <1>1, <1>6
      <4> QED
        BY <4>2
    <3>2. f[i] = Char(text[j])
      BY <1>2, <1>6, <3>1
    <3> QED
      BY <3>2 DEF Char
  <2> QED
    BY <2>1, <2>2, <1>1, <1>6
<1> HIDE DEF n, k
<1>10. f[1] = First(w) /\ \A i \in 1..n : f[k + i] = Char(text[i])
  <2>1. k >= 1 /\ k \in Nat
    BY DEF k
  <2> QED
    BY <1>2, <1>3, <1>6, <2>1
<1> QED
  BY <1>1, <1>5, <1>6, <1>7, <1>8, <1>9, <1>10 DEF n, k

(* The same of a frame that was sent. *)
LEMMA SentShape ==
  ASSUME sent \in Seq([whole : BOOLEAN, text : Texts]), NEW j \in DOMAIN sent
  PROVE  LET f == Frame(sent[j].whole, sent[j].text)
             n == Len(sent[j].text)
             k == IF n < Short THEN 3 ELSE 4
         IN  /\ f \in Seq(Unit) /\ Len(f) \in Nat /\ DOMAIN f = 1..Len(f)
             /\ n \in Nat /\ Len(f) = n + k
             /\ n < Short => f[2].len7 = n
             /\ n >= Short => f[2].len7 \in Nat /\ f[2].len7 >= Short /\ f[3] = Ext(n)
             /\ \A i \in 1..n : f[k + i] = Char(sent[j].text[i]) /\ sent[j].text[i] \in Chars
<1>1. sent[j].whole \in BOOLEAN /\ sent[j].text \in Texts
  <2>1. PICK S : S = [whole : BOOLEAN, text : Texts]
    OBVIOUS
  <2>2. sent[j] \in S
    <3>1. sent \in Seq(S)
      BY <2>1
    <3> QED
      BY <3>1, ElementOfSeq, LenProperties
  <2> QED
    BY <2>1, <2>2
<1>2. \A i \in 1..Len(sent[j].text) : sent[j].text[i] \in Chars
  BY <1>1, TextType
<1>3. Frame(sent[j].whole, sent[j].text) \in Seq(Unit)
  BY <1>1, FrameShape
<1>4. PICK w, text, f : w = sent[j].whole /\ text = sent[j].text /\ f = Frame(w, text)
  OBVIOUS
<1>5. Len(f) \in Nat /\ DOMAIN f = 1..Len(f)
  BY <1>3, <1>4
<1>6. w \in BOOLEAN /\ text \in Texts
  BY <1>1, <1>4
<1>7. LET g == Frame(w, text)
          n == Len(text)
          k == IF n < Short THEN 3 ELSE 4
      IN  /\ n \in Nat /\ Len(g) = n + k
          /\ n < Short => g[2].len7 = n
          /\ n >= Short => g[2].len7 \in Nat /\ g[2].len7 >= Short /\ g[3] = Ext(n)
          /\ \A i \in 1..n : g[k + i] = Char(text[i])
  BY <1>6, FrameShape
<1> QED
  BY <1>2, <1>3, <1>4, <1>5, <1>7

-----------------------------------------------------------------------------
(* read() *)
LEMMA ReadUnits ==
  ASSUME net \in Seq(Unit), NEW n, Read(n)
  PROVE  LET buf == SubSeq(net, 1, n)
             rest == SubSeq(net, n + 1, Len(net))
         IN  /\ n \in Nat /\ n <= Len(net)
             /\ buf \in Seq(Unit) /\ Len(buf) = n /\ \A i \in 1..n : buf[i] = net[i]
             /\ rest \in Seq(Unit) /\ Len(rest) = Len(net) - n
             /\ \A i \in 1..Len(rest) : rest[i] = net[n + i]
             /\ \A i \in DOMAIN rest : n + i \in DOMAIN net
<1>1. Len(net) \in Nat /\ DOMAIN net = 1..Len(net) /\ \A i \in 1..Len(net) : net[i] \in Unit
  OBVIOUS
<1>2. n \in Nat /\ n <= Len(net)
  BY <1>1 DEF Read
<1>3. /\ SubSeq(net, 1, n) \in Seq(Unit) /\ Len(SubSeq(net, 1, n)) = n
      /\ \A i \in 1..n : SubSeq(net, 1, n)[i] = net[i]
  <2>1. \A i \in 1..n : net[i] \in Unit
    BY <1>1, <1>2
  <2>2. n \in Int /\ 1 \in Int
    BY <1>2
  <2> QED
    BY <1>2, <2>1, <2>2, SubSeqProperties
<1>4. PICK rest : rest = SubSeq(net, n + 1, Len(net))
  OBVIOUS
<1>5. /\ rest \in Seq(Unit) /\ Len(rest) = Len(net) - n
      /\ \A i \in 1..Len(rest) : rest[i] = net[n + i]
  <2>1. \A i \in (n + 1)..Len(net) : net[i] \in Unit
    BY <1>1, <1>2
  <2>2. n + 1 \in Int /\ Len(net) \in Int
    BY <1>1, <1>2
  <2>3. /\ rest \in Seq(Unit)
        /\ Len(rest) = IF n + 1 <= Len(net) THEN Len(net) - (n + 1) + 1 ELSE 0
        /\ \A i \in 1..(Len(net) - (n + 1) + 1) : rest[i] = net[(n + 1) + i - 1]
    BY <1>4, <2>1, <2>2, SubSeqProperties
  <2>4. PICK L, M : L = Len(net) /\ M = Len(rest)
    OBVIOUS
  <2>5. L \in Nat /\ M = L - n
    <3>1. L \in Nat /\ n \in Nat /\ n <= L
      BY <1>1, <1>2, <2>4
    <3>2. M = IF n + 1 <= L THEN L - (n + 1) + 1 ELSE 0
      BY <2>3, <2>4
    <3> QED
      BY <3>1, <3>2
  <2>6. ASSUME NEW i \in 1..Len(rest) PROVE rest[i] = net[n + i]
    <3>1. (n + 1) + i - 1 = n + i /\ i \in 1..(L - (n + 1) + 1)
      BY <1>2, <2>4, <2>5
    <3> QED
      BY <2>3, <2>4, <3>1
  <2> QED
    BY <2>3, <2>4, <2>5, <2>6
<1>6. \A i \in DOMAIN rest : n + i \in DOMAIN net
  BY <1>1, <1>2, <1>5
<1> QED
  BY <1>2, <1>3, <1>4, <1>5, <1>6

(* Where unit m of a frame at i lies. *)
LEMMA Place ==
  ASSUME NEW i \in Nat, NEW m \in Nat, NEW F \in Nat, NEW R \in Nat, NEW n \in Nat,
         i >= 1, m >= 1, m <= F, i + F <= R + 1
  PROVE  i + m - 1 \in 1..R /\ n + (i + m - 1) = n + i + m - 1 /\ i + F <= R + n + 1
  OBVIOUS

(* What is left behind a read still holds whole frames. *)
Rest(s, n, r) == Len(r) = Len(s) - n /\ \A k \in 1..Len(r) : r[k] = s[n + k]

Alike(s, n, r, i, F) == \A m \in 1..F : r[i + m - 1] = s[n + i + m - 1]

LEMMA RestAlike ==
  ASSUME NEW s, NEW r, NEW n \in Nat, Rest(s, n, r), Len(r) \in Nat,
         NEW i \in 1..Len(r), NEW F \in Nat, i + F <= Len(r) + 1
  PROVE  Alike(s, n, r, i, F)
<1> SUFFICES ASSUME NEW m \in 1..F PROVE r[i + m - 1] = s[n + i + m - 1]
  BY DEF Alike
<1>1. i + m - 1 \in 1..Len(r) /\ n + (i + m - 1) = n + i + m - 1
  OBVIOUS
<1> QED
  BY <1>1 DEF Rest

LEMMA RestFramed ==
  ASSUME sent \in Seq([whole : BOOLEAN, text : Texts]),
         NEW s \in Seq(Unit), NEW r \in Seq(Unit), NEW n \in Nat, n <= Len(s),
         Rest(s, n, r), FramedBy(s, sent)
  PROVE  FramedBy(r, sent)
<1> SUFFICES ASSUME NEW i \in DOMAIN r, r[i].unit = "first"
             PROVE  \E j \in DOMAIN sent :
                      LET f == Frame(sent[j].whole, sent[j].text)
                      IN  i + Len(f) <= Len(r) + 1 /\ \A m \in DOMAIN f : r[i + m - 1] = f[m]
  BY DEF FramedBy
<1>1. /\ Len(s) \in Nat /\ Len(r) \in Nat /\ Len(r) = Len(s) - n
      /\ i \in 1..Len(r) /\ DOMAIN s = 1..Len(s)
  BY DEF Rest
<1>2. n + i \in DOMAIN s /\ s[n + i].unit = "first"
  BY <1>1 DEF Rest
<1>3. PICK j \in DOMAIN sent :
        LET f == Frame(sent[j].whole, sent[j].text)
        IN  n + i + Len(f) <= Len(s) + 1 /\ \A m \in DOMAIN f : s[n + i + m - 1] = f[m]
  BY <1>2 DEF FramedBy
<1>4. PICK f : f = Frame(sent[j].whole, sent[j].text)
  OBVIOUS
<1>5. Len(f) \in Nat /\ DOMAIN f = 1..Len(f)
  BY <1>4, SentShape
<1>6. n + i + Len(f) <= Len(s) + 1 /\ \A m \in DOMAIN f : s[n + i + m - 1] = f[m]
  BY <1>3, <1>4
<1>7. i + Len(f) <= Len(r) + 1
  BY <1>1, <1>5, <1>6
<1>8. Alike(s, n, r, i, Len(f))
  <2>1. Len(r) \in Nat /\ i \in 1..Len(r) /\ Len(f) \in Nat /\ i + Len(f) <= Len(r) + 1
    BY <1>1, <1>5, <1>7
  <2> QED
    BY <2>1, RestAlike
<1>9. \A m \in DOMAIN f : r[i + m - 1] = f[m]
  BY <1>5, <1>6, <1>8 DEF Alike
<1> QED
  BY <1>4, <1>7, <1>9

LEMMA ReadFramed ==
  ASSUME net \in Seq(Unit), sent \in Seq([whole : BOOLEAN, text : Texts]), Framed, NEW n, Read(n),
         net' = SubSeq(net, n + 1, Len(net)), sent' = sent
  PROVE  Framed'
<1>1. PICK r : r = net'
  OBVIOUS
<1>2. n \in Nat /\ n <= Len(net) /\ r \in Seq(Unit) /\ Rest(net, n, r)
  BY <1>1, ReadUnits DEF Rest
<1>3. FramedBy(r, sent)
  BY <1>2, RestFramed DEF Framed
<1> QED
  BY <1>1, <1>3 DEF Framed

(* The frame a read starts with. *)
LEMMA FirstFrame ==
  ASSUME net \in Seq(Unit), sent \in Seq([whole : BOOLEAN, text : Texts]), Framed,
         net # <<>>, net[1].unit = "first"
  PROVE  \E j \in DOMAIN sent :
           LET f == Frame(sent[j].whole, sent[j].text)
           IN  Len(f) <= Len(net) /\ \A m \in DOMAIN f : net[m] = f[m]
<1>1. 1 \in DOMAIN net /\ Len(net) \in Nat
  OBVIOUS
<1>2. PICK j \in DOMAIN sent :
        LET f == Frame(sent[j].whole, sent[j].text)
        IN  1 + Len(f) <= Len(net) + 1 /\ \A m \in DOMAIN f : net[1 + m - 1] = f[m]
  BY <1>1 DEF Framed, FramedBy
<1>3. PICK f : f = Frame(sent[j].whole, sent[j].text)
  OBVIOUS
<1>4. f \in Seq(Unit) /\ Len(f) \in Nat /\ DOMAIN f = 1..Len(f)
  BY <1>3, SentShape
<1>5. Len(f) <= Len(net) /\ \A m \in DOMAIN f : 1 + m - 1 = m
  BY <1>1, <1>2, <1>3, <1>4
<1>6. \A m \in DOMAIN f : net[m] = f[m]
  BY <1>2, <1>3, <1>5
<1> QED
  BY <1>3, <1>5, <1>6

(* A frame that overruns the buffer was sent. *)
LEMMA OverrunSent ==
  ASSUME net \in Seq(Unit), sent \in Seq([whole : BOOLEAN, text : Texts]), Framed,
         NEW n \in 1..Len(net), Overruns(SubSeq(net, 1, n)), ~Inside(SubSeq(net, 1, n))
  PROVE  \E j \in DOMAIN sent : Len(sent[j].text) + 4 > Buffer
<1> DEFINE buf == SubSeq(net, 1, n)
<1>1. Len(buf) = n /\ n \in Nat /\ n >= 1 /\ \A i \in 1..n : buf[i] = net[i]
  OBVIOUS
<1>2. /\ n >= 3 /\ net[1] = First(TRUE)
      /\ net[2].len7 >= Short /\ net[3].n + 4 > Buffer
  <2> HIDE DEF buf
  <2>1. Overruns(buf) /\ ~Inside(buf)
    BY DEF buf
  <2>2. Len(buf) >= 3 /\ buf[1] = First(TRUE) /\ buf[2].len7 >= Short /\ buf[3].n + 4 > Buffer
    BY <2>1 DEF Overruns
  <2>3. 1 \in 1..n /\ 2 \in 1..n /\ 3 \in 1..n
    BY <1>1, <2>2
  <2> QED
    BY <1>1, <2>2, <2>3
<1>3. PICK j \in DOMAIN sent :
        LET f == Frame(sent[j].whole, sent[j].text)
        IN  Len(f) <= Len(net) /\ \A m \in DOMAIN f : net[m] = f[m]
  <2>1. net # <<>> /\ net[1].unit = "first"
    BY <1>2 DEF First
  <2> QED
    BY <2>1, FirstFrame
<1>4. PICK f : f = Frame(sent[j].whole, sent[j].text)
  OBVIOUS
<1>5. PICK k : k = Len(sent[j].text)
  OBVIOUS
<1>6. /\ k \in Nat /\ Len(f) = k + (IF k < Short THEN 3 ELSE 4) /\ DOMAIN f = 1..Len(f)
      /\ k < Short => f[2].len7 = k
      /\ k >= Short => f[3] = Ext(k)
  BY <1>4, <1>5, SentShape
<1>7. 2 \in DOMAIN f /\ 3 \in DOMAIN f
  BY <1>6, Sizes
<1>8. net[2] = f[2] /\ net[3] = f[3]
  BY <1>3, <1>4, <1>7
<1>9. k >= Short
  BY <1>2, <1>6, <1>8, Sizes
<1> QED
  <2>1. net[3].n = k
    BY <1>6, <1>8, <1>9 DEF Ext
  <2> QED
    BY <1>2, <1>5, <2>1

(* What analyData() makes of a frame is made of characters. *)
LEMMA ArrivedType ==
  ASSUME net \in Seq(Unit), sent \in Seq([whole : BOOLEAN, text : Texts]), Framed,
         NEW buf \in Seq(Unit), Len(buf) <= Len(net), \A i \in 1..Len(buf) : buf[i] = net[i],
         Len(buf) >= 2, buf[1].unit = "first"
  PROVE  Arrived(buf) \in Seq(Chars)
<1>1. Len(buf) \in Nat /\ Len(net) \in Nat
  OBVIOUS
<1>2. PICK j \in DOMAIN sent :
        LET f == Frame(sent[j].whole, sent[j].text)
        IN  Len(f) <= Len(net) /\ \A m \in DOMAIN f : net[m] = f[m]
  <2>1. net # <<>> /\ net[1].unit = "first"
    BY <1>1
  <2> QED
    BY <2>1, FirstFrame
<1>3. PICK f, k, h : /\ f = Frame(sent[j].whole, sent[j].text)
                     /\ k = Len(sent[j].text) /\ h = IF k < Short THEN 3 ELSE 4
  OBVIOUS
<1>4. /\ k \in Nat /\ Len(f) = k + h /\ DOMAIN f = 1..Len(f)
      /\ k < Short => f[2].len7 = k
      /\ k >= Short => f[2].len7 \in Nat /\ f[2].len7 >= Short /\ f[3] = Ext(k)
      /\ \A i \in 1..k : f[h + i] = Char(sent[j].text[i]) /\ sent[j].text[i] \in Chars
  <2>1. LET g == Frame(sent[j].whole, sent[j].text)
            n == Len(sent[j].text)
            m == IF n < Short THEN 3 ELSE 4
        IN  /\ g \in Seq(Unit) /\ Len(g) \in Nat /\ DOMAIN g = 1..Len(g)
            /\ n \in Nat /\ Len(g) = n + m
            /\ n < Short => g[2].len7 = n
            /\ n >= Short => g[2].len7 \in Nat /\ g[2].len7 >= Short /\ g[3] = Ext(n)
            /\ \A i \in 1..n : g[m + i] = Char(sent[j].text[i]) /\ sent[j].text[i] \in Chars
    BY SentShape
  <2> QED
    BY <1>3, <2>1
<1>a. /\ h \in {3, 4}
      /\ k < Short => h = 3
      /\ k >= Short => h = 4
  BY <1>3, <1>4, Sizes
<1>b. \A i \in 1..k : f[h + i].c \in Chars
  <2>1. \A c : Char(c).c = c
    BY DEF Char
  <2> QED
    BY <1>4, <2>1
<1>5. \A i \in 1..Len(buf) : i <= k + h => buf[i] = f[i]
  <2>1. \A i \in DOMAIN f : net[i] = f[i]
    BY <1>2, <1>3
  <2>2. \A i \in 1..Len(buf) : i <= k + h => i \in DOMAIN f
    BY <1>1, <1>4, <1>a
  <2> QED
    BY <2>1, <2>2
<1>6. PICK start, n, last :
        /\ start = IF buf[2].len7 < Short THEN 4 ELSE 5
        /\ n = IF buf[2].len7 < Short THEN buf[2].len7 ELSE IF Len(buf) < 3 THEN 0 ELSE buf[3].n
        /\ last = IF Len(buf) < start + n - 1 THEN Len(buf) ELSE start + n - 1
  OBVIOUS
<1>7. PICK size : size = IF last < start THEN 0 ELSE last - start + 1
  OBVIOUS
<1>8. Arrived(buf) = [i \in 1..size |-> buf[start + i - 1].c]
  BY <1>6, <1>7 DEF Arrived
<1>9. buf[2].len7 = f[2].len7
  BY <1>1, <1>4, <1>a, <1>5
<1>10. start = h + 1 /\ n \in Nat /\ n <= k /\ (n # k => Len(buf) < 3)
  <2>1. CASE k < Short
    BY <1>4, <1>a, <1>6, <1>9, <2>1
  <2>2. CASE k >= Short
    <3>1. ~(buf[2].len7 < Short)
      BY <1>4, <1>a, <1>9, <2>2, Sizes
    <3>2. CASE Len(buf) < 3
      BY <1>4, <1>a, <1>6, <2>2, <3>1, <3>2
    <3>3. CASE Len(buf) >= 3
      <4>1. 3 \in 1..Len(buf) /\ 3 <= k + h
        BY <1>1, <1>4, <1>a, <3>3
      <4>2. buf[3] = Ext(k)
        BY <1>4, <1>a, <1>5, <2>2, <4>1
      <4>3. buf[3].n = k
        BY <4>2 DEF Ext
      <4> QED
        BY <1>1, <1>4, <1>a, <1>6, <2>2, <3>1, <3>3, <4>3
    <3> QED
      BY <1>1, <3>2, <3>3
  <2> QED
    BY <1>4, <1>a, <2>1, <2>2, Sizes
<1>11. /\ size \in Nat /\ size <= n /\ (size > 0 => h + size <= Len(buf))
  <2>1. start + n - 1 = h + n /\ h \in Nat
    BY <1>4, <1>a, <1>10
  <2>2. last <= h + n /\ last <= Len(buf) /\ last \in Nat
    <3>1. last = IF Len(buf) < h + n THEN Len(buf) ELSE h + n
      BY <1>6, <2>1
    <3> QED
      BY <1>1, <1>10, <2>1, <3>1
  <2>3. size = IF last < h + 1 THEN 0 ELSE last - h
    BY <1>7, <1>10, <2>1, <2>2
  <2> QED
    BY <1>1, <1>10, <2>1, <2>2, <2>3
<1>12. ASSUME NEW i \in 1..size PROVE buf[start + i - 1].c \in Chars
  <2>1. start + i - 1 = h + i /\ h + i \in 1..Len(buf) /\ h + i <= k + h /\ i \in 1..k
    BY <1>1, <1>4, <1>a, <1>10, <1>11
  <2> QED
    BY <1>b, <1>5, <2>1
<1>13. PICK a : a = Arrived(buf)
  OBVIOUS
<1>14. a \in [1..size -> Chars]
  <2>1. DOMAIN a = 1..size /\ \A i \in 1..size : a[i] = buf[start + i - 1].c
    BY <1>8, <1>13
  <2>2. a = [i \in DOMAIN a |-> a[i]]
    BY <1>8, <1>13
  <2>3. \A i \in 1..size : a[i] \in Chars
    BY <1>12, <2>1
  <2> QED
    BY <2>1, <2>2, <2>3
<1> QED
  BY <1>11, <1>13, <1>14, SeqDef

LEMMA DataIn ==
  ASSUME NEW t \in Seq(Chars)
  PROVE  Data(t) \in [null : BOOLEAN, text : Seq(Chars)]
<1>1. PICK S : S = Seq(Chars)
  OBVIOUS
<1>2. t \in S
  BY <1>1
<1> QED
  BY <1>1, <1>2 DEF Data

LEMMA NullIn == Null \in [null : BOOLEAN, text : Seq(Chars)]
<1>1. PICK S, e : S = Seq(Chars) /\ e = <<>>
  OBVIOUS
<1>2. e \in S
  BY <1>1
<1> QED
  BY <1>1, <1>2 DEF Null

LEMMA PayloadType ==
  ASSUME NEW text \in Seq(Chars), NEW d \in Payloads(text)
  PROVE  d \in [null : BOOLEAN, text : Seq(Chars)]
<1>1. PICK k \in 0..MaxJunk : d = Data(text \o JunkText(k))
  BY DEF Payloads, Unterminated
<1>2. JunkText(k) \in Seq(Chars)
  <2>1. Junk \in Chars /\ k \in Nat
    BY MaxJunkAssumption DEF Chars
  <2> QED
    BY <2>1 DEF JunkText
<1>3. PICK t : t = text \o JunkText(k)
  OBVIOUS
<1>4. t \in Seq(Chars) /\ d = Data(t)
  BY <1>1, <1>2, <1>3
<1> QED
  BY <1>4, DataIn

LEMMA DataType ==
  ASSUME net \in Seq(Unit), sent \in Seq([whole : BOOLEAN, text : Texts]), Framed,
         NEW n, Read(n), NEW d \in analyData(SubSeq(net, 1, n))
  PROVE  d \in [null : BOOLEAN, text : Seq(Chars)]
<1>1. PICK buf : buf = SubSeq(net, 1, n)
  OBVIOUS
<1>2. /\ buf \in Seq(Unit) /\ Len(buf) = n /\ n \in Nat /\ n <= Len(net)
      /\ \A i \in 1..n : buf[i] = net[i]
  BY <1>1, ReadUnits
<1>3. CASE d = Null
  BY <1>3, NullIn
<1>4. CASE d \in Payloads(<<>>)
  BY <1>4, EmptySeq, PayloadType
<1>5. CASE d # Null /\ d \notin Payloads(<<>>)
  <2>1. Len(buf) >= 2 /\ buf[1].unit = "first" /\ d \in Payloads(Arrived(buf))
    <3>1. d \in analyData(buf)
      BY <1>1
    <3>2. /\ Len(buf) # 0 /\ Len(buf) # 1 /\ buf[1].unit # "http"
          /\ ~Inside(buf) /\ d \in Payloads(Arrived(buf))
      BY <3>1, <1>5 DEF analyData, Garbled
    <3>3. buf # <<>>
      BY <3>2
    <3> QED
      BY <1>2, <3>2, <3>3 DEF Inside
  <2> QED
    BY <1>2, <2>1, ArrivedType, PayloadType
<1> QED
  BY <1>3, <1>4, <1>5

(* A key that is cut off leaves its end behind. *)
LEMMA PartIsCut ==
  ASSUME net = <<>> \/ (asked # "nothing" /\ net = Request(asked)), NEW n, Read(n),
         fetchSecKey(SubSeq(net, 1, n)) = "part"
  PROVE  LET rest == SubSeq(net, n + 1, Len(net))
         IN  rest # <<>> /\ ~StartsItem(rest[1])
<1>1. net \in Seq(Unit)
  BY RequestType, EmptySeq
<1>2. PICK buf, rest : buf = SubSeq(net, 1, n) /\ rest = SubSeq(net, n + 1, Len(net))
  OBVIOUS
<1>3. /\ n \in Nat /\ n <= Len(net)
      /\ buf \in Seq(Unit) /\ Len(buf) = n /\ DOMAIN buf = 1..n /\ \A i \in 1..n : buf[i] = net[i]
      /\ rest \in Seq(Unit) /\ Len(rest) = Len(net) - n
      /\ \A i \in 1..Len(rest) : rest[i] = net[n + i]
  <2>1. /\ n \in Nat /\ n <= Len(net)
        /\ buf \in Seq(Unit) /\ Len(buf) = n /\ \A i \in 1..n : buf[i] = net[i]
    BY <1>1, <1>2, ReadUnits
  <2>2. /\ rest \in Seq(Unit) /\ Len(rest) = Len(net) - n
        /\ \A i \in 1..Len(rest) : rest[i] = net[n + i]
    BY <1>1, <1>2, ReadUnits
  <2>3. DOMAIN buf = 1..n
    BY <2>1
  <2> QED
    BY <2>1, <2>2, <2>3
<1>4. /\ \E i \in DOMAIN buf : buf[i] = Line("key1")
      /\ ~\E i \in DOMAIN buf : buf[i] = Line("key2")
  BY <1>2 DEF fetchSecKey
<1>5. Line("line") # Line("key1") /\ Line("line") # Line("key2") /\ Line("key1") # Line("key2")
      /\ ~StartsItem(Line("key2"))
  BY DEF Line, StartsItem, First
<1>6. net = Request(asked) /\ asked = "upgrade"
  <2>1. net # <<>>
    BY <1>3, <1>4
  <2>2. CASE asked # "upgrade"
    BY <1>3, <1>4, <1>5, <2>1, <2>2, RequestType
  <2> QED
    BY <2>1, <2>2
<1>7. Len(net) = 3 /\ net[1] = Line("line") /\ net[2] = Line("key1") /\ net[3] = Line("key2")
  BY <1>6, RequestType
<1>8. n = 2
  BY <1>3, <1>4, <1>5, <1>7
<1>9. rest # <<>> /\ rest[1] = Line("key2")
  <2>1. Len(rest) = 1 /\ 1 \in 1..Len(rest)
    BY <1>3, <1>7, <1>8
  <2>2. rest[1] = net[3]
    BY <1>3, <1>8, <2>1
  <2> QED
    BY <1>7, <2>1, <2>2
<1> QED
  BY <1>2, <1>5, <1>9

-----------------------------------------------------------------------------
(* fgets() takes up to a newline, or what fits. *)
LEMMA TakenShape ==
  ASSUME NEW s \in Seq(Chars), s # <<>> => s[Len(s)] = Newline, NEW t, t = Taken(s)
  PROVE  /\ t \in Nat /\ t <= Len(s) /\ t < LineSize
         /\ \/ t = 0
            \/ s[t] = Newline
            \/ t = LineSize - 1 /\ \A i \in 1..t : s[i] # Newline
<1> DEFINE ends == {i \in DOMAIN s : s[i] = Newline} \cup {LineSize - 1, Len(s)}
<1>1. Len(s) \in Nat /\ DOMAIN s = 1..Len(s)
  OBVIOUS
<1>2. LineSize - 1 \in Nat
  BY Sizes
<1>3. ends \subseteq Nat /\ ends # {}
  BY <1>1, <1>2
<1>4. t \in ends /\ \A j \in ends : t <= j
  <2>1. \E x \in ends : \A y \in ends : x <= y
    BY <1>3, Least
  <2>2. t = CHOOSE i \in ends : \A j \in ends : i <= j
    BY DEF Taken
  <2> HIDE DEF ends
  <2> QED
    BY <2>1, <2>2
<1>5. t \in Nat /\ t <= Len(s) /\ t <= LineSize - 1
  BY <1>3, <1>4
<1>6. CASE t \in DOMAIN s /\ s[t] = Newline
  BY <1>5, <1>6, Sizes
<1>7. CASE t = Len(s)
  BY <1>1, <1>5, <1>7, Sizes
<1>8. CASE t = LineSize - 1 /\ ~(t \in DOMAIN s /\ s[t] = Newline)
  <2>1. ASSUME NEW i \in 1..t PROVE s[i] # Newline
    <3>1. i \in DOMAIN s
      BY <1>1, <1>5
    <3>2. ASSUME s[i] = Newline PROVE FALSE
      <4>1. i \in ends
        BY <3>1, <3>2
      <4>2. t <= i
        BY <1>4, <4>1
      <4>3. i = t
        BY <1>5, <4>2
      <4> QED
        BY <1>8, <3>1, <3>2, <4>3
    <3> QED
      BY <3>2
  <2> QED
    BY <1>5, <1>8, <2>1, Sizes
<1> QED
  BY <1>4, <1>6, <1>7, <1>8

-----------------------------------------------------------------------------
(* The keyboard thread and its user. *)
KeyInv == Typing /\ AtLineStart
KeyType ==
  /\ line \in Seq(Chars) /\ tty \in Seq(Chars) /\ stdio \in Seq(Chars) /\ typed \in Seq(Chars)
  /\ Len(line) < LineSize

LEMMA TypeKey ==
  ASSUME KeyType, NEW l \in Lines, Type(l), KeyInv
  PROVE  KeyType' /\ KeyInv' /\ Before' = Before
<1>1. l \in Seq(Chars)
  BY TextType
<1>2. /\ tty' = tty \o l /\ typed' = typed \o l
      /\ line' = line /\ stdio' = stdio /\ thread' = thread
  BY DEF Type, keyVars
<1>3. KeyType'
  BY <1>1, <1>2 DEF KeyType
<1> PICK N, T, S, L, K : /\ N = Len(typed) /\ T = Len(tty) /\ S = Len(stdio)
                         /\ L = Len(line) /\ K = Len(l)
  OBVIOUS
<1>4. N \in Nat /\ T \in Nat /\ S \in Nat /\ L \in Nat /\ K \in Nat
  BY <1>1 DEF KeyType
<1>5. /\ Len(typed') = N + K /\ Len(tty') = T + K
      /\ \A i \in 1..N : typed'[i] = typed[i]
      /\ \A i \in 1..K : typed'[N + i] = l[i]
      /\ \A i \in 1..T : tty'[i] = tty[i]
      /\ \A i \in 1..K : tty'[T + i] = l[i]
  BY <1>1, <1>2 DEF KeyType
<1>6. Before' = Before /\ Before = N - T - S - L /\ Before >= 0
  BY <1>2, <1>4, <1>5 DEF Before, KeyInv, Typing
<1> PICK B : B = Before
  OBVIOUS
<1>7. B \in Nat /\ B + L + S + T = N /\ Before' = B
  BY <1>4, <1>6
<1>8. /\ \A i \in 1..L : line[i] = typed[B + i]
      /\ \A i \in 1..S : stdio[i] = typed[B + L + i]
      /\ \A i \in 1..T : tty[i] = typed[B + L + S + i]
  <2>1. DOMAIN line = 1..L /\ DOMAIN stdio = 1..S /\ DOMAIN tty = 1..T
    BY DEF KeyType
  <2>2. /\ \A i \in DOMAIN line : line[i] = typed[B + i]
        /\ \A i \in DOMAIN stdio : stdio[i] = typed[B + L + i]
        /\ \A i \in DOMAIN tty : tty[i] = typed[B + L + S + i]
    BY DEF KeyInv, Typing
  <2> QED
    BY <2>1, <2>2
<1>9. \A i \in 1..L : line[i] = typed'[B + i]
  <2>1. \A i \in 1..L : B + i \in 1..N
    BY <1>4, <1>7
  <2> QED
    BY <1>5, <1>8, <2>1
<1>10. \A i \in 1..S : stdio[i] = typed'[B + L + i]
  <2>1. \A i \in 1..S : B + L + i \in 1..N
    BY <1>4, <1>7
  <2> QED
    BY <1>5, <1>8, <2>1
<1>11. ASSUME NEW i \in 1..(T + K) PROVE tty'[i] = typed'[B + L + S + i]
  <2>1. CASE i <= T
    <3>1. i \in 1..T /\ B + L + S + i \in 1..N
      BY <1>4, <1>7, <2>1
    <3> QED
      BY <1>5, <1>8, <3>1
  <2>2. CASE i > T
    <3>1. PICK k : k = i - T
      OBVIOUS
    <3>2. k \in 1..K /\ i = T + k
      BY <1>4, <2>2, <3>1
    <3>3. B + L + S + i = N + k
      BY <1>4, <1>7, <3>2
    <3> QED
      BY <1>5, <3>2, <3>3
  <2> QED
    BY <1>4, <2>1, <2>2
<1>12. Typing'
  <2>1. DOMAIN line' = 1..L /\ DOMAIN stdio' = 1..S /\ DOMAIN tty' = 1..(T + K)
    BY <1>2, <1>3, <1>5 DEF KeyType
  <2>2. /\ thread' # "respond" => line' = <<>>
        /\ stdio' # <<>> => stdio'[Len(stdio')] = Newline
        /\ \/ line' = <<>>
           \/ line'[Len(line')] = Newline
           \/ Len(line') = LineSize - 1 /\ \A i \in DOMAIN line' : line'[i] # Newline
    BY <1>2 DEF KeyInv, Typing
  <2>3. /\ Before' >= 0
        /\ \A i \in DOMAIN line' : line'[i] = typed'[Before' + i]
        /\ \A i \in DOMAIN stdio' : stdio'[i] = typed'[Before' + Len(line') + i]
        /\ \A i \in DOMAIN tty' : tty'[i] = typed'[Before' + Len(line') + Len(stdio') + i]
    <3>1. Len(line') = L /\ Len(stdio') = S /\ Before' = B /\ B >= 0
      BY <1>2, <1>7
    <3>2. \A i \in DOMAIN line' : line'[i] = typed'[B + i]
      BY <1>2, <1>9, <2>1
    <3>3. \A i \in DOMAIN stdio' : stdio'[i] = typed'[B + L + i]
      BY <1>2, <1>10, <2>1
    <3>4. \A i \in DOMAIN tty' : tty'[i] = typed'[B + L + S + i]
      BY <1>11, <2>1
    <3> QED
      BY <3>1, <3>2, <3>3, <3>4
  <2> QED
    BY <2>2, <2>3 DEF Typing
<1>13. AtLineStart'
  <2>1. CASE B = 0
    BY <1>7, <2>1 DEF AtLineStart
  <2>2. CASE B # 0 /\ typed[B] = Newline
    <3>1. B \in 1..N
      BY <1>4, <1>7, <2>2
    <3> QED
      BY <1>5, <1>7, <2>2, <3>1 DEF AtLineStart
  <2>3. CASE B >= LineSize - 1 /\ \A i \in (B - LineSize + 2)..B : typed[i] # Newline
    <3>1. \A i \in (B - LineSize + 2)..B : i \in 1..N
      BY <1>4, <1>7, <2>3, Sizes
    <3>2. \A i \in (B - LineSize + 2)..B : typed'[i] # Newline
      BY <1>5, <2>3, <3>1
    <3> QED
      BY <1>7, <2>3, <3>2 DEF AtLineStart
  <2> QED
    BY <2>1, <2>2, <2>3 DEF KeyInv, AtLineStart
<1> QED
  BY <1>3, <1>6, <1>12, <1>13 DEF KeyInv

(* The thread sends its piece: the next one starts behind it. *)
LEMMA SendLineKey ==
  ASSUME KeyType, SendLine, KeyInv
  PROVE  KeyType' /\ KeyInv' /\ Before' = Before + Len(line)
<1>1. line' = <<>> /\ thread' = "select" /\ tty' = tty /\ stdio' = stdio /\ typed' = typed
  BY DEF SendLine, userVars
<1>2. KeyType' /\ Len(line') = 0 /\ DOMAIN line' = {}
  BY <1>1, Sizes, EmptySeq DEF KeyType
<1> PICK N, T, S, L, B : /\ N = Len(typed) /\ T = Len(tty) /\ S = Len(stdio)
                         /\ L = Len(line) /\ B = Before
  OBVIOUS
<1>3. N \in Nat /\ T \in Nat /\ S \in Nat /\ L \in Nat
  BY DEF KeyType
<1>4. B = N - T - S - L /\ B >= 0 /\ Before' = N - T - S - 0
  BY <1>1, <1>2 DEF Before, KeyInv, Typing
<1>5. B \in Nat /\ Before' = B + L
  BY <1>3, <1>4
<1>6. /\ \A i \in 1..L : line[i] = typed[B + i]
      /\ \A i \in DOMAIN stdio : stdio[i] = typed[B + L + i]
      /\ \A i \in DOMAIN tty : tty[i] = typed[B + L + S + i]
  <2>1. DOMAIN line = 1..L
    BY DEF KeyType
  <2> QED
    BY <2>1 DEF KeyInv, Typing
<1>7. Typing'
  <2>1. Before' + Len(line') = B + L /\ Before' + Len(line') + Len(stdio') = B + L + S
    BY <1>1, <1>2, <1>3, <1>5
  <2>2. /\ \A i \in DOMAIN stdio' : stdio'[i] = typed'[Before' + Len(line') + i]
        /\ \A i \in DOMAIN tty' : tty'[i] = typed'[Before' + Len(line') + Len(stdio') + i]
    BY <1>1, <1>6, <2>1
  <2>3. Before' >= 0 /\ \A i \in DOMAIN line' : line'[i] = typed'[Before' + i]
    BY <1>2, <1>3, <1>5
  <2>4. stdio' # <<>> => stdio'[Len(stdio')] = Newline
    BY <1>1 DEF KeyInv, Typing
  <2> QED
    BY <1>1, <2>2, <2>3, <2>4 DEF Typing
<1>8. AtLineStart'
  <2>1. CASE line = <<>>
    <3>1. Before' = B
      BY <1>3, <1>5, <2>1
    <3> QED
      BY <1>1, <3>1 DEF KeyInv, AtLineStart
  <2>2. CASE line # <<>> /\ line[Len(line)] = Newline
    <3>1. L \in 1..L
      BY <1>3, <2>2 DEF KeyType
    <3>2. typed[B + L] = Newline
      BY <1>6, <2>2, <3>1
    <3> QED
      BY <1>1, <1>5, <3>2 DEF AtLineStart
  <2>3. CASE Len(line) = LineSize - 1 /\ \A i \in DOMAIN line : line[i] # Newline
    <3>1. L = LineSize - 1 /\ DOMAIN line = 1..L
      BY <2>3 DEF KeyType
    <3>2. PICK b : b = Before'
      OBVIOUS
    <3>3. b = B + L /\ b \in Nat /\ b >= LineSize - 1
      BY <1>3, <1>5, <3>1, <3>2, Sizes
    <3>4. ASSUME NEW i \in (b - LineSize + 2)..b PROVE typed[i] # Newline
      <4>1. PICK k : k = i - B
        OBVIOUS
      <4>2. k \in 1..L /\ B + k = i
        BY <1>3, <1>5, <3>1, <3>3, <4>1, Sizes
      <4> QED
        BY <1>6, <2>3, <3>1, <4>2
    <3> QED
      BY <1>1, <3>2, <3>3, <3>4 DEF AtLineStart
  <2> QED
    BY <2>1, <2>2, <2>3 DEF KeyInv, Typing
<1> QED
  BY <1>2, <1>5, <1>7, <1>8 DEF KeyInv

LEMMA Front ==
  ASSUME NEW s \in Seq(Chars), NEW n \in Nat, n <= Len(s)
  PROVE  LET r == SubSeq(s, 1, n)
         IN  /\ r \in Seq(Chars) /\ Len(r) = n
             /\ \A i \in 1..n : r[i] = s[i]
  OBVIOUS

LEMMA Behind ==
  ASSUME NEW s \in Seq(Chars), NEW n \in Nat, n <= Len(s)
  PROVE  LET r == SubSeq(s, n + 1, Len(s))
         IN  /\ r \in Seq(Chars) /\ Len(r) = Len(s) - n
             /\ \A i \in 1..(Len(s) - n) : r[i] = s[n + i]
<1> PICK r, L : r = SubSeq(s, n + 1, L) /\ L = Len(s)
  OBVIOUS
<1>1. L \in Nat /\ \A i \in (n + 1)..L : s[i] \in Chars
  OBVIOUS
<1>2. n + 1 \in Int /\ L \in Int
  BY <1>1
<1>3. /\ r \in Seq(Chars)
      /\ Len(r) = IF n + 1 <= L THEN L - (n + 1) + 1 ELSE 0
      /\ \A i \in 1..(L - (n + 1) + 1) : r[i] = s[(n + 1) + i - 1]
  BY <1>1, <1>2, SubSeqProperties
<1>4. PICK M : M = Len(r)
  OBVIOUS
<1>5. M = L - n
  BY <1>1, <1>3, <1>4
<1>6. ASSUME NEW i \in 1..(L - n) PROVE r[i] = s[n + i]
  <2>1. (n + 1) + i - 1 = n + i /\ i \in 1..(L - (n + 1) + 1)
    BY <1>1
  <2> QED
    BY <1>3, <2>1
<1> QED
  BY <1>3, <1>4, <1>5, <1>6

(* fgets() moves what is typed on, in its order. *)
LEMMA FgetsKey ==
  ASSUME KeyType, Fgets, KeyInv
  PROVE  KeyType' /\ KeyInv' /\ Before' = Before
<1>0. PICK filled, k, t :
      /\ k \in 0..Len(tty) /\ filled = stdio \o SubSeq(tty, 1, k) /\ t = Taken(filled)
      /\ IF stdio # <<>> \/ tty = <<>> THEN k = 0 ELSE k > 0 /\ tty[k] = Newline
      /\ line' = SubSeq(filled, 1, t)
      /\ stdio' = SubSeq(filled, t + 1, Len(filled))
      /\ tty' = SubSeq(tty, k + 1, Len(tty))
  BY DEF Fgets
<1>1. line = <<>> /\ thread' = "respond" /\ typed' = typed
  BY DEF Fgets, KeyInv, Typing, userVars
<1> PICK N, T, S, B : N = Len(typed) /\ T = Len(tty) /\ S = Len(stdio) /\ B = Before
  OBVIOUS
<1>2. N \in Nat /\ T \in Nat /\ S \in Nat /\ k \in Nat /\ k <= T
  BY <1>0 DEF KeyType
<1>3. B = N - T - S /\ B \in Nat
  BY <1>1, <1>2 DEF Before, KeyInv, Typing
<1>4. /\ \A i \in 1..S : stdio[i] = typed[B + i]
      /\ \A i \in 1..T : tty[i] = typed[B + S + i]
  <2>1. DOMAIN stdio = 1..S /\ DOMAIN tty = 1..T
    BY DEF KeyType
  <2>2. B + Len(line) = B /\ B + Len(line) + Len(stdio) = B + S
    BY <1>1, <1>2, <1>3
  <2> QED
    BY <2>1, <2>2 DEF KeyInv, Typing
<1>5. PICK head : head = SubSeq(tty, 1, k)
  OBVIOUS
<1>6. head \in Seq(Chars) /\ Len(head) = k /\ \A i \in 1..k : head[i] = tty[i]
  BY <1>2, <1>5 DEF KeyType
<1>7. /\ filled \in Seq(Chars) /\ Len(filled) = S + k
      /\ \A i \in 1..S : filled[i] = stdio[i]
      /\ \A i \in 1..k : filled[S + i] = tty[i]
  BY <1>0, <1>2, <1>5, <1>6 DEF KeyType
<1>8. \A i \in 1..(S + k) : filled[i] = typed[B + i]
  <2> SUFFICES ASSUME NEW i \in 1..(S + k) PROVE filled[i] = typed[B + i]
    OBVIOUS
  <2>1. CASE i <= S
    <3>1. i \in 1..S
      BY <1>2, <2>1
    <3> QED
      BY <1>4, <1>7, <3>1
  <2>2. CASE i > S
    <3>1. PICK j : j = i - S
      OBVIOUS
    <3>2. j \in 1..k /\ j \in 1..T /\ i = S + j /\ B + i = B + S + j
      BY <1>2, <1>3, <2>2, <3>1
    <3> QED
      BY <1>4, <1>7, <3>2
  <2> QED
    BY <1>2, <2>1, <2>2
<1>9. filled # <<>> => filled[Len(filled)] = Newline
  <2>1. CASE stdio # <<>>
    <3>1. k = 0 /\ stdio[S] = Newline /\ S \in 1..S /\ S + k = S
      BY <1>0, <1>2, <2>1 DEF KeyInv, Typing, KeyType
    <3> QED
      BY <1>7, <3>1
  <2>2. CASE stdio = <<>> /\ tty = <<>>
    <3>1. k = 0 /\ S = 0
      BY <1>0, <2>2
    <3> QED
      BY <1>7, <3>1
  <2>3. CASE stdio = <<>> /\ tty # <<>>
    <3>1. k > 0 /\ tty[k] = Newline /\ k \in 1..k
      BY <1>0, <1>2, <2>3
    <3> QED
      BY <1>7, <3>1
  <2> QED
    BY <2>1, <2>2, <2>3
<1> PICK F : F = S + k
  OBVIOUS
<1>10. /\ t \in Nat /\ t <= F /\ t < LineSize
       /\ \/ t = 0
          \/ filled[t] = Newline
          \/ t = LineSize - 1 /\ \A i \in 1..t : filled[i] # Newline
  BY <1>0, <1>7, <1>9, TakenShape
<1>11. PICK l, o, y : l = line' /\ o = stdio' /\ y = tty'
  OBVIOUS
<1>12. /\ l \in Seq(Chars) /\ Len(l) = t /\ \A i \in 1..t : l[i] = filled[i]
  <2>1. l = SubSeq(filled, 1, t) /\ t <= Len(filled)
    BY <1>0, <1>7, <1>10, <1>11
  <2> QED
    BY <1>7, <1>10, <2>1, Front
<1>13. /\ o \in Seq(Chars) /\ Len(o) = F - t /\ \A i \in 1..(F - t) : o[i] = filled[t + i]
  <2>1. o = SubSeq(filled, t + 1, Len(filled)) /\ Len(filled) = F /\ t <= Len(filled)
    BY <1>0, <1>7, <1>10, <1>11
  <2> QED
    BY <1>7, <1>10, <2>1, Behind
<1>14. /\ y \in Seq(Chars) /\ Len(y) = T - k /\ \A i \in 1..(T - k) : y[i] = tty[k + i]
  BY <1>0, <1>2, <1>11, Behind DEF KeyType
<1>15. KeyType'
  BY <1>1, <1>10, <1>11, <1>12, <1>13, <1>14 DEF KeyType
<1>16. Before' = B
  <2>1. Before' = N - (T - k) - (F - t) - t
    BY <1>1, <1>11, <1>12, <1>13, <1>14 DEF Before
  <2> QED
    BY <1>2, <1>3, <1>10, <2>1
<1>17. \A i \in DOMAIN line' : line'[i] = typed'[Before' + i]
  <2>1. \A i \in 1..t : i \in 1..(S + k)
    BY <1>2, <1>10
  <2>2. DOMAIN l = 1..t
    BY <1>12
  <2> QED
    BY <1>1, <1>8, <1>11, <1>12, <1>16, <2>1, <2>2
<1>18. \A i \in DOMAIN stdio' : stdio'[i] = typed'[Before' + Len(line') + i]
  <2>1. ASSUME NEW i \in 1..(F - t) PROVE o[i] = typed[B + t + i]
    <3>1. t + i \in 1..(S + k) /\ B + t + i = B + (t + i)
      BY <1>2, <1>3, <1>10
    <3> QED
      BY <1>8, <1>13, <3>1
  <2>2. DOMAIN o = 1..(F - t)
    BY <1>13
  <2> QED
    BY <1>1, <1>11, <1>12, <1>16, <2>1, <2>2
<1>19. \A i \in DOMAIN tty' : tty'[i] = typed'[Before' + Len(line') + Len(stdio') + i]
  <2>1. ASSUME NEW i \in 1..(T - k) PROVE y[i] = typed[B + t + (F - t) + i]
    <3>1. k + i \in 1..T /\ B + S + (k + i) = B + t + (F - t) + i
      BY <1>2, <1>3, <1>10
    <3> QED
      BY <1>4, <1>14, <3>1
  <2>2. DOMAIN y = 1..(T - k)
    BY <1>14
  <2> QED
    BY <1>1, <1>11, <1>12, <1>13, <1>16, <2>1, <2>2
<1>20. stdio' # <<>> => stdio'[Len(stdio')] = Newline
  <2> SUFFICES ASSUME o # <<>> PROVE o[Len(o)] = Newline
    BY <1>11
  <2>1. F - t \in 1..(F - t) /\ t + (F - t) = F /\ F # 0
    BY <1>2, <1>10, <1>13
  <2>2. filled[F] = Newline
    BY <1>7, <1>9, <2>1
  <2> QED
    BY <1>13, <2>1, <2>2
<1>21. \/ line' = <<>>
       \/ line'[Len(line')] = Newline
       \/ Len(line') = LineSize - 1 /\ \A i \in DOMAIN line' : line'[i] # Newline
  <2>1. CASE t = 0
    BY <1>11, <1>12, <2>1
  <2>2. CASE t # 0 /\ filled[t] = Newline
    <3>1. t \in 1..t
      BY <1>10, <2>2
    <3> QED
      BY <1>11, <1>12, <2>2, <3>1
  <2>3. CASE t = LineSize - 1 /\ \A i \in 1..t : filled[i] # Newline
    <3>1. DOMAIN l = 1..t
      BY <1>12
    <3>2. Len(l) = LineSize - 1 /\ \A i \in DOMAIN l : l[i] # Newline
      BY <1>12, <2>3, <3>1
    <3> QED
      BY <1>11, <3>2
  <2> QED
    BY <1>10, <2>1, <2>2, <2>3
<1>22. Typing'
  <2>1. Before' >= 0 /\ (thread' # "respond" => line' = <<>>)
    BY <1>1, <1>3, <1>16
  <2> QED
    BY <1>17, <1>18, <1>19, <1>20, <1>21, <2>1 DEF Typing
<1>23. AtLineStart'
  BY <1>1, <1>16 DEF KeyInv, AtLineStart
<1> QED
  BY <1>15, <1>16, <1>22, <1>23 DEF KeyInv

-----------------------------------------------------------------------------
(* The invariant in the parts that steps disturb together. *)
Control ==
  /\ program \in {"echo", "chat"}
  /\ peer \in {"open", "closed", "reset", "gone"}
  /\ asked \in {"nothing", "upgrade", "plain"}
  /\ connected \in BOOLEAN
  /\ main \in {"read", "shake"} \cup (IF program = "echo" THEN {"respond"} ELSE {})
  /\ key \in {"none", "part", "whole"}
  /\ thread \in IF program = "chat" /\ connected THEN {"select", "respond"} ELSE {"none"}
  /\ eof \in BOOLEAN
  /\ lines \in 0..MaxLines
  /\ cut \in BOOLEAN
  /\ ended \in {"no", "exit", "sigpipe", "segv", "abort"}

DataOK == data \in [null : BOOLEAN, text : Seq(Chars)]

NetInv ==
  /\ sent \in Seq([whole : BOOLEAN, text : Texts])
  /\ net \in Seq(Unit)
  /\ Framed

OutInv ==
  /\ out \in Seq({out[i] : i \in DOMAIN out})
  /\ \A i \in DOMAIN out : IsAnswer(out[i]) \/ out[i].body \in Seq(Chars)
  /\ AnswerFirst
  /\ HeadersTellLength

LEMMA Parts == IInv <=> Control /\ DataOK /\ NetInv /\ OutInv /\ KeyType /\ KeyInv /\ Handshake
<1>1. {line, tty, stdio, typed} \subseteq Seq(Chars) <=>
        line \in Seq(Chars) /\ tty \in Seq(Chars) /\ stdio \in Seq(Chars) /\ typed \in Seq(Chars)
  OBVIOUS
<1> QED
  BY <1>1, Zenon DEF IInv, TypeOK, Control, DataOK, NetInv, OutInv, KeyType, KeyInv

LEMMA PartsNext ==
  IInv' <=> Control' /\ DataOK' /\ NetInv' /\ OutInv' /\ KeyType' /\ KeyInv' /\ Handshake'
  BY Parts, PTL

LEMMA InitInv == Init => IInv
<1> SUFFICES ASSUME Init PROVE IInv
  OBVIOUS
<1> USE DEF Init
<1>1. Control
  <2>1. lines \in 0..MaxLines
    BY MaxLinesAssumption
  <2> QED
    BY <2>1 DEF Control
<1>2. DataOK
  BY NullIn DEF DataOK
<1>3. NetInv
  BY EmptySeq DEF NetInv, Framed, FramedBy
<1>4. OutInv
  BY EmptySeq DEF OutInv, AnswerFirst, HeadersTellLength
<1>5. KeyType /\ Len(line) = 0 /\ Len(tty) = 0 /\ Len(stdio) = 0 /\ Len(typed) = 0
  BY Sizes, EmptySeq DEF KeyType
<1>6. KeyInv
  <2>1. Before = 0 /\ DOMAIN line = {} /\ DOMAIN tty = {} /\ DOMAIN stdio = {}
    <3>1. DOMAIN <<>> = {}
      OBVIOUS
    <3>2. Before = 0
      <4> HIDE DEF Init
      <4>1. Before = 0 - 0 - 0 - 0
        BY <1>5 DEF Before
      <4> QED
        BY <4>1
    <3> QED
      BY <3>1, <3>2
  <2>2. Typing
    BY <2>1 DEF Typing
  <2> QED
    BY <2>1, <2>2 DEF KeyInv, AtLineStart
<1>7. Handshake
  BY DEF Handshake
<1> QED
  BY <1>1, <1>2, <1>3, <1>4, <1>5, <1>6, <1>7, Parts

(* What a step leaves alone. *)
LEMMA KeySame ==
  ASSUME KeyType, KeyInv, UNCHANGED <<line, tty, stdio, typed>>,
         thread' = thread \/ thread # "respond"
  PROVE  KeyType' /\ KeyInv'
<1>1. KeyType'
  BY DEF KeyType
<1>2. Before' = Before
  BY DEF Before
<1>3. Typing'
  BY <1>2 DEF KeyInv, Typing
<1>4. AtLineStart'
  BY <1>2 DEF KeyInv, AtLineStart
<1> QED
  BY <1>1, <1>3, <1>4 DEF KeyInv

LEMMA OutSame == ASSUME OutInv, out' = out, connected => connected' PROVE OutInv'
  BY DEF OutInv, AnswerFirst, HeadersTellLength

LEMMA NetSame == ASSUME NetInv, net' = net, sent' = sent PROVE NetInv'
  BY DEF NetInv, Framed

(* write() of an answer that is the first thing written, or of a frame. *)
LEMMA WriteInv ==
  ASSUME OutInv, NEW item, NEW next, Write(item, next), connected => connected',
         \/ IsAnswer(item) /\ out = <<>> /\ connected'
         \/ ~IsAnswer(item) /\ item.body \in Seq(Chars) /\ RfcLength(item) = Len(item.body)
  PROVE  OutInv' /\ peer' \in {peer, "closed", "gone"} /\ ended' \in {next, "sigpipe"}
<1>1. peer' \in {peer, "closed", "gone"} /\ ended' \in {next, "sigpipe"}
  BY DEF Write
<1>2. CASE out' = out
  BY <1>1, <1>2, OutSame
<1>3. CASE out' = Append(out, item)
  <2>1. /\ out' \in Seq({out'[i] : i \in DOMAIN out'})
        /\ DOMAIN out' = DOMAIN out \cup {Len(out) + 1}
        /\ \A i \in DOMAIN out : out'[i] = out[i]
        /\ out'[Len(out) + 1] = item
    <3>1. PICK o : o = out
      OBVIOUS
    <3>2. o \in Seq({o[i] : i \in DOMAIN o})
      BY <3>1 DEF OutInv
    <3>3. PICK r : r = Append(o, item)
      OBVIOUS
    <3>4. /\ r \in Seq({r[i] : i \in DOMAIN r})
          /\ DOMAIN r = DOMAIN o \cup {Len(o) + 1}
          /\ \A i \in DOMAIN o : r[i] = o[i]
          /\ r[Len(o) + 1] = item
      BY <3>2, <3>3, AppendAny
    <3> QED
      BY <1>3, <3>1, <3>3, <3>4
  <2>2. IsAnswer(item) => Len(out) + 1 = 1 /\ connected'
    BY EmptySeq
  <2> QED
    BY <1>1, <2>1, <2>2 DEF OutInv, AnswerFirst, HeadersTellLength
<1> QED
  BY <1>2, <1>3 DEF Write

(* What strlen() counts of a text: a part of it, and all if there is no Nul. *)
LEMMA CountedIs ==
  ASSUME NEW S, NEW t \in Seq(S)
  PROVE  /\ Counted(t) \in Seq(S) /\ Len(Counted(t)) <= Len(t)
         /\ NoNul(t) => Counted(t) = t
<1> DEFINE Ends(k) == (\A i \in 1..k : t[i] # Nul) /\ (k < Len(t) => t[k + 1] = Nul)
           c == CHOOSE k \in 0..Len(t) : Ends(k)
<1>1. Len(t) \in Nat /\ DOMAIN t = 1..Len(t) /\ \A i \in 1..Len(t) : t[i] \in S
  OBVIOUS
<1>2. \E k \in 0..Len(t) : Ends(k)
  <2>1. CASE \A i \in 1..Len(t) : t[i] # Nul
    BY <1>1, <2>1
  <2>2. CASE ~\A i \in 1..Len(t) : t[i] # Nul
    <3>1. PICK T : T = {i \in 1..Len(t) : t[i] = Nul}
      OBVIOUS
    <3>2. PICK x \in T : \A y \in T : x <= y
      <4>1. T \subseteq Nat /\ T # {}
        BY <1>1, <2>2, <3>1
      <4> QED
        BY <4>1, Least
    <3>3. x \in 1..Len(t) /\ t[x] = Nul
      BY <3>1, <3>2
    <3>4. x - 1 \in 0..Len(t) /\ (x - 1) + 1 = x
      BY <1>1, <3>3
    <3>5. ASSUME NEW i \in 1..(x - 1) PROVE t[i] # Nul
      <4>1. i \in 1..Len(t) /\ ~(x <= i)
        BY <1>1, <3>3
      <4> QED
        BY <3>1, <3>2, <4>1
    <3> QED
      BY <3>3, <3>4, <3>5
  <2> QED
    BY <2>1, <2>2
<1>3. c \in 0..Len(t) /\ Ends(c)
  BY <1>2
<1>4. Counted(t) = SubSeq(t, 1, c)
  BY DEF Counted
<1> HIDE DEF c
<1>5. c \in Int /\ 1 \in Int /\ \A i \in 1..c : t[i] \in S
  BY <1>1, <1>3
<1>6. /\ SubSeq(t, 1, c) \in Seq(S) /\ Len(SubSeq(t, 1, c)) = c
      /\ \A i \in 1..c : SubSeq(t, 1, c)[i] = t[i]
  BY <1>1, <1>3, <1>5, SubSeqProperties
<1>7. ASSUME NoNul(t) PROVE SubSeq(t, 1, c) = t
  <2>1. c = Len(t)
    <3>1. ASSUME c < Len(t) PROVE FALSE
      <4>1. c + 1 \in DOMAIN t /\ t[c + 1] = Nul
        BY <1>1, <1>3, <3>1
      <4> QED
        BY <1>7, <4>1 DEF NoNul
    <3>2. c \in 0..Len(t) /\ Len(t) \in Nat
      BY <1>1, <1>3
    <3> QED
      BY <3>1, <3>2
  <2>2. PICK r : r = SubSeq(t, 1, c)
    OBVIOUS
  <2>3. r \in Seq(S) /\ Len(r) = Len(t) /\ \A i \in 1..Len(t) : r[i] = t[i]
    BY <1>6, <2>1, <2>2
  <2>4. r = t
    BY <2>3, SeqEqual
  <2> QED
    BY <2>2, <2>4
<1>8. c <= Len(t)
  BY <1>1, <1>3
<1> QED
  BY <1>4, <1>6, <1>7, <1>8

LEMMA ReplyInv ==
  ASSUME OutInv, NEW m \in Seq(Chars), NEW next, Reply(m, next), connected' = connected
  PROVE  OutInv' /\ peer' \in {peer, "closed", "gone"} /\ ended' \in {next, "sigpipe"}
<1>1. CASE UNCHANGED <<peer, out>> /\ ended' = next
  BY <1>1, OutSame
<1>2. CASE Write(packData(m), next)
  <2>1. PICK f, c : f = packData(m) /\ c = Counted(m)
    OBVIOUS
  <2>2. ~IsAnswer(f) /\ f.body = c /\ c \in Seq(Chars)
    BY <2>1, CountedIs DEF packData, IsAnswer
  <2>3. RfcLength(f) = Len(c)
    <3>1. CASE Len(c) < Short
      BY <2>1, <3>1 DEF packData, RfcLength
    <3>2. CASE ~(Len(c) < Short)
      BY <2>1, <3>2, Sizes DEF packData, RfcLength
    <3> QED
      BY <3>1, <3>2
  <2> QED
    BY <1>2, <2>1, <2>2, <2>3, WriteInv
<1> QED
  BY <1>1, <1>2 DEF Reply

-----------------------------------------------------------------------------
(* What is sent goes behind what is on its way; r is no frame, or one that *)
(* was sent.                                                               *)
LEMMA LongerFramed ==
  ASSUME sent \in Seq([whole : BOOLEAN, text : Texts]), net \in Seq(Unit), FramedBy(net, sent),
         NEW sends, \A j \in DOMAIN sent : j \in DOMAIN sends /\ sends[j] = sent[j],
         NEW r \in Seq(Unit), \A i \in 2..Len(r) : r[i].unit # "first",
         \/ r # <<>> => r[1].unit # "first"
         \/ \E j \in DOMAIN sends : r = Frame(sends[j].whole, sends[j].text)
  PROVE  net \o r \in Seq(Unit) /\ FramedBy(net \o r, sends)
<1>1. PICK s, N, R : s = net \o r /\ N = Len(net) /\ R = Len(r)
  OBVIOUS
<1>2. N \in Nat /\ R \in Nat /\ DOMAIN net = 1..N /\ DOMAIN r = 1..R
  BY <1>1
<1>3. /\ s \in Seq(Unit) /\ Len(s) = N + R /\ DOMAIN s = 1..(N + R)
      /\ \A i \in 1..N : s[i] = net[i]
      /\ \A i \in 1..R : s[N + i] = r[i]
  BY <1>1
<1> SUFFICES ASSUME NEW i \in DOMAIN s, s[i].unit = "first"
             PROVE  \E j \in DOMAIN sends :
                      LET f == Frame(sends[j].whole, sends[j].text)
                      IN  i + Len(f) <= Len(s) + 1 /\ \A m \in DOMAIN f : s[i + m - 1] = f[m]
  BY <1>1, <1>3 DEF FramedBy
<1>a. i \in 1..(N + R)
  BY <1>3
<1>4. CASE i <= N
  <2>1. i \in DOMAIN net /\ net[i].unit = "first"
    BY <1>2, <1>3, <1>4, <1>a
  <2>2. PICK j \in DOMAIN sent :
          LET f == Frame(sent[j].whole, sent[j].text)
          IN  i + Len(f) <= N + 1 /\ \A m \in DOMAIN f : net[i + m - 1] = f[m]
    BY <1>1, <2>1 DEF FramedBy
  <2>3. PICK f : f = Frame(sent[j].whole, sent[j].text)
    OBVIOUS
  <2>4. Len(f) \in Nat /\ DOMAIN f = 1..Len(f)
    BY <2>3, SentShape
  <2>5. i + Len(f) <= N + 1 /\ \A m \in DOMAIN f : net[i + m - 1] = f[m]
    BY <2>2, <2>3
  <2> PICK F : F = Len(f)
    OBVIOUS
  <2>6. F \in Nat /\ i \in Nat /\ i >= 1 /\ i + F <= N + 1
    BY <1>2, <1>a, <2>4, <2>5
  <2>7. ASSUME NEW m \in 1..F PROVE s[i + m - 1] = f[m]
    <3>1. m \in Nat /\ m >= 1 /\ m <= F
      BY <2>6
    <3>2. i + m - 1 \in 1..N
      BY <1>2, <2>6, <3>1, Place
    <3> QED
      BY <1>3, <2>4, <2>5, <3>2
  <2>9. i + F <= Len(s) + 1
    BY <1>2, <1>3, <2>6
  <2>8. j \in DOMAIN sends /\ f = Frame(sends[j].whole, sends[j].text)
    BY <2>3
  <2> QED
    BY <2>4, <2>7, <2>8, <2>9
<1>5. CASE i > N
  <2>1. PICK k : k = i - N
    OBVIOUS
  <2>2. k \in 1..R /\ i = N + k
    BY <1>2, <1>5, <1>a, <2>1
  <2>3. r[k].unit = "first"
    BY <1>3, <2>2
  <2>4. k = 1 /\ r # <<>>
    BY <1>1, <1>2, <2>2, <2>3
  <2>5. PICK j \in DOMAIN sends : r = Frame(sends[j].whole, sends[j].text)
    BY <2>3, <2>4
  <2>6. i + Len(r) <= N + R + 1
    BY <1>1, <1>2, <2>2, <2>4
  <2>7. ASSUME NEW m \in 1..R PROVE s[i + m - 1] = r[m]
    <3>1. i + m - 1 = N + m
      BY <1>2, <2>2, <2>4
    <3> QED
      BY <1>3, <3>1
  <2> QED
    BY <1>2, <1>3, <2>5, <2>6, <2>7
<1> QED
  BY <1>2, <1>4, <1>5, <1>a

LEMMA AskNet ==
  ASSUME NetInv, NEW kind, net' = net \o Request(kind), sent' = sent
  PROVE  NetInv'
<1>1. PICK r : r = Request(kind)
  OBVIOUS
<1>2. r \in Seq(Unit) /\ \A i \in DOMAIN r : r[i].unit # "first"
  BY <1>1, RequestType
<1>3. (r # <<>> => r[1].unit # "first") /\ \A i \in 2..Len(r) : r[i].unit # "first"
  BY <1>2
<1>4. FramedBy(net, sent) /\ net \in Seq(Unit) /\ sent \in Seq([whole : BOOLEAN, text : Texts])
  BY DEF NetInv, Framed
<1>5. net \o r \in Seq(Unit) /\ FramedBy(net \o r, sent)
  BY <1>2, <1>3, <1>4, LongerFramed
<1> QED
  BY <1>1, <1>4, <1>5 DEF NetInv, Framed

LEMMA SendNet ==
  ASSUME NetInv, NEW w \in BOOLEAN, NEW text \in Texts,
         sent' = Append(sent, [whole |-> w, text |-> text]), net' = net \o Frame(w, text)
  PROVE  NetInv'
<1>1. PICK f, sends, e :
        f = Frame(w, text) /\ e = [whole |-> w, text |-> text] /\ sends = Append(sent, e)
  OBVIOUS
<1>2. PICK S : S = [whole : BOOLEAN, text : Texts]
  OBVIOUS
<1>3. /\ sends \in Seq(S) /\ Len(sent) + 1 \in DOMAIN sends /\ sends[Len(sent) + 1] = e
      /\ \A j \in DOMAIN sent : j \in DOMAIN sends /\ sends[j] = sent[j]
  <2>1. sent \in Seq(S) /\ e \in S
    BY <1>1, <1>2 DEF NetInv
  <2> QED
    BY <1>1, <2>1
<1>4. f \in Seq(Unit) /\ \A i \in 2..Len(f) : f[i].unit # "first"
  <2>1. f \in Seq(Unit) /\ \A i \in 2..Len(f) : f[i].unit \in {"second", "ext", "masks", "char"}
    BY <1>1, FrameShape
  <2> QED
    BY <2>1
<1>5. \E j \in DOMAIN sends : f = Frame(sends[j].whole, sends[j].text)
  BY <1>1, <1>3
<1>6. FramedBy(net, sent) /\ net \in Seq(Unit) /\ sent \in Seq([whole : BOOLEAN, text : Texts])
  BY DEF NetInv, Framed
<1>7. net \o f \in Seq(Unit) /\ FramedBy(net \o f, sends)
  BY <1>3, <1>4, <1>5, <1>6, LongerFramed
<1> QED
  BY <1>1, <1>2, <1>3, <1>7 DEF NetInv, Framed

-----------------------------------------------------------------------------
(* Peer and user. *)
LEMMA AskInv == ASSUME IInv, NEW kind \in {"upgrade", "plain"}, Ask(kind) PROVE IInv'
<1> USE Parts DEF Ask, mainVars, keyVars, userVars
<1>1. Control'
  BY DEF Control
<1>2. DataOK'
  BY DEF DataOK
<1>3. NetInv'
  BY AskNet
<1>4. OutInv'
  BY OutSame
<1>5. KeyType' /\ KeyInv'
  BY KeySame
<1>6. Handshake'
  <2>1. ASSUME ~connected, main = "read" PROVE net' = Request(kind)
    <3>1. net = <<>>
      BY <2>1 DEF Handshake
    <3> QED
      BY <3>1, RequestType, ConcatEmptySeq
  <2> QED
    BY <2>1 DEF Handshake
<1> QED
  BY <1>1, <1>2, <1>3, <1>4, <1>5, <1>6, PartsNext

LEMMA SendFrameInv ==
  ASSUME IInv, NEW whole \in BOOLEAN, NEW text \in Texts, SendFrame(whole, text)
  PROVE  IInv'
<1> USE Parts DEF SendFrame, mainVars, keyVars, userVars
<1>1. Control'
  BY DEF Control
<1>2. DataOK'
  BY DEF DataOK
<1>3. NetInv'
  BY SendNet
<1>4. OutInv'
  BY OutSame
<1>5. KeyType' /\ KeyInv'
  BY KeySame
<1>6. Handshake'
  BY DEF Handshake, Answered
<1> QED
  BY <1>1, <1>2, <1>3, <1>4, <1>5, <1>6, PartsNext

LEMMA HangupInv == ASSUME IInv, NEW how \in {"closed", "reset"}, Hangup(how) PROVE IInv'
<1> USE Parts DEF Hangup, peerVars, mainVars, keyVars, userVars
<1>1. Control'
  BY DEF Control
<1>2. DataOK'
  BY DEF DataOK
<1>3. NetInv'
  <2>1. CASE net' = net
    BY <2>1, NetSame
  <2>2. CASE net' = <<>>
    BY <2>2, EmptySeq DEF NetInv, Framed, FramedBy
  <2> QED
    BY <2>1, <2>2
<1>4. OutInv'
  BY OutSame
<1>5. KeyType' /\ KeyInv'
  BY KeySame
<1>6. Handshake'
  BY DEF Handshake
<1> QED
  BY <1>1, <1>2, <1>3, <1>4, <1>5, <1>6, PartsNext

LEMMA TypeInv == ASSUME IInv, NEW l \in Lines, Type(l) PROVE IInv'
<1> USE Parts
<1>1. KeyType' /\ KeyInv'
  BY TypeKey
<1> USE DEF Type, peerVars, mainVars
<1>2. Control'
  <2>1. lines' \in 0..MaxLines
    BY MaxLinesAssumption DEF Control
  <2> QED
    BY <2>1 DEF Control
<1>3. DataOK'
  BY DEF DataOK
<1>4. NetInv' /\ OutInv'
  BY NetSame, OutSame
<1>5. Handshake'
  BY DEF Handshake
<1> QED
  BY <1>1, <1>2, <1>3, <1>4, <1>5, PartsNext

LEMMA EndTypingInv == ASSUME IInv, EndTyping PROVE IInv'
<1> USE Parts DEF EndTyping, peerVars, mainVars, keyVars
<1>1. Control' /\ DataOK'
  BY DEF Control, DataOK
<1>2. NetInv' /\ OutInv'
  BY NetSame, OutSame
<1>3. KeyType' /\ KeyInv'
  BY KeySame
<1>4. Handshake'
  BY DEF Handshake
<1> QED
  BY <1>1, <1>2, <1>3, <1>4, PartsNext

-----------------------------------------------------------------------------
(* The main loop. *)
LEMMA ReadNet ==
  ASSUME NetInv, NEW n, Read(n), net' = SubSeq(net, n + 1, Len(net)), sent' = sent
  PROVE  NetInv'
<1>1. net' \in Seq(Unit)
  <2>1. PICK r : r = SubSeq(net, n + 1, Len(net))
    OBVIOUS
  <2>2. r \in Seq(Unit)
    BY <2>1, ReadUnits DEF NetInv
  <2> QED
    BY <2>1, <2>2
<1>2. Framed'
  BY ReadFramed DEF NetInv
<1> QED
  BY <1>1, <1>2 DEF NetInv

LEMMA ReadRequestInv == ASSUME IInv, NEW n, ReadRequest(n) PROVE IInv'
<1> USE Parts
<1>1. /\ main = "read" /\ ~connected /\ Read(n) /\ net' = SubSeq(net, n + 1, Len(net))
      /\ cut' = (cut \/ (net' # <<>> /\ ~StartsItem(net'[1])))
      /\ key' = fetchSecKey(SubSeq(net, 1, n)) /\ main' = "shake"
      /\ UNCHANGED <<program, asked, sent, connected, data, out, ended>>
      /\ UNCHANGED <<line, tty, stdio, typed, thread, eof, lines>>
      /\ peer' \in {peer, "gone"}
  BY DEF ReadRequest, Read, peerVars, keyVars, userVars
<1>2. key' \in {"none", "part", "whole"}
  BY <1>1 DEF fetchSecKey
<1>3. cut' \in BOOLEAN
  BY <1>1
<1>4. Control' /\ DataOK'
  BY <1>1, <1>2, <1>3 DEF Control, DataOK
<1>5. NetInv' /\ OutInv'
  BY <1>1, ReadNet, OutSame
<1>6. KeyType' /\ KeyInv'
  BY <1>1, KeySame
<1>7. key' = "part" => cut'
  <2> SUFFICES ASSUME key' = "part" PROVE net' # <<>> /\ ~StartsItem(net'[1])
    BY <1>1
  <2>1. net = <<>> \/ (asked # "nothing" /\ net = Request(asked))
    BY <1>1 DEF Handshake
  <2>2. PICK r : r = SubSeq(net, n + 1, Len(net))
    OBVIOUS
  <2>3. r # <<>> /\ ~StartsItem(r[1])
    BY <1>1, <2>1, <2>2, PartIsCut
  <2> QED
    BY <1>1, <2>2, <2>3
<1>8. Handshake'
  BY <1>1, <1>7 DEF Handshake
<1> QED
  BY <1>4, <1>5, <1>6, <1>8, PartsNext

LEMMA EndInv ==
  ASSUME IInv, ended' \in {"segv", "abort"}, UNCHANGED <<program, peer, asked, sent, net, out>>,
         UNCHANGED <<mainVars, keyVars, userVars>>
  PROVE  IInv'
<1> USE Parts DEF mainVars, keyVars, userVars
<1>1. Control' /\ DataOK'
  BY DEF Control, DataOK
<1>2. NetInv' /\ OutInv'
  BY NetSame, OutSame
<1>3. KeyType' /\ KeyInv'
  BY KeySame
<1>4. Handshake'
  BY DEF Handshake
<1> QED
  BY <1>1, <1>2, <1>3, <1>4, PartsNext

LEMMA ShakeHandInv == ASSUME IInv, Running, ShakeHand PROVE IInv'
<1> USE Parts
<1>1. /\ main = "shake" /\ connected' /\ main' = "read"
      /\ UNCHANGED <<program, asked, sent, net, key, data, cut, line, tty, stdio, eof, typed, lines>>
      /\ ~connected /\ out = <<>>
  BY DEF ShakeHand, peerVars, userVars, Handshake
<1>2. connected' = TRUE
  BY DEF ShakeHand
<1>3. OutInv' /\ peer' \in {peer, "closed", "gone"} /\ ended' \in {"no", "sigpipe"}
  <2>1. CASE UNCHANGED <<peer, out, ended>>
    BY <1>1, <2>1, OutSame DEF Running
  <2>2. ASSUME NEW d \in Digests, Write(Answer(d), "no")
        PROVE  OutInv' /\ peer' \in {peer, "closed", "gone"} /\ ended' \in {"no", "sigpipe"}
    <3>1. IsAnswer(Answer(d))
      BY DEF IsAnswer, Answer
    <3> QED
      BY <1>1, <2>2, <3>1, WriteInv
  <2> QED
    BY <2>1, <2>2 DEF ShakeHand
<1>4. thread = "none"
  BY <1>1 DEF Control
<1>5. thread' \in IF program' = "chat" /\ connected' THEN {"select", "respond"} ELSE {"none"}
  BY <1>1, <1>4 DEF ShakeHand, StartThread, Control
<1>6. Control' /\ DataOK'
  BY <1>1, <1>2, <1>3, <1>5 DEF Control, DataOK
<1>7. NetInv'
  BY <1>1, NetSame
<1>8. KeyType' /\ KeyInv'
  BY <1>1, <1>4, KeySame
<1>9. Handshake'
  BY <1>1 DEF Handshake
<1> QED
  BY <1>3, <1>6, <1>7, <1>8, <1>9, PartsNext

LEMMA ReadFrameInv == ASSUME IInv, NEW n, ReadFrame(n) PROVE IInv'
<1> USE Parts
<1>1. /\ main = "read" /\ connected /\ Read(n) /\ net' = SubSeq(net, n + 1, Len(net))
      /\ cut' = (cut \/ (net' # <<>> /\ ~StartsItem(net'[1])))
      /\ \/ program = "chat" /\ UNCHANGED <<main, data>>
         \/ program # "chat" /\ main' = "respond" /\ data' \in analyData(SubSeq(net, 1, n))
      /\ UNCHANGED <<program, asked, sent, connected, key, out, ended>>
      /\ UNCHANGED <<line, tty, stdio, typed, thread, eof, lines>>
      /\ peer' \in {peer, "gone"}
  BY DEF ReadFrame, Read, peerVars, keyVars, userVars
<1>2. cut' \in BOOLEAN
  BY <1>1
<1>3. Control'
  BY <1>1, <1>2 DEF Control
<1>4. DataOK'
  <2>1. PICK d : d = data'
    OBVIOUS
  <2>2. CASE UNCHANGED data
    BY <2>2 DEF DataOK
  <2>3. CASE d \in analyData(SubSeq(net, 1, n))
    BY <1>1, <2>1, <2>3, DataType DEF DataOK, NetInv
  <2> QED
    BY <1>1, <2>1, <2>2, <2>3
<1>5. NetInv' /\ OutInv'
  BY <1>1, ReadNet, OutSame
<1>6. KeyType' /\ KeyInv'
  BY <1>1, KeySame
<1>7. Handshake'
  BY <1>1 DEF Handshake
<1> QED
  BY <1>3, <1>4, <1>5, <1>6, <1>7, PartsNext

LEMMA RespondInv == ASSUME IInv, Respond PROVE IInv'
<1> USE Parts
<1>1. /\ ended = "no" /\ main = "respond" /\ main' = "read" /\ data' = Null
      /\ UNCHANGED <<program, asked, sent, net, connected, key, cut>>
      /\ UNCHANGED <<line, tty, stdio, typed, thread, eof, lines>>
  BY DEF Respond, Running, peerVars, keyVars, userVars
<1>2. OutInv' /\ peer' \in {peer, "closed", "gone"} /\ ended' \in {"no", "segv", "sigpipe"}
  <2>1. CASE UNCHANGED <<peer, out>> /\ ended' \in {"no", "segv"}
    BY <1>1, <2>1, OutSame
  <2>2. CASE Reply(data.text, "no")
    <3>1. data.text \in Seq(Chars)
      BY DEF DataOK
    <3>2. PICK t : t = data.text
      OBVIOUS
    <3>3. t \in Seq(Chars) /\ Reply(t, "no")
      BY <2>2, <3>1, <3>2
    <3> QED
      BY <1>1, <3>3, ReplyInv
  <2> QED
    BY <1>1, <2>1, <2>2 DEF Respond
<1>3. Control'
  BY <1>1, <1>2 DEF Control
<1>4. DataOK'
  BY <1>1, NullIn DEF DataOK
<1>5. NetInv'
  BY <1>1, NetSame
<1>6. KeyType' /\ KeyInv'
  BY <1>1, KeySame
<1>7. Handshake'
  BY <1>1 DEF Handshake
<1> QED
  BY <1>2, <1>3, <1>4, <1>5, <1>6, <1>7, PartsNext

-----------------------------------------------------------------------------
(* The keyboard thread. *)
LEMMA FgetsInv == ASSUME IInv, Fgets PROVE IInv'
<1> USE Parts
<1>1. KeyType' /\ KeyInv'
  BY FgetsKey
<1>2. /\ thread = "select" /\ thread' = "respond"
      /\ UNCHANGED <<program, peer, asked, sent, net, connected, main, key, data, cut, eof, lines, out, ended>>
  BY DEF Fgets, peerVars, mainVars, userVars
<1>3. Control' /\ DataOK'
  BY <1>2 DEF Control, DataOK
<1>4. NetInv' /\ OutInv'
  BY <1>2, NetSame, OutSame
<1>5. Handshake'
  BY <1>2 DEF Handshake
<1> QED
  BY <1>1, <1>3, <1>4, <1>5, PartsNext

LEMMA SendLineInv == ASSUME IInv, SendLine PROVE IInv'
<1> USE Parts
<1>1. KeyType' /\ KeyInv'
  BY SendLineKey
<1>2. /\ thread = "respond" /\ thread' = "select"
      /\ UNCHANGED <<program, asked, sent, net, connected, main, key, data, cut, eof, lines>>
  BY DEF SendLine, peerVars, mainVars, userVars
<1>3. OutInv' /\ peer' \in {peer, "closed", "gone"} /\ ended' \in {"no", "exit", "sigpipe"}
  <2>1. PICK next : next = IF Exits THEN "exit" ELSE "no"
    OBVIOUS
  <2>2. Reply(line, next) /\ next \in {"no", "exit"}
    BY <2>1 DEF SendLine
  <2>3. OutInv' /\ peer' \in {peer, "closed", "gone"} /\ ended' \in {next, "sigpipe"}
    BY <1>2, <2>2, ReplyInv DEF KeyType
  <2> QED
    BY <2>2, <2>3
<1>4. Control' /\ DataOK'
  BY <1>2, <1>3 DEF Control, DataOK
<1>5. NetInv'
  BY <1>2, NetSame
<1>6. Handshake'
  BY <1>2 DEF Handshake, Control
<1> QED
  BY <1>1, <1>3, <1>4, <1>5, <1>6, PartsNext

-----------------------------------------------------------------------------
LEMMA StutterInv == ASSUME IInv, UNCHANGED vars PROVE IInv'
<1> USE Parts DEF vars, peerVars, mainVars, keyVars, userVars
<1>1. Control' /\ DataOK'
  BY DEF Control, DataOK
<1>2. NetInv' /\ OutInv'
  BY NetSame, OutSame
<1>3. KeyType' /\ KeyInv'
  BY KeySame
<1>4. Handshake'
  BY DEF Handshake
<1> QED
  BY <1>1, <1>2, <1>3, <1>4, PartsNext

LEMMA NextInv == IInv /\ [Next]_vars => IInv'
<1> SUFFICES ASSUME IInv, [Next]_vars PROVE IInv'
  OBVIOUS
<1>1. ASSUME Main PROVE IInv'
  <2>1. ASSUME KeyOverflows PROVE IInv'
    BY <2>1, EndInv DEF KeyOverflows, peerVars
  <2>2. ASSUME FrameOverruns PROVE IInv'
    BY <2>2, EndInv DEF FrameOverruns, peerVars
  <2>3. ASSUME ShakeHand PROVE IInv'
    BY <2>3, ShakeHandInv DEF ShakeHand
  <2> QED
    BY <1>1, <2>1, <2>2, <2>3, ReadRequestInv, ReadFrameInv, RespondInv DEF Main
<1>2. ASSUME Keyboard PROVE IInv'
  BY <1>2, FgetsInv, SendLineInv DEF Keyboard
<1>3. ASSUME Peer PROVE IInv'
  BY <1>3, AskInv, SendFrameInv, HangupInv DEF Peer
<1>4. ASSUME User PROVE IInv'
  BY <1>4, TypeInv, EndTypingInv DEF User
<1> QED
  BY <1>1, <1>2, <1>3, <1>4, StutterInv DEF Next

-----------------------------------------------------------------------------
(* What has been read, and what is under way, is invariant.                *)
THEOREM Inductive == Spec => []IInv
  BY InitInv, NextInv, PTL DEF Spec

(* Type correctness of the connection, the main loop and the keyboard      *)
(* thread; no piece of a line is longer than its buffer.                   *)
THEOREM TypeCorrect == Spec => []TypeOK
<1>1. IInv => TypeOK
  BY DEF IInv
<1> QED
  BY <1>1, Inductive, PTL

(* Neither thread writes before the handshake has been answered or passed  *)
(* over, and there is one answer at most.                                  *)
THEOREM AnsweredFirst == Spec => []AnswerFirst
<1>1. IInv => AnswerFirst
  BY DEF IInv
<1> QED
  BY <1>1, Inductive, PTL

(* The header of each frame tells the length of its text.                  *)
THEOREM HeadersRight == Spec => []HeadersTellLength
<1>1. IInv => HeadersTellLength
  BY DEF IInv
<1> QED
  BY <1>1, Inductive, PTL

(* The process ends for one of the reasons listed.                         *)
EndReason ==
  ended' # ended =>
    \/ ended' = "exit" /\ thread = "respond" /\ line[1] = Exit /\ AtLineStart
    \/ ended' = "sigpipe" /\ peer = "gone"
    \/ ended' = "segv" /\ program = "echo" /\ data.null
    \/ ended' = "segv" /\ \E i \in DOMAIN sent : Len(sent[i].text) + 4 > Buffer
    \/ ended' = "segv" /\ cut /\ connected
    \/ ended' = "abort" /\ cut /\ ~connected

LEMMA WriteEnds ==
  ASSUME NEW item, NEW next, Write(item, next)
  PROVE  ended' = next \/ (ended' = "sigpipe" /\ peer = "gone")
  BY DEF Write

(* A read that starts inside a frame follows one that has ended there. *)
LEMMA FirstUnit ==
  ASSUME NEW s \in Seq(Unit), NEW r \in Seq(Unit), r # <<>>
  PROVE  s \o r # <<>> /\ (s \o r)[1] = IF s = <<>> THEN r[1] ELSE s[1]
<1>1. Len(s) \in Nat /\ Len(r) \in Nat /\ Len(r) # 0 /\ (s # <<>> => Len(s) # 0)
  BY EmptySeq
<1> QED
  BY <1>1

LEMMA StartsCutStep == ASSUME IInv, StartsCut, [Next]_vars PROVE StartsCut'
<1> USE Parts
<1>1. net \in Seq(Unit)
  BY DEF NetInv
<1>2. ASSUME NEW n, ReadRequest(n) \/ ReadFrame(n) PROVE StartsCut'
  BY <1>2 DEF ReadRequest, ReadFrame, StartsCut
<1>3. ASSUME NEW kind \in {"upgrade", "plain"}, Ask(kind) PROVE StartsCut'
  <2>1. PICK r : r = Request(kind)
    OBVIOUS
  <2>2. r \in Seq(Unit) /\ r # <<>> /\ StartsItem(r[1])
    <3>1. r \in Seq(Unit) /\ Len(r) \in {1, 3} /\ r[1] = Line("line")
      BY <2>1, RequestType
    <3>2. r # <<>>
      BY <3>1
    <3> QED
      BY <3>1, <3>2 DEF StartsItem
  <2>3. net' = net \o r /\ cut' = cut
    BY <1>3, <2>1 DEF Ask, mainVars
  <2> QED
    BY <1>1, <2>2, <2>3, FirstUnit DEF StartsCut
<1>4. ASSUME NEW w \in BOOLEAN, NEW text \in Texts, SendFrame(w, text) PROVE StartsCut'
  <2>1. PICK r : r = Frame(w, text)
    OBVIOUS
  <2>2. r \in Seq(Unit) /\ r # <<>> /\ StartsItem(r[1])
    <3>1. r \in Seq(Unit) /\ r[1] = First(w)
      BY <2>1, FrameShape
    <3>2. Len(r) = Len(text) + (IF Len(text) < Short THEN 3 ELSE 4) /\ Len(text) \in Nat
      BY <2>1, FrameShape
    <3>3. r # <<>>
      BY <3>2
    <3> QED
      BY <3>1, <3>3 DEF StartsItem, First
  <2>3. net' = net \o r /\ cut' = cut
    BY <1>4, <2>1 DEF SendFrame, mainVars
  <2> QED
    BY <1>1, <2>2, <2>3, FirstUnit DEF StartsCut
<1>5. ASSUME NEW how, Hangup(how) PROVE StartsCut'
  BY <1>5 DEF Hangup, StartsCut, mainVars
<1>6. CASE UNCHANGED <<net, cut>>
  BY <1>6 DEF StartsCut
<1>7. CASE ShakeHand \/ KeyOverflows \/ FrameOverruns \/ Respond \/ Keyboard \/ User \/ UNCHANGED vars
  BY <1>6, <1>7 DEF ShakeHand, KeyOverflows, FrameOverruns, Respond, Keyboard, Fgets, SendLine,
                    User, Type, EndTyping, vars, mainVars
<1> QED
  BY <1>2, <1>3, <1>4, <1>5, <1>7 DEF Next, Main, Peer

LEMMA StepEnds == ASSUME IInv, StartsCut, [Next]_vars PROVE EndReason
<1> SUFFICES ASSUME ended' # ended PROVE EndReason
  BY DEF EndReason
<1> USE Parts
<1>1. CASE KeyOverflows
  BY <1>1 DEF KeyOverflows, Handshake, EndReason
<1>2. CASE FrameOverruns
  <2>1. PICK n \in 1..Len(net) : n <= Buffer /\ Overruns(SubSeq(net, 1, n))
    BY <1>2 DEF FrameOverruns
  <2>2. CASE ~Inside(SubSeq(net, 1, n))
    <3>1. \E j \in DOMAIN sent : Len(sent[j].text) + 4 > Buffer
      BY <2>1, <2>2, OverrunSent DEF NetInv
    <3> QED
      BY <1>2, <3>1 DEF FrameOverruns, EndReason
  <2>3. CASE Inside(SubSeq(net, 1, n))
    <3>1. PICK buf : buf = SubSeq(net, 1, n)
      OBVIOUS
    <3>2. buf[1] = net[1] /\ net # <<>>
      BY <2>1, <3>1 DEF NetInv
    <3>3. ~StartsItem(net[1])
      BY <2>3, <3>1, <3>2 DEF Inside, StartsItem, Line, First
    <3>4. cut /\ connected
      BY <1>2, <3>2, <3>3 DEF FrameOverruns, StartsCut
    <3> QED
      BY <1>2, <3>4 DEF FrameOverruns, EndReason
  <2> QED
    BY <2>2, <2>3
<1>3. CASE ShakeHand
  BY <1>3, WriteEnds DEF ShakeHand, Running, EndReason
<1>4. CASE Respond
  <2>1. program = "echo" /\ ended = "no"
    BY <1>4 DEF Respond, Running, Control
  <2>2. CASE data.null /\ ended' = "segv"
    BY <2>1, <2>2 DEF EndReason
  <2>3. CASE Reply(data.text, "no")
    BY <2>1, <2>3, WriteEnds DEF Reply, EndReason
  <2> QED
    BY <1>4, <2>1, <2>2, <2>3 DEF Respond
<1>5. CASE SendLine
  <2>1. thread = "respond" /\ ended = "no" /\ Reply(line, IF Exits THEN "exit" ELSE "no")
    BY <1>5 DEF SendLine, Running
  <2>2. ended' = (IF Exits THEN "exit" ELSE "no") \/ (ended' = "sigpipe" /\ peer = "gone")
    BY <2>1, WriteEnds DEF Reply
  <2>3. CASE Exits /\ ended' = "exit"
    BY <2>1, <2>3 DEF Exits, KeyInv, EndReason
  <2> QED
    BY <2>1, <2>2, <2>3 DEF EndReason
<1>6. CASE ~(KeyOverflows \/ FrameOverruns \/ ShakeHand \/ Respond \/ SendLine)
  BY <1>6 DEF Next, Main, Keyboard, Peer, User, ReadRequest, ReadFrame, Fgets, Ask, SendFrame, Hangup,
              Type, EndTyping, vars
<1> QED
  BY <1>1, <1>2, <1>3, <1>4, <1>5, <1>6

(* For every text, line and size, and wherever TCP cuts the stream, the    *)
(* process ends only for a reason listed.                                  *)
THEOREM EndsKnown == Spec => EndsForAReason
<1>1. Init => StartsCut
  BY DEF Init, StartsCut
<1>2. IInv /\ StartsCut /\ [Next]_vars => StartsCut'
  BY StartsCutStep
<1>3. IInv /\ StartsCut /\ [Next]_vars => [EndReason]_vars
  BY StepEnds
<1> QED
  BY <1>1, <1>2, <1>3, Inductive, PTL DEF Spec, EndsForAReason, EndReason
=============================================================================

------------------------------- MODULE WsServer -------------------------------
(***************************************************************************)
(* The WebSocket echo server (server.c) and chat server (chat/server.c).   *)
(* Both take one connection, answer the first read() as a handshake and    *)
(* every later one as a frame.  The echo server sends the frame's text     *)
(* back; the chat server throws it away, and a second thread sends the     *)
(* lines typed at its keyboard.                                            *)
(*                                                                         *)
(* The peer and the person at the keyboard are the environment.  TCP       *)
(* delivers in order, in pieces of any size.                               *)
(***************************************************************************)
EXTENDS WsFrames, Base64

CONSTANTS
  Texts,      \* texts a peer sends
  Lines,      \* lines typed at the keyboard, each with its Newline
  Newline,
  Exit,       \* "exit" at the start of a line
  LineSize,   \* BUFFER_SIZE of the keyboard thread
  Digests,    \* hexadecimal digests, as sequences of digits
  MaxFrames,  \* bound: frames the peer sends to either server
  MaxLines,   \* bound: lines typed
  MaxOut      \* bound: what is written before empty frames stop

(* A line fits into one frame. *)
ASSUME LineSizeAssumption == LineSize \in 2..Long
ASSUME MaxLinesAssumption == MaxLines \in Nat
ASSUME DigestsAssumption == Digests \subseteq Seq(0..15)
ASSUME TextsAssumption == \A t \in Texts \cup Lines : t \in Seq({t[i] : i \in DOMAIN t})

VARIABLES
  program,    \* which of the two servers runs
  peer,       \* the connection: open, closed or reset by the peer, or gone
  asked,      \* history: the request the peer sent
  sent,       \* history: the frames the peer sent
  net,        \* units on their way to the server
  connected,  \* connected
  main,       \* the main loop: in read(), or about to call shakeHand(), response()
  key,        \* what it has found of the key
  data,       \* data: what analyData() has returned
  thread,     \* the keyboard thread: none, in select(), about to call response()
  line,       \* its buf
  tty,        \* typed, and not taken by stdio yet
  stdio,      \* in the buffer of stdin
  eof,        \* nothing more will be typed
  typed,      \* history: every character typed
  lines,      \* lines typed so far (bounded by MaxLines)
  out,        \* what the peer has been sent
  cut,        \* history: a read() has ended inside a request or a frame
  ended       \* how the process ended

peerVars == <<asked, sent>>
mainVars == <<connected, main, key, data, cut>>
keyVars == <<thread, line, tty, stdio>>
userVars == <<eof, typed, lines>>
vars == <<program, peer, asked, sent, net, connected, main, key, data, thread, line, tty, stdio,
          eof, typed, lines, out, cut, ended>>

Running == ended = "no"

Init ==
  /\ program \in {"echo", "chat"}
  /\ peer = "open"
  /\ asked = "nothing"
  /\ sent = <<>>
  /\ net = <<>>
  /\ connected = FALSE
  /\ main = "read"
  /\ key = "none"
  /\ data = Null
  /\ thread = "none"
  /\ line = <<>>
  /\ tty = <<>>
  /\ stdio = <<>>
  /\ eof = FALSE
  /\ typed = <<>>
  /\ lines = 0
  /\ out = <<>>
  /\ cut = FALSE
  /\ ended = "no"

-----------------------------------------------------------------------------
(* The peer.  It sends frames once it has an answer whose key is the one   *)
(* it expects.                                                             *)
IsAnswer(o) == "accept" \in DOMAIN o
Answered == out # <<>> /\ IsAnswer(out[1])
Accepts(answer) == answer.key = "whole" /\ answer.accept = RfcBase64(answer.digest)

Ask(kind) ==
  /\ peer = "open" /\ asked = "nothing"
  /\ asked' = kind
  /\ net' = net \o Request(kind)
  /\ UNCHANGED <<program, peer, sent, mainVars, keyVars, userVars, out, ended>>

SendFrame(whole, text) ==
  /\ peer = "open" /\ Len(sent) < MaxFrames[program]
  /\ Answered /\ Accepts(out[1])
  /\ sent' = Append(sent, [whole |-> whole, text |-> text])
  /\ net' = net \o Frame(whole, text)
  /\ UNCHANGED <<program, peer, asked, mainVars, keyVars, userVars, out, ended>>

(* A reset may overtake what is still under way. *)
Hangup(how) ==
  /\ peer = "open"
  /\ peer' = how
  /\ net' = net \/ (how = "reset" /\ net' = <<>>)
  /\ UNCHANGED <<program, peerVars, mainVars, keyVars, userVars, out, ended>>

(* Only the chat server has a keyboard. *)
Type(l) ==
  /\ program = "chat" /\ ~eof /\ lines < MaxLines
  /\ tty' = tty \o l
  /\ typed' = typed \o l
  /\ lines' = lines + 1
  /\ UNCHANGED <<program, peer, peerVars, net, mainVars, thread, line, stdio, eof, out, ended>>

EndTyping ==
  /\ program = "chat" /\ ~eof
  /\ eof' = TRUE
  /\ UNCHANGED <<program, peer, peerVars, net, mainVars, keyVars, typed, lines, out, ended>>

-----------------------------------------------------------------------------
(* write().  Data for a peer that has closed is answered by a reset, which *)
(* may come late; after a reset the first call on the socket reports it,   *)
(* and every later write() raises SIGPIPE, which nobody handles.  next is  *)
(* how the process goes on.                                                *)
Write(item, next) ==
  \/ /\ peer = "open"
     /\ out' = Append(out, item)
     /\ ended' = next
     /\ UNCHANGED peer
  \/ /\ peer = "closed"
     /\ peer' \in {"closed", "gone"}
     /\ ended' = next
     /\ UNCHANGED out
  \/ /\ peer = "reset"
     /\ peer' = "gone"
     /\ ended' = next
     /\ UNCHANGED out
  \/ /\ peer = "gone"
     /\ ended' = "sigpipe"
     /\ UNCHANGED <<peer, out>>

(* response(), for a text that is there. *)
Reply(message, next) ==
  IF Packable(message) THEN Write(packData(message), next)
                       ELSE ended' = next /\ UNCHANGED <<peer, out>>

(* read() of n units; none at the end of file or on an error, which a      *)
(* reset reports once.                                                     *)
Read(n) ==
  \/ n \in 1..Len(net) /\ n <= Buffer /\ UNCHANGED peer
  \/ n = 0 /\ net = <<>> /\ peer \in {"closed", "gone"} /\ UNCHANGED peer
  \/ n = 0 /\ net = <<>> /\ peer = "reset" /\ peer' = "gone"

(* The first read(): whatever it holds is the request.                     *)
ReadRequest(n) ==
  /\ Running /\ main = "read" /\ ~connected
  /\ Read(n)
  /\ net' = SubSeq(net, n + 1, Len(net))
  /\ cut' = (cut \/ (net' # <<>> /\ ~StartsItem(net'[1])))
  /\ key' = fetchSecKey(SubSeq(net, 1, n))
  /\ main' = "shake"
  /\ UNCHANGED <<program, peerVars, connected, data, keyVars, userVars, out, ended>>

(* A key that is cut off is copied with zeros behind it, beyond the end of *)
(* its array when the request is long.                                     *)
KeyOverflows ==
  /\ Running /\ main = "shake" /\ key = "part"
  /\ ended' = "abort"
  /\ UNCHANGED <<program, peer, peerVars, net, mainVars, keyVars, userVars, out>>

(* computeAcceptKey() *)
Answer(digest) ==
  [key |-> key, digest |-> Htoi(digest),
   accept |-> base64_encode(UpToZero(Htoi(digest)))]

(* Mutant: the echo server starts a thread as well. *)
StartThreadAlways == thread' = "select"

(* Mutant: no thread is started. *)
StartThreadNever == UNCHANGED thread

(* pthread_create(), in the chat server only. *)
StartThread == IF program = "chat" THEN thread' = "select" ELSE UNCHANGED thread

(* Mutant: only an answer makes connected 1. *)
ShakeHandOnce ==
  /\ Running /\ main = "shake"
  /\ IF key = "none" THEN UNCHANGED <<peer, out, ended, connected>>
     ELSE /\ \E d \in Digests : Write(Answer(d), "no")
          /\ connected' = TRUE
  /\ main' = "read"
  /\ StartThread
  /\ UNCHANGED <<program, peerVars, net, key, data, cut, line, tty, stdio, userVars>>

(* Mutant: the answer is never written. *)
ShakeHandSilent ==
  /\ Running /\ main = "shake"
  /\ UNCHANGED <<peer, out, ended>>
  /\ connected' = TRUE
  /\ main' = "read"
  /\ StartThread
  /\ UNCHANGED <<program, peerVars, net, key, data, cut, line, tty, stdio, userVars>>

(* shakeHand() and what follows it: connected becomes 1 whether or not     *)
(* there was a key to answer.                                              *)
ShakeHand ==
  /\ Running /\ main = "shake"
  /\ IF key = "none" THEN UNCHANGED <<peer, out, ended>>
                      ELSE \E d \in Digests : Write(Answer(d), "no")
  /\ connected' = TRUE
  /\ main' = "read"
  /\ StartThread
  /\ UNCHANGED <<program, peerVars, net, key, data, cut, line, tty, stdio, userVars>>

(* A later read().  The chat server frees what analyData() returns. *)
ReadFrame(n) ==
  /\ Running /\ main = "read" /\ connected
  /\ Read(n)
  /\ net' = SubSeq(net, n + 1, Len(net))
  /\ cut' = (cut \/ (net' # <<>> /\ ~StartsItem(net'[1])))
  /\ IF program = "chat" THEN UNCHANGED <<main, data>>
     ELSE main' = "respond" /\ data' \in analyData(SubSeq(net, 1, n))
  /\ UNCHANGED <<program, peerVars, connected, key, keyVars, userVars, out, ended>>

(* A frame that says it is longer than the buffer is read from behind it   *)
(* ("core dumped if data is too long", chat/server.c:295), and so is what  *)
(* a read that starts inside a frame takes for one; the memory for it may  *)
(* not even be there.                                                      *)
FrameOverruns ==
  /\ Running /\ main = "read" /\ connected
  /\ \E n \in 1..Len(net) : n <= Buffer /\ Overruns(SubSeq(net, 1, n))
  /\ ended' = "segv"
  /\ UNCHANGED <<program, peer, peerVars, net, mainVars, keyVars, userVars, out>>

(* response() of the echo server.  It tests a variable that was never set: *)
(* it may return without a word, and may go on with NULL for a text.       *)
Respond ==
  /\ Running /\ main = "respond"
  /\ \/ UNCHANGED <<peer, out, ended>>
     \/ data.null /\ ended' = "segv" /\ UNCHANGED <<peer, out>>
     \/ ~data.null /\ Reply(data.text, "no")
  /\ main' = "read"
  /\ data' = Null
  /\ UNCHANGED <<program, peerVars, net, connected, key, cut, keyVars, userVars>>

-----------------------------------------------------------------------------
(* What fgets() takes of s: up to the end of the line, or as much as fits. *)
Taken(s) ==
  LET ends == {i \in DOMAIN s : s[i] = Newline} \cup {LineSize - 1, Len(s)}
  IN  CHOOSE i \in ends : \A j \in ends : i <= j

(* select() and fgets().  stdio takes one line from a terminal, and all    *)
(* there is from a pipe; select() knows nothing of what it has kept.       *)
Fgets ==
  /\ Running /\ thread = "select"
  /\ tty # <<>> \/ (eof /\ (stdio # <<>> \/ Len(out) < MaxOut))
  /\ \E k \in 0..Len(tty) :
       LET filled == stdio \o SubSeq(tty, 1, k)
       IN  /\ IF stdio # <<>> \/ tty = <<>> THEN k = 0 ELSE k > 0 /\ tty[k] = Newline
           /\ line' = SubSeq(filled, 1, Taken(filled))
           /\ stdio' = SubSeq(filled, Taken(filled) + 1, Len(filled))
           /\ tty' = SubSeq(tty, k + 1, Len(tty))
  /\ thread' = "respond"
  /\ UNCHANGED <<program, peer, peerVars, net, mainVars, userVars, out, ended>>

(* Mutant: exit is looked for anywhere in the line. *)
ExitsAnywhere == \E i \in DOMAIN line : line[i] = Exit

Exits == line # <<>> /\ line[1] = Exit

(* Mutant: exit() comes before response(). *)
SendLineExitFirst ==
  /\ Running /\ thread = "respond"
  /\ IF Exits THEN ended' = "exit" /\ UNCHANGED <<peer, out>> ELSE Reply(line, "no")
  /\ thread' = "select"
  /\ line' = <<>>
  /\ UNCHANGED <<program, peerVars, net, mainVars, tty, stdio, userVars>>

(* response() of the keyboard thread, and exit(1) behind it. *)
SendLine ==
  /\ Running /\ thread = "respond"
  /\ Reply(line, IF Exits THEN "exit" ELSE "no")
  /\ thread' = "select"
  /\ line' = <<>>
  /\ UNCHANGED <<program, peerVars, net, mainVars, tty, stdio, userVars>>

-----------------------------------------------------------------------------
Main ==
  \/ \E n \in 0..Buffer : ReadRequest(n) \/ ReadFrame(n)
  \/ ShakeHand
  \/ KeyOverflows
  \/ FrameOverruns
  \/ Respond

Keyboard == Fgets \/ SendLine

Peer ==
  /\ Running
  /\ \/ \E kind \in {"upgrade", "plain"} : Ask(kind)
     \/ \E whole \in BOOLEAN, text \in Texts : SendFrame(whole, text)
     \/ \E how \in {"closed", "reset"} : Hangup(how)

User ==
  /\ Running
  /\ (\E l \in Lines : Type(l)) \/ EndTyping

Next == Main \/ Keyboard \/ Peer \/ User

Spec == Init /\ [][Next]_vars /\ WF_vars(Main) /\ WF_vars(Keyboard)

-----------------------------------------------------------------------------
Chars == {Newline, Junk} \cup UNION {{t[i] : i \in DOMAIN t} : t \in Texts \cup Lines}

Unit ==
  [unit : {"http"}, part : {"line", "key1", "key2"}] \cup [unit : {"first"}, fin : BOOLEAN]
  \cup [unit : {"second"}, mask : {TRUE}, len7 : Nat] \cup [unit : {"ext"}, n : Nat]
  \cup [unit : {"masks"}] \cup [unit : {"char"}, c : Chars]

TypeOK ==
  /\ program \in {"echo", "chat"}
  /\ peer \in {"open", "closed", "reset", "gone"}
  /\ asked \in {"nothing", "upgrade", "plain"}
  /\ sent \in Seq([whole : BOOLEAN, text : Texts])
  /\ net \in Seq(Unit)
  /\ connected \in BOOLEAN
  /\ main \in {"read", "shake"} \cup (IF program = "echo" THEN {"respond"} ELSE {})
  /\ key \in {"none", "part", "whole"}
  /\ data \in [null : BOOLEAN, text : Seq(Chars)]
  /\ thread \in IF program = "chat" /\ connected THEN {"select", "respond"} ELSE {"none"}
  /\ {line, tty, stdio, typed} \subseteq Seq(Chars)
  /\ Len(line) < LineSize
  /\ eof \in BOOLEAN
  /\ lines \in 0..MaxLines
  /\ out \in Seq({out[i] : i \in DOMAIN out})
  /\ \A i \in DOMAIN out : IsAnswer(out[i]) \/ out[i].body \in Seq(Chars)
  /\ cut \in BOOLEAN
  /\ ended \in {"no", "exit", "sigpipe", "segv", "abort"}

(* What goes out first is the answer to the handshake: nothing is written  *)
(* before it, by either thread, and when the first read() held no key it   *)
(* is never made up for (chat/server.c:88-93).                             *)
AnswerFirst == \A i \in DOMAIN out : IsAnswer(out[i]) => i = 1 /\ connected

(* The peer accepts the answer exactly if the first read() held its whole  *)
(* key and the digest has no zero byte: computeAcceptKey() takes strlen()  *)
(* of the digest (chat/server.c:216).                                      *)
AcceptKeyRight ==
  Answered =>
    (Accepts(out[1]) <=>
       out[1].key = "whole" /\ \A i \in DOMAIN out[1].digest : out[1].digest[i] # 0)

(* The length the peer reads in the header of a frame is that of its text, *)
(* on both sides of the change of form (packData()).                       *)
HeadersTellLength ==
  \A i \in DOMAIN out : IsAnswer(out[i]) \/ RfcLength(out[i]) = Len(out[i].body)

(* The frames written: all that is no answer. *)
Bodies == IF Answered THEN Tail(out) ELSE out

(* The texts of frames, one behind the other. *)
Joined(frames) ==
  LET upTo[i \in 0..Len(frames)] ==
        IF i = 0 THEN <<>> ELSE upTo[i - 1] \o frames[i].body
  IN  upTo[Len(frames)]

(* What response() may make of the text of a frame. *)
Returned(text) == {Counted(t) : t \in Unterminated(text)}

(* As long as no read() ended inside a request or a frame, the echo server *)
(* sends back the texts of whole frames, in their order: each up to its    *)
(* first Nul, or with what strlen() may have counted behind it if it has   *)
(* none.  Some may be missing (only the first frame of a read() is looked  *)
(* at, and response() may return early).                                   *)
EchoesInOrder ==
  program = "echo" /\ ~cut =>
    \E f \in [DOMAIN Bodies -> DOMAIN sent] :
      /\ \A i, j \in DOMAIN Bodies : i < j => f[i] < f[j]
      /\ \A i \in DOMAIN Bodies :
           sent[f[i]].whole /\ Bodies[i].body \in Returned(sent[f[i]].text)

(* What the keyboard thread has sent so far. *)
SentText == Joined(Bodies)

NoNul(text) == \A i \in DOMAIN text : text[i] # Nul

(* The chat peer gets what was typed, in order, once, and up to the line   *)
(* that ends the server; what is missing waits in the thread, in the       *)
(* buffer of stdin or in the terminal, unless the peer has left.  A Nul    *)
(* among it would hide the rest of its line from strlen().                 *)
LinesConserved ==
  program = "chat" /\ NoNul(typed) =>
    \/ SentText \o line \o stdio \o tty = typed
    \/ peer # "open" /\ \E n \in 0..Len(typed) : SentText = SubSeq(typed, 1, n)

(* The line in hand follows the end of a line, or of a full buffer. *)
Before == Len(typed) - Len(tty) - Len(stdio) - Len(line)

AtLineStart ==
  \/ Before = 0
  \/ typed[Before] = Newline
  \/ /\ Before >= LineSize - 1
     /\ \A i \in (Before - LineSize + 2)..Before : typed[i] # Newline

(* The process ends only when exit was typed at the start of a line (or of *)
(* what fgets() took of a longer one), when it writes after the peer has   *)
(* left, in response() of a frame analyData() refused, behind a frame too  *)
(* long for the buffer, after a read() that ended inside a frame and left  *)
(* the next one to begin there, or on a key that was cut off.              *)
EndsForAReason ==
  [][ended' # ended =>
       \/ ended' = "exit" /\ thread = "respond" /\ line[1] = Exit /\ AtLineStart
       \/ ended' = "sigpipe" /\ peer = "gone"
       \/ ended' = "segv" /\ program = "echo" /\ data.null
       \/ ended' = "segv" /\ \E i \in DOMAIN sent : Len(sent[i].text) + 4 > Buffer
       \/ ended' = "segv" /\ cut /\ connected
       \/ ended' = "abort" /\ cut /\ ~connected]_vars

(* What makes it so.  Before shakeHand() has run there is nothing under    *)
(* way but the request, and nothing has been written; afterwards each      *)
(* frame that has not been read from is there as a whole.                  *)
Handshake ==
  /\ ~connected => out = <<>> /\ main # "respond"
  /\ main = "shake" => ~connected /\ (key = "part" => cut)
  /\ ~connected /\ main = "read" => net = <<>> \/ (asked # "nothing" /\ net = Request(asked))

FramedBy(s, sends) ==
  \A i \in DOMAIN s : s[i].unit = "first" =>
    \E j \in DOMAIN sends :
      LET f == Frame(sends[j].whole, sends[j].text)
      IN  i + Len(f) <= Len(s) + 1 /\ \A m \in DOMAIN f : s[i + m - 1] = f[m]
Framed == FramedBy(net, sent)

(* The thread holds a piece of what was typed, in its order and from the   *)
(* start of a line; only the end of a line, or of its buffer, ends a piece.*)
Typing ==
  /\ Before >= 0
  /\ \A i \in DOMAIN line : line[i] = typed[Before + i]
  /\ \A i \in DOMAIN stdio : stdio[i] = typed[Before + Len(line) + i]
  /\ \A i \in DOMAIN tty : tty[i] = typed[Before + Len(line) + Len(stdio) + i]
  /\ thread # "respond" => line = <<>>
  /\ stdio # <<>> => stdio[Len(stdio)] = Newline
  /\ \/ line = <<>>
     \/ line[Len(line)] = Newline
     \/ Len(line) = LineSize - 1 /\ \A i \in DOMAIN line : line[i] # Newline

IInv == TypeOK /\ AnswerFirst /\ HeadersTellLength /\ Handshake /\ Framed /\ Typing /\ AtLineStart

(* What is to be read starts inside a request or a frame only after a      *)
(* read() has ended there.                                                 *)
StartsCut == net # <<>> /\ ~StartsItem(net[1]) => cut

(* A peer that asks for an upgrade and waits is answered, unless its       *)
(* request arrives in pieces.                                              *)
RequestAnswered ==
  asked = "upgrade" /\ peer = "open" ~> Answered \/ peer # "open" \/ cut \/ ~Running

(* What is typed leaves the terminal, whether or not the handshake was     *)
(* answered and whether or not the peer is still there: the keyboard       *)
(* thread never blocks for good before a non-empty terminal.               *)
TypedIsTaken == program = "chat" /\ connected /\ tty # <<>> ~> tty = <<>> \/ ~Running
=============================================================================

# Verification of 01-Practice

TLA+ models of the programs in this repository, the TLC configurations that
check them, and TLAPS proofs about every one of them. Every definition is translated
from the C source; `PROJECT.json` ("map") names the lines each one stands for.

    tlc -workers 2 -config BmQueueAll.cfg MCBmQueue.tla    # any run of PROJECT.json
    tlapm BmQueueProofs.tla                                # any module of proofs

## 1. Inventory

The repository holds three independent programs.

### 1.1 `02-Bmall`: a bookshop, client and server

| Part | Source | State it keeps | Operations |
|---|---|---|---|
| request queue | `bm_server.c` 28-158, 169-179, 385-405; `bm_net.h` | the linked list `queFront`..`queEnd` of `BM_MSG` nodes, shared by two threads without a lock | append (main thread), read front, handle, remove, free (worker) |
| event loop | `bm_server.c` 180-384, 406-440; `bm_net.c` | epoll set, `numopenFds`, open descriptors, one 4 KiB buffer | accept, read a header and a body, quit, close |
| handlers | `bm_services.c` | none of their own; the request being served | hot list, login, sign-up check, sign-up profile; each writes one reply to the request's descriptor |
| Accounts table | `bm_usr.c`, `User.sql` | rows of MySQL's `Accounts`, no unique index on `UserName` | `is_registered`, `usr_login`, `insert_usr` (profile and key updates have no caller) |
| terminals | `bm_client.c`, `bm_client_ui.c` | the account buffer `acnt` of `main()`, the socket, the menu | show hot list, log in, sign up, quit; each writes one request and blocks in `read()` |
| catalogue, orders | `*.sql`, `11.sql`, `sqltst.c` | tables without code that changes them | none |

Interaction: a terminal writes a fixed-layout request to its socket. The main
thread of the server reads it, copies it into a new node and appends the node
to the list. The worker thread polls `queFront`, runs the handler (which talks
to MySQL and writes the reply), then removes and frees the node. The terminal's
`read()` returns and it unpacks the account the reply carries.

What is hard here: two threads changing one list with plain loads and stores;
a stale `queEnd`; edge-triggered events that must not be missed and descriptors
that outlive their terminal; terminals killed while they wait; failing `calloc()`, connection and SQL statements that end in
an early `return` or `break`; check-then-insert split over two requests; an
account buffer reused by successive dialogues; typed text that becomes SQL; a state that crosses the network
in host order one way and in network order the other.

What makes it correct: the worker follows only live nodes; requests are
answered once, in order, to the terminal that asked; every event with data
behind it is seen; nothing is lost, or only in a known window; the
server stops serving for a known reason only; who is shown as logged in has that
account; names are unique.

### 1.2 `01-infoMngmt`: a student information system on text files

| Part | Source | State it keeps | Operations |
|---|---|---|---|
| accounts | `user.c`, `admin.c`, `student.c`, `user.h` | `std.txt`, `tch.txt`, `adm.txt`; a list in memory; the current account `ap` | `login`, `logout`, `sign_in`, `add_admin`, `revise_pwd`, listings and searches |
| marks | `score.c`, `teacher.c`, `score.h` | `scores.txt`; a list in memory | `newstu_to_score`, `tch_a_score`, `tch_input_scores`, listings |
| menus | `test.c` | which menu is shown | dispatch on `type & TYPEMASK` |

Interaction: only through the files. Each operation loads a whole file, talks
to its user, and then appends one record or rewrites the file from memory.

What is hard: several copies running in one directory between load and save; a
copy killed between `fopen(.., "w")` and `fclose()`, or between two files; two
saves of one file, the shorter text written over the longer one.

What makes it correct: an account stays in the file of its kind, names are
unique, who is logged in has an account, every student has one mark record,
and a teacher changes one column only.

### 1.3 `03-socket_websocket`: WebSocket echo and chat servers

| Part | Source | State it keeps | Operations |
|---|---|---|---|
| echo server | `server.c` | `connected`, one connection | handshake, receive a frame, send it back |
| chat server | `chat/server.c` | `connected`, one connection shared by the main loop and a keyboard thread | handshake, receive and discard a frame, send a typed line, exit |
| digests and codecs | `sha1.h`, `base64.h`, `intLib.h` (a second copy in `chat/`) | `SHA1Context`: a 64-byte block, its index, the length, two flags | `SHA1Reset`, `SHA1Input`, `SHA1Result`; Base64; hexadecimal |

What is hard: frames written by the keyboard thread before the handshake's
answer, a handshake that is taken for done whether or not it was answered,
requests and frames that arrive in pieces, a piece taken for a header,
`strlen()` of a payload that may hold a zero byte or no terminator, length forms that change at 126 and
0xFFFF, a test of a variable that was never set, a connection closed by the
peer, padding at the boundary of a block, a length counted in two words.

What makes it correct: the peer is answered first and gets the accept key it
computes itself; the length in a frame's header is that of its text; texts are
echoed in order and typed lines arrive once and in order; the process ends for a
reason one can name; the digest is that of the padded message, however the
message was cut into calls.

## 2. Modules

| Module | Models | Extends |
|---|---|---|
| `RequestQueue` | abstract: what the list promises, a first-in first-out queue that may drop a request on its way in | |
| `BmQueue` | the list, one action per shared load or store of either thread | instantiates `RequestQueue` |
| `BmQueueProofs` | theorems about `BmQueue` | `BmQueue`, `TLAPS` |
| `BmEventLoop` | `epoll_wait()`, `accept()`, reads, end of file, reset; the list as `RequestQueue` promises it | |
| `BmEventLoopProofs` | theorems about `BmEventLoop` | `BmEventLoop`, `TLAPS` |
| `BmAccounts` | the Accounts table and its queries, byte order, `strncpy()` without terminator | |
| `BmMall` | terminals, the queue as `RequestQueue` promises it, the worker's handlers on the table | `BmAccounts` |
| `BmMallProofs` | theorems about `BmMall` | `BmMall`, `TLAPS` |
| `InfoRecords` | abstract: accounts and marks as maps, each operation at once, and what a crash may cost | |
| `InfoMngmt` | the information system: files, lists in memory, several copies, crashes | instantiates `InfoRecords` |
| `InfoMngmtProofs` | theorems about `InfoMngmt` | `InfoMngmt`, `TLAPS` |
| `InfoRecordsProofs` | theorems about the refinement of `InfoRecords` | `InfoMngmtProofs` |
| `Sha1Buffer` | `SHA1Context` under any sequence of calls: block, index, length, flags, padding | |
| `Sha1BufferProofs` | theorems about `Sha1Buffer` | `Sha1Buffer`, `TLAPS` |
| `Base64` | `htoi()`, `base64_encode()`, and RFC 4648's Base64 to compare with | |
| `WsFrames` | the peer's request and frames, `fetchSecKey()`, `analyData()`, `packData()` | |
| `WsServer` | both WebSocket servers: main loop, keyboard thread, peer, user | `WsFrames`, `Base64` |
| `WsServerProofs` | theorems about `WsServer` | `WsServer`, `TLAPS` |
| `WsDeliveryProofs` | theorems about the accept key, the typed lines and the echoes | `WsServerProofs` |
| `MCBmQueue`, `MCBmEventLoop`, `MCBmMall`, `MCInfoMngmt`, `MCSha1Buffer`, `MCWsServer` | instances for TLC | the module named |

Definitions whose comment starts with "Mutant" are deliberate bugs. Nothing
uses them; each is what a plausible slip at that place would make of the
operation before or after it, and `PROJECT.json` ("mutants") names the property
that refutes it.

### 2.1 BmQueue

`queFront` is the shared pointer, `queEnd` and `mpc` are the main thread's,
`wpc`, `cur` (its `pTemp`) and `loaded` the worker's. `heap` maps a node to its
`fd` and `next`, `freed` holds the nodes passed to `free()`. A node is numbered
by the `calloc()` that made it. `inbox` and `waiting` stand for the sockets: a
request written and not yet read, a terminal blocked in `read()`.

| Action | Code |
|---|---|
| `Request` | `write()` and `read()` of `show_hotlist()`, `client_login()`, `client_signup()` |
| `ReadRequest`, `CallocFails` | the `EPOLLIN` branch up to line 395; `break` at 389 |
| `CheckFront`, `SetFront`, `Link` | `if(queFront == NULL)`, lines 396-405 |
| `Connect` | `mysql_real_connect()`, `return` on failure |
| `ReadFront`, `Handle` | `pTemp = *pFront` and the `switch` on `msgtype` |
| `LoadNext`, `StoreFront`, `Free` | the load and the store of line 152; `free(pTemp)` |

Granularity: `*pFront = pTemp->next` is two actions, because the build is
unoptimised x86-64 code, where it is one load and one store and where loads and
stores of a thread that touch one pointer each are atomic. `pTemp->next = NULL`
and the rest of the node are written before any other thread can see the node,
so they belong to `ReadRequest`. Stores of one x86 thread become visible in
program order, and the locks inside `malloc()` and `free()` and the system calls
in each loop drain them, so a sequentially consistent interleaving is what the
two threads see. Writing through a `queEnd` that was freed is
undefined behaviour: `Link` then also allows a crash. A freed node that the
allocator hands out again keeps a number of its own; see the head of the module
for why no behaviour is lost by it.

### 2.2 BmEventLoop

`desc` is the process's descriptor table, `ready` epoll's ready list, `evlist`
the events the `for` loop has not come to, `mpc` where `main()` is (in
`epoll_wait()`, in the loop, in `pthread_join()`, exited, or crashed in one of
two ways), `worker` where `serve_clients()` is. `term`,
`backlog`, `unread`, `hangup` and `reply` are the terminals and the sockets
between them and the server; `list` is the worker's list. `forgotten` and
`looked` are history variables: the descriptors whose event a `break` dropped,
and those `main()` has read from after the end of their terminal had arrived.

| Action | Code |
|---|---|
| `Connect`, `Request`, `ReadReply`, `Leave` | the terminal: `connect()`, one `write()`, one `read()`, option 0 or a kill |
| `EpollWait` | `epoll_wait()`; the listening socket is level-triggered, connections are edge-triggered |
| `Accept`, `AcceptFails` | lines 312-336; a failing `accept()` or `epoll_ctl()` leads to `pthread_join()` |
| `Joined` | `pthread_join()` returns, which it does only if the worker had no database connection, and `exit(EXIT_FAILURE)` follows |
| `ReadRequest`, `CallocFails` | lines 358-405; `break` at 389, also after two failing reads |
| `ReadRequestLost` | lines 396-404 in `BmQueue`'s loss window: the node is linked behind a freed one, which the program survives or not |
| `ReadEof` | header of 0 bytes, so `mHead.len` is 0 and the second `read()` is asked for `(size_t)-8` bytes: -1 with EFAULT, the sum is -1, `continue` |
| `ReadFails` | both reads fail, the sum is -2, `memcpy()` of 2^64 - 2 bytes |
| `WorkerConnect` | `mysql_real_connect()`, `return NULL` on failure |
| `Serve` | the worker, one request: handler, reply, removal |

The loop takes the events of `evlist` in any order. The server listens on
127.0.0.1 and a request is one `write()`, so it arrives whole and one pair of
`read()`s takes it. Three branches are left out because nothing reaches them:
standard input is not registered with epoll (line 343); TCP reports EPOLLIN
with every EPOLLHUP and EPOLLERR of these connections (line 415); the sum 0
(line 377) needs a body of 0 bytes behind an end of file. No bound on requests
is needed: a terminal has one at a time and the state is finite.

### 2.3 BmAccounts and BmMall

`ui[c]` is where a terminal's control is, `acnt[c]` the `BM_ACNT` of its
`main()`. `ntohs()` is modelled as the exchange of the two low bytes, which it
is on the hosts the program is built for, and both sides' conversions are
applied where the code applies them: the state goes out unconverted and comes
back converted. Names and passwords are short sequences of characters, because
`strncpy(acnt->name, name, strlen(name))` lays a shorter name over a longer
one (`Overlay`). `Send` may lose the request, which is `RequestQueue!Drop`; the
order of the queue is what `ImplementsQueue` establishes.

A typed name is printed into the SQL statement between quotes
(`bm_usr.c:36,104,148`), and `UserName` is compared by the column's collation.
`Collate` is what the collation keeps of a name: two names are one to a `where`
if they collate alike, while `strncmp()` compares passwords exactly. What a
quote or a backslash makes of a statement is left open: `odd` is the set of
terminals where one is typed, chosen among `MayBeOdd` at the start, and for
their requests a select may answer anything (`Outcome`), an insert may add any
of the rows of `OddInserts`, the typed row, or fail (`Inserted`). `mysql_query()`
runs one statement, so a select changes nothing and an insert only adds.

`SelectFails` covers `is_registered()` and `usr_login()`, both of which count a
failing query as "no". `OnHotlist` and `OnSignupProfile` return without a reply
when their statement fails, `OnLogin` and `OnSignupCheck` always reply. The
profile's other fields, screens and menus' wording are left out; the repeated
password is compared in its first character only (`bytes_read` is the result of
`scanf()`, `bm_client_ui.c:346`), so it never reaches the state and the model
does not keep it. `typed`, `checked` and `dropped` are history variables;
`dropped` holds the terminals whose request or reply a fault dropped, so that
`EveryTerminalReturns` can be claimed of all others, with every fault enabled.

### 2.4 InfoMngmt

`file[k]`, `scores` are the files; `pc`, `h`, `ap`, `want` belong to one running
copy (`Terminal`). An operation that loads, asks and saves is three actions:
`ReviseLoad`, `ReviseOpen` (the user's answer and `fopen(.., "w")`, which
truncates), `ReviseClose`. The records of such a file fit into one stdio
buffer, so nothing is written before `fclose()` and then everything at once;

When two copies have one file open for writing, both texts start at its
beginning. `Text` is the length of a record as it is printed (`Size`, a
constant, gives the length of a word or a number). Where the text written last
ends between two records of the other, those behind it stay (`WriteOver`,
`Left`). Where it ends inside one (`Splits`), what follows is no longer a
record: the file is then in `mixed`, and `Loads` is what `load_list()` may make
of it, the records in front and any list of `StrayLists` behind them, with
accounts of any type. A record appended behind such text is read as part of it
(`AddUsr`). Truncating the file ends this, or writing past its end (`Mixes`).
`tainted` is a history variable, the files this has ever happened to. An account
of no kind that was loaded that way logs in to no menu (`LoginDone`). The mark
a teacher with the type 14 gives goes to `scores[3]`, which is padding in front
of `next` where pointers have eight bytes (`WithMark`). `Init` is the data
the repository ships: no file is empty and every student has a mark record.
`login()` never gives up asking, so `LoginDone` is its only exit. After a wrong
password `revise_pwd()` asks "try again? y/n" with a `getchar()` that meets the
newline left in the input, so its answer is always no (`ReviseRefused`).
Searches and listings change nothing and are left out.

### 2.5 Sha1Buffer

The variables are the fields of `SHA1Context`; `Word` is 2^32 in the code. The
compression of a block is left out: its rotations and sums of 32-bit words are
beyond TLC's integers and concern one block at a time. `digest` is instead the
sequence of the blocks that `SHA1ProcessMessageBlock()` was given, so that "the
digest is right" becomes "the right blocks were compressed, in order". The code
treats all bytes of a message alike, so a byte is its position in the message;
padding bytes and the bytes of the length are what the code writes.

| Action | Code |
|---|---|
| `SHA1Reset` | `SHA1Reset()`, which leaves the block as it is |
| `SHA1Input(n)` | the entry of `SHA1Input()` with n bytes and its checks of the flags |
| `InputByte` | one turn of its loop: a byte, the length with its carry, a full block |
| `SHA1Result` | `SHA1Result()` with `SHA1PadMessage()` in it |

`length`, `taken` and `given` say where a call is and what the context was given
since its last reset.

### 2.6 WsFrames, Base64, WsServer

One module for two programs (`program`): the sources differ in what a frame
leads to and in the keyboard thread. `connected` is the C variable, `main` where
the loop is (in `read()`, about to call `shakeHand()` or `response()`), `data`
what `analyData()` returned, `thread`, `line` the keyboard thread and its
buffer, `stdio` what the C library has kept of standard input, `tty` what it has
not taken. `net` and `out` are the two directions of the connection.

| Action | Code |
|---|---|
| `Ask`, `SendFrame`, `Hangup` | the peer: its request, its frames once it accepts the answer, close or reset |
| `Type`, `EndTyping` | the user at the keyboard |
| `ReadRequest(n)` | the first `read()`, `fetchSecKey()` |
| `ShakeHand` | `shakeHand()`, `connected = 1`, `pthread_create()` in the chat server |
| `KeyOverflows` | `fetchSecKey()` with a key cut off: the copy overruns its array |
| `ReadFrame(n)` | a later `read()`, `analyData()`, in the chat server `free()` |
| `FrameOverruns` | `analyData()` of a frame longer than the buffer, or of a read that begins inside a frame |
| `Respond` | `response()` of the echo server |
| `Fgets`, `SendLine` | `select()` and `fgets()`; `response()` and `exit(1)` of the keyboard thread |

A `read()` returns any non-empty prefix of what has arrived, so requests and
frames may be cut anywhere. What travels are units: a line of the request, the
key in two halves, the two first bytes of a frame, its length, its mask, each
character. This is coarser than bytes and keeps every case the code tells
apart: a frame cut in its head, in its mask, in its text; two frames in one read.
The mask is undone by the code and by the peer in the same way and is left out.

Undefined behaviour is a choice over what may happen. `response()` of the echo
server tests a local variable that was never set (`server.c:312`), so it may
return without a word or go on, with `NULL` if `analyData()` returned that. The
payload `analyData()` returns is not terminated, so `strlen()` may count what
lies behind it: up to `MaxJunk` characters that nobody sent (`Junk`). It also
stops at a zero byte inside the payload (`Nul`, `Counted`), and what is sent
back is what it counted. A read that begins inside a frame takes whatever bytes
it holds for a frame's header: with two of them it may find a text
that nobody sent (`Garbled`), with three a length of 126 or 127 and more, for
which `memset()` meets the NULL of a failed `malloc()` or `memcpy()` leaves the
buffer (`Overruns`; `Width` and `HasBytes` count bytes in units). A cut key may
overrun its array or not, and a frame said to be longer than the buffer may be
read behind it without harm.

A peer follows RFC 6455: it sends frames only once it has an answer whose key it
accepts, and masks them. What it does not send is not modelled.

## 3. Runs

| Run | Instance | Checks |
|---|---|---|
| `queue` | 3 clients, 4 requests, all faults | type, list shape, live nodes, one writer of `queFront`, one reply owed, order, loss window, progress, refinement of `RequestQueue` |
| `queue_loses_request` | 1 client, 3 requests, no fault | finds a request that is never answered |
| `event_loop` | 3 terminals, 2 descriptors, failing `calloc()`, losing list, failing database connection | type, replies go to who asked, events match data, what ends the service, the inductive invariant, requests are read |
| `event_loop_leak` | 1 terminal, no fault | finds a descriptor that is never released |
| `mall` | 2 terminals, quotes typed at the second or at none, 2 names, 2 passwords, 5 requests, all faults | at most one message under way per terminal; logged in means registered; duplicates need an overlap or a failed look-up; every terminal gets its reply unless a fault dropped it |
| `mall_name_twice` | 2 terminals, no fault | finds a name registered twice |
| `mall_other_name` | 1 terminal, no fault | finds a name registered that nobody typed |
| `info_single` | 1 copy, 2 names, 2 passwords, 2 marks, 2 crashes | refinement of `InfoRecords`, unique names, session has an account, one column per teacher |
| `info_pair` | 2 copies, 2 names, records of two lengths, 1 crash | records in their file unless a text was misplaced there, an empty file is dead for good |
| `info_marks_lost` | 2 copies, no crash | finds a student without a mark record |
| `sha1` | calls of 1 and 3 bytes, 130 bytes, a word of 32, 1 reset | type, digest of the padded message, the inductive invariant |
| `ws` | both servers, 2 frames echoed or 3 lines typed, a text with a zero byte, length forms at 2 and 4 | type, answer first, accept key, header lengths, echoes and lines in order, reasons to end, request answered, lines taken |

### What they show

- *The unlocked list is safer than it looks.* `FrontHasOneWriter`: although both
  threads store to `queFront`, they are never both about to, because `main()`
  stores only after it has seen `NULL`, and the worker stores only while the
  list is not empty. `WorkerReadsLive`: the worker never follows a freed node.
  `DanglingOnlyLast`: `main()` may write into a freed node, but only when the
  list has run empty, so the write never reaches a list that is followed.
- *Requests are handled in order.* `OldestFirst`: every node the worker takes up
  was read after all it has handled before, so none is overtaken and none is
  handled a second time, although the list is emptied and restarted. The mutant
  that forgets the store to `queFront` handles the same node again.
- *It loses requests in exactly one way.* `LossWindow`: `main()` has found
  `queFront` set, and the worker has read the `NULL` behind the last node before
  `main()` links. The request's terminal waits forever. A single terminal is
  enough, because its reply is written before its node is removed
  (`queue_loses_request`).
- *Replies go to the right terminal because descriptors leak.*
  `RepliesToAsker`: the list keeps descriptor numbers, and a number is never
  given to a second terminal while a request waits under it, because nothing
  ever closes one. The mutant that closes at end of file, as line 378 means to,
  hands one terminal's account to another. The price is `DescriptorsReleased`:
  each terminal that has left keeps its descriptor, until `accept()` fails and
  `main()` stops serving everybody else in `pthread_join()`.
- *Edge triggering loses no request, but for the `break`.* `EdgesMatchData`: a
  request that is unread has an event reported or about to be, unless a failing
  `calloc()` dropped the rest of `evlist`. The end of a terminal has one until
  `main()` reads from its descriptor: when the end arrives together with a
  request, both share one event, the read takes the request, and the end stays
  behind without any. An event always has something behind it, so the second
  `read()` never fails on an empty socket.
- *The service ends in four ways.* `EndOfService`: a terminal that leaves its
  reply unread resets the connection, both reads fail and `memcpy()` gets a
  negative length, while one that is killed earlier or leaves by its menu does
  no such harm; the node of a request is written behind a freed one, only while
  the worker serves and has emptied its list; `accept()` fails and `main()`
  waits in `pthread_join()`; and it returns from there, to `exit()`, only if the
  worker never had a database connection.
- *The shop's login state survives its byte-order mix.* A refused name leaves 2
  in the terminal, which becomes 512 and 2 again over refused logins; it never
  becomes 1, because a terminal that is logged in does not log in again
  (`TypeOK`; the mutant that drops that early return reaches 256). `LoggedInHasAccount`: who
  is shown as logged in has a row with that password under a name the collation
  does not tell from the typed one. It is claimed of terminals where no quote or
  backslash is typed, whatever is typed at the others; of those nothing can be
  said, as the text changes the statement.
- *Sign-up is check-then-insert.* `NamesUnique` fails with two terminals and no
  fault. `DuplicateNeedsOverlap` says how else it may come about: a second row
  needs a check that looked before the first row came in, a check whose select
  failed (`checked` is 0 then), or a terminal where a quote was typed.
- *A crash of the information system costs one file at most*
  (`InfoRecords!Kill` through `ImplementsRecords`), and an account file lost
  that way is lost for good, as `login()`, `sign_in()` and `add_admin()` refuse
  an empty list (`EmptyForever`).
- *Two copies lose updates.* A teacher's save overwrites the mark record of a
  student who signed in meanwhile (`StudentsHaveMarks`); names may be given out
  twice in the same way, which is why `NamesUnique` and `SessionRecorded` are
  claimed of a single copy.
- *Two copies may mix up a file.* `RecordsInTheirFile`: an account only ever
  comes into the file of its kind, and so do the lists that are about to be
  saved there, until the text of one save ends inside a record of another
  copy's longer text. What `load_list()` reads then may be an administrator in
  `std.txt`, and the next save makes it one.
- *SHA-1's buffer is right, up to the length it can count.*
  `ResultIsPaddedMessage`: whatever calls the message came in, the blocks are
  those of the padded message, with the second block from 56 bytes on; a call
  after the result spoils the context until the next reset.
- *The accept key is wrong for one key in thirteen.* `AcceptKeyRight`:
  `computeAcceptKey()` takes `strlen()` of the 20 bytes of a digest, so a digest
  with a zero byte is cut there, and the peer refuses the answer. It is right in
  every other case in which the first read held the whole key.
- *The answer goes out first or never.* `AnswerFirst` holds although nothing in
  the code waits for it: the thread is started after `shakeHand()`. But
  `connected` becomes 1 when there was no key as well, and the chat server then
  sends frames to a peer that was never answered; the thread sends them whether or not
  anybody is still there (`TypedIsTaken`).
- *The echo server drops and never reorders.* `EchoesInOrder`: of the frames of
  one read only the first is looked at, and `response()` may return early, but
  what goes out is what `strlen()` counts of the text of a whole frame, in its
  order - as long as no read ended inside a frame. That is the text up to its
  first zero byte, or, if it has none, with what lies behind it in memory.
  The mutant that ignores the FIN bit echoes a fragment.
- *A typed line may wait in stdio.* `LinesConserved` accounts for every
  character of what holds no zero byte; a line that `fgets()` took from a pipe
  together with the one before it is not seen by `select()` and waits for the
  next input or its end.
- *The process ends in six ways.* `EndsForAReason` lists them: `exit` typed at
  the start of a line, or where `fgets()` cut a longer one; SIGPIPE at
  the second write after the peer left; `response()` of a refused frame; a frame
  longer than the buffer; a read that begins inside a frame and takes payload
  for a length; a key that was cut off.

### Findings

The five runs with a counterexample are the findings of `PROJECT.json`, each
with the line that says otherwise: the lost request, the descriptor that is
never released, the name registered twice,
the name nobody typed, the lost mark record. Three more that reading showed and
no run checks: the repeated password is compared in one character
(`bm_client_ui.c:346`); a failing insert is never reported, and the branch that
prints "注册失败" (`bm_client_ui.c:476`) is out of reach
(`bm_services.c:233`); `sign_in()` gives out one name to two copies
(`user.c:340`).

## 4. Bounds, and why they are enough

- `MaxRequests` bounds the requests clients write. Four let the list grow to
  three nodes, run empty, restart, and lose a request before or after any of
  them. In `BmMall`, a registration takes two requests, so five allow two
  overlapping registrations and a login afterwards, or a refused login, a
  registration and a second terminal's login.
- Three clients in `BmQueue`: one being served, one linked, one being linked.
  The proofs hold for every number of clients and requests.
- Three terminals and two descriptors in `BmEventLoop`: one terminal is being
  served, one is being read, and a third meets a full table, or the number of
  one that left if a number were ever given out again.
- `accept` is not among the faults of the run `event_loop`: the full table lets
  `accept()` fail there, and what `EndOfService` says of it would be lost.
- Two terminals, two names, two passwords in `BmMall`: one name laid over the
  other gives a third string, which differs from the first in a capital letter
  only. `MayBeOdd` is the second terminal, and `odd` it or none, so the first
  one meets a table that odd texts may have changed. There is no symmetry,
  because the run checks liveness.
- `MaxRecords` bounds the records of a file: two in `info_single` (the shipped
  record and one more), three in `info_marks_lost`, where two copies both append,
  and one in `info_pair`, where a copy then appends to a file that the other one
  has just truncated. There the type of an English teacher is printed in two
  digits and everything else in one character, so that one save of `tch.txt`
  may end inside a record of the other; misplaced text is read as nothing, as
  an account of no kind or as an administrator's, and `MaxLoad` bounds what is
  loaded with it to two records. Marks are all equally long there: misplaced
  text in `scores.txt` is in the proofs only. `MaxCrashes` bounds
  the kills. `Symmetry` in the information system permutes copies, names and
  passwords; its runs check safety and a step-wise refinement only.
- A word of 32 in `Sha1Buffer`: the length in bits carries from one word into
  the next every four bytes, and 128 bytes overflow both. The 130 bytes of
  `MaxBytes` reach that overflow, fill two blocks and end on every index of a
  block. `MaxResets` 1 lets a context be used again. The proofs hold for every
  word size.
- In `WsServer` a length of 2 (`Short`) takes the longer form and of 4 (`Long`)
  is refused, so there are texts on both sides of each change; a buffer of 6 units
  (`Buffer`) is overrun by the longest frame; a keyboard buffer of 4 (`LineSize`)
  cuts a long line. One text holds a `Nul`, and `MaxJunk` 1 lets one
  character nobody sent be counted behind a text; the proofs hold for every
  number. `MaxFrames` is 2 for the echo server, two frames in one read, and 1 for the chat
  server, which throws them away; `MaxLines` 3; `MaxOut` 6 ends the empty frames that
  an ended standard input keeps sending.
- The passing runs reach between 65,000 and 1.8 million distinct states and exhaust them.

`CHECK_DEADLOCK FALSE` is set in every configuration, because the systems
really stop: clients are bounded and need not type anything, a terminal may
quit, a lost request leaves its terminal in `read()`, a crash ends the process,
and `sign_in()` asks for another name forever once all are taken. Progress is
therefore stated as liveness (`PendingIsServed`, `EveryTerminalReturns`).

## 5. Fairness

- `WF_vars(Main)`, `WF_vars(Worker)` in `BmQueue`: each thread is scheduled by
  the kernel and waits for nothing the other one holds; `epoll_wait()` returns
  while a socket has unread data, the worker polls. Weak fairness of the whole
  thread is enough, as each thread has one program counter.
- `WF_vars(Main)`, `WF_vars(WorkerConnect)`, `WF_vars(Serve)` in `BmEventLoop`,
  for the same reason; the worker's two actions are never enabled together. In
  `pthread_join()` no action of `Main` is enabled but `Joined`, once the worker
  has returned.
- `Request`, `Connect` and `Leave` have no fairness: users need not type.
- `BmMall`: weak fairness of the worker and of each terminal's `ReadReply`,
  which `read()` performs once data has arrived.
- `InfoMngmt` and `Sha1Buffer` have none: nothing there has to happen.
- `WsServer`: weak fairness of the main loop (`Main`) and of the keyboard thread
  (`Keyboard`), each with one program counter; `read()` and `select()` return
  once there is something to read. Peer and user have none.

## 6. Proofs

Each inductive invariant holds on the instances of section 3. The runs `queue`,
`event_loop` and `sha1` list it; to check it on the others, add `IInv` (or
`AloneInv` and `RefinesInv`, of a single copy) to the configuration's
`INVARIANTS`. So do the further invariants of `WsDeliveryProofs`: `AnswerMade`
and `Delivered` as they stand, `Begun` and `EchoInv` with their sequences and
functions bounded by the instance. Between them the theorems state every safety
invariant, every action property and both refinements that the runs check.

`BmQueueProofs` proves, for every set of clients and every `MaxRequests`, and
for every choice of `Faults`:

| Theorem | States |
|---|---|
| `Inductive` | `Spec => []IInv` |
| `TypeCorrect`, `WorkerSafe`, `OneWriter`, `DanglingIsLast`, `RepliesOwed` | the invariants of the run `queue` |
| `AnswersInOrder` | `Spec => OldestFirst`: in order, and none a second time |
| `OnlyLossWindow` | `Spec => LossWindow` |
| `Refinement` | `Spec => ImplementsQueue` |

They assume nothing about the constants: `FaultsAssumption` documents the calls
that can fail, and no proof needs it.

The argument. None of the safety properties is inductive: that the worker
reads live nodes depends on where freed nodes lie, which depends on the shape
of the list. The invariant is `IInv == TypeOK /\ ListShape /\ WorkerPlace /\
OneReplyOwed`. `ListShape`: the list is the interval `queFront..queEnd` in
allocation order, each node linked to the next, and `queEnd` is the last node
linked even when it has been freed. `WorkerPlace`: the worker is busy with the
front, what it has freed or answered lies before the front, and the pointer it
has loaded is the successor of the front, or `NULL` that was true when it was
read. The second alternative is the loss window: everything else in the
invariant is there to show that it does no further harm. `WorkerReadsLive`,
`FrontHasOneWriter` and `DanglingOnlyLast` follow from `IInv` without the
transition relation. Each step proof has one case per action.

The refinement is proved through four effects a step can have on
`<<Accepted, Pending, served>>`: nothing, one request appended, one dropped,
the oldest answered. `OnlyLossWindow` follows from the same classification.
`AnswersInOrder` is about the front the worker takes up: `WorkerPlace` puts all
it has handled before that node.

`BmEventLoopProofs` proves, for every set of terminals, every number of
descriptors and every choice of `Faults`:

| Theorem | States |
|---|---|
| `Inductive` | `Spec => []IInv` |
| `TypeCorrect`, `RepliesReachAsker`, `NoEdgeMissed`, `EndsKnown` | the invariants of the run `event_loop` |

It assumes `FreeAssumption` (the mark of a free descriptor is no terminal).
`RepliesToAsker` is kept by `Accept` because a descriptor it hands out was free,
and no request in the list is under a free one. That an event has something
behind it (`EdgesMatchData`) is lost when a request is read while a second event
of the same connection waits, so `Sessions` says that such a second event can
only be the terminal's end, which in turn needs that a terminal has one request
in one place at a time (`OneReplyOwed`) and one connection. That an end has an
event until `main()` has read from the descriptor is kept by every action that
takes an event, as each of them either leaves the loop, drops the event by a
`break`, or looks (`Look`).

`Sha1BufferProofs` proves, for every word size and every set of lengths:

| Theorem | States |
|---|---|
| `Inductive` | `Spec => []IInv` |
| `TypeCorrect` | `TypeOK`: the index stays in the block |
| `ResultCorrect` | `ResultIsPaddedMessage` |

It assumes `WordAssumption` (a word is a positive multiple of the eight bits of
a byte) and `LengthsAssumption` (calls of one byte or more). The
invariant adds to the types `Buffered`, the blocks hashed and the bytes in the
block are the bytes given since the reset, and `Counted`, the two length words
are their number of bits as long as it fits. Both speak of a context that is
neither computed nor corrupted; `ResultCorrect` needs them at the moment of
padding only.

`BmMallProofs` proves, for every set of terminals, names and keys, every
`MaxRequests` and every choice of `Faults`:

| Theorem | States |
|---|---|
| `Inductive` | `Spec => []IInv` |
| `TypeCorrect`, `OneMessage`, `SessionsHonest` | `TypeOK`, `OneUnderWay`, `LoggedInHasAccount` |
| `OnlyOverlap` | `Spec => DuplicateNeedsOverlap` |

It assumes `TypedAssumption` (a name or a key is a string that is not empty,
which `Overlay` needs to be a string again), `OddAssumption` and
`OddInsertsAssumption` (an insert made of a quoted text adds rows of strings).
Nothing is assumed of the collation. `LoggedInHasAccount` speaks of the
menu, so `Sessions` says what a terminal may be told while it waits: a reply
that logs in a terminal that is not odd names a row of the table, a login is asked for only by who is not
logged in, and the answer to a check logs in nobody. It is here that the two
byte orders matter. `DuplicateNeedsOverlap` is about one step, an insert;
`Checks` carries what the check saw from the worker over the reply and the
profile dialogue to that insert, and says that a row under the name came later.

`InfoMngmtProofs` proves, for every set of copies, names, passwords and marks,
any lengths of the words, whatever misplaced text may be read as, and any number
of crashes:

| Theorem | States |
|---|---|
| `Inductive` | `Spec => []IInv` |
| `TypeCorrect`, `KindsKeptApart` | `TypeOK`, `RecordsInTheirFile` |
| `DeadForGood` | `Spec => EmptyForever` |
| `AloneInductive` | `Spec => []AloneInv`, of a copy that runs alone |
| `NamesOfOne`, `SessionOfOne` | `NamesUnique`, `SessionRecorded`, of a copy that runs alone |

It assumes `TeacherTypeAssumption` (the types a teacher may choose are those of
`user.h`), `MarkAssumption` (marks are integers and may be unset),
`WordAssumption` (what is typed may be read back) and `StrayAssumption` (what
misplaced text is read as are lists of records, of any type and marks).
`KindsKeptApart` speaks of the files that no text was misplaced in (`tainted`),
which is a matter of lengths and cannot be excluded for two copies. A list is
written back to the file of the type of the account in session, so
`RecordsInTheirFile` needs `InSession`: behind every menu there is an account of
some kind. `DeadForGood` needs `MixedBehindRecords`: a file with misplaced text
is never empty, so a copy that finds an empty file loads an empty list. The last three theorems
have the hypothesis `Alone(t)`, that `t` is the only copy, and do not hold
without it. `Current` then says that what the copy has loaded is what the file
still holds, and that between `fopen()` and `fclose()` of a save the file is
empty, so that no text is ever misplaced (`tainted = {}` in `AloneInv`), and the
list in memory has its names and its own account.

`InfoRecordsProofs` proves, under the hypothesis `Alone(t)` and otherwise for
the same constants:

| Theorem | States |
|---|---|
| `RefinesInductive` | `Spec => []RefinesInv` |
| `Refinement` | `Spec => ImplementsRecords` |
| `OwnCourse` | `Spec => OwnCourseOnly` |

It assumes what `InfoMngmtProofs` does. The maps of `InfoRecords` are read off
the files, or, while a save has a file truncated, off the list in memory that
is to be written (`AccountList`, `MarkList`). `RefinesInv` adds `MarksCurrent`
to `AloneInv`: the marks a copy has loaded are those of the file, and no name
that a student can still choose has marks in it. The second part is why
`newstu_to_score()` adds a name to the map of marks and never a second record
under a name that has one; it holds although a kill may lose `std.txt`, because
`sign_in()` then refuses everybody. Each step is shown to be, as seen through the maps,
one of: an account made, a password changed, a mark in the course of the
teacher in session, a file lost to a kill, or nothing. Both theorems follow
from that classification. The lemmas about a record's first position in a list
(`Index`, as `search_name()` finds it) say what appending, replacing and
re-marking a record does to a map.

`WsServerProofs` proves, for every text, line, length form, buffer and number
of lines, and both programs:

| Theorem | States |
|---|---|
| `Inductive` | `Spec => []IInv` |
| `TypeCorrect`, `AnsweredFirst`, `HeadersRight` | `TypeOK`, `AnswerFirst`, `HeadersTellLength` |
| `EndsKnown` | `Spec => EndsForAReason` |

It assumes `LengthsAssumption` (the two lengths at which the form changes are
in order), `BufferAssumption` and `LineSizeAssumption` (the buffers hold
something, and a typed line never reaches the longest form, as `packData()`
relies on), `MaxLinesAssumption`, `TextsAssumption` (texts are sequences) and
`MaxJunkAssumption`.
`EndsForAReason` is the reason for the three parts of the invariant that no run
would need. That `computeAcceptKey()` aborts only on a key that was cut needs
`Handshake`: before the answer nothing is under way but the request, so a key
is a part only when a read ended in it. That a read overruns the buffer only
behind a frame that is too long, or where a read before it ended inside a
frame, needs `Framed` and `StartsCut`: what is next to be read begins with a
frame until then, and wherever a frame begins, a whole
frame that was sent follows, and this survives every read, although a read may
end anywhere. That `exit` was typed at the start of a line needs `Typing` and
`AtLineStart`: the line in hand, the buffer of stdin and the terminal are the
rest of what was typed, and a piece ends at a newline or a full buffer.

`WsDeliveryProofs` proves, for the same constants:

| Theorem | States |
|---|---|
| `EncodesAsRfc` | `base64_encode(data) = RfcBase64(data)` for every sequence of bytes |
| `AcceptKey` | `Spec => []AcceptKeyRight` |
| `LinesKept` | `Spec => []LinesConserved` |
| `EchoesOrdered` | `Spec => []EchoesInOrder` |

It assumes `DigestsAssumption` besides (a digest is a sequence of hexadecimal
digits, as `sha1_hash()` prints it).

- *The key.* `base64_encode()` shifts three bytes into one number and takes four
  sextets of it; RFC 4648 speaks of a stream of bits. `EncodesAsRfc` writes each
  byte as its eight bits and compares the four sextets of a group, then the
  characters of the whole text, with the padding of the last group.
  `AcceptKey` follows with `AnswerMade` (the answer was made of one of the
  digests): a digest that `strlen()` cuts short is one whose encoding differs,
  since from a shorter sequence of bytes either the length or the padding
  differs (`RfcTellsLength`).
- *The lines.* `Delivered` says that what the keyboard thread has sent is what
  was typed up to the line in hand; `Typing` of `IInv` says that this line, the
  buffer of stdin and the terminal are the rest.
- *The echoes.* `net` holds units and no frame numbers, so `EchoInv` gives every
  frame ever sent a place: units are counted from the first one, frame `j`
  starts at unit `p[j]`, `r` units have been read. A frame whose place is still
  ahead lies there whole, every first byte of a frame ahead is at some place, and each echo, as well as
  the text in hand, comes from a frame before `r`, later than the ones before.
  `Begun` says that until a read ends inside a frame what is ahead begins with
  one, so that what `analyData()` returns is the text of a frame that arrived
  whole (`ArrivedWhole`), with what may lie behind it; what is sent of it is
  what `packData()` counts (`Returned`). The hypothesis `~cut` is in the property: behind such
  a read the code takes payload for a header, and nothing can be said.

What has been sent is collected by a recursive function over `out` (`Joined`),
and `strlen()` by a choice (`UpToZero`, `Counted`). No induction is used to reason about
them: that the function is defined for every length, and that a first zero
byte exists, are shown from the least element of the set of counterexamples, which
needs the well-foundedness of the naturals only.

## 7. Model-checked only

- Liveness (`PendingIsServed`, `RequestsAreRead`, `EveryTerminalReturns`,
  `RequestAnswered`, `TypedIsTaken`): the prover does not reason about fairness.
- The counterexamples.
- That `NamesUnique`, `SessionRecorded`, `ImplementsRecords` and `OwnCourseOnly`
  need a copy that runs alone is not proved; the first two fail as section 3
  says.

## 8. Plan

Done, in this order:

1. `RequestQueue`, `BmQueue`, `BmQueueProofs`: the list the two threads share.
2. `BmAccounts`, `BmMall`: terminals and handlers on top of that queue.
3. `InfoRecords`, `InfoMngmt`: the information system.
4. `BmEventLoop`, `BmEventLoopProofs`: the server's sockets.
5. `WsFrames`, `Base64`, `WsServer`: both WebSocket servers, with the length
   forms, the handshake and its key, the keyboard thread and its stdio buffer.
6. `Sha1Buffer`, `Sha1BufferProofs`: the context under any sequence of calls.
7. `BmMallProofs`, `InfoMngmtProofs`, `WsServerProofs`.
8. `InfoRecordsProofs`, `WsDeliveryProofs`.

Left: a composition of `BmEventLoop` and `BmMall` in which a descriptor
number, and not a terminal, is what a request is answered to.

## 9. Not modelled, and why

- SQL catalogue and orders, `sqltst.c`: no code of the repository changes them.
- `usr_profile_update()`, `usr_key_update()`: no caller outside a debug `main()`.
- The sizes of the buffers the statements and names are printed into: no text of
  the models is as long as they are. What a quote in a text makes of a statement
  is left open rather than modelled.
- Terminals killed while they wait are modelled in `BmEventLoop`, not in
  `BmMall`, whose terminals leave by their menu.
- Failing `epoll_create()`, `bind()`, `listen()`, and `epoll_ctl()` of the
  listening socket: the program
  exits before or instead of serving anybody.
- Contents of messages, screens, prompts, listings and searches: no property
  speaks of them.
- MySQL, epoll, stdio and the C library are external; they are modelled as far
  as the code relies on them.
- `SHA1ProcessMessageBlock()`: the compression of a block is arithmetic on
  unsigned 32-bit words, which TLC's integers do not hold. `Sha1Buffer` hands it
  the right blocks or not; a digest is then a member of a small set.
- `base64_decode()`: no caller.
- `chat/sha1.h`, `chat/base64.h`, `chat/intLib.h`: copies of the files beside
  `server.c`, modelled once.
- Listening, the port argument and a second connection of the WebSocket
  servers: `main()` accepts one peer and serves it to the end.

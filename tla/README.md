# libnavajo in TLA+

A model of libnavajo, the C++ HTTP and WebSocket server library of this
repository: TLA+ modules translated from the source, TLC runs over small
instances, and theorems checked by TLAPS. Paths below are relative to the
root of the repository (`src/WebServer.cc` is the server, `include/libnavajo`
the headers).

## The system

One `WebServer` object is a service. `startService()` creates the main thread,
which listens, accepts connections and puts them in a queue; the threads of a
pool take them and run `accept_request()` on each, which answers requests from
the repositories until the connection ends, or hands the connection to a
`WebSocket` endpoint. `stopService()` is called from a thread of the
application. A `WebSocket` keeps its clients, each with two threads of its own.

| Component | State | Operations | Interacts with | What makes it correct |
|---|---|---|---|---|
| Pool, queue, shutdown (`WebServer.cc` 1578-1675, 1796-2063) | `clientsQueue` and its mutex and condition, `exiting`, `exitedThread`, server sockets, TLS context | start, accept, push, take, handshake, free, stop | takes connections from clients, gives them to request processing and endpoints | one owner per connection, no lost wake-up, a stop that completes, nothing freed in use |
| WebSocket endpoint (`WebSocket.hh`) | list of clients and its mutex | new connection, broadcast, remove, destroy | called by pool threads, `exit()`, the application, the clients' threads | every client listed or being closed; one order of broadcasts; the mutex always given back |
| WebSocket client (`WebSocketClient.cc`) | `sendingQueue`, its mutex and condition, `closing`, `closeStarted`, socket data, two threads | receive, send, close from three sides | calls callbacks and the endpoint | one teardown, memory outlives its users, a teardown that ends |
| Frame decoder and encoder (`WebSocketClient.cc` 158-363, 485-545) | position in a frame, fragments, deflate contexts | decode, encode | inside the client's threads | a message is what the frames carry, however the bytes are cut |
| Sessions (`HttpSession.hh`) | map of sessions, each a map of attributes; life time; time of last sweep | create, find, remove, sweep, attributes | all pool threads, WebSocket clients | ids unique, live sessions kept, attributes not used after being freed |
| Request processing (`WebServer.cc` 325-436, 501-1331) | read-ahead buffer per thread and descriptor, request under construction | read lines and bodies, find a page, send | repositories, sessions, endpoints | requests of a connection do not mix, an answer per request, every loop ends |
| Authentication caches (`WebServer.cc` 164-321) | maps of logins and tokens with a time | look up, check, store | request processing | nothing accepted that a check would refuse |
| Address filter and histories (`WebServer.cc` 105-155, `IpAddress.hh`) | networks, last time of an address or a DN | match, update | main thread, TLS workers | membership as defined by the prefix |
| Multipart parser (`MPFDParser`) | status, boundary, accumulated bytes, fields, temporary files | accept a chunk | request processing | the fields do not depend on the chunks, files are nobody else's and are removed |
| Repositories (`*Repository.hh`, `LocalRepository.cc`) | maps from URL to page or file | add, remove, get | request processing, application | the first one that has a page answers, buffers and pages are freed once |
| Logging (`Log*.cc`) | singleton, outputs, unique entries | append | everything | entries whole, singleton created once |
| Compression, base64, URL decoding, socket and thread wrappers, precompiler tool, examples | none that is shared | pure functions and system calls | | |

### What is hard in it

* Three parties may close a WebSocket client at once, each ends with `delete
  this`, and each must first join threads that take the list mutex.
* Flags (`closing`, `exiting`, `exitedThread`) are written and read with and
  without the mutex of the condition variable they belong to.
* `stopService()` races start, accept, handshake, upgrade and its own pool.
* Sessions, pages and log outputs are pointers handed out from under a lock.
* Byte streams arrive cut anywhere: lines, frames, multipart boundaries.

`PROJECT.json` lists these hazards one by one, at their lines.

## Modules

| Module | Models |
|---|---|
| `WebSocketEndpoint` | the endpoint, its clients and their threads |
| `OrderedBroadcast` | what an endpoint promises to its clients, abstractly |
| `WebSocketBroadcast` | the refinement mapping from the endpoint to that promise |
| `WebSocketEndpointProofs` | theorems about the endpoint, and the proof that it keeps the promise |
| `MCWebSocketEndpoint` | its instances for TLC |
| `WebServerPool` | main thread, pool, queue, stop |
| `WebServerPoolProofs` | theorems about it |
| `MCWebServerPool` | its instances for TLC |
| `HttpSession` | the sessions, as requests and WebSocket clients use them |
| `HttpSessionProofs` | theorems about them |
| `MCHttpSession` | its instances for TLC |
| `RequestLoop` | the requests of a connection, byte for byte |
| `RequestLoopProofs` | theorems about them |
| `MCRequestLoop` | what its clients send |
| `PageAnswer` | repositories, the search for a page, compression, sending, release of buffers |
| `PageAnswerProofs` | theorems about them |
| `MCPageAnswer` | its pages and repositories |
| `MultipartParser` | `MPFD::Parser` and `MPFD::Field`, with the temporary files all requests share |
| `MCMultipartParser` | the forms its clients send |
| `MultipartParserProofs` | theorems about the temporary files and the forms |
| `FrameDecoder` | the receiving thread as a decoder of bytes, and the encoder of answers |
| `MCFrameDecoder` | the streams of frames |
| `FrameDecoderProofs` | theorems about the decoder and the answers |
| `AccessControl` | the filter of addresses, the caches of logins and tokens |
| `AccessControlProofs` | theorems about it |
| `MCAccessControl` | its networks, peers and tokens |

How they fit together: `WebServerPool` moves a connection from `accept()` to a
worker and perhaps to an endpoint; `AccessControl` decides at its two gates
(the main thread's and the end of a head); `RequestLoop` is what a worker does
with the bytes, and its steps `BodyPart` and `Page` are `MultipartParser` and
`PageAnswer` in detail; `WebSocketEndpoint` takes over after an upgrade, and its
step `RecvFrame` is `FrameDecoder` in detail. `HttpSession` is used by workers
and by endpoints.

### WebSocketEndpoint

A thread is a member of `Users` (pool threads and the application's),
`<<"recv", c>>` or `<<"send", c>>`; `pc[t]` names the place between two steps
that other threads can observe. What a thread does under a mutex with nothing
observable in between is one step. The variables `webSocketClientList`,
`closing`, `closeStarted` and `sendingQueue` are the fields of that name.
`listLock` is the holder of `webSocketClientList_mutex`; `sendingQueueMutex`
is held exactly when the sender is at `check` or `doze`, because every other
use of it is a single step. `obj` and `sock` are the life of the memory and of
the connection; using them after `freed` is what the properties are about.

* `NewConnectionRequest`, `Refuse`, `StartReceiver`, `StartSender`,
  `PushBack`: `newConnectionRequest()`, under the mutex throughout. The
  receiving thread exists before the sending one, as in
  `startWebSocketThreads()`.
* `SendBroadcast` to `BroadcastEnd`: the broadcasts; each client is a push and,
  after the queue's mutex is released, a signal.
* `RemoveAllClients`, `RemoveClientOf`, `Destruct`, then `CloseNext` and
  `CloseDone`: clients leave the list under the mutex, `closeWS()` follows
  without it.
* `CloseOnce` to `DeleteThis`: the teardown, the same code for the three
  callers; each joins the threads that are not itself. A thread that reaches a
  freed client or a gone endpoint is at `undefined`: nothing is said of it
  afterwards, and it takes no further step.
* `RecvSetup` to `RecvSignal`, `SendLock` to `SendFailed`: the two loops. A
  receiving thread is woken from `recv()` by data, by the shutdown of the
  socket, by an error or by `SO_RCVTIMEO` (`RecvTimeout`).
* `PeerShutdown`, `PeerReset`: the network. `Events` says which outside events
  an instance allows; the specification with all of them is the code's.

A callback (`onOpening`, `onMessage`, `onClosing`, ...) is a step that takes no
lock of the library. `snd_maxLatency` is a send failure that may always happen.

### OrderedBroadcast and WebSocketBroadcast

`OrderedBroadcast` knows clients that join, leave and vanish, and broadcasts
that become pending, in one step, for all members; a client receives what is
pending in order, and may lose the end of it when its connection closes, never
something in between. Pongs and close replies are `Answers`: they take a place
in the queue between two broadcasts, never put one before another, and are not
part of what is promised; `wire`, what a sender has written, records broadcasts
only. `WebSocketBroadcast` maps the endpoint to it: a client is
a member when it is listed; what is pending is the message its sender has in
hand, the broadcasts in its queue, and the broadcast whose loop has still to
visit it. So a broadcast takes effect when it takes the list mutex, although the
loop pushes client by client. `BroadcastPromise` says that every behaviour of
the endpoint is one of `OrderedBroadcast`; both endpoint safety runs check it.

### WebServerPool

`conn[c]` is where a connection is, from `away` to `freed`; `held[t]` is the
`ClientSockData` a thread works on. The main thread goes through
`threadProcessing()`, `init()` and `initPoolThreads()`, and then the loop
`Poll`, `Accept`, `Accepted`, `Push`, `Signal`, and when `exiting` is set
`Drain` and `Destroy`. A worker is `poolThreadProcessing()`; the requests on a
connection are the one step `Serve`, and the last test of `exiting` before an
upgrade is its guard (`accept_request()` tests it after each line it reads).
The TLS handshake keeps the mutex, as in the code. `StopService`, `ExitBegin`,
`CloseClient`, `ExitEnd`, `FreeCtx` are `stopService()` and `exit()`, called
once and by no thread of the service. `Events` again says which outside events
occur; `earlyStop` and `stopInInit` allow a stop before the service is ready.

### HttpSession

Every function of `HttpSession` locks `sessions_mutex` once and is one step;
`create()`, `find()` and `updateExpiration()` consist of several and are split
there. `sessions[id]` maps the expiration and one attribute of the application
to blocks of memory; `heap` is the life of a block and `due` the time stored in
it. `ptr[t]` is the pointer `getAttribute()` has returned to
`updateExpiration()` or `noExpiration()`, which write through it without the
mutex. A thread answers requests (`StartRequest` with a cookie a client may
have, `Find`, calls of the handler, `EndRequest`), creates sessions, or is a
WebSocket client that suspends and restores an expiration. Ids are drawn from
`Ids` without any promise, as the generator starts anew with the same seed in
each call of the same second. `owed[id]` is a history variable: until when the
last renewal that reached the session's own block keeps it.

### RequestLoop

`accept_request()` on a stream of bytes, without TLS. `net[c]` is what the
client of connection `c` has sent and no `recv()` returned, `httpRecvBuffers`
the thread-local map from descriptors to bytes read ahead, `read[w]` the bytes
that worker `w` has taken for the request it works on. A byte stands for a
piece of a request and knows which: that is how an answer is compared with its
request (`answered`). Each `recv()` returns as many bytes as it likes or fails.
`ReadLine`, `Receive` and `ReceiveFails` are the three ways through
`recvLine()`; `BodyAhead` and `BodyReceive` fill a call of `recvBytes()`, which
ends in `BodyPart` or `BodyFails`. `Understood` is what a worker makes of a
head whose lines were cut: any header may be missing. `Page` stands for
repositories, compression and sending. Descriptors are given again once
closed (`Take`); `Free` is `FREE_RETURN_TRUE`; `Upgrade` leaves the buffer as
it is. A connection is in `broken` once the code itself has lost its framing:
a line was cut (longer than the buffer, or by a failed `recv()`), a body was
left unread (`/plaintext` with a body, an exception of the multipart parser, no
memory), or it inherited bytes of an earlier user of the descriptor. `Framing`
is about the others; `ConnectionEnds` is about all.

### PageAnswer

From a complete request to the end of its answer. The loop over
`webRepositories` is `DynamicLookup` and `RunPage`, `LocalOpen` and `LocalRead`
or `LocalMiss`, and `PrecompiledLookup`; each ends in `Returned`, which advances
the iterator, stops, or starts again after a forward. Between the two halves of
a lookup the application may add and remove pages, change a file, reload the
directory. `StartAnswer` chooses between the content as it is, zipped and
unzipped, and counts the request; `SendHeader`, `SendBody`, `SendFails` are
`httpSend2()` and `httpSend()`; `EndAnswer` frees the buffers. `buffers[w]` is a
history of what was allocated for a request and how often it was freed, `wire`
of what was sent. `excuse[w]` says that an earlier repository may rightly have
been passed over: the application changed one, a file could not be read, a page
refused. A page that was deleted under a worker ends that worker's history
(`crashed`): nothing is said of what the code does then.

`PageAssumption` excludes what the code does not cope with: pages that set a
return code or the zipped flag before they forward or refuse, and cycles of
forwards. A page says zipped only of what it sets, and one that refuses does not
also forward (the url would be followed after a later page answered).

### MultipartParser

Each parser serves one request; `AcceptSomeData` takes any number of bytes up to
`ChunkMax`, and the states of `_ProcessData()` are its three statuses. A byte is
a string, and the text of a part's headers is one byte that `HeaderOf` explains,
so that a chunk may end anywhere in a boundary or a line end, and before or
after the headers. Temporary files are shared: `LockFileCreation`, `TestName`
and `OpenFile` choose a name under `fileCreation_mutex`, `DeleteField` and
`RemoveFile` remove a file without it. `object[p]` keeps every `Field` that was
made, `Fields[p]` is the map, which forgets a field when another has its name.
`Bytes` is all that a body or a file consists of; numbers of files end at
`TempMax`, which `MultipartAssumption` makes larger than all the files there can
be, so that the guard of `TestName` never stops a parser.

### FrameDecoder

The client's list of frames becomes bytes (`Wire`), `Receive` takes some of
them, and the other actions are the cases of the receiving thread's `switch`.
Lengths and masks are computed on octets: `Two` and `Eight` are the lengths in
network order, `Value` reads them octet by octet and stops at `Huge`, one more
than `malloc()` grants, so that no bound of the host's integers is in the model.
`StepOK`, a part of `TypeOK`, says what each step knows of the frame. The
application answers every message with itself. `MeaningOf` is RFC 6455 read
frame by frame, without bytes and steps: `After` is what one frame adds to the
callbacks, to the answers and to a pending message (`Illegal` frames end the
connection, `Taken` is what the others do). `Delivered`, `AnswersWellFormed` and
`FrameByFrame` compare the decoder with it, up to the first frame that the code
misreads (`Misread`). `FrameAssumption` says what a client's frames are: octets,
a key of four if there is one, a length that fits its form and, since the
frames are those of a program, no content longer than `MallocMax`.

### AccessControl

An address is a function from its bits, and a network text is an address with
nothing, a length or a dotted mask; `FromString`, `Compared` and `IsInside`
are `IpNetwork::fromString()` and `isInside()`. `NamesNetwork` and `Prefix`
say the same from the text alone, and `PeersOfNetworks` compares the two.
Credentials are model values: `Listed` are the texts that decode to an entry
of `authLoginPwdList`, `Signed`, `Expiration` and `InScope` are what the
application's callbacks say. `IsUserAllowed` holds its mutex from the clock to
the end and is one step; `isTokenAllowed()` reads the clock first
(`ReadClock`) and then takes its mutex (`IsTokenAllowed`). `grounds[w]` is a
history of what a connection was admitted for. A head begins with its request
line.

## Runs

| Run | Instance | Shows |
|---|---|---|
| `endpoint_safety` | 1 client, 2 users, 2 broadcasts, every event | type correctness; no socket freed during I/O; one teardown; no client forgotten; the endpoint implements `OrderedBroadcast` |
| `endpoint_two_clients` | 2 clients, 2 users, 2 broadcasts, removals | the same for two clients and concurrent broadcasts; no thread on a deleted client |
| `endpoint_liveness` | 1 client, 2 users, 1 broadcast, fair | the list mutex is given back; teardowns end |
| `endpoint_owner_close` | 1 client, 1 user | `closeWS()` may run on a deleted client |
| `endpoint_lost_wakeup` | 1 client, 1 user, fair | `closeRecv()` may wait for the sender for ever |
| `pool` | 2 workers, 2 connections, TLS, every event, fair | one owner; TLS context; join before the mutex is destroyed; queued connections are taken; a stop completes |
| `session_safety` | 2 threads, 2 ids, 3 blocks, 2 times | attributes are owned memory; a sweep spares renewed sessions; removed sessions stay removed |
| `request_safety` | 1 worker, 1 descriptor, 2 connections of 3 and 2 requests, fair | answers belong to requests; read-ahead bytes to the connection served; connections end |
| `answer` | 1 worker, 3 repositories, 3 pages, 2 urls, fair | the first repository that has a page answers; header and body agree; answers do not run into each other; buffers and pages are freed once; every request ends |
| `multipart` | 2 parsers, 5 forms against 1, chunks of up to 3 bytes, fair | fields are what was sent; files are distinct and are removed; parsers end |
| `frames` | 10 streams, `recv()` of every size, fair | callbacks and answers are what RFC 6455 makes of the frames; messages arrive |
| `access` | 2 workers, 2 logins, 3 tokens, 3 times, 6 peers, 6 networks | admitted peers are of a network; answered connections would have passed the checks |

The runs `endpoint_owner_close` and `endpoint_lost_wakeup` end in a
counterexample: the property is what a comment says, and the code does
otherwise (`PROJECT.json`, findings). `TypeOK` is checked where a run names
it; the types of `PageAnswer`, `MultipartParser` and `FrameDecoder` are proved;
in the other modules it is the table of types a reader needs.

**Bounds.** One client has three parties that may close it (itself twice, and
an owner), and two users make a second owner or a broadcaster: all races on a
client need no more. Two clients and two broadcasts are what an order can be
wrong about. `QueueBound` keeps a receiving thread from answering pings
without end; each broadcast is sent once. In the pool, two workers race for a
connection while another is in its handshake, and either may be the last to
leave. For sessions, two threads race on one id while the other id gives
creation another outcome; three blocks are two expirations, one replaced or
leaked, and an attribute; in `session_safety` a session lives one unit of time
and a sweep may happen in each, so that sessions expire, are renewed and are
swept within two. Workers of the request loop share nothing but descriptors,
as their buffers are thread-local, so one worker and one descriptor that two
connections use in turn are enough; a `recv()` returns up to 4 bytes and a
line is at most 3, so that a `recv()` holds the end of one request and the
start of the next, and a line is cut; a body of 3 takes two calls of
`recvBytes()`; two requests use up a connection of three. Workers that answer
share the repositories with the application only, so one of them against an
application that changes what it likes is enough; contents of up to 2 pieces
are sent in one or two calls, `CompressMin` 1 makes some of them worth
zipping, and one change of a file between two reads is what a read can meet. A
multipart chunk of 3 is shorter than a boundary and its line end (5), so that
every cut of one occurs, and the collector of 9 is shorter than one of the
contents; the forms have contents that begin like a boundary, none, a name
used twice, headers that are refused; the second parser competes for files,
and one stale file may be there. The streams of frames have every form of
length at its limits, fragments with a control frame between them, protocol
errors, and each frame that is misread; `BUFSIZE` 50 makes contents need up to
three buffers; contents of 64 KiB and more, whose length the answers give in
eight octets, are left to the proof. Addresses have 3 bits, or 4 in two bytes, which gives each mask
its first, inner and last bit; the tokens expire at different times, one is
out of scope and one unsigned, and a cached login grows old within the bound
`MaxTime`. Clients, users, broadcasts, workers, threads, session ids and
blocks are symmetric in the safety runs; liveness runs use no symmetry.

`CHECK_DEADLOCK FALSE` is set in every run but `access`: an endpoint whose
clients are all closed and a service that has stopped do nothing more, a
session instance ends when its blocks are used up, and so do bodies, streams
and changes.

**Fairness.** A thread that can run does run: weak fairness of each thread's
steps. Mutexes are granted to a thread that asks again and again while others
take and release them: strong fairness of exactly the steps that take one in
competition (`BroadcastPush`, `RemoveClient`, `RecvAnswer`; `Push`,
`WorkerLock`, `WorkerCount`, `ExitBegin`). Reads, writes and handshakes end,
since the sockets have timeouts. Peers, calls of the application and spurious
wake-ups are never owed. `endpoint_liveness` sets no `SO_RCVTIMEO`, so that a
blocked `recv()` ends only by the teardown's own shutdown of the socket. In
`request_safety` a `recv()` comes back, with bytes or with the time-out of
`setSocketTimeoutInSecond()` (30 s by default; 0 would switch it off). In
`multipart` every parser's step is strongly fair, since `fileCreation_mutex`
is taken and given back by others; in `answer` and `frames` a worker, or the
receiving thread, that can go on does (pages return, bytes that were sent
arrive), and in `answer` nothing is owed by the application.

## Proofs

Every theorem is of the form `Spec => property`, for every value of the
constants that the module's named assumption allows, and is proved from an
inductive invariant: `Init => IInv`, `IInv /\ [Next]_vars => IInv'` with a lemma
per group of actions, and the property from `IInv`. `PROJECT.json` lists them.

### The endpoint

`WebSocketEndpointProofs` proves five properties of `WebSocketEndpoint!Spec`
for every number of clients, users and messages, from `EndpointAssumption`
alone (threads are distinct from each other and from the null values):

* `TypeCorrect`: `[]TypeOK`;
* `LiveClient`: `[]LiveWhileUsed`, no worker, listed client or broadcast on a
  deleted object;
* `OneTeardown`: `[]TeardownOnce`;
* `SocketOutlivesIO`: `[]SockLiveDuringIO`;
* `NoneForgotten`: `[]NoOrphan`, a client is listed, being constructed, or
  somebody is closing it.

None of the last four is inductive. `IInv` adds, each part a definition of
its own: `LockInv` (who is inside a critical section holds the list mutex, so
two are never inside), `BirthInv` (how far a client's threads have come
follows from its constructor), `AliveInv` (listed, visited and running clients
exist), `ListInv` (a client in its teardown past `removeClient()` is neither
listed nor in the hands of a broadcast), `TeardownInv` (a thread in a teardown
has set `closeStarted`, and there is one), `JoinInv` (past a join the joined
thread has exited) and `SockInv` (the socket is freed only after the joins).
The argument: `closeOnce()` lets one thread through; past `removeClient()` no
broadcast can find the client, and one that had found it held the mutex, so it
is over; past the joins no worker runs; only then are socket and client freed.
The lemma `Invariance` has a step per action. For `NoneForgotten`,
`StartedInv` says that a set `closeStarted` is the work of a thread that is in
the teardown still or has deleted the client, and `OrphanInv` that whoever took
a client from the list is on the way to its teardown; both excuse a state in
which a thread has already used what was freed, as `NoOrphan` does. The owner's `closeWS()`
is left out of `LiveWhileUsed` on purpose: `endpoint_owner_close` shows why.

The second part of the module proves the refinement, `EndpointKeepsPromise`:
`Spec => BroadcastPromise`, from the invariant above and `ViewInv`: `closing` is
set before the threads of a client end, a client that is not born has an empty
queue, and a sender has a message in hand only while it sends it. Each action
is shown to be a step of `OrderedBroadcast` or a stutter, in one lemma per group
(`StepCalls`, `StepConstruct`, `StepLoop`, `StepClose`, `StepReceiver`,
`StepSender`), by way of what is pending for one client: `PendingParts` cuts it
into the message in hand, the queue, and the broadcast still to come. The two
interesting cases are `SendBroadcast`, where the message becomes pending for all
members at once, and a push, which moves it from the third part to the second
and so changes nothing a client can observe; `ListInv` and the list mutex make
sure that no member joins or leaves between the two.

### Pool, sessions, access

`WebServerPoolProofs`, from `PoolAssumption`: `PoolTypeCorrect`,
`SingleOwner` (`OneOwner`), `HandshakeHasContext` (`CtxLiveInHandshake`) and
`MutexOutlivesPool` (`PoolJoined`). `IInv` adds `MutexInv` (the holder of
`clientsQueue_mutex` is who is in a section of it), `HeldInv` (a thread has a
connection where its code uses one), `CloseInv`, `ExitInv` and `CtxInv` (a
worker in a handshake holds the mutex that `exit()` needs, and `exiting` was
not set when it took it, so `exit()` has not freed the context), and `CountInv`:
`exitedThread` is at most the number of workers that have left. That it may be
less is `ResetExited` in `initPoolThreads()`; when it equals the size of the
pool, by `FiniteSetTheorems` all workers have left.

`HttpSessionProofs`, from `SessionAssumption` (`Null` is no session):
`SessionTypeCorrect`, `OwnedAttributes` (`AttributesOwned`), `RenewedSpared`
(`SweepSparesRenewed`) and `RemovedStaysRemoved` (`NoResurrection`), the last two
about steps. `PtrInv` is the heart: a thread that is about to write through a
pointer from `getAttribute()` has a block that was once in use, and if it still
belongs to a session it is that session's expiration, so a late write can
touch freed memory, but never an attribute of the application nor another
session; with `OwedInv`, what a renewal promised is what the block holds.

`AccessControlProofs`, for all lists, tokens, urls, clocks and numbers of
workers, from `AccessAssumption`: `AccessTypeCorrect`, `AnswersJustified`
(`AnsweredJustified`) and `NetworksAdmit` (`PeersOfNetworks`).
`AnsweredJustified` looks at what was granted and is not inductive: a cache
that held a bad entry would grant it later. `CacheInv` adds that the caches hold
nothing but listed logins, and tokens with the expiration, signature and scope
they were checked for; `WorkerInv` that a worker between the clock and the mutex
has a token, that `authOK` is set for a reason, and that only with it a head
leads to a page. A cached login was listed, so believing the cache and asking
the list agree; a cached token is compared with the caller's clock, so an
expiration is never older than the clock it was accepted at. `NetworksAdmit`
rests on lemmas about the operators: `PrefixLength` and `DottedMask` find the
length that a network text has, `NetworkOfText` that `IsInside()` compares
exactly the bits the text names, or fewer (the IPv6 mask).

### Answers

`PageAnswerProofs`, from `PageAssumption`, for any list of repositories, pages
and number of workers: `AnswerTypeCorrect`, `FirstAnswers` (`FirstRepository`),
`HeaderDescribesBody` (`HeaderMatchesBody`), `AnswersFollow` (`AnswersInTurn`),
`FreedOnce` (`BuffersFreed`) and `DeletedOnce` (`PagesDeletedOnce`). `IInv` has
a part for each phase of a worker: `SearchInv` (the search carries at most a
content of an earlier page, allocated, not freed and not zipped), `FoundInv`
(the response is the last buffer, of the program only if it is precompiled),
`ReadyInv` (what is sent is not freed yet, and releasing what the answer owns
frees each buffer to one), `BufferInv`, `WireInv` (the client has as much of
the answer as the header promised, less what is left), `HeaderInv` and
`CountInv`; `IndexInv` says that a page in the index lives and that it is at its
own url, which is why no two entries delete the same page. `WorkerKept` is the
frame lemma: a step of one worker, or of the application, keeps what the
invariant says of the others.

### Requests

`RequestLoopProofs`, from `RequestAssumption`, for any number of workers,
connections and descriptors, any scripts of requests and any sizes of the
buffers: `TypesKept` (the types; `recvBytes()` never copies more than `BUFSIZE`,
and the requests left to a connection are never negative), `RequestsFramed`
(`Framing`) and `BuffersOwned` (`ReadAheadOwned`). The assumption says that
nothing but the end of its request follows a handshake, and that a line buffer
holds two bytes at least. The parts of `IInv`:

* `FrameInv`: while the framing of a connection is not lost, what was read of
  the request, what was read ahead, and what no `recv()` returned are three
  consecutive slices of what the client sends from that request on (`Slices`);
  and what was read is whole lines, the head, or the head and as much of the
  body as was counted (`ReadSoFar`). `NextLine` is the heart: in a head, the
  first end of a line after whole lines ends the next line, and a line of
  nothing else ends the head. So `accept_request()` leaves the loop over lines
  exactly at the end of a head, and the loop over parts at the end of the body.
* `OrderInv` and `NetInv`: the bytes of a client come in the order of its
  requests, and after the request line of a handshake come only bytes of that
  handshake. This holds of connections that have lost their framing too, and it
  is what makes `BufferInv` inductive: the bytes that `Upgrade` leaves behind
  are of a handshake, and of a connection that is in `broken`, since one that is
  not has read its whole last request and has nothing ahead.
* `BufferInv`: every byte read ahead is of the connection served, on its
  descriptor, or left by such an upgrade. `Free` clears the first kind, and a
  connection that `Take` finds has never been in `broken`, so its bytes are
  never of the second.
* `CountInv`: a call of `recvBytes()` that has copied something, and not all it
  was asked for, has used up the bytes read ahead; that is why the code may go
  on with `recv()`.
* `LinkInv`: one worker for a connection, one connection for a descriptor.

A step of a worker that keeps its connection is reduced by `OthersKept` to what
it does to that connection (`Kept`), by `TakenKeeps`, `ArrivedKeeps` and
`CopiedKeeps` for the three ways that bytes move; the steps that give or take a
connection by `HandedOver`. `StreamFrom` is recursive: `StreamDefined` shows that
it is what its definition says and `StreamTyped` what it holds, with
`Induction`, over sets of numbers, which is a consequence of `Smallest`.

### Forms

`MultipartParserProofs`, from `MultipartAssumption`, for any forms, chunks and
number of requests: `FormTypeCorrect` (the types, and that the mutex is held
exactly where a name is chosen), `FilesDistinct`
(`TempFilesDistinct`) and `NoFileLeft` (`FilesRemoved`). The assumption says what
bodies and headers are made of, and that the value of a name that is not there
is no content. The argument is about three moments at which a file has no field
that is open:

* `NameInv`: between `testfile` and `file.open()` the name is still free. Only
  the holder of `fileCreation_mutex` creates a file, which the last conjunct of
  `TypeOK` on the mutex says, and removing one makes no name less free.
* `RemoveInv`: between `close()` and `remove()` in `~Field()`, without the mutex,
  the file still exists, so no other parser can have chosen its name, and no
  other parser is about to remove it. Hence `remove()` takes nobody's file.
* `OpenInv`: the file of an open field exists, so that no search ends at it.

`MapInv` says what the map has forgotten: until `~Parser()`, a field is in the
map or a later one has its name; from then on, this holds of the open ones. A
parser that is gone has an empty map, so what is still open was replaced, and
that is the exception that `FilesRemoved` names. `PhaseInv` is what types need: a
parser that processes a content, or chooses a name, has a field to fill. What a
search of the collector finds is typed by `Smallest`, that a set of numbers has
a smallest one, which the well-foundedness of `<` gives.

The forms themselves need `ClientAssumption` too: a boundary has no line end in
it, does not occur in a content, and no headers of a part come after the last
boundary. A client that breaks it sends another form than it means. From it
follow `FormsFaithful` (`FieldsFaithful`) and `FormsComplete` (`FormComplete`),
for any contents, chunks and limit of the collector, and whatever other requests
do in between. The invariant `PlaceInv` says where in the body a parser is, as
an equation between what it has still to process (`Left`, the collector and the
bytes not yet accepted) and the body from the next part on (`NextPart`):

* `BeforeBoundary`: a line end, if there was a part before, and the next part;
  every field holds its content.
* `BeforeHeaders`: the next part without its boundary.
* `InContent`: what the last field has, and the beginning of `Left`, are the
  content of its part; then come a line end and the next part. That the rest
  of the content is counted from what the *file* has is where `OpenInv` and
  `TempFilesDistinct` come in: no other parser writes or removes it.
* `HeadersRefused`: where the parser throws, the field is new and empty.
* `Exhausted` and `NamedLast`, for `FormComplete`: a parser that waits, or is at
  its page, has no boundary and no empty line in its collector; and the map has
  of each name the last field.

A step changes `Left` only at its beginning, so each lemma cuts a sequence at
its front (`Beyond`) and cancels there. What makes the cuts right are
`StartFound`, `HeadersFound` and `ContentFound`: the *first* boundary or empty
line that is found in the collector is the one that the form has there, which
is not found if the collector ends within it. They rest on `FirstAfter`, that
a pattern is found first behind a text which does not contain it, if it has
nowhere the last element of that text; so a content may end in the beginning of a
boundary, and the line end between the two keeps them apart.
`BodyFrom` is recursive; `BodyDefined` shows that it is what its definition
says, as `StreamDefined` does above.

### Frames

`FrameDecoderProofs`, from `FrameAssumption` alone: for any frames, any size of
the buffer from 8, any cuts of the stream and any answers of the callbacks,
`FrameTypes` (`TypeOK`), `FramesDelivered` (`Delivered`), `AnswersDecode`
(`AnswersWellFormed`) and `FramesOneByOne` (`FrameByFrame`) follow from
`FramePlace`, the invariance of `IInv`. Its part `PlaceInv` says where in the
stream the decoder is. Either it is `Lost`: a frame was reached that it misreads,
what was promised until then has been called and answered, and histories only
grow. Or it is `Standing` after some k frames, none of them misread, which means
two things: calls and answers are `Meaning(k)`; and, until the thread has ended,
the pending message is that of `Meaning(k)` and `Rest`, the bytes in the buffer
and in the network, is

* `AtFirstByte`: the frames from the next on (`WireFrom`);
* `AtLength`, `AtOctets`, `AtMask`: the next frame without its first octet,
  without its second too, without its length, and then the frames after it; the
  decoder knows its opcode, then how the length is given, then the length;
* `AtContent`: what is still masked of the content and the frames after it, while
  `msgContent` is the beginning of the content as the client has it.

`Receive` leaves `Rest` as it is; each other step takes its buffer from the
front of `Rest` (`ReadAll`). What makes the steps right are facts about octets:
a bit of an octet is what its sum says (`SumOfBits`), so that masking twice
leaves an octet alone (`XorTwice`), also in pieces, with the key turned by what
was read before (`Masked` from `Len(msgContent)`); the second octet is the mask bit
and a number below 128 (`SecondByteRead`); the value of the octets of a length
is the length (`OctetsValue`, with `Saturating` for each octet), but for the
16-bit 127, which is `Misread`. When a frame is complete, the action that is
enabled is the one that `After` says (the lemmas after `AfterIs`, one for each
case of `Taken`), and `AnswerIs` shows for each form of a length that
`sendMessage()` writes the frame of its answer. `WireFrom`, `MeaningOf` and `Value`
are recursive functions; `WireDefined`, `MeaningDefined` and `ValueDefined` show
that they are what their definitions say, and `Induction` (over a set of numbers,
by `Smallest`) takes the place of an induction theorem.

### Only model-checked

Everything temporal: that threads, teardowns, requests, parsers and messages
come to their end under fairness; and the two runs that end in a counterexample.
Fairness and `ENABLED` are out of the prover's reach. Every invariant, action
property and refinement that a passing run checks is also proved.

## What the code does not promise

Met while modelling. Two of these are runs; the others follow from the same
modules, and properties that would forbid them do not hold.

Endpoints and pool:

* `closeWS()` on a client that deleted itself (`WebSocket.hh:247`), run.
* Lost wake-up of the sender (`WebSocketClient.cc:405`), run.
* `recv()` failures without `closeRecv()` (`WebSocketClient.cc:144`), although
  `WebSocketClient.hh:53` says the receiving thread does it: the client stays
  listed until a send fails.
* A stop lost in `threadProcessing()` (`WebServer.cc:1949`): a `stopService()`
  that comes before the new thread resets `exiting` is forgotten, although
  `README.md:304` says it stops the service; a worker that
  leaves before `initPoolThreads()` resets `exitedThread` (`:1926`) keeps the
  main thread in its last loop for ever.
* The automatic close reply is queued and then dropped by `closing`
  (`WebSocketClient.cc:330`), although `WebSocket.hh:106` announces it.
* `~WebSocket()` does not wait for a client that is closing itself.
* `stopService()` returns before its threads have ended, while `README.md:309`
  says it does not; queued connections are dropped, while `README.md:198` says
  they are processed; an upgrade in progress lists a client after `exit()` has
  closed the others.

Sessions:

* A session whose expiration is suspended while a WebSocket client is open is
  the first to be swept (`HttpSession.hh:125` takes 0 for expired, although
  `:85` speaks of expired sessions); with two threads, so is one
  that `create()` has inserted and not yet given its expiration.
* `updateExpiration()` may write to a block that was freed since, and two
  `create()` in the same second may draw the same id, the second insertion
  losing the first session.

Requests and answers:

* An upgrade returns without `clearRecvBuffer()` (`WebServer.cc:1026`), though
  the comment at `:428` says it must be called before a descriptor is closed
  or used again: what was read past the end of the handshake never reaches the
  `WebSocket`, and the next connection with that worker and descriptor reads
  it. `ReadAheadOwned` has this as its only exception.
* A line that is cut, or a `recv()` that times out inside a line, is taken for
  a whole line (`:352`, `:364`), and the `\r\n` that follows for the end of
  the head; a body nobody reads (`/plaintext`, `:885`; a multipart exception,
  `:963`) is parsed as the next request.
* The response of a request survives a forward or a refusal, with the content,
  return code and zipped flag of the first page; the content is then never
  freed, and the mime type stays that of the first url. A cycle of forwards
  does not end (`:1055`).
* `getFile()` runs a page after it has released the mutex
  (`DynamicRepository.hh:149`), so `remove()` may delete a running page;
  `add()` of an owned page at its own url deletes it.
* `LocalRepository::getFile()` takes the length first and reads afterwards: a
  file that shrinks meanwhile is reported as not there.
* A cached login leaves the name that pages are shown as it was
  (`WebServer.cc:179`), and the scope of a token is checked for the first url
  it is used with and not while it is cached (`:263`).
* An IPv6 mask is built from `1 << 8` downwards in 8 bits
  (`IpAddress.hh:370`): the last bit of each byte is never compared, and
  neither is the last of the prefix; a length is taken modulo 256 (`:459`).

Forms:

* `mutipartMaxCollectedDataLength` is 20 KiB by default and a chunk up to 32
  KiB, so that larger uploads are refused, although `WebServer.hh:247` says
  files go to disk without buffering; with a larger limit they do.
* A boundary in quotes is never found. A field whose name is used again is
  forgotten with its temporary file (`Parser.cc:197`). A name that `testfile`
  cannot open is taken for free, whatever the reason (`Field.cc:89`).

Frames:

* An empty masked frame skips its mask key and a 16-bit length of 127 is read
  as a 64-bit one (`WebSocketClient.cc:191`), although `README.md:22` names
  RFC 6455; a content there is no memory for is never complete.

## Plan

Done: the inventory; all modules above with their runs; the proofs of the
endpoint with its refinement, the pool, the sessions, access control, the
requests, the answers, the forms with their temporary files, and the frames.

Next, in this order:

1. An abstract client life cycle (absent, open, closing, gone) that
   `WebSocketEndpoint` implements and that the pool's `websocket` connections
   instantiate, so that `exit()` can be checked against real teardowns.
2. The TLS path of the request loop; deflate in the frames; `LogRecorder`.

## Not modelled

Logging and its outputs, OpenSSL, zlib and the precompiler tool, which are I/O
or other people's code; base64 and URL decoding, pure functions of one string;
the wrappers of sockets and threads, which are modelled where they are called;
wording, header values and MIME types; the values in messages; fields of a form
kept in memory, which `WebServer` never asks for. Histories of addresses and of
certificates are logs.

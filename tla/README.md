# A verification development for ahttpd

ahttpd is a small asynchronous HTTP library in C++ on top of boost::asio: a
server with a pool of handler threads, a client, TLS, a tunnel between two
connections, FastCGI and SMTP clients.  This directory holds TLA+ models of it,
TLC configurations that check them on small instances, and TLAPS proofs for
every value of the constants.  Paths below are relative to the repository.

## 1. The system

| Component | State it keeps | Operations | Talks to |
|---|---|---|---|
| Connection (`inc/connection.hh`, `src/connection.cc`) | two queues of (closure, started), a mutex each; a read buffer | asyncRead, asyncReadUntil, asyncWrite; enqueue / do / dequeue | asio, every other component |
| TcpConnection, SslConnection (`src/TcpConnection.cc`, `inc/TcpConnection.hh`, `src/SslConnection.cc`) | socket, resolver, `stoped_` under a mutex | asyncConnect (resolve, try endpoints), asyncHandshake, stop | asio, Connection |
| ThreadPool (`inc/ThreadPool.hh`, `src/ThreadPool.cc`) | queue of tasks, mutex, condition variable, `stopped` | enqueue, wait_to_enqueue, size, destructor | Server (deliverRequest), user tasks |
| Package, Request, Response (`src/package.cc`, `src/request.cc`, `src/response.cc`) | headers, body stream, `chunked_`, `send_started_`, a connection pointer | flushPackage, flush, destructors that write | Connection (asyncWrite) |
| Parser (`src/parser.cc`) | none of its own: closures on the read queue, the package being filled | parseRequest, parseResponse | Connection (asyncRead...) |
| Server (`src/server.cc`, `inc/server.hh`) | acceptors, the connection being accepted, the pool | accept, handleRequest, deliverRequest, run, stop | Parser, ThreadPool, RequestHandler |
| RequestHandler (`src/RequestHandler.cc`) | map path -> handlers | addSubHandler, handleRequest, deliverRequest | isPathMatch (`src/utils.cc`) |
| Client (`src/client.cc`) | cookie jar under a mutex, a flag | request, add and store cookies, enable, disable, clear | Connection, Parser, Cookies |
| Tunnel (`src/net.cc`) | none of its own | tunnel, TcpConnect, SslConnect | two Connections |
| FastCGI (`src/fcgi.cc`) | a response under construction | fcgi | Connection |
| Mail (`src/mail.cc`, `inc/mail.hh`) | account, a chain of steps, a MailPkg in the application's hands | pass, send, flush, the package's destructor | Connection, Base64 |
| Utilities (`src/utils.cc`, `inc/utils.hh`, `inc/cookie.hh`, `inc/base64.hh`) | none | path, domain and address match, URL and Base64 coding, dates, cookie headers, tokens | all |

What is hard in it: completion handlers run on any thread of
`io_service::run()`, request handlers on the pool's threads, and both enqueue
operations on the same connections; objects write themselves to a connection
from their destructors; the parser keeps its state in closures queued on the
connection; `stop()` may come at any moment.

Not in the table because they have no behaviour to model: MIME types (a
constant table), exceptions and log, AsyncWrapper (its only use is commented
out, `src/mail.cc:134`), type aliases, examples and tests.

What would make each component wrong, and so what its properties say:

* **Connection** - two operations of one direction on the socket at once, an
  operation skipped, popped twice, started out of order or never started, a
  queue that keeps a stopped connection alive.
* **ThreadPool** - a lost wake-up, a task run twice or out of order, a
  destructor that hangs or returns before the tasks that its tasks enqueued.
* **Package and Parser** - what one writes the other must read: a message that
  seems to end early, a byte lost or sent twice, a body that belongs to the next
  message, a package delivered after its failure was reported.
* **Server** - a client never accepted, a connection handed on before its
  handshake or twice, answers mixed up, a connection closed under an answer or
  never closed.
* **RequestHandler** - the wrong handler.
* **Client** - a handler called twice or with a connection that is not one, a
  request that never leaves, a cookie that was replaced or belongs elsewhere.
* **Tunnel** - bytes lost, repeated or reordered, one half outliving the other.
* **FastCGI** - a record boundary lost, a failure answered as a success, a
  response nobody sends.
* **Mail** - a result told twice or never, `true` for a mail the server did not
  take, a message that leaves before it may, credentials that decode to others.
* **Utilities** - a conversion that the other end does not undo: a path that
  splits elsewhere, a date on another day, a cookie for another host.

The hazards, line by line, are in `PROJECT.json`.

## 2. The modules

| Module | Models | State and actions in the code |
|---|---|---|
| `Connection` | `inc/connection.hh`, `src/connection.cc` | `queue[d]` is `read_queue_`/`write_queue_`; the critical sections `enqueueX`, `doX` (claim) and `dequeueX` are one action each, and calling the claimed closure, the completion and the end of the user's handler are steps of their own, so any number of threads can be between them. `ASYNC_APPLY` is one macro for both directions, hence the index `d`. |
| `SerialQueue` | nothing; the abstract specification of one direction | items accepted, begun and done in sequence; `Connection` implements two of them. |
| `ThreadPool` | `inc/ThreadPool.hh`, `src/ThreadPool.cc` | one action per critical section: `Push`, `NotifyOne` (outside of the mutex, as in the code), the worker's `Enter`, `Sleep`, `Take`, `TaskEnds`, `Leave`, and the destructor's three steps. Wake-ups may be spurious. Tasks may enqueue tasks. |
| `HttpFraming` | nothing; the reference definition of HTTP framing | what an ideal reader of the whole stream makes of it: the head, the chunks and the messages are walks over positions (`WalkFrom`, a recursive function), each from one to the next until there is none. |
| `Parser` | `src/parser.cc` | the closures queued on the read queue (`ops`), the read buffer, how much of the peer's stream has been read, and the package being filled. Completing an operation and running its handler is one action, one per outcome. |
| `Package` | `src/package.cc`, `src/request.cc`, `src/response.cc` | headers, body stream, `chunked_`, `send_started_`, status; the application's calls, `flush` and the destructors. |
| `Matching` | `isPathMatch`, `isDomainMatch`, `isValidIPAddress` of `src/utils.cc` | operators on sequences of characters. |
| `Routing` | `src/RequestHandler.cc` | `addSubHandler`, and the loop of `deliverRequest` one round per action. |
| `Url` | `urlEncode`, `urlDecode`, `explode`, the target a client sends, the request line, `parseParams` | operators on bytes, in the order in which the code splits and decodes; a line is a request, is refused, or is one the parser throws on. |
| `Requests` | the way of a request: target written, line read, handler chosen | `Ask` and `AskRaw` put a line on the wire, `Arrive` parses it and starts `Routing`. |
| `Session` | `handleRequest` of `src/server.cc`, `deliverRequest` of `inc/server.hh`, the lives of request, response and connection | parse, task queue, workers, each response's owner and the strings it has yet to write, write queue, wire. A parse that ends without a request does so in the three ways of `Parser`: the handler hears `nullptr` and stops the connection (`ParseFails`), nobody hears of it (`ParseEndsUnheard`), or the parser throws and its read stays in the queue (`ParseThrows`, `wedged`). It composes parser, pool, connection and package by what their modules show of them. |
| `Acceptor` | the rest of `src/server.cc`: accept, handshake, `run`, `stop` | acceptors, the connection object made in advance (`spare`), the one a handshake was started on (`shaking`), which its handler does not look at, and the `io_service`. |
| `Connector` | `asyncConnect` of `TcpConnection` and `SslConnection` | resolve, one endpoint after the other, handshake. No specification of its own: `Client` extends it. |
| `Dates` | `gmtTime`, `gmtToTime`, `to_localtime` | operators; a time zone is its distance from UTC and whether it has summer time; `tm_isdst` is never set, so `GmtToTime` is the set of times `mktime` may return. |
| `Cookies` | `inc/cookie.hh`, `setCookie` of request and response | both headers written and read, with the order of the attributes. |
| `Client` | `src/client.cc` | each request's stages, its handlers, who holds the request, the cookie jar with its mutex, the clock, and the flag read outside of the mutex. It composes `Connector`, `Cookies`, `Dates` and `Matching`. |
| `Tunnel` | `src/net.cc` | two read loops, two write queues, their error handlers. |
| `Base64` | `inc/base64.hh`, `src/base64.cc` | `Encode` and `Decode` on bytes, group by group. |
| `Mail` | `src/mail.cc`, `inc/mail.hh` | the chain's step, the write queue with steps and pieces of the message, the read buffer, who holds the package; the SMTP server, external, may refuse, close, and answer in two lines and in any pieces. `CodesRead` is what `ss >> code` may make of the buffer, `astray` that a line's rest was taken for the code. |
| `Fcgi` | `src/fcgi.cc` | the records written (real lengths and length bytes), the records read in any cut, the response's status, headers and body, and who holds the response. |

The modules `MC...` give the constants values and hold the reference
definitions that need them.  `ConnectionProofs`, `ThreadPoolProofs`,
`RoutingProofs`, `ServerProofs` (of `Session` and `Acceptor`), `ClientProofs`,
`RelayProofs` (of `Tunnel` and `Fcgi`), `HttpProofs` (of `Parser` and `Package`) and
`MailProofs` hold the proofs.  `Package` and `Parser` share the symbols of `HttpFraming`,
and the names of `Package`'s specification begin with its own so that `HttpProofs` can
extend both.

Most modules contain a few definitions called slips, each next to the definition
it gets wrong.  `Next` does not use them.  Each states a plausible mistake in the
code (a wake-up left out, a flag not set, padding not skipped); put in the place
of the right definition, it makes TLC report the property named in
`PROJECT.json`, which shows that the property depends on that piece of code.

Data are abstracted to what the properties tell apart.  In `Parser` and `Package`
one symbol is one byte or one line; in `Fcgi` what is written has its real sizes
in bytes and what is read is symbols; operations on a connection carry no bytes;
cookies, paths, hosts and credentials are sequences of characters or bytes.  A name starting with `Max`, and each
constant commented "bound", limits the instance and nothing in the code.

## 3. The runs

| Run | Instance | What it shows |
|---|---|---|
| `connection` | three threads (two in `io_service::run`), one read, three writes, one handler that throws | serial execution per direction, pops that match, no operation stranded, everything drained after `stop()` except behind a handler that threw, refinement of `SerialQueue` |
| `pool` | two workers, two clients, three tasks | order, no lost wake-up, every task ends, the destructor drains and returns |
| `tunnel` | two bytes per peer, one side may be stopped from outside at any moment | bytes arrive in order and complete unless something stops; an error unwinds both sides |
| `parser` | every word of up to 6 symbols after a chunked head, every head of up to 5 symbols, each cut into reads in every way | agreement with `HttpFraming`, no delivery after failure, one parse at a time, a sized body whole, and that a parse ends without calling its handler in two places only |
| `package` | up to 3 body bytes and 4 calls, requests and responses, four kinds of status | what was written reads back through `HttpFraming`, and not before it is complete |
| `routing` | tables of up to three of ten bases, every path and parameter of a few bytes that are coded in different ways, and lines no client writes | path and parameters arrive as they were meant; why any line of up to six blanks, marks and letters is accepted, refused or thrown on; the most specific handler, segment by segment |
| `session` | one worker, two requests, one flush, a parse that ends in each of three ways | answers in order, connection neither closed early nor kept but by a parse that threw |
| `acceptor` | two ports, three clients, failing accepts, two stops | each client accepted, handed on once, on TLS as the object whose handshake was done |
| `client` | a plain and a TLS request, up to two endpoints each, a name and its neighbour or one address, three answers of two or three cookies with domains, paths, dates, ages, an age that is no number, or no value, one tick of the clock, one switch | connect outcome, order of handlers, which cookies go on which request, what of them arrives, every request ends |
| `fcgi` | requests at the edges of 127/128/256/65535/65536 bytes, a script's output in up to two records, padding, refusal, disappearance at any symbol | the request decodes, the response tells what happened and is sent |
| `mail` | one mail of up to two lines and one flush, a name of four bytes with no password or one of five, an answer in two lines | one result, the truth unless a line's rest was taken for a code, the message whole, the credentials right, every send ends |
| `dates` | three time zones, two turns of the year | **violation**, see section 6 |

Why the bounds are enough.  In `connection` three writes are the fewest with one
in flight, one waiting and one being pushed; the third thread is the one that is
neither completing nor claiming.  In `pool` two workers and three tasks let a
notify go to the wrong worker while a task is queued.  In `tunnel` two bytes make
two chunks in one write queue while a third activity fails.  In `parser` six
symbols after the head hold two whole chunks and the last one, or one chunk and a
following message, and the cuts are exhaustive.  In `package` four calls allow
two header operations between two flushes, or an empty flush before and after a
full one.  In `routing` the bases are every special case of `isPathMatch`, and
any number of them is covered by proof; the bytes are one of each kind the coding
tells apart, and escapes are cut at every place.  In `session` a second request is what
can be mixed up with the first; one worker suffices for the interleavings of two
threads, because a response the handler kept is written by whichever thread of
the application drops it.  In `client` two requests are what shares a jar,
two endpoints what makes the second attempt, one tick what makes an age of zero
or a date of the first second stale, and the names are chosen so that one ends
with the other's text without being its part; three cookies on one request, the
one without a value in the middle, are what joining and splitting the pairs can get
wrong.  In `mail` two lines and one flush are a message in two pieces, an answer in
two lines shifts the dialogue by one, and a name and a password of four and five bytes
have a whole group and a rest of one and of two; other lengths and further answers
are covered by proof.  In `fcgi` two records are one
boundary; the statuses are success, a refusal and one the code does not know.
State spaces go from thousands to some 1.8 million states; the longest
run (`mail`) takes about three minutes on two cores.

The type invariants of `Connection`, `ThreadPool` and `Routing` are not in the
runs because they are proved (section 5); the others are the first conjunct of an
invariant of their run.

### Fairness

Every `FairSpec` is weak fairness of what the library's threads do on their own:
a thread inside `enqueue`/`dequeue` goes on (it never blocks there but for the
mutex), handlers return, a worker that can take a task takes one, and asio
completes an operation that can be completed.  What others do is fair only where
the code relies on it, and the module says so at the place:

* `Connection`: asio completes what it owns only once the socket is closed;
  before that nothing obliges the peer.
* `ThreadPool`: tasks end; a woken worker gets the mutex.
* `Tunnel`: the peers read, but need not send or close.
* `Session`: handlers return and let their response go, the client reads.
* `Acceptor`: handshakes end; the application runs the server again after `stop`.
* `Client`: the application lets go of the request, the server answers or closes:
  a stage that a callback ends is left (`Advance`), connecting goes on, and the
  request is dropped.
* `Mail`: asio completes what can be completed, the application drops the package,
  the server answers or closes.
* `Fcgi`: the caller of `fcgi()` returns.  The FastCGI application need not
  answer: the property starts where it has ended the request or closed.

There is no timeout anywhere in the code, so a peer that stays silent is waited
for without end, and no liveness property says otherwise.

## 4. What the models say that one might not expect

* A handler that throws leaves its operation at the front of the queue for ever:
  the direction is wedged and keeps the connection alive even after `stop()`
  (`StopDrains` has that exception).  The parser has one such throw: a URL with
  no token (`src/parser.cc:229`; `thrown` in `Parser`, `ParseThrows` in `Session`,
  where `ConnectionIsReleased` has it).  No thread of `Server::run` catches it
  (`src/server.cc:255`), so that it ends the program; what the models show is the
  program of an application that runs the `io_service` itself and catches.
* The parser may call the handler with `nullptr` several times for one failure
  inside a chunk; `Client` therefore takes several reports.
* Whether a pipelined request after a sized body is accepted depends on how the
  stream was cut (`src/parser.cc:175`).
* Answers are in order for a client that waits for them, or with one worker whose
  handlers finish with the response before they return.  With pipelining and two
  workers, or a kept response, TLC finds them mixed; `AnswersInOrder` has these two
  conditions.  A client cannot see where one answer ends but by its last string: the
  empty string that a flushed response writes behind it may come after the first
  strings of the next answer, and `InOrder` does not count it.
* An accept that fails is not repeated (`WaitingIsAccepted` holds until then).
* A status outside the tables of `src/response.cc` (405, say) goes out as 500
  unless version and message are set, and then with the page of 500; and the
  status line with a message has the version in the message's place
  (`src/response.cc:273`).
* The parser reports every failure but two, although `inc/parser.hh:14` promises
  `nullptr`: when the line after the last chunk cannot be read, nobody is called
  (`src/parser.cc:117`); and a URL without a path throws before anybody could be
  (`src/parser.cc:229`).  `FailureIsReported` says that these are the only places, for
  every parse of a connection: the stream ended behind a line that reads as the size
  0, and that is the last line it had, or the line just taken is such a request.  In
  `Session` the first ends a parse without a stop.
* A `Content-Length` above the range of `int` wraps (`src/parser.cc:173`); a body
  whose length fits is never delivered in part (`SizedBodyIsWhole`).  The proof needs
  that the stream is no longer than an `int` counts either: with more than that in
  the buffer the difference that decides how much is left to read wraps too.
  For the same reason the comparison with `HttpFraming` is made for streams with no
  more than that behind a `Content-Length` (`LengthsFit`).
* The end of file of one side of a tunnel stops both, and what was read before it
  and not yet written is dropped (`src/net.cc:18`).
* A mail whose body has the line "." ends there for the server, and the handler
  may hear `true` for the part before it.  The second line of an answer is taken
  for the answer to the next command: a send may fail that need not, but as long as
  every code is read at the beginning of a line none succeeds wrongly
  (`ToldOnceAndTruly`).  The buffer may also hold the rest of a line, the line having
  been cut when the read of its predecessor ended.  `ss >> code` (`src/mail.cc:24`)
  makes 0 of a text, skips the mere end of a line and takes the next line's code,
  and if nothing follows leaves `code` uninitialised.  Then a step may go on by
  accident (`astray`), and the last one tell `true` for a mail that nobody took.  A step that fails throws out of
  `io_service::run` (`src/mail.cc:108`), and its operation keeps the connection.
* A path's `+` arrives as a space, and a query is cut at its second `?`; so the
  application must escape both, as `ArrivesAsMeant` assumes.
* Cookies: a value is cut at its first `=`; one without a value reads, in the
  server, as the value of the cookie before it (`inc/cookie.hh:95`); one of the same
  name replaces that of another host; an age of 0 deletes it only once the second
  is over; a date with blanks where the code writes hyphens is no date, and such a
  cookie stays for ever.  `CookiesCross` says what does arrive.
* `isValidIPAddress` compares the first three numbers with 255 and not the last
  one (`src/utils.cc:247`).
* A FastCGI parameter value of 128 to 255 bytes has a length that the protocol
  reads as the first of four bytes, and a record's length wraps at 65536; outside
  of these sizes the request decodes (`RequestDecodes`).  A response that failed in
  the middle is sent as 500 with the script's raw output, header lines included, as
  its body.  The completion handler is not called after a failure.

## 5. The proofs

All hold for every value of the constants, under the assumptions named in the
modules (finite sets where a count is taken, disjoint sets of operations,
`NoOp` not an operation).

**ConnectionProofs.**  The inductive invariant `IInv` adds to `TypeOK`: only the
front of a queue is started (`OnlyHeadStarted`); a claimed closure and what
asio holds belong to their direction (`TasksMatch`); whatever is claimed, in flight or in its handler is
the started front of its queue (`ActiveIsStartedHead`); at most one thread has it
(`HeldOnce`, `CallingIsNotHandling`); and an unclaimed front has a thread on its
way (`NoStrandedQueue`).  None of the run's invariants is inductive alone:
that `dequeue` pops its own operation needs that what is active is the front,
which needs that nobody else claimed it.  One lemma per action gives `Invariance`,
and from it `TypeCorrect`, `Serial`, `PopsOwn` and `NoLostStart`.

Its second part: each direction implements `SerialQueue` (`Refinement`).
`HistoryInv` ties the histories to the queue: what was accepted is what was popped
followed by what is queued (`AcceptedSplits`); what asio owns or a handler is
running for was issued and is not popped (`UnderwayIsIssued`); and while the front
is not claimed, or claimed and not handed over, everything issued has been popped
(`ClaimedIsNotIssued`, `UnclaimedIsNotIssued`).  It is inductive only together with
`IInv`, which says that no two threads are at the same front.  Then the push is
`Accept`, the call of the closure `Begin`, the pop `Finish` (`SideSteps`), and every
other step stutters, the handler that throws included: it leaves its direction
between `Begin` and `Finish` for ever.

**ThreadPoolProofs.**  `IInv` adds that `stopped` goes with the destructor's
position, that some worker is still in the loop while a task is queued
(`SomeoneDrains`), and that a task taken is running or ended
(`TakenRunsOrEnded`).  `WorkConserving` counts: while a worker sleeps, the tasks
queued are at most the awake workers plus the pending notifies.  The count is what
makes a lost wake-up impossible, and `Counts` collects the facts about
cardinality.  Results: `TypeCorrect`, `Fifo`, `NoLostWakeup`, `ShutdownWakesAll`,
`Drained`.

**RoutingProofs.**  `BestSoFar` is the loop's invariant, kept by every round
(`OneRound`); at the end it gives `SpecificWins`.  `OrderDecidesOnlyTies`: two
bases of one length that match a path are equal, so the order of registration
matters only for equal bases.  `SegmentsDecide`: for every table and path, what
`isPathMatch` does with characters is what a comparison of segments does; the one
idea needed is what a text looks like with its last slash cut off and with one put
there (`SlashOnOff`).

**ClientProofs.**  `ConnectIsSound`: whatever the number of endpoints and of
requests, the handler of `asyncConnect` is called once, with the connection only
if it is connected and secured, and with `nullptr` only when nothing was left to
try.  `Sound(c)` adds what holds in each phase.  `ToldInOrder`: the application
hears of each request in the fixed order of `HandlersInOrder`.  That property speaks
of histories only, so the strengthening says for every stage of `Client::request`
what the histories are then (`Told`) and who may still send which header (`Heads`):
a request that the client dropped carries `Connection: close`, and what the
application flushed is on the wire before.

`CookiesStayCurrent`: for any hosts, paths, answers and switches, the jar is current
and a request carries what suited it when it was filled.  `CookieInv` has three
parts.  `CookieTypes` is needed because the two comparisons below are of texts.
`JarAt` says of a jar that it has one cookie per name, and that the newest of those
stored; `Carries` says the same of the cookies of a request, as the jar was when the
request was filled, and `Suits` of each of them that it is not stale, fits host, path
and scheme.  The jar is filled by a loop over the cookies of an answer, a function on
the positions: `PutAllKeeps` shows what it keeps, by a least round that loses it
(`LeastNumber`, below) and one lemma for a round.  That the character-wise matches
of the code are matches segment by segment rests on lemmas about tokens: a text cut
at a delimiter is the tokens before it and those after it, hence `PathStarts` and
`DomainEnds`.

**RelayProofs.**  First `Tunnel`.  `TunnelKeepsBytes`: for any number of bytes, cut into any chunks,
no byte is lost, repeated or reordered.  The property has its equation only while
neither connection is stopped, and that is not inductive: after a stop of one side
the other goes on for a while.  `Lossless(c)` therefore depends on the stop of the
receiving side alone: what was delivered, what is in the write queue and what the
read handler holds is all that was read.  The lemmas about `FlattenSeq`
(`FlattenSeqAppend`, `FlattenSeqHead`) are proved from its definition, a function on
the positions, with `LeastNumber`: a set of numbers that is not empty has a least
one.  A least position where two such functions differ cannot exist; this takes the
place of induction, whose theorems cannot be instantiated.

Then `Fcgi`, whose names carry a prefix where `Tunnel` has the same.  `RequestIsRead`:
for requests of any sizes.  The work is in the bytes of a length (`LengthsOf`,
`LengthsRead`): what `key_value` writes in one or four bytes is what a FastCGI reader
makes of them, outside of the sizes that `Safe` excludes.  `RecordsAre` finds each
record of a request at its place, `PlacesOf` and `RecordsDecode` follow.

`AnswerIsTrue`: for any output of the script, cut into records, padded, mixed with
other records, broken off and received in any way.  `ExchangeInv` says that there is a
list of the records sent (`Chain`: where each ends in all that was sent, and how much
of the script is out by then), of which `m` are taken.  What is pending, buffer and
stream together, is the part of it behind a place `base` (`Intact`), complete unless
the application has gone; and the reader is between two records or behind a header
(`Reading`), with the script's output so far as the response's body.  The property
alone is not inductive because it only speaks of the response when it is sent.  A
record sent makes the list longer and moves nothing (`Appends`); a read takes from the
front and moves `base` (`WireTaken`, `ContentTaken`), so that the next header is found
where the last record ended, padding included.  An application that goes away can cut
the pending part anywhere (`ClosesKeeps`).  What `end_request` makes of the output
(`HeadersOf`, `BodyOf`, `StatusOf`) is never expanded: the theorem needs only that it
is applied to what the script printed.

**HttpProofs.**  First `Parser`.  For any stream, any cut into reads and any length of chunks:
`FailureIsFinal`, `ParsesDoNotMix`, `FailuresReported`, `BodiesWhole`.  All four
follow from one invariant with three parts and the stage.  `Buffered`: the buffer is
the end of what was read of the stream.  `History`: the package is detached exactly
while the last report is a failure, no success comes after one, and a parse that
failed has told so (`told`, which a successful parse resets when it queues the next).
`Stage` lists
the shapes the queue of operations can have (`AtFirst` to `Over`), which are few
although every chunk queues three operations at once; each comes with what is known
then of the header, the body and the buffer.  `AtLastEnd` carries the way to the
failure that nobody hears of: either a line is already buffered, or what was read
ends behind a line of size 0.  That `EndsUnheard` or `ThrowsUnheard` holds whenever
a parse has stopped without a call needs both that and `Thrown`, which says of the
parser that threw what the line it took was.  `AtBody` carries how many bytes are still to come,
which needs the range of `ToInt` (`ToIntRange`).

Two more theorems compare with the reference, `BodiesAreFramed` and
`WholeMessageDelivered`.  First the reference: `WalkExists` shows that the recursive
function of a walk has a value (every step leads further on, so a position without one
would have a least distance to the end), and `HeadersSteps`, `ChunksSteps` and
`BodiesSteps` say what a walk finds at a position in terms of the next.  Then `OnTrack(p)`
says how the parse stands in the message that starts at `p`, by the operation in front:
what was taken of it, put before what the reference finds from `Here` on, is what the
reference finds in the message.  `Here` does not depend on how much was buffered,
which is why the cut does not matter.  The invariant `FInv` has three parts: what was
delivered is the beginning of `Ref`, all the bodies of the stream (`Agrees`); the parse
has failed, is over, has delivered all of `Ref`, or is on track in the message whose
bodies from there on complete `Ref` (`Follows`); and a stream that is one message is on
track until it is delivered (`Whole`).  `TrackStep` is the heart: every step that is
possible on track goes on, delivers this message and then stands behind it, or fails
because more than a sized body was buffered, and then the message was not the last
(`Advance`, `Deliver`, `Overrun`); no error of the code is reachable for a well-formed
message otherwise.

Then `Package`.  `WrittenReadsBack`: for any number of bytes and of calls, what a
finished message put on the wire reads as that one message, and no unfinished one reads
as a message.  The reference reads forwards and the writer appends, so the lemma the
rest hangs on is about a walk over a stream and what is put behind it: it goes on where
the walk over the first part ended (`HeadersBehind`, `ChunksBehind`, by `Downwards`, an
induction from the end of the stream to its beginning that needs `LeastNumber` only).
The invariant `WriterInv` says that while nothing was flushed all of the body is unsent,
and that a flushed message whose framing is the library's is `Open`: what was sent reads
as a head and whole chunks up to the end, and their data with what is still unsent is
what was written.  A head opens a message (`OpenHead`), a piece of any length keeps it
open (`OpenSends`; an empty one is not sent, which would end it), an open one is no
message (`OpenNotOk`), and the last chunk closes it (`OpenEnds`).  For a message that was
never flushed `WholeReads` reads the body by the first length.  The length of a header
that the application set must survive `setHeader` of another name (`DelHeaderKeeps`),
else the message would become one the invariant speaks of.  The reader's limit for a
chunk is `MaxBody` here; the writer has none, so a body larger than a reader's limit and
flushed at once is refused by that reader.

**ServerProofs.**  First `Session`.  For any number of workers, requests and flushes:
`HeldUntilAnswered` and `AnswersKeepOrder`.  `Queue`: requests are taken in the order
of delivery.  `Lifetimes`: a response that was made and has no owner any more has
given everything.  `Sent` relates each response to the strings in the socket and the
write queue together (`Out`): begun, not begun, or ended.  Hence a connection that
nobody holds has every last string on the wire.  For the order, `Waits` says that a
client that waits has its earlier answers and `Alone` that with one worker, and
nothing kept, the only response with an owner is that of the request taken last;
either gives that every earlier answer has ended before a string is written
(`EarlierEnded`), and `NextInOrder` that the order then goes on.  `AnswersInOrder` is
not inductive alone because it does not see the write queue.  The three ways a parse
can end (`ParseEnds`) touch neither tasks nor responses.

Then `Acceptor`: `HandedOnceAndSecured` is inductive once it is known that the two
ports accept into different objects (`SparesDiffer`) and that a handshake runs on the
object its handler will find in the member (`Shaken`); hence `EveryClientItsOwn`, from
the module's assumption on its constants.  The module of the proofs extends both
modules, which is why `Acceptor`'s names carry a prefix.

**MailProofs.**  For all accounts, lengths of the message and numbers of answers in
two lines: `TellsOnceAndTruly` and `CredentialsDoArrive`.  Both say what they say of
a send in which no line's rest was taken for its code (`~astray`), but that the
application is told at most once, which holds of every send.  Once `astray` stays so
(`StaysAstray`), and a step that is not an accident went on because a line began with
its code (`Took`).  The client takes the line
that is there for the answer to its last command, and what the line answers is not
in its own state.  The invariant therefore speaks of all that is under way, `Stream`
being what the server said and nobody took yet; all but the first two hold until a
step goes `astray`:

* `OneStep` and `Chained`: what the write queue holds and what was reported at each
  step of the chain; before the package exists, that is one command or nothing.
* `DataIsLast`: no command follows DATA, on the wire or in the queue.  Hence
  everything the server reads after granting it is the message.
* `AnswersFollow`: if the stream has a 354, DATA was granted; if it has a 250 behind
  a 354, the message was accepted.  An answer in two lines shifts the dialogue, but
  no shift brings a 250 in front of its 354, so that `true` is never told wrongly.
* `OnItsWay`: what the server read of the message, what is on the wire, what the
  queue's strings spell (`Spells`), and what the package still holds are together
  the head and the lines written, and the end once the package is gone.  With
  `Terminator`, a text that closes with the end has it nowhere else, it gives that
  the accepted message is the one written.
* `InLockStep`: as long as the server grants everything in one line, the stream has
  at most the answer to the step that reads; so `false` has a reason.
* `LoginInOrder`: the name goes before the password, each once, after AUTH.

What arrives is `Encode` of the account's bytes; that this is Base64 is proved for
every string: `EncodeEncodes` compares with the reference `Encodes`, group by group
and with the padding, and `DecodeInverts` says that `Decode` gives the string back.
Both rest on `SextetsIn` and `OctetsOf`: three bytes and four sextets are one number.

Only model-checked: every liveness property (fairness and ENABLED are out of the
prover's reach); `ArrivesAsMeant`, whose coding, splitting and decoding of texts are built from
folds and flattenings of sequences (`FoldLeft`, `FlattenSeq`, `SelectSeq`), so that
what they compute for every text is an induction over data; and `CookiesCross`, which holds for the instance's zones and days only (section 6).

## 6. Findings

* `dates`: `test/utils/time.cc:9` checks `gmtToTime(gmtTime(now)) == now`.  West of
  Greenwich it fails at any time: `to_localtime` (`src/utils.cc:54`) adds the
  difference of the hours between local time and UTC at time 0, where the local
  clock shows the day before, so that the result is a day late.  And it fails
  everywhere for some days around New Year: `%G` (`inc/utils.hh:35`) is the year of
  the week, not of the date.  In a zone with summer time `tm_isdst`, which
  `gmtToTime` leaves uninitialised, decides about one more hour; the run does not
  need it.  Cookies are exposed to this: `CookiesCross` holds for a machine east of
  Greenwich in the middle of the year.

Also noticed, without a run of their own:

* `test/ThreadPool/ThreadPool.cc:22` checks that `size()` is not zero right after
  `enqueue`, but a worker may have taken the task (`Size` in `ThreadPool` returns
  with any length of the queue).
* `inc/parser.hh:14` promises the handler `nullptr` when parsing fails.  It is not
  called where the line after the last chunk is missing (`src/parser.cc:117`), nor for
  a request whose URL has no path (`src/parser.cc:229`).  `FailureIsReported` names
  both (`EndsUnheard`, `ThrowsUnheard`); without either, TLC finds it violated.
* `inc/mail.hh:69` lets the result handler know whether the mail was sent.  When the
  last read sees only the end of a line whose text an earlier read took, the code is
  uninitialised (`src/mail.cc:22`), and `true` may be told although the server took
  nothing; without `~astray`, TLC finds `ToldOnceAndTruly` violated.

## 7. What is not modelled

* The lifetime of the string behind `asio::buffer` in `asyncWrite`
  (`src/TcpConnection.cc:79`): operations carry no bytes here.
* The data race on the cookie vector when `disableCookie` or `clearCookie` run
  beside a request (`inc/client.hh:35`): the model lets them happen between
  critical sections only.  A cookie of one host replaces one of the same name of
  another host, as in the code.
* TLS apart from the success or failure of a handshake, sockets apart from
  completion or error, the resolver apart from how many endpoints it gives.
* Reading the configuration and opening the ports in `Server`'s constructor, the
  signal set (a signal calls `stop`, which is modelled).
* The regular expression that splits a client's URL, Basic authentication, the
  branch of `isValidIPAddress` for addresses with colons (the client cuts a host
  at its first one), `localTime`, which only the log uses.
* What a header of a `MailPkg` says, and its `Content-Length`, which counts the
  first piece only.

## 8. Plan

Done, in the order of importance: connections, thread pool, tunnel, parser and
package, routing, session, acceptor, client with connector, FastCGI, mail, and the
conversions (URL, cookies, dates, Base64) where the components use them; theorems
of the connection (with its refinement), the pool, the router, the acceptor, the
client and its cookies, the tunnel, the parser, the writer, the session, the mail
client and the FastCGI client.

Next:

1. `StopDrains` and `ErrorUnwindsBoth` rest on fairness and stay with TLC, but the
   safety part of each (what can still be queued after a stop, which activity still
   holds a connection) can be stated and proved.

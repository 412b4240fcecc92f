-------------------------------- MODULE Parser --------------------------------
(***************************************************************************)
(* The message parser (src/parser.cc): parseRequest / parseResponse as     *)
(* closures on a connection's read queue.  The peer's bytes arrive in      *)
(* pieces of any size, a read up to a newline buffers any number of bytes  *)
(* beyond it, and while the chunked decoder handles one operation it has   *)
(* already queued the next three.                                          *)
(*                                                                         *)
(* The stream is made of the symbols of HttpFraming.                       *)
(* Completing an operation and running its handler is one step: nothing    *)
(* else touches the read buffer or the package in between.                 *)
(***************************************************************************)
EXTENDS Integers, Sequences, HttpFraming

CONSTANTS
  Inputs,     (* what the peer may send before it closes: sequences         *)
  ServerSide, (* TRUE: used by Server::handleRequest; FALSE: by the client  *)
  MaxChunk,   (* STACK_BUFF_SIZE: the largest chunk accepted                *)
  IntMax      (* the largest value of int, in bytes of the model            *)

(* (STACK_BUFF_SIZE is 1 MB.)                                                *)
ASSUME ParserAssumption ==
  /\ \A s \in Inputs : s \in Seq(Symbol)
  /\ ServerSide \in BOOLEAN
  /\ MaxChunk \in Nat /\ IntMax \in Nat /\ MaxChunk <= IntMax

None == Sym("none")

VARIABLES
  input,      (* the peer's bytes, then end of file                         *)
  pos,        (* how many of them were read from the socket                 *)
  buf,        (* the connection's read buffer                               *)
  ops,        (* the connection's read queue; the front is in flight        *)
  attached,   (* pac->connection() is set                                   *)
  length,     (* the first Content-Length header of the package             *)
  coding,     (* the first Transfer-Encoding header of the package          *)
  body,       (* what was written to pac->out()                             *)
  reports,    (* history: what the user's handler was called with           *)
  bodies,     (* history: the bodies of the packages it got                 *)
  told,       (* history: it was called for the parse asked for last        *)
  stopped,    (* conn->stop() was called                                    *)
  thrown      (* a handler threw: the front operation is never popped       *)

package == <<attached, length, coding, body>>
vars == <<input, pos, buf, ops, attached, length, coding, body,
          reports, bodies, told, stopped, thrown>>

Op(k) == [kind |-> k, chunk |-> 0, need |-> 0]

Init ==
  /\ input \in Inputs
  /\ pos = 0 /\ buf = <<>>
  /\ ops = <<Op("first")>>
  /\ attached = TRUE /\ length = None /\ coding = None /\ body = <<>>
  /\ reports = <<>> /\ bodies = <<>> /\ told = FALSE
  /\ stopped = FALSE /\ thrown = FALSE

-----------------------------------------------------------------------------
(* The read buffer.                                                          *)
Newlines(b) == {i \in 1..Len(b) : b[i].is # "byte"}
FirstNewline(b) == CHOOSE i \in Newlines(b) : \A j \in Newlines(b) : i <= j
Line(b) == IF FirstNewline(b) = 1 THEN b[1] ELSE Sym("garbage")
AfterLine(b) == SubSeq(b, FirstNewline(b) + 1, Len(b))
More(n) == SubSeq(input, pos + 1, pos + n)
Rest == More(Len(input) - pos)
(* (First a slip: a type of two bits.)                                        *)
ToShort(n) == ((n + 2) % 4) - 2
ToInt(n) == ((n + IntMax + 1) % (2 * IntMax + 2)) - IntMax - 1

Front(k) == ops # <<>> /\ ~thrown /\ Head(ops).kind = k
Pop(more) == ops' = Tail(ops) \o more

(* async_read_until succeeds: a newline is buffered already, or it is after  *)
(* n more bytes, which may reach beyond the line.                            *)
LineIs(k, Handle(_)) ==
  /\ Front(k)
  /\ \E n \in 0 .. Len(input) - pos :
       /\ IF Newlines(buf) # {} THEN n = 0 ELSE ~stopped
       /\ Newlines(buf \o More(n)) # {}
       /\ pos' = pos + n
       /\ Handle(buf \o More(n))

(* async_read of exactly n more bytes succeeds.                              *)
BytesAre(k, Handle(_)) ==
  LET n == Head(ops).need IN
  /\ Front(k) /\ ~stopped
  /\ pos + n <= Len(input)
  /\ pos' = pos + n
  /\ Handle(buf \o More(n))

(* The operation fails: end of file before enough was read, or stopped.      *)
ReadFails(k) ==
  /\ Front(k)
  /\ \/ stopped /\ UNCHANGED <<pos, buf>>
     \/ /\ IF k \in {"data", "body"} THEN pos + Head(ops).need > Len(input)
                                     ELSE Newlines(buf \o Rest) = {}
        /\ pos' = Len(input) /\ buf' = buf \o Rest

(* Slips the properties below must detect (used by the mutation runs only).  *)
FailStaysAttached ==
  /\ reports' = Append(reports, "null") /\ told' = TRUE
  /\ stopped' = (stopped \/ ServerSide)
  /\ Pop(<<>>)
  /\ UNCHANGED <<input, package, bodies, thrown>>

(* handler(nullptr): RETURN_IF_ERROR detaches the package and calls the      *)
(* user's handler; the server then stops the connection.                     *)
Fail ==
  /\ attached' = FALSE
  /\ reports' = Append(reports, "null") /\ told' = TRUE
  /\ stopped' = (stopped \/ ServerSide)
  /\ Pop(<<>>)
  /\ UNCHANGED <<input, length, coding, body, bodies, thrown>>

(* handler(pac) of the outermost PARSE.  The server may start to parse the   *)
(* next request on the connection before it handles this one.                *)
Succeed(bd) ==
  /\ reports' = Append(reports, "ok")
  /\ bodies' = Append(bodies, bd)
  /\ \/ /\ ServerSide /\ Pop(<<Op("first")>>) /\ told' = FALSE
        /\ attached' = TRUE /\ length' = None /\ coding' = None /\ body' = <<>>
     \/ /\ Pop(<<>>) /\ told' = TRUE /\ body' = bd /\ UNCHANGED <<attached, length, coding>>
  /\ UNCHANGED <<input, stopped, thrown>>

Queue(more) ==
  /\ Pop(more)
  /\ UNCHANGED <<input, attached, reports, bodies, told, stopped, thrown>>

-----------------------------------------------------------------------------
(* parse_request_first_line.  (parse_response_first_line differs only in     *)
(* what makes a first line good, and never throws.)                          *)
GoodFirstLine ==
  LineIs("first", LAMBDA b :
    /\ Line(b).is = "request"
    /\ buf' = AfterLine(b)
    /\ Queue(<<Op("header")>>) /\ UNCHANGED <<length, coding, body>>)

BadFirstLine ==
  LineIs("first", LAMBDA b :
    Line(b).is \notin {"request", "queryonly"} /\ buf' = AfterLine(b) /\ Fail)

(* nextToken() on a URL without tokens throws out of the handler.            *)
FirstLineThrows ==
  LineIs("first", LAMBDA b :
    /\ ServerSide /\ Line(b).is = "queryonly"
    /\ buf' = AfterLine(b) /\ thrown' = TRUE
    /\ UNCHANGED <<input, ops, package, reports, bodies, told, stopped>>)

FirstLineFails == ReadFails("first") /\ Fail

(* parse_headers: one line; a repeated header does not replace the first.    *)
HeaderLine ==
  LineIs("header", LAMBDA b :
    /\ Line(b).is # "blank"
    /\ buf' = AfterLine(b)
    /\ length' = IF length = None /\ Line(b).is \in {"length", "badlength"}
                 THEN Line(b) ELSE length
    /\ coding' = IF coding = None /\ Line(b).is = "chunked" THEN Line(b) ELSE coding
    /\ Queue(<<Op("header")>>) /\ UNCHANGED body)

HeaderFails == ReadFails("header") /\ Fail

(* parse_body, called on the blank line.  (First a slip: the header line is   *)
(* asked for again although the message is complete.)                        *)
NoBodyGoesOn ==
  LineIs("header", LAMBDA b :
    /\ Line(b).is = "blank" /\ buf' = AfterLine(b)
    /\ length = None /\ coding = None
    /\ reports' = Append(reports, "ok") /\ bodies' = Append(bodies, body) /\ told' = FALSE
    /\ Pop(<<Op("first"), Op("header")>>)
    /\ UNCHANGED <<input, package, stopped, thrown>>)

NoBody ==
  LineIs("header", LAMBDA b :
    /\ Line(b).is = "blank" /\ buf' = AfterLine(b)
    /\ \/ length = None /\ coding = None
       \/ length = [is |-> "length", n |-> 0]
    /\ Succeed(body))

StartChunks ==
  LineIs("header", LAMBDA b :
    /\ Line(b).is = "blank" /\ buf' = AfterLine(b)
    /\ length = None /\ coding # None
    /\ Queue(<<Op("size")>>) /\ UNCHANGED <<length, coding, body>>)

LengthNotANumber ==
  LineIs("header", LAMBDA b :
    Line(b).is = "blank" /\ buf' = AfterLine(b) /\ length.is = "badlength" /\ Fail)

(* With a length: the int need_read = length - already_read decides.         *)
SizedBody(b, Handle(_)) ==
  /\ Line(b).is = "blank" /\ length.is = "length" /\ length.n > 0
  /\ Handle(ToInt(length.n - Len(AfterLine(b))))

(* Slips the properties below must detect (used by the mutation runs only).  *)
BufferedBodyIgnoringExcess ==
  LineIs("header", LAMBDA b : SizedBody(b, LAMBDA need :
    need <= 0 /\ buf' = <<>> /\ Succeed(body \o AfterLine(b))))

TooMuchBuffered ==
  LineIs("header", LAMBDA b : SizedBody(b, LAMBDA need :
    need < 0 /\ buf' = AfterLine(b) /\ Fail))

BodyBuffered ==
  LineIs("header", LAMBDA b : SizedBody(b, LAMBDA need :
    need = 0 /\ buf' = <<>> /\ Succeed(body \o AfterLine(b))))

AskForBody ==
  LineIs("header", LAMBDA b : SizedBody(b, LAMBDA need :
    /\ need > 0 /\ buf' = <<>>
    /\ body' = body \o AfterLine(b)
    /\ Queue(<<[Op("body") EXCEPT !.need = need]>>)
    /\ UNCHANGED <<length, coding>>))

BodyRead == BytesAre("body", LAMBDA b : buf' = <<>> /\ Succeed(body \o b))

BodyFails == ReadFails("body") /\ Fail

-----------------------------------------------------------------------------
(* read_chunked_body.  `in >> hex >> length` skips white space, blank lines  *)
(* included, leaves 0 where no number follows, and a failed stream ignores   *)
(* nothing: the line it could not read stays in the buffer.                  *)
SkipBlank(b) ==
  LET solid == {i \in 1..Len(b) : b[i].is # "blank"} IN
  IF solid = {} THEN <<>>
  ELSE SubSeq(b, CHOOSE i \in solid : \A j \in solid : i <= j, Len(b))
ReadsSize(b) == SkipBlank(b) # <<>> /\ SkipBlank(b)[1].is = "size"
SizeRead(b) == IF ReadsSize(b) THEN SkipBlank(b)[1].n ELSE 0
AfterSize(b) == IF ReadsSize(b) THEN Tail(SkipBlank(b)) ELSE SkipBlank(b)

ChunkTooLarge ==
  LineIs("size", LAMBDA b :
    attached /\ SizeRead(b) > MaxChunk /\ buf' = AfterSize(b) /\ Fail)

(* Slips the properties below must detect (used by the mutation runs only).  *)
ChunkOpsWithoutNext(n, need) ==
  (IF need > 0 THEN <<[kind |-> "data", chunk |-> n, need |-> need]>> ELSE <<>>)
  \o <<[kind |-> "end", chunk |-> n, need |-> 0]>>

(* The handler queues the rest of the chunk, unless it is buffered, the line *)
(* that ends it, and the size of the next chunk unless this was the last.    *)
ChunkOps(n, need) ==
  (IF need > 0 THEN <<[kind |-> "data", chunk |-> n, need |-> need]>> ELSE <<>>)
  \o <<[kind |-> "end", chunk |-> n, need |-> 0]>>
  \o (IF n > 0 THEN <<Op("size")>> ELSE <<>>)

(* What the size handler does with the size and the bytes behind it.         *)
TakeChunk(n, rest) ==
  LET need == n - Len(rest) IN
  /\ IF need > 0 THEN buf' = rest /\ UNCHANGED body
     ELSE /\ buf' = SubSeq(rest, n + 1, Len(rest))
          /\ body' = body \o SubSeq(rest, 1, n)
  /\ Queue(ChunkOps(n, need))

ChunkSize ==
  LineIs("size", LAMBDA b :
    /\ attached /\ SizeRead(b) <= MaxChunk
    /\ TakeChunk(SizeRead(b), AfterSize(b))
    /\ UNCHANGED <<length, coding>>)

ChunkData ==
  BytesAre("data", LAMBDA b :
    LET n == Head(ops).chunk IN
    /\ attached
    /\ body' = body \o SubSeq(b, 1, n)
    /\ buf' = SubSeq(b, n + 1, Len(b))
    /\ Queue(<<>>) /\ UNCHANGED <<length, coding>>)

ChunkEnd ==
  LineIs("end", LAMBDA b :
    /\ attached /\ Head(ops).chunk > 0
    /\ buf' = AfterLine(b)
    /\ Queue(<<>>) /\ UNCHANGED <<length, coding, body>>)

LastChunkEnd ==
  LineIs("end", LAMBDA b :
    attached /\ Head(ops).chunk = 0 /\ buf' = AfterLine(b) /\ Succeed(body))

(* The package was detached by an error reported earlier: do nothing.  (The  *)
(* data handler makes the same check, but nothing can fail before it.)       *)
DetachedLine(k) ==
  /\ k \in {"size", "end"}
  /\ LineIs(k, LAMBDA b : ~attached /\ buf' = b
                          /\ Queue(<<>>) /\ UNCHANGED <<length, coding, body>>)

SizeFailsSilently ==  (* a slip, for the mutation runs only *)
  ReadFails("size") /\ Queue(<<>>) /\ UNCHANGED <<length, coding, body>>

SizeFails == ReadFails("size") /\ Fail
DataFails == ReadFails("data") /\ Fail
EndFails == ReadFails("end") /\ Head(ops).chunk > 0 /\ Fail

(* The line after the last chunk cannot be read: the handler is not called.  *)
LastEndFails ==
  /\ ReadFails("end") /\ Head(ops).chunk = 0
  /\ Queue(<<>>) /\ UNCHANGED <<length, coding, body>>

FirstLine == GoodFirstLine \/ BadFirstLine \/ FirstLineThrows \/ FirstLineFails
Header == HeaderLine \/ HeaderFails \/ NoBody \/ StartChunks \/ LengthNotANumber
Body == TooMuchBuffered \/ BodyBuffered \/ AskForBody \/ BodyRead \/ BodyFails
Chunk ==
  \/ ChunkTooLarge \/ ChunkSize \/ ChunkData \/ ChunkEnd \/ LastChunkEnd
  \/ DetachedLine("size") \/ DetachedLine("end")
  \/ SizeFails \/ DataFails \/ EndFails \/ LastEndFails

Next == FirstLine \/ Header \/ Body \/ Chunk

Spec == Init /\ [][Next]_vars

-----------------------------------------------------------------------------
Idle == ops = <<>> \/ thrown

(* The variables take values of their types.                                 *)
TypeOK ==
  /\ input \in Seq(Symbol) /\ pos \in 0..Len(input)
  /\ Len(buf) <= pos
  /\ \A i \in 1..Len(ops) :
       /\ ops[i].kind \in {"first", "header", "body", "size", "data", "end"}
       /\ ops[i].chunk \in 0..MaxChunk
       /\ ops[i].need \in IF ops[i].kind \in {"data", "body"} THEN 1..IntMax ELSE {0}
  /\ attached \in BOOLEAN /\ told \in BOOLEAN /\ stopped \in BOOLEAN /\ thrown \in BOOLEAN
  /\ length.is \in {"none", "length", "badlength"}
  /\ coding.is \in {"none", "chunked"}
  /\ \A i \in 1..Len(reports) : reports[i] \in {"ok", "null"}

(* After an error was reported no package is ever delivered, although up to  *)
(* two more operations of the failed message are queued and may succeed on   *)
(* what is buffered (the check parser.cc:61 explains).  With the types.       *)
NothingAfterFailure ==
  /\ TypeOK
  /\ \A i, j \in 1..Len(reports) : i < j /\ reports[i] = "null" => reports[j] = "null"

(* At most one parse is under way on a connection: when the next request's   *)
(* first line is asked for, no operation of the previous message is queued   *)
(* behind it or in front of it, except the one whose handler asks.           *)
OneParseAtATime ==
  \A i \in 1..Len(ops) : ops[i].kind \in {"first", "header", "body"} => Len(ops) = 1

(* inc/parser.hh:14: if parsing fails the handler is called with nullptr.    *)
(* So a parse of which nothing is left to run, or nothing can, has called    *)
(* its handler.  The code keeps this of every parse on the connection but in *)
(* two places: behind a line that reads as the size of the last chunk the    *)
(* stream ended and the line after it never came (parser.cc:117), or the     *)
(* line just taken is a request whose URL has no path (parser.cc:229).       *)
EndsAfterLastSize ==
  \E i \in Newlines(input) :
    /\ \A j \in Newlines(input) : j <= i
    /\ input[i].is = "blank" \/ (input[i].is = "size" /\ input[i].n = 0)
EndsUnheard ==
  ~thrown /\ attached /\ length = None /\ coding # None /\ pos = Len(input) /\ EndsAfterLastSize
ThrowsUnheard ==
  /\ thrown /\ ServerSide
  /\ pos - Len(buf) \in 1..Len(input) /\ input[pos - Len(buf)].is = "queryonly"
FailureIsReported == Idle /\ ~told => EndsUnheard \/ ThrowsUnheard

(* A body with a length that an int can hold is delivered with as many bytes *)
(* as the length says, whatever was buffered with the head (parser.cc:173).  *)
(* (A larger length wraps, and so does the difference when the stream itself *)
(* is longer than that; then what is buffered may be delivered as it stands.)*)
SizedBodyIsWhole ==
  ops = <<>> /\ reports # <<>> /\ reports[Len(reports)] = "ok"
    /\ length.is = "length" /\ length.n <= IntMax /\ Len(input) <= IntMax
    => Len(body) = length.n

(* Behind a Content-Length there is no more of the stream than an int counts. *)
LengthsFit ==
  \A i \in 1..Len(input) : input[i].is = "length" => Len(input) - i <= IntMax

(* What the handler of a well-formed message gets is what the reference      *)
(* finds in the stream, however the bytes were cut into reads and although   *)
(* operations of the next chunk, or of the next message, are already queued. *)
FramingMatchesReference ==
  LengthsFit =>
    LET ref == Bodies(input, MaxChunk) IN
    \A i \in 1..Len(bodies) : i <= Len(ref) => bodies[i] = ref[i]

(* A stream that is exactly one well-formed message is always delivered.     *)
WholeMessageIsDelivered ==
  LengthsFit /\ Idle /\ IsOneMessage(input, MaxChunk) => reports # <<>> /\ reports[1] = "ok"
=============================================================================

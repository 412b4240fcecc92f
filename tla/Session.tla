------------------------------- MODULE Session -------------------------------
(***************************************************************************)
(* One connection of the server, from the requests on it to the answers    *)
(* (src/server.cc handleRequest, inc/server.hh deliverRequest, and the     *)
(* life of Request, Response and Connection).                              *)
(*                                                                         *)
(* The parts it composes appear as what they promise: the parser delivers  *)
(* one request at a time, or ends without one in one of the three ways     *)
(* that module Parser shows; the thread pool starts tasks in the order     *)
(* they were queued (module ThreadPool); the connection performs its       *)
(* writes one at a time in order (module Connection); a response is sent   *)
(* as a first line and further strings (module Package).                   *)
(*                                                                         *)
(* Nobody closes the connection after an answer: it is destroyed when the  *)
(* last shared_ptr to it goes.  Those are held by a pending parse, by      *)
(* requests not yet delivered, by responses not yet destroyed and by the   *)
(* queued writes.                                                          *)
(***************************************************************************)
EXTENDS Integers, Sequences, FiniteSets

CONSTANTS
  Workers,   (* the threads of the pool                                     *)
  Requests,  (* bound: the client sends requests 1..Requests                *)
  MaxFlush   (* bound: flushes of one response                              *)

ASSUME SessionAssumption ==
  /\ Requests \in Nat /\ MaxFlush \in Nat
  /\ IsFiniteSet(Workers) /\ "kept" \notin Workers /\ "none" \notin Workers

Req == 1..Requests

VARIABLES
  keep,     (* keepAlive() of each request                                  *)
  sent,     (* how many requests the client has sent                        *)
  broken,   (* the client closed, or sent what is no request                *)
  hasty,    (* history: it sent a request before the last was answered      *)
  kept,     (* history: a handler kept its response after it returned       *)
  parsing,  (* a parse is queued on the connection                          *)
  parsed,   (* how many requests were delivered by the parser               *)
  tasks,    (* the pool's queue: requests, each with its connection         *)
  doing,    (* what each worker is at: a request, or 0                      *)
  res,      (* each request's response                                      *)
  writes,   (* the connection's write queue                                 *)
  wire,     (* what was written to the socket                               *)
  stopped,  (* conn->stop() was called                                      *)
  wedged    (* the parser threw: its read stays at the front of the queue   *)

client == <<keep, sent, broken, hasty>>
vars == <<client, kept, parsing, parsed, tasks, doing, res, writes, wire,
          stopped, wedged>>

(* owner: a worker, "kept" by the application, or "none" (not made, or gone);*)
(* todo: the strings the call in progress still has to give to asyncWrite.   *)
Response(owner) ==
  [owner |-> owner, attached |-> TRUE, flushes |-> 0, dropping |-> FALSE, todo |-> <<>>]
NoResponse == Response("none")

Init ==
  /\ keep \in [Req -> BOOLEAN] /\ sent = 0 /\ broken = FALSE
  /\ hasty = FALSE /\ kept = FALSE
  /\ parsing = TRUE /\ parsed = 0
  /\ tasks = <<>> /\ doing = [w \in Workers |-> 0]
  /\ res = [r \in Req |-> NoResponse]
  /\ writes = <<>> /\ wire = <<>> /\ stopped = FALSE /\ wedged = FALSE

Piece(r, p) == [of |-> r, part |-> p]
Answered(r) == \E i \in 1..Len(wire) : wire[i] = Piece(r, "last")

(* The connection is destroyed, and with it the socket closed.               *)
Released ==
  /\ ~parsing /\ tasks = <<>> /\ writes = <<>>
  /\ \A r \in Req : res[r].owner = "none"

-----------------------------------------------------------------------------
(* The client.                                                               *)
Send ==
  /\ ~broken /\ sent < Requests /\ ~Released
  /\ sent > 0 => keep[sent]
  /\ sent' = sent + 1
  /\ hasty' = (hasty \/ (sent > 0 /\ ~Answered(sent)))
  /\ UNCHANGED <<keep, broken, kept, parsing, parsed, tasks, doing, res, writes, wire, stopped, wedged>>

Break ==
  /\ ~broken /\ broken' = TRUE
  /\ UNCHANGED <<keep, sent, hasty, kept, parsing, parsed, tasks, doing, res, writes, wire, stopped, wedged>>

-----------------------------------------------------------------------------
(* handleRequest: the parser's handler.  The next parse is queued before the *)
(* request is handed to the pool; both before the handler returns and the    *)
(* connection starts the next read.  (Before it two slips: the next parse is *)
(* queued whatever the request says; the newest request is served first.)    *)
DeliverAndParseOn ==
  /\ parsing /\ parsed < sent /\ ~stopped
  /\ parsed' = parsed + 1
  /\ tasks' = Append(tasks, parsed')
  /\ UNCHANGED <<client, kept, parsing, doing, res, writes, wire, stopped, wedged>>

DeliverLastFirst ==
  /\ parsing /\ parsed < sent /\ ~stopped
  /\ parsed' = parsed + 1
  /\ parsing' = keep[parsed']
  /\ tasks' = <<parsed'>> \o tasks
  /\ UNCHANGED <<client, kept, doing, res, writes, wire, stopped, wedged>>

Deliver ==
  /\ parsing /\ parsed < sent /\ ~stopped
  /\ parsed' = parsed + 1
  /\ parsing' = keep[parsed']
  /\ tasks' = Append(tasks, parsed')
  /\ UNCHANGED <<client, kept, doing, res, writes, wire, stopped, wedged>>

(* The parse ends without a request.  Either the handler is called with      *)
(* nullptr, and the connection is stopped, whatever is being answered.       *)
NoRequest == parsing /\ parsed = sent /\ broken /\ ~wedged

ParseFails ==
  /\ NoRequest
  /\ parsing' = FALSE /\ stopped' = TRUE
  /\ UNCHANGED <<client, kept, parsed, tasks, doing, res, writes, wire, wedged>>

(* Or nobody is called, the line behind the last chunk being missing.        *)
ParseEndsUnheard ==
  /\ NoRequest
  /\ parsing' = FALSE
  /\ UNCHANGED <<client, kept, parsed, tasks, doing, res, writes, wire, stopped, wedged>>

(* Or the parser throws, a URL having no path: nobody is called, and the     *)
(* read, whose closure holds the connection, is never popped.                *)
ParseThrows ==
  /\ NoRequest
  /\ wedged' = TRUE
  /\ UNCHANGED <<client, kept, parsing, parsed, tasks, doing, res, writes, wire, stopped>>

ParseEnds == ParseFails \/ ParseEndsUnheard \/ ParseThrows

-----------------------------------------------------------------------------
(* deliverRequest on a worker: the response gets the connection, the request *)
(* loses it.  (Before it a slip: the other way round.)                       *)
TakeDetached(w) ==
  /\ doing[w] = 0 /\ tasks # <<>>
  /\ doing' = [doing EXCEPT ![w] = Head(tasks)]
  /\ res' = [res EXCEPT ![Head(tasks)] = [Response(w) EXCEPT !.attached = FALSE]]
  /\ tasks' = Tail(tasks)
  /\ UNCHANGED <<client, kept, parsing, parsed, writes, wire, stopped, wedged>>

Take(w) ==
  /\ doing[w] = 0 /\ tasks # <<>>
  /\ doing' = [doing EXCEPT ![w] = Head(tasks)]
  /\ res' = [res EXCEPT ![Head(tasks)] = Response(w)]
  /\ tasks' = Tail(tasks)
  /\ UNCHANGED <<client, kept, parsing, parsed, writes, wire, stopped, wedged>>

(* Between its asyncWrites whoever holds the response can be overtaken.      *)
Ready(r) == res[r].owner # "none" /\ res[r].todo = <<>> /\ ~res[r].dropping

Flush(r) ==
  /\ Ready(r) /\ res[r].attached /\ res[r].flushes < MaxFlush
  /\ res' = [res EXCEPT ![r].flushes = @ + 1,
                        ![r].todo = IF res[r].flushes = 0 THEN <<"first", "more">>
                                                          ELSE <<"more">>]
  /\ UNCHANGED <<client, kept, parsing, parsed, tasks, doing, writes, wire, stopped, wedged>>

(* The handler returns but something it started keeps the response.          *)
Keep(w) ==
  LET r == doing[w] IN
  /\ r # 0 /\ Ready(r) /\ res[r].owner = w
  /\ kept' = TRUE
  /\ res' = [res EXCEPT ![r].owner = "kept"]
  /\ doing' = [doing EXCEPT ![w] = 0]
  /\ UNCHANGED <<client, parsing, parsed, tasks, writes, wire, stopped, wedged>>

(* The last shared_ptr to the response goes: its destructor sends the rest.  *)
Drop(r) ==
  /\ Ready(r)
  /\ res' = [res EXCEPT ![r].dropping = TRUE,
                        ![r].todo = IF ~res[r].attached THEN <<>>
                                    ELSE IF res[r].flushes = 0 THEN <<"first", "last">>
                                    ELSE <<"more", "last", "empty">>]
  /\ UNCHANGED <<client, kept, parsing, parsed, tasks, doing, writes, wire, stopped, wedged>>

(* One asyncWrite.                                                            *)
Write(r) ==
  /\ res[r].todo # <<>>
  /\ writes' = Append(writes, Piece(r, Head(res[r].todo)))
  /\ res' = [res EXCEPT ![r].todo = Tail(@)]
  /\ UNCHANGED <<client, kept, parsing, parsed, tasks, doing, wire, stopped, wedged>>

(* The destructor is done; a worker that ran it is free again.              *)
Gone(r) ==
  /\ res[r].owner # "none" /\ res[r].dropping /\ res[r].todo = <<>>
  /\ res' = [res EXCEPT ![r].owner = "none"]
  /\ doing' = [w \in Workers |-> IF doing[w] = r THEN 0 ELSE doing[w]]
  /\ UNCHANGED <<client, kept, parsing, parsed, tasks, writes, wire, stopped, wedged>>

(* The front write completes; on a stopped connection it is lost.            *)
WriteDone ==
  /\ writes # <<>>
  /\ writes' = Tail(writes)
  /\ wire' = IF stopped THEN wire ELSE Append(wire, Head(writes))
  /\ UNCHANGED <<client, kept, parsing, parsed, tasks, doing, res, stopped, wedged>>

Respond(r) == Flush(r) \/ Drop(r) \/ Write(r) \/ Gone(r)

Next ==
  \/ Send \/ Break
  \/ Deliver \/ ParseEnds \/ WriteDone
  \/ \E w \in Workers : Take(w) \/ Keep(w)
  \/ \E r \in Req : Respond(r)

Spec == Init /\ [][Next]_vars

(* The threads run, and handlers return and let their response go.           *)
Fairness ==
  /\ WF_vars(Deliver) /\ WF_vars(ParseEnds) /\ WF_vars(WriteDone)
  /\ \A w \in Workers : WF_vars(Take(w))
  /\ \A r \in Req : WF_vars(Respond(r))

FairSpec == Spec /\ Fairness

-----------------------------------------------------------------------------
Parts == {"first", "more", "last", "empty"}
Pieces == [of : Req, part : Parts]
Responses == [owner : Workers \cup {"kept", "none"}, attached : BOOLEAN,
              flushes : 0..MaxFlush, dropping : BOOLEAN, todo : Seq(Parts)]

(* The variables take values of their types, and each response under way has *)
(* one owner.                                                                *)
TypeOK ==
  /\ keep \in [Req -> BOOLEAN] /\ sent \in 0..Requests /\ broken \in BOOLEAN
  /\ hasty \in BOOLEAN /\ kept \in BOOLEAN
  /\ parsing \in BOOLEAN /\ parsed \in 0..sent
  /\ tasks \in Seq(Req) /\ writes \in Seq(Pieces) /\ wire \in Seq(Pieces)
  /\ doing \in [Workers -> 0..Requests]
  /\ res \in [Req -> Responses]
  /\ \A w \in Workers : doing[w] # 0 => res[doing[w]].owner = w
  /\ stopped \in BOOLEAN /\ wedged \in BOOLEAN

(* The strings s, of which the client does not see the empty ones, are the   *)
(* answers in the order of the requests, none inside another: before a       *)
(* string stand the ends of all earlier answers and, unless it is that, the  *)
(* beginning of its own, and neither a later answer nor its own end.         *)
InOrder(s) ==
  \A j \in 1..Len(s) : s[j].part # "empty" =>
    /\ \A i \in 1..j - 1 : s[i].part # "empty" =>
         s[i].of < s[j].of \/ (s[i].of = s[j].of /\ s[i].part # "last" /\ s[j].part # "first")
    /\ \A r \in 1..s[j].of - 1 : \E i \in 1..j - 1 : s[i] = Piece(r, "last")
    /\ s[j].part # "first" => \E i \in 1..j - 1 : s[i] = Piece(s[j].of, "first")

(* Answers go out in the order of the requests and never inside each other,  *)
(* although each is several strings and any thread may write at any time.    *)
(* This needs a client that waits for its answers, or a single worker and    *)
(* handlers that are done with the response when they return.                *)
AnswersInOrder ==
  ~hasty \/ (Cardinality(Workers) = 1 /\ ~kept) => InOrder(wire)

(* The connection goes only when everything taken from it was answered, on   *)
(* the wire to the last string, unless it was stopped.  (With the types.)    *)
NotReleasedTooEarly ==
  TypeOK /\
  (Released /\ ~stopped => \A r \in 1..parsed : Answered(r))

(* Every request the parser delivered is answered, unless the client broke   *)
(* off.                                                                      *)
EveryRequestIsAnswered ==
  \A r \in Req : parsed >= r ~> Answered(r) \/ stopped

(* A request without keep-alive ends the connection: nothing is left that    *)
(* holds it.  So does a client that broke off, unless it was with a line the *)
(* parser throws on (parser.cc:229): that read holds the connection for ever.*)
ConnectionIsReleased ==
  /\ (\E r \in Req : r <= parsed /\ ~keep[r]) ~> Released
  /\ broken ~> Released \/ wedged
=============================================================================

------------------------------- MODULE Package -------------------------------
(***************************************************************************)
(* A message being written (src/package.cc, src/request.cc,                *)
(* src/response.cc): the application fills its headers and body, may flush *)
(* what it has any number of times, and the destructor sends the rest.     *)
(* The first flush turns the message into a chunked one; without a flush   *)
(* the destructor sends it with a length.                                  *)
(*                                                                         *)
(* Symbols are those of HttpFraming: one per body byte, one per line.      *)
(***************************************************************************)
EXTENDS Integers, Sequences, HttpFraming

CONSTANTS
  MaxBody, (* bound: bytes the application writes                           *)
  MaxCalls (* bound: calls of flush and of the header operations            *)

ASSUME PackageAssumption == MaxBody \in Nat /\ MaxCalls \in Nat

(* The bytes the application writes are Byte(1), Byte(2), ...; the page that *)
(* response.cc has for a status is one byte of another number.               *)
Page(st) == Byte(MaxBody + st)

(* The statuses the tables of response.cc tell apart: Ok has an empty page,  *)
(* Not_Found stands for those with a line and a page of their own,           *)
(* Method_Not_Allowed for those of the enumeration that have neither, and    *)
(* NoStatus (0) for a status that was never read (fcgi.cc:202).              *)
Ok == 200
Not_Found == 404
Method_Not_Allowed == 405
Internal_Server_Error == 500
NoStatus == 0
Statuses == {Ok, Not_Found, Method_Not_Allowed, NoStatus}
Listed == {Ok, Not_Found, Internal_Server_Error}

StatusHead(st) == IF st \in Listed THEN st ELSE Internal_Server_Error
StatusBody(st) == IF st = Ok THEN <<>> ELSE <<Page(StatusHead(st))>>

VARIABLES
  kind,      (* "request" (the client's) or "response" (the server's)       *)
  written,   (* history: the bytes put into out()                           *)
  unsent,    (* the bytes of the stream not yet sent                        *)
  headers,   (* headers_: those of the application, then the framing ones   *)
  chunked,   (* chunked_                                                    *)
  started,   (* send_started_                                               *)
  connected, (* connection_ is set                                          *)
  status,    (* status_                                                     *)
  named,     (* msg_ and version_ are both set                              *)
  sent,      (* the strings given to asyncWrite, one after the other         *)
  alive,     (* the destructor has not run                                  *)
  calls      (* bound                                                       *)

packageVars == <<kind, written, unsent, headers, chunked, started, connected, status, named, sent, alive, calls>>

PackageInit ==
  /\ kind \in {"request", "response"}
  /\ written = <<>> /\ unsent = <<>> /\ headers = <<>>
  /\ chunked = FALSE /\ started = FALSE /\ connected = TRUE
  /\ status = Ok /\ named = FALSE /\ sent = <<>> /\ alive = TRUE /\ calls = 0

-----------------------------------------------------------------------------
HasLength(hs) == \E i \in 1..Len(hs) : hs[i].is = "length"

(* flushPackage: the header lines it adds, and the piece of body it sends.   *)
Framing(hs, ch, b) ==
  IF ch THEN Append(hs, Sym("chunked"))
  ELSE IF HasLength(hs) THEN hs ELSE Append(hs, LengthLine(Len(b)))

(* Slips the properties below must detect (used by the mutation runs only).  *)
PieceOfNothing(ch, b) ==
  IF ch THEN <<SizeLine(Len(b))>> \o b \o <<Sym("blank")>> ELSE b

Piece(ch, b) ==
  IF b = <<>> THEN <<>>
  ELSE IF ch THEN <<SizeLine(Len(b))>> \o b \o <<Sym("blank")>>
  ELSE b

(* The status line carries the status as it is only if the application also  *)
(* gave a version and a message; n is the status a reader of the line sees.  *)
StatusLine ==
  [is |-> "request", n |-> IF named /\ status # NoStatus THEN status ELSE StatusHead(status)]

RequestLine == Sym("request")

StartLine == <<IF kind = "response" THEN StatusLine ELSE RequestLine>>
LastChunk == <<SizeLine(0), Sym("blank")>>

(* What one flushPackage does to a message whose unread body is b.           *)
Flushed(ch, b) ==
  [out |-> (IF started THEN <<>> ELSE Framing(headers, ch, b) \o <<Sym("blank")>>)
             \o Piece(ch, b),
   headers |-> IF started THEN headers ELSE Framing(headers, ch, b),
   rest |-> <<>>]

-----------------------------------------------------------------------------
(* The application's operations.                                             *)
Write ==
  /\ alive /\ Len(written) < MaxBody
  /\ LET b == Byte(Len(written) + 1) IN
       written' = Append(written, b) /\ unsent' = Append(unsent, b)
  /\ UNCHANGED <<kind, headers, chunked, started, connected, status, named, sent, alive, calls>>

(* delHeader: the headers of another name, in their order.                   *)
DelHeader(hs, name) ==
  WalkFrom([i \in 1..Len(hs) |-> i + 1],
           [i \in 1..Len(hs) |-> IF hs[i].is = name THEN <<>> ELSE <<hs[i]>>], 1).out

SetHeader(h) ==
  /\ alive /\ calls < MaxCalls /\ calls' = calls + 1
  /\ headers' = Append(DelHeader(headers, h.is), h)
  /\ UNCHANGED <<kind, written, unsent, chunked, started, connected, status, named, sent, alive>>

AddHeader(h) ==
  /\ alive /\ calls < MaxCalls /\ calls' = calls + 1
  /\ headers' = Append(headers, h)
  /\ UNCHANGED <<kind, written, unsent, chunked, started, connected, status, named, sent, alive>>

SetStatus ==
  /\ alive /\ kind = "response" /\ status' \in Statuses
  /\ UNCHANGED <<kind, written, unsent, headers, chunked, started, connected, named, sent, alive, calls>>

SetMessage ==
  /\ alive /\ kind = "response" /\ ~named /\ named' = TRUE
  /\ UNCHANGED <<kind, written, unsent, headers, chunked, started, connected, status, sent, alive, calls>>

Discard ==
  /\ alive /\ connected /\ connected' = FALSE
  /\ UNCHANGED <<kind, written, unsent, headers, chunked, started, status, named, sent, alive, calls>>

(* flush: only the first one sends the first line.                           *)
Flush ==
  /\ alive /\ connected /\ calls < MaxCalls /\ calls' = calls + 1
  /\ LET f == Flushed(TRUE, unsent) IN
       /\ sent' = sent \o (IF chunked THEN <<>> ELSE StartLine) \o f.out
       /\ headers' = f.headers /\ unsent' = f.rest
  /\ chunked' = TRUE /\ started' = TRUE
  /\ UNCHANGED <<kind, written, connected, status, named, alive>>

(* The destructor of a message that was never flushed.                       *)
DestroyWhole ==
  /\ alive /\ connected /\ ~chunked
  /\ alive' = FALSE /\ started' = TRUE
  /\ LET b == IF kind = "response" /\ status # Ok /\ unsent = <<>> THEN StatusBody(status) ELSE unsent
         f == Flushed(FALSE, b)
     IN  /\ sent' = sent \o StartLine \o f.out
         /\ headers' = f.headers /\ unsent' = f.rest
         /\ written' = IF unsent = <<>> THEN b ELSE written
  /\ UNCHANGED <<kind, chunked, connected, status, named, calls>>

(* The destructor of a flushed one: the rest, the last chunk, and once more  *)
(* flushPackage, which has nothing left to send but an empty string.         *)
(* (Before it a slip: the last chunk goes out before what is still in body.) *)
DestroyChunkedEndFirst ==
  /\ alive /\ connected /\ chunked
  /\ alive' = FALSE
  /\ LET f == Flushed(TRUE, unsent) IN
       /\ sent' = sent \o LastChunk \o f.out
       /\ unsent' = f.rest
  /\ UNCHANGED <<kind, written, headers, chunked, started, connected, status, named, calls>>

DestroyChunked ==
  /\ alive /\ connected /\ chunked
  /\ alive' = FALSE
  /\ LET f == Flushed(TRUE, unsent) IN
       /\ sent' = sent \o f.out \o LastChunk \o Flushed(TRUE, f.rest).out
       /\ unsent' = f.rest
  /\ UNCHANGED <<kind, written, headers, chunked, started, connected, status, named, calls>>

(* A message without a connection sends nothing.                             *)
DestroyDetached ==
  /\ alive /\ ~connected /\ alive' = FALSE
  /\ UNCHANGED <<kind, written, unsent, headers, chunked, started, connected, status, named, sent, calls>>

AppHeaders == {Sym("host")} \cup {LengthLine(k) : k \in 0..MaxBody}

PackageNext ==
  \/ Write \/ SetStatus \/ SetMessage \/ Discard \/ Flush
  \/ \E h \in AppHeaders : SetHeader(h) \/ AddHeader(h)
  \/ DestroyWhole \/ DestroyChunked \/ DestroyDetached

PackageSpec == PackageInit /\ [][PackageNext]_packageVars

-----------------------------------------------------------------------------
(* The variables take values of their types.                                 *)
PackageTypeOK ==
  /\ kind \in {"request", "response"}
  /\ \A i \in 1..Len(written) : written[i].is = "byte"
  /\ Len(unsent) <= Len(written)
  /\ \A i \in 1..Len(headers) : headers[i].is \in {"host", "length", "chunked"}
  /\ chunked \in BOOLEAN /\ started \in BOOLEAN /\ connected \in BOOLEAN
  /\ status \in Statuses /\ named \in BOOLEAN /\ alive \in BOOLEAN
  /\ chunked /\ alive => started
  /\ calls \in 0..MaxCalls

(* What the reference reads, and the lengths that the headers announce.  (A  *)
(* reader has a limit for a chunk; the writer has none.)                     *)
AsRead == Message(sent, MaxBody, 1)
Lengths == Headers(headers, "length", 1).out

(* A message whose framing was left to the library, or whose first length    *)
(* the application set right, arrives as one whole message with the body the *)
(* application wrote, whatever was flushed when (response.cc:292).  A stock  *)
(* page is sent only for a whole response without a body, and it is the page *)
(* of the status in the first line unless that status has none.              *)
RoundTrip ==
  ~alive /\ connected
    /\ (Lengths = <<>> \/ (~chunked /\ Lengths[1] = Len(written)))
    => AsRead.ok /\ AsRead.body = written /\ AsRead.next = Len(sent) + 1
         /\ \A i \in 1..Len(AsRead.body) : AsRead.body[i].n > MaxBody =>
              /\ kind = "response" /\ ~chunked /\ Len(AsRead.body) = 1
              /\ sent[1].n # Ok
              /\ sent[1].n \in Listed => AsRead.body[1] = Page(sent[1].n)

(* A flushed message does not end before its destructor runs: a flush with   *)
(* nothing to send must not look like the last chunk (package.cc:34).        *)
NoEarlyEnd == alive /\ Lengths = <<>> => ~AsRead.ok

(* What is on the wire reads as the message written, once and only once it   *)
(* is all there (response.cc:278 to 309, package.cc:11).  (With the types.)  *)
ReadsAsWritten == PackageTypeOK /\ RoundTrip /\ NoEarlyEnd
=============================================================================

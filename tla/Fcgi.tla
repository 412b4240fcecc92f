--------------------------------- MODULE Fcgi ---------------------------------
(***************************************************************************)
(* One request handed to a FastCGI application (src/fcgi.cc): fcgi()       *)
(* connects, writes the request as records, and reads records back into    *)
(* the response until the end record.  How the connection is made is in    *)
(* module Connector, how its queues work in module Connection, what the    *)
(* response sends when it is dropped in module Package.                    *)
(*                                                                         *)
(* What is written is modelled with its real lengths, since their fields   *)
(* have one, two or four bytes.  What is read is a stream of symbols: a    *)
(* header of HeaderSize symbols, the content, the padding.                 *)
(*                                                                         *)
(* Names that other modules have too carry the prefix Fcgi: the proofs     *)
(* about this module and about Tunnel share a module.                      *)
(***************************************************************************)
EXTENDS Integers, Sequences, SequencesExt, FiniteSets

CONSTANTS
  Requests,   (* bound: the requests, by the sizes of their parts             *)
  Scripts,    (* bound: what the application's script prints                  *)
  HeaderSize, (* bound: symbols of a record header, 8 bytes in the code       *)
  Statuses,   (* bound: the protocol statuses of end records, 0 to 255        *)
  MaxPadding, (* bound: padding of a record                                   *)
  MaxRecords  (* bound: records before the end record                         *)

(* The symbols of the stream: headers of records, what scripts print, what   *)
(* is in other records, and padding.                                         *)
Sym(is, n, pad) == [is |-> is, n |-> n, pad |-> pad]
Symbols ==
  [is : {"STDOUT", "STDERR", "OTHER", "END", "more", "pad", "byte", "end", "none",
         "status", "field", "nocolon", "blank"}, n : Int, pad : Nat]
NoHeader == Sym("none", 0, 0)

IsRequest(r) ==
  /\ {r.root, r.method, r.path, r.query, r.body} \subseteq Nat /\ r.slash \in BOOLEAN
  /\ r.slash => r.root # 0
  /\ \A f \in DOMAIN r.fields : r.fields[f] \in Nat
  /\ r.set \in Seq(Symbols)

ASSUME FcgiAssumption ==
  /\ HeaderSize \in Nat \ {0} /\ MaxPadding \in Nat /\ MaxRecords \in Nat
  /\ Statuses \subseteq 0..255
  /\ \A r \in Requests : IsRequest(r)
  /\ Scripts \subseteq Seq(Symbols)

VARIABLES
  req,      (* sizes: root, path, query, body; fields: the headers it has;    *)
            (* set: the headers that the caller's response has already        *)
  call,     (* what fcgi() waits for: its connection, a header, a content     *)
  written,  (* the records given to asyncWrite                                *)
  stream,   (* the symbols the application sent and nobody read yet           *)
  buffer,   (* readBuffer()                                                   *)
  header,   (* the header the content closure captured                        *)
  status,   (* the response's status_,                                        *)
  fields,   (* its headers                                                    *)
  body,     (* and what is in its stream                                      *)
  finished, (* calls of finish_handler                                        *)
  held,     (* the caller of fcgi() still has the response                    *)
  released, (* the response's destructor has run: it has been sent            *)
  script, unsaid,  (* the script's output, and what of it is still to be sent *)
  gone,            (* the application closed its side                         *)
  odd,             (* it sent a record of a type the code does not know       *)
  ended,           (* the status in its end record, or -1                     *)
  records          (* bound                                                   *)

lib == <<call, written, buffer, header, status, fields, body, finished, held, released>>
app == <<script, unsaid, gone, odd, ended, records>>
fcgiVars == <<req, stream, lib, app>>

FcgiInit ==
  /\ req \in Requests /\ script \in Scripts /\ unsaid = script
  /\ call = "idle" /\ written = <<>> /\ stream = <<>> /\ buffer = <<>>
  /\ header = NoHeader
  /\ status = 200 /\ fields = req.set /\ body = <<>>
  /\ finished = 0 /\ held = TRUE /\ released = FALSE
  /\ gone = FALSE /\ odd = FALSE /\ ended = -1 /\ records = 0

-----------------------------------------------------------------------------
(* Writing the request.                                                      *)

(* The bytes of a length: one byte up to 255, else four with the top bit set. *)
LengthBytes(n) ==
  IF n > 255
  THEN << ((n \div (256 * 256 * 256)) % 128) + 128, (n \div (256 * 256)) % 256,
          (n \div 256) % 256, n % 256 >>
  ELSE <<n>>

(* The parameter names are 9 to 19 bytes long.                               *)
NameSize == 15

(* key_value: the lengths, then name and value.                              *)
KeyValue(p) ==
  LET lengths == LengthBytes(NameSize) \o LengthBytes(p.size) IN
  [lengths |-> lengths, size |-> Len(lengths) + NameSize + p.size, param |-> p]

(* record: the two bytes of the length, whatever the size of what follows.   *)
Record(type, content) ==
  [type |-> type, b1 |-> (content.size \div 256) % 256, b0 |-> content.size % 256,
   content |-> content]

Plain(n) == [size |-> n]
Param(name, size) == [name |-> name, size |-> size, n |-> 0]
Digits(n) == 1 + Cardinality({k \in 1..9 : 10^k <= n})

(* doc_root without a slash at its end.                                      *)
Root(r) == IF r.slash THEN r.root - 1 ELSE r.root

(* The parameters every request has.  left is what is in the request's body  *)
(* stream when they are built.                                               *)
Always(r, left) ==
  << Param("DOCUMENT_ROOT", Root(r)), Param("REQUEST_METHOD", r.method),
     Param("SCRIPT_FILENAME", Root(r) + r.path), Param("SCRIPT_NAME", r.path),
     Param("QUERY_STRING", r.query), Param("SERVER_PROTOCOL", 8),
     Param("GATEWAY_INTERFACE", 7), Param("SERVER_SOFTWARE", 6),
     Param("REQUEST_URI", r.path + (IF r.query = 0 THEN 0 ELSE 1 + r.query)),
     [name |-> "CONTENT_LENGTH", size |-> Digits(left), n |-> left],
     [name |-> "HTTP_CONTENT_LENGTH", size |-> Digits(left), n |-> left] >>

(* add_param_if: for headers that the request has.                           *)
AddParamIf(r, field, name) ==
  IF field \in DOMAIN r.fields THEN <<Param(name, r.fields[field])>> ELSE <<>>

Present(r) ==
  AddParamIf(r, "Host", "HTTP_HOST") \o AddParamIf(r, "Cookie", "HTTP_COOKIE")
    \o AddParamIf(r, "Content-Type", "CONTENT_TYPE")
    \o AddParamIf(r, "Content-Type", "HTTP_CONTENT_TYPE")
    \o AddParamIf(r, "Accept", "HTTP_ACCEPT") \o AddParamIf(r, "Connection", "HTTP_CONNECTION")

ParamRecords(ps) == [i \in 1..Len(ps) |-> Record("PARAMS", KeyValue(ps[i]))]

(* A slip: the body is moved out of the request before it is measured.       *)
RequestRecordsLate(r) ==
  <<Record("BEGIN", Plain(8))>>
    \o ParamRecords(Always(r, 0) \o Present(r)) \o <<Record("PARAMS", Plain(0))>>
    \o (IF r.body = 0 THEN <<>> ELSE <<Record("STDIN", Plain(r.body))>>)
    \o <<Record("STDIN", Plain(0))>>

RequestRecords(r) ==
  <<Record("BEGIN", Plain(8))>>
    \o ParamRecords(Always(r, r.body) \o Present(r)) \o <<Record("PARAMS", Plain(0))>>
    \o (IF r.body = 0 THEN <<>> ELSE <<Record("STDIN", Plain(r.body))>>)
    \o <<Record("STDIN", Plain(0))>>

(* fcgi() without a document root refuses at once.                           *)
Call ==
  /\ call = "idle"
  /\ IF req.root = 0 THEN call' = "over" /\ status' = 500
                     ELSE call' = "connecting" /\ UNCHANGED status
  /\ UNCHANGED <<req, stream, written, buffer, header, fields, body, finished, held, released, app>>

NotConnected ==
  /\ call = "connecting" /\ call' = "over" /\ status' = 500
  /\ UNCHANGED <<req, stream, written, buffer, header, fields, body, finished, held, released, app>>

Connected ==
  /\ call = "connecting" /\ call' = "header" /\ written' = RequestRecords(req)
  /\ UNCHANGED <<req, stream, buffer, header, status, fields, body, finished, held, released, app>>

-----------------------------------------------------------------------------
(* The FastCGI application: it splits what the script prints into records as *)
(* it likes, with other records between them, and may go away at any moment.  *)
RecordSymbols(type, content, pad) ==
  <<Sym(type, Len(content), pad)>> \o [i \in 1..(HeaderSize - 1) |-> Sym("more", 0, 0)]
    \o content \o [i \in 1..pad |-> Sym("pad", 0, 0)]

Answering == written # <<>> /\ ~gone /\ ended = -1

Prints(k, pad) ==
  /\ Answering /\ records < MaxRecords /\ records' = records + 1
  /\ stream' = stream \o RecordSymbols("STDOUT", SubSeq(unsaid, 1, k), pad)
  /\ unsaid' = SubSeq(unsaid, k + 1, Len(unsaid))
  /\ UNCHANGED <<req, lib, script, gone, odd, ended>>

SendsOther(type, pad) ==
  /\ Answering /\ records < MaxRecords /\ records' = records + 1
  /\ stream' = stream \o RecordSymbols(type, <<Sym("byte", 0, 0)>>, pad)
  /\ odd' = (odd \/ type # "STDERR")
  /\ UNCHANGED <<req, lib, script, unsaid, gone, ended>>

(* Status 0 is a complete request, 1 to 3 are refusals, 4 is none of these.  *)
Ends(st) ==
  /\ Answering /\ (st = 0 => unsaid = <<>>)
  /\ stream' = stream \o RecordSymbols("END", <<Sym("end", st, 0)>>, 0)
  /\ ended' = st
  /\ UNCHANGED <<req, lib, script, unsaid, gone, odd, records>>

Closes(k) ==
  /\ written # <<>> /\ ~gone /\ gone' = TRUE
  /\ stream' = SubSeq(stream, 1, k)
  /\ UNCHANGED <<req, lib, script, unsaid, odd, ended, records>>

-----------------------------------------------------------------------------
(* read_record.  The header is read with transfer_at_least, which may bring  *)
(* symbols of what follows; a read of nothing brings nothing.                *)
HeaderNeeds == IF Len(buffer) < HeaderSize THEN HeaderSize - Len(buffer) ELSE 0

HeaderArrives(k) ==
  /\ call = "header" /\ k >= HeaderNeeds /\ (HeaderNeeds = 0 => k = 0)
  /\ LET got == buffer \o SubSeq(stream, 1, k) IN
       header' = got[1] /\ buffer' = SubSeq(got, HeaderSize + 1, Len(got))
  /\ stream' = SubSeq(stream, k + 1, Len(stream)) /\ call' = "content"
  /\ UNCHANGED <<req, written, status, fields, body, finished, held, released, app>>

(* The content is read with transfer_exactly what the buffer lacks.  (Before *)
(* it a slip: what the last read brought too much is not counted.)           *)
ContentNeedsAll == header.n + header.pad

ContentNeeds ==
  LET size == header.n + header.pad IN
  IF Len(buffer) < size THEN size - Len(buffer) ELSE 0

(* An end of file or an error before enough has come.                        *)
RecordFails ==
  /\ gone
  /\ \/ call = "header" /\ Len(stream) < HeaderNeeds
     \/ call = "content" /\ Len(stream) < ContentNeeds
  /\ call' = "over" /\ status' = 500
  /\ UNCHANGED <<req, stream, written, buffer, header, fields, body, finished, held, released, app>>

(* What a completed content read has: content, then padding.                 *)
Got == buffer \o SubSeq(stream, 1, ContentNeeds)
Content == SubSeq(Got, 1, header.n)

(* A slip: the padding is left where it is.                                  *)
TakeContentOnly ==
  /\ call = "content" /\ Len(stream) >= ContentNeeds
  /\ header' = NoHeader
  /\ buffer' = SubSeq(Got, header.n + 1, Len(Got))
  /\ stream' = SubSeq(stream, ContentNeeds + 1, Len(stream))

TakeContent ==
  /\ call = "content" /\ Len(stream) >= ContentNeeds
  /\ header' = NoHeader
  /\ buffer' = SubSeq(Got, header.n + header.pad + 1, Len(Got))
  /\ stream' = SubSeq(stream, ContentNeeds + 1, Len(stream))

OutputArrives ==
  /\ header.is = "STDOUT" /\ TakeContent /\ body' = body \o Content
  /\ call' = "header"
  /\ UNCHANGED <<req, written, status, fields, finished, held, released, app>>

(* Error output is logged; an unknown type is an error, but reading goes on. *)
OtherArrives ==
  /\ header.is \notin {"STDOUT", "END"} /\ TakeContent
  /\ status' = IF header.is = "STDERR" THEN status ELSE 500
  /\ call' = "header"
  /\ UNCHANGED <<req, written, fields, body, finished, held, released, app>>

(* end_request: the lines up to a blank one are the response's headers, the  *)
(* rest is its body, and a Status line sets the status (0 if it cannot be    *)
(* read).  A refusal leaves everything as it is, but for the status.         *)
HeadLines(out) ==
  LET blank == SelectInSeq(out, LAMBDA s : s.is = "blank") IN
  IF blank = 0 THEN Len(out) ELSE blank - 1

HeadersOf(out) == SelectSeq(SubSeq(out, 1, HeadLines(out)), LAMBDA s : s.is # "nocolon")
BodyOf(out) == SubSeq(out, HeadLines(out) + 2, Len(out))
StatusOf(hs, default) ==
  LET i == SelectInSeq(hs, LAMBDA s : s.is = "status") IN IF i = 0 THEN default ELSE hs[i].n

EndRequest(st) ==
  LET failed == IF st = 0 THEN status ELSE 500 IN
  IF st \in 1..3 THEN status' = failed /\ UNCHANGED <<fields, body>>
  ELSE /\ fields' = fields \o HeadersOf(body) /\ body' = BodyOf(body)
       /\ status' = StatusOf(fields', failed)

EndArrives ==
  /\ header.is = "END" /\ TakeContent /\ EndRequest(Content[1].n)
  /\ call' = "over" /\ finished' = finished + 1
  /\ UNCHANGED <<req, written, held, released, app>>

-----------------------------------------------------------------------------
(* The response is sent when the last who has it lets go of it: the caller   *)
(* of fcgi(), or the closures of the connection.                             *)
CallerReturns ==
  /\ call # "idle" /\ held /\ held' = FALSE
  /\ UNCHANGED <<req, stream, call, written, buffer, header, status, fields, body, finished, released, app>>

Release ==
  /\ call = "over" /\ ~held /\ ~released /\ released' = TRUE
  /\ UNCHANGED <<req, stream, call, written, buffer, header, status, fields, body, finished, held, app>>

Library ==
  \/ Connected \/ NotConnected \/ RecordFails \/ OutputArrives \/ OtherArrives \/ EndArrives
  \/ \E k \in 0..Len(stream) : HeaderArrives(k)
  \/ CallerReturns \/ Release

FcgiNext ==
  \/ Call \/ Library
  \/ \E pad \in 0..MaxPadding :
       \/ \E k \in 1..Len(unsaid) : Prints(k, pad)
       \/ \E type \in {"STDERR", "OTHER"} : SendsOther(type, pad)
  \/ \E st \in Statuses : Ends(st)
  \/ \E k \in 0..Len(stream) : Closes(k)

FcgiSpec == FcgiInit /\ [][FcgiNext]_fcgiVars

(* The io_service runs what is ready and the caller of fcgi() returns.       *)
FcgiFairSpec == FcgiSpec /\ WF_fcgiVars(Library)

-----------------------------------------------------------------------------
(* The variables take values of their types.                                 *)
FcgiTypeOK ==
  /\ call \in {"idle", "connecting", "header", "content", "over"}
  /\ finished \in 0..1 /\ held \in BOOLEAN /\ released \in BOOLEAN
  /\ \A i \in 1..Len(written) : written[i].b1 \in 0..255 /\ written[i].b0 \in 0..255
  /\ ended \in -1..255 /\ gone \in BOOLEAN /\ odd \in BOOLEAN
  /\ Len(unsaid) <= Len(script) /\ records \in 0..MaxRecords
  /\ finished = 1 => call = "over"

-----------------------------------------------------------------------------
(* How the application reads a length: a first byte of 128 or more starts a  *)
(* length of four bytes.                                                     *)
ReadLength(bytes, i) ==
  IF i > Len(bytes) \/ (bytes[i] >= 128 /\ i + 3 > Len(bytes)) THEN [n |-> -1, next |-> i]
  ELSE IF bytes[i] < 128 THEN [n |-> bytes[i], next |-> i + 1]
  ELSE [n |-> (bytes[i] - 128) * 256 * 256 * 256 + bytes[i + 1] * 256 * 256
                + bytes[i + 2] * 256 + bytes[i + 3],
        next |-> i + 4]

(* Whether the bytes of a record are cut as they were put together.          *)
Reads(r) ==
  /\ r.b1 * 256 + r.b0 = r.content.size
  /\ r.type = "PARAMS" /\ r.content.size > 0 =>
       LET name == ReadLength(r.content.lengths, 1)
           value == ReadLength(r.content.lengths, name.next)
       IN  /\ name.n = NameSize /\ value.n = r.content.param.size
           /\ value.next = Len(r.content.lengths) + 1

(* Records whose content fits its length and whose value is not of 128 to    *)
(* 255 bytes, where the code's one byte is the start of four to the reader.  *)
(* Of the others nothing is said: a body of 65536 bytes has the length bytes *)
(* of an empty record.                                                       *)
Safe(r) ==
  /\ r.content.size < 65536
  /\ r.type = "PARAMS" /\ r.content.size > 0 => r.content.param.size \notin 128..255

SaysLength(r) ==
  r.type = "PARAMS" /\ r.content.size > 0 /\ r.content.param.name = "CONTENT_LENGTH"

(* The application reads every record of safe sizes as it was put together,  *)
(* the parameters and the body each end with their only empty record, the    *)
(* body's being the last, and CONTENT_LENGTH is the size of what follows the *)
(* parameters, the body if there is one (fcgi.cc:323).                       *)
RequestDecodes ==
  written # <<>> =>
    /\ \A i \in 1..Len(written) : Safe(written[i]) => Reads(written[i])
    /\ \E e \in 1..Len(written) - 1 :
         /\ written[e].type = "PARAMS" /\ written[Len(written)].type = "STDIN"
         /\ \A i \in 1..Len(written) :
              /\ written[i].type = "PARAMS" => i <= e /\ (written[i].content.size = 0 <=> i = e)
              /\ written[i].type = "STDIN" =>
                   i > e /\ (written[i].content.size = 0 <=> i = Len(written))
              /\ SaysLength(written[i]) => written[i].content.param.n = written[e + 1].content.size

(* What the script printed before its application ended the request.         *)
Said == SubSeq(script, 1, Len(script) - Len(unsaid))

(* The status the response should have when it is sent.                      *)
Expected ==
  IF finished = 0 \/ ended \in 1..3 THEN 500
  ELSE StatusOf(req.set \o HeadersOf(Said), IF ended # 0 \/ odd THEN 500 ELSE 200)

(* A sent response says what became of the exchange: 500 whenever it was not *)
(* finished, and the script's headers, body and status when it was, however  *)
(* the output was cut into records, padded and received (fcgi.cc:208).  The  *)
(* handler is called once if the end record was read, and not at all if not.  *)
(* (With the types.)                                                         *)
AnswerSaysWhatHappened ==
  FcgiTypeOK /\
  (released =>
    /\ status = Expected
    /\ finished = 1 /\ ended \notin 1..3 =>
         fields = req.set \o HeadersOf(Said) /\ body = BodyOf(Said)
    /\ finished = 1 => ended # -1
    /\ ended # -1 /\ ~gone => finished = 1)
=============================================================================

-------------------------------- MODULE Client --------------------------------
(***************************************************************************)
(* The HTTP client (src/client.cc): requests over connections of their own *)
(* (module Connector), the handlers of the application, and the cookie jar *)
(* all requests of one Client share.  A request is sent by its destructor, *)
(* when the last pointer to it goes (module Package).  The parser appears  *)
(* as what module Parser shows of it: it delivers the response, or reports *)
(* nullptr once or, inside a chunked body, several times, or not at all.   *)
(*                                                                         *)
(* The callbacks run on any thread that runs the io_service: the flag      *)
(* enable_cookie_ is read before cookie_mutex_ is taken, so other steps    *)
(* come in between.  The servers use this library too, or send what other  *)
(* servers send; the headers are module Cookies'.                          *)
(***************************************************************************)
EXTENDS Connector, Cookies

CONSTANTS
  Characters, (* those of texts                                             *)
  UrlMaps,    (* what the requests (which name their connections) may be    *)
              (* for: functions from Conns to a host and a path             *)
  Addresses,  (* the hosts that are numeric addresses                       *)
  Answers,    (* the sequences of cookies that responses may have, each as  *)
              (* its server means it, with the age it may give              *)
  Zone,       (* the client's time zone                                     *)
  Start,      (* the time the program starts                                *)
  MaxTicks,   (* bound: how long it runs, in seconds                        *)
  MaxReports, (* bound: how often the parser reports one failure            *)
  MaxSwitches (* bound: calls of enableCookie, disableCookie, clearCookie   *)

Text == Seq(Characters)
Meant ==
  [key : Text, val : Text, expires : Nat, domain : Text, path : Text, secure : BOOLEAN,
   age : Seq(Int)]

ASSUME ClientAssumption ==
  /\ "/" \in Characters
  /\ UrlMaps \subseteq [Conns -> [host : Text, path : Text]] /\ Answers \subseteq Seq(Meant)
  /\ \A a \in Addresses : IsValidIPAddress(a)
  /\ ~Zone.summer /\ Start \in Nat /\ MaxTicks \in Nat
  /\ MaxReports \in Nat \ {0} /\ MaxSwitches \in Nat

VARIABLES
  urlOf,     (* urlOf[r]: the host and path named by r's URL                *)
  now,       (* time(nullptr)                                               *)
  enabled,   (* enable_cookie_                                              *)
  jar,       (* cookie_jar_                                                 *)
  stored,    (* history: what was put into it, oldest first, with what the  *)
             (* server meant, when, and which host it was                   *)
  switches,  (* bound                                                       *)
  stage,     (* stage[r]: where request r is                                *)
  head,      (* head[r]: the headers of r's Request object                  *)
  holder,    (* holder[r]: who still has the Request: "client", "app", "gone"*)
  wire,      (* wire[r]: the heads r sent, at most one: did it say "close"? *)
  flushed,   (* flushed[r]: req_handler flushed it                          *)
  reply,     (* reply[r]: the Set-Cookie headers of the response still to   *)
             (* be stored, when they came, and what the server meant        *)
  reqCalls,  (* reqCalls[r]: history of what req_handler was called with    *)
  resCalls   (* resCalls[r]: history of what res_handler was called with    *)

given == <<urlOf, now>>
cookies == <<enabled, jar, stored, switches>>
request == <<stage, head, holder, wire, flushed, reply, reqCalls, resCalls>>
vars == <<connecting, given, cookies, request>>

Empty == [cookies |-> <<>>, at |-> 0, after |-> 0, close |-> FALSE]

Init ==
  /\ ConnectorInit
  /\ urlOf \in UrlMaps /\ now = Start
  /\ enabled \in BOOLEAN (* enableCookie() may have been called *)
  /\ jar = <<>> /\ stored = <<>> /\ switches = 0
  /\ stage = [r \in Conns |-> "new"]
  /\ head = [r \in Conns |-> Empty]
  /\ holder = [r \in Conns |-> "gone"]
  /\ wire = [r \in Conns |-> <<>>]
  /\ flushed = [r \in Conns |-> FALSE]
  /\ reply = [r \in Conns |-> <<>>]
  /\ reqCalls = [r \in Conns |-> <<>>]
  /\ resCalls = [r \in Conns |-> <<>>]

-----------------------------------------------------------------------------
(* request(): a URL that does not parse is refused, without req_handler.     *)
Refuse(r) ==
  /\ stage[r] = "new"
  /\ stage' = [stage EXCEPT ![r] = "done"]
  /\ resCalls' = [resCalls EXCEPT ![r] = Append(@, "null")]
  /\ UNCHANGED <<connecting, given, cookies, head, holder, wire, flushed, reply, reqCalls>>

Ask(r) ==
  /\ stage[r] = "new"
  /\ stage' = [stage EXCEPT ![r] = "connect"]
  /\ AsyncConnect(r)
  /\ UNCHANGED <<given, cookies, head, holder, wire, flushed, reply, reqCalls, resCalls>>

Connecting(r) == ConnectStep(r) /\ UNCHANGED <<given, cookies, request>>

(* The handler given to asyncConnect.  (First a slip: req_handler is not     *)
(* told of the failure.)                                                     *)
NotConnectedSilently(r) ==
  /\ stage[r] = "connect" /\ calls[r] = <<"null">>
  /\ stage' = [stage EXCEPT ![r] = "done"]
  /\ resCalls' = [resCalls EXCEPT ![r] = Append(@, "null")]
  /\ UNCHANGED <<connecting, given, cookies, head, holder, wire, flushed, reply, reqCalls>>

NotConnected(r) ==
  /\ stage[r] = "connect" /\ calls[r] = <<"null">>
  /\ stage' = [stage EXCEPT ![r] = "done"]
  /\ reqCalls' = [reqCalls EXCEPT ![r] = Append(@, "null")]
  /\ resCalls' = [resCalls EXCEPT ![r] = Append(@, "null")]
  /\ UNCHANGED <<connecting, given, cookies, head, holder, wire, flushed, reply>>

MakeRequest(r) ==
  /\ stage[r] = "connect" /\ calls[r] = <<"conn">>
  /\ holder' = [holder EXCEPT ![r] = "client"]
  /\ stage' = [stage EXCEPT ![r] = IF enabled THEN "fill" ELSE "ready"]
  /\ UNCHANGED <<connecting, given, cookies, head, wire, flushed, reply, reqCalls, resCalls>>

(* add_cookie_to_request, under cookie_mutex_: one loop over the jar drops   *)
(* what expired, one picks what fits.  (at and after are history.)           *)
Picked(j, which) == [n \in 1..Cardinality(which) |-> j[Nth(which, n)]]
Fresh == Picked(jar, {i \in 1..Len(jar) : jar[i].expires = 0 \/ jar[i].expires >= now})
Fits(r, c) ==
  /\ IsPathMatch(urlOf[r].path, c.path) /\ IsDomainMatch(urlOf[r].host, c.domain)
  /\ c.secure => r \in SslConns
AddCookies(r) ==
  /\ stage[r] = "fill"
  /\ jar' = Fresh
  /\ head' = [head EXCEPT
       ![r].cookies = Picked(Fresh, {i \in 1..Len(Fresh) : Fits(r, Fresh[i])}),
       ![r].at = now, ![r].after = Len(stored)]
  /\ stage' = [stage EXCEPT ![r] = "ready"]
  /\ UNCHANGED <<connecting, given, enabled, stored, switches, holder, wire, flushed,
                 reply, reqCalls, resCalls>>

(* req_handler(req): the application may flush the request or keep it.       *)
CallReqHandler(r) ==
  /\ stage[r] = "ready"
  /\ reqCalls' = [reqCalls EXCEPT ![r] = Append(@, "req")]
  /\ stage' = [stage EXCEPT ![r] = "asked"]
  /\ \/ UNCHANGED <<wire, flushed>>
     \/ /\ flushed' = [flushed EXCEPT ![r] = TRUE]
        /\ wire' = [wire EXCEPT ![r] = <<head[r].close>>]
  /\ holder' \in {holder, [holder EXCEPT ![r] = "app"]}
  /\ UNCHANGED <<connecting, given, cookies, head, reply, resCalls>>

(* The rest of the handler: the last headers, then the parse is queued.      *)
(* (First a slip: the closure given to the parser keeps the request.)        *)
AwaitResponseKeeping(r) ==
  /\ stage[r] = "asked"
  /\ head' = [head EXCEPT ![r].close = TRUE]
  /\ stage' = [stage EXCEPT ![r] = "parse"]
  /\ holder' = [holder EXCEPT ![r] = "parser"]
  /\ UNCHANGED <<connecting, given, cookies, wire, flushed, reply, reqCalls, resCalls>>

AwaitResponse(r) ==
  /\ stage[r] = "asked"
  /\ head' = [head EXCEPT ![r].close = TRUE]
  /\ stage' = [stage EXCEPT ![r] = "parse"]
  /\ UNCHANGED <<connecting, given, cookies, holder, wire, flushed, reply, reqCalls, resCalls>>

(* The last pointer goes, the handler's own after it returned: ~Request      *)
(* sends what was not flushed.                                               *)
DropRequest(r) ==
  /\ holder[r] \in {"client", "app"}
  /\ stage[r] \notin {"fill", "ready", "asked"}
  /\ holder' = [holder EXCEPT ![r] = "gone"]
  /\ wire' = [wire EXCEPT ![r] = IF flushed[r] THEN @ ELSE <<head[r].close>>]
  /\ head' = [head EXCEPT ![r] = Empty]
  /\ UNCHANGED <<connecting, given, cookies, stage, flushed, reply, reqCalls, resCalls>>

-----------------------------------------------------------------------------
(* What a handler of this library's Server writes, or another server that    *)
(* gives an age first.                                                       *)
HeaderOf(meant) ==
  IF meant.age = <<>> THEN WriteSetCookie(meant)
  ELSE [WriteSetCookie(meant) EXCEPT
          !.attributes = <<[name |-> "max-age", age |-> meant.age[1]]>> \o @]

(* The parser's handler.  The server answers once it has the head.           *)
Respond(r) ==
  /\ stage[r] = "parse" /\ wire[r] # <<>>
  /\ IF enabled
       THEN /\ stage' = [stage EXCEPT ![r] = "store"]
            /\ \E a \in Answers : reply' = [reply EXCEPT ![r] =
                 [i \in 1..Len(a) |-> [header |-> HeaderOf(a[i]), meant |-> a[i], at |-> now]]]
       ELSE stage' = [stage EXCEPT ![r] = "answered"] /\ UNCHANGED reply
  /\ UNCHANGED <<connecting, given, cookies, head, holder, wire, flushed, reqCalls, resCalls>>

(* add_cookie_to_cookie_jar: the host and "/" for what is missing; the first *)
(* entry of that name is replaced, whatever its domain and path.  (First a   *)
(* slip: it is always added.)                                                *)
WithDefaults(c, host) ==
  [c EXCEPT !.domain = IF @ = <<>> THEN host ELSE @, !.path = IF @ = <<>> THEN <<"/">> ELSE @]

PutAnyway(j, c) == Append(j, c)

Put(j, c) ==
  LET same == {i \in 1..Len(j) : j[i].key = c.key} IN
  IF same = {} THEN Append(j, c)
  ELSE [j EXCEPT ![CHOOSE i \in same : \A k \in same : i <= k] = c]

PutAll(j, new) ==
  LET after[i \in 0..Len(new)] == IF i = 0 THEN j ELSE Put(after[i - 1], new[i].cookie)
  IN  after[Len(new)]

(* What the parser made of a header when it came is put into the jar now.    *)
Received(r) ==
  LET host == urlOf[r].host IN
  [i \in 1..Len(reply[r]) |->
     LET x == reply[r][i] IN
     [cookie |-> WithDefaults(ParseResponseCookie(x.header, x.at, Zone), host),
      meant |-> x.meant, at |-> x.at, host |-> host]]

StoreCookies(r) ==
  /\ stage[r] = "store"
  /\ jar' = PutAll(jar, Received(r))
  /\ stored' = stored \o Received(r)
  /\ reply' = [reply EXCEPT ![r] = <<>>]
  /\ stage' = [stage EXCEPT ![r] = "answered"]
  /\ UNCHANGED <<connecting, given, enabled, switches, head, holder, wire, flushed,
                 reqCalls, resCalls>>

CallResHandler(r) ==
  /\ stage[r] = "answered"
  /\ resCalls' = [resCalls EXCEPT ![r] = Append(@, "res")]
  /\ stage' = [stage EXCEPT ![r] = "done"]
  /\ UNCHANGED <<connecting, given, cookies, head, holder, wire, flushed, reply, reqCalls>>

(* No response, or one the parser refuses.                                   *)
ParseFails(r) ==
  /\ stage[r] = "parse" \/ (stage[r] = "failed" /\ Len(resCalls[r]) < MaxReports)
  /\ resCalls' = [resCalls EXCEPT ![r] = Append(@, "null")]
  /\ stage' = [stage EXCEPT ![r] = "failed"]
  /\ UNCHANGED <<connecting, given, cookies, head, holder, wire, flushed, reply, reqCalls>>

ParseEndsSilently(r) ==
  /\ stage[r] = "parse"
  /\ stage' = [stage EXCEPT ![r] = "lost"]
  /\ UNCHANGED <<connecting, given, cookies, head, holder, wire, flushed, reply, reqCalls, resCalls>>

-----------------------------------------------------------------------------
(* enableCookie, disableCookie and clearCookie, which take no lock: here     *)
(* they do not overlap with a critical section.                              *)
Switch(clear, on) ==
  /\ switches < MaxSwitches /\ switches' = switches + 1
  /\ jar' = IF clear THEN <<>> ELSE jar
  /\ enabled' = on
  /\ UNCHANGED <<connecting, given, stored, request>>

EnableCookie == Switch(FALSE, TRUE)
DisableCookie == Switch(TRUE, FALSE)
ClearCookie == Switch(TRUE, enabled)

Tick ==
  /\ now < Start + MaxTicks /\ now' = now + 1
  /\ UNCHANGED <<connecting, urlOf, cookies, request>>

Handle(r) ==
  \/ Connecting(r) \/ NotConnected(r) \/ MakeRequest(r) \/ AddCookies(r)
  \/ CallReqHandler(r) \/ AwaitResponse(r)
  \/ StoreCookies(r) \/ CallResHandler(r)

Answer(r) == Respond(r) \/ ParseFails(r) \/ ParseEndsSilently(r)

Next ==
  \/ \E r \in Conns : Refuse(r) \/ Ask(r) \/ Handle(r) \/ DropRequest(r) \/ Answer(r)
  \/ EnableCookie \/ DisableCookie \/ ClearCookie \/ Tick

Spec == Init /\ [][Next]_vars

(* asio completes what was started, the threads run the callbacks, the       *)
(* application lets go of the request, and the server answers or closes: no  *)
(* request stays in a stage that a callback ends.                            *)
Stages == {"new", "connect", "fill", "ready", "asked", "parse", "store", "answered",
           "failed", "lost", "done"}
Advance(r) ==
  /\ \/ stage[r] = "connect" /\ calls[r] # <<>>
     \/ stage[r] \in {"fill", "ready", "asked", "parse", "store", "answered"}
  /\ \E s \in Stages : stage' = [stage EXCEPT ![r] = s]

Fairness ==
  \A r \in Conns : WF_connecting(ConnectStep(r)) /\ WF_stage(Advance(r)) /\ WF_vars(DropRequest(r))

FairSpec == Spec /\ Fairness

-----------------------------------------------------------------------------
(* The variables take values of their types.                                 *)
TypeOK ==
  /\ now \in Start..Start + MaxTicks
  /\ ConnectorTypeOK
  /\ enabled \in BOOLEAN /\ switches \in 0..MaxSwitches
  /\ stage \in [Conns -> Stages]
  /\ holder \in [Conns -> {"client", "app", "gone"}]
  /\ flushed \in [Conns -> BOOLEAN]
  /\ \A r \in Conns : wire[r] \in {<<>>, <<TRUE>>, <<FALSE>>} /\ head[r].close \in BOOLEAN
  /\ reqCalls \in [Conns -> Seq({"req", "null"})]
  /\ resCalls \in [Conns -> Seq({"res", "null"})]

(* The application hears of each request in a fixed order: req_handler once  *)
(* if the URL was good, then res_handler, with a response at most once and   *)
(* nothing after it; and it gets a request only on a connection made for it. *)
(* A request that was not flushed goes out with every header, the one that   *)
(* tells the server to close among them (client.cc:136), and only then can   *)
(* be answered.                                                              *)
HandlersInOrder ==
  TypeOK /\
  \A r \in Conns :
    /\ Len(reqCalls[r]) <= 1
    /\ resCalls[r] # <<>> =>
         Len(reqCalls[r]) = IF phase[r] = "idle" THEN 0 ELSE 1
    /\ "res" \in {resCalls[r][i] : i \in 1..Len(resCalls[r])} =>
         resCalls[r] = <<"res">> /\ Len(wire[r]) = 1
    /\ reqCalls[r] = <<"req">> => calls[r] = <<"conn">>
    /\ Len(wire[r]) = 1 => wire[r][1] \/ flushed[r]

(* What a request carries is what was set last under that name: a jar has   *)
(* one cookie per name, the newest, whatever responses and requests ran in   *)
(* between.  It is not past its time, its domain is the host or, unless that *)
(* is an address, one of its parents, its path holds the request's segment   *)
(* by segment, and a secure one goes over TLS only.                          *)
Newest(c, n) ==
  \E i \in 1..n : stored[i].cookie = c /\ \A j \in i + 1..n : stored[j].cookie.key # c.key
IsEnd(s, t) == Len(s) <= Len(t) /\ s = SubSeq(t, Len(t) - Len(s) + 1, Len(t))
IsStart(s, t) == Len(s) <= Len(t) /\ s = SubSeq(t, 1, Len(s))
CookiesAreCurrent ==
  /\ \A i \in 1..Len(jar) : Newest(jar[i], Len(stored))
  /\ \A r \in Conns : \A i \in 1..Len(head[r].cookies) :
       LET c == head[r].cookies[i]  host == urlOf[r].host IN
       /\ Newest(c, head[r].after)
       /\ \A j \in 1..Len(head[r].cookies) : head[r].cookies[j].key = c.key => j = i
       /\ c.expires = 0 \/ c.expires >= head[r].at
       /\ IF host \in Addresses THEN c.domain \in {host, <<".">> \o host}
          ELSE IsEnd(Tokens(c.domain, {"."}), Tokens(host, {"."}))
       /\ IsStart(Tokens(c.path, {"/"}), Tokens(urlOf[r].path, {"/"}))
       /\ c.secure => r \in SslConns

(* A cookie arrives as it was meant: the jar has what the application of the *)
(* server set, until the second it set (by the date if the age is no number),*)
(* and the application of a server reads the names and values that were put  *)
(* on the request, one after the other, each value up to its first "=".  (A  *)
(* cookie without a value reads as the one before, cookie.hh's record being  *)
(* filled again and again.)                                                  *)
UpToEquals(val) == NthToken(val, {"="}, 1)
CookiesCross ==
  /\ \A i \in 1..Len(stored) :
       LET c == stored[i].cookie  m == stored[i].meant IN
       /\ c.key = m.key /\ c.val = UpToEquals(m.val) /\ c.secure = m.secure
       /\ c.expires = IF m.age \in {<<>>, <<NaN>>} THEN m.expires ELSE stored[i].at + m.age[1]
       /\ c.domain = IF m.domain = <<>> THEN stored[i].host ELSE m.domain
       /\ c.path = IF m.path = <<>> THEN <<"/">> ELSE m.path
  /\ \A r \in Conns :
       LET sent == head[r].cookies  read == ParseRequestCookie(CookieHeader(sent)) IN
       /\ Len(read) = Len(sent)
       /\ \A i \in 1..Len(sent) :
            /\ read[i].key = sent[i].key
            /\ sent[i].val # <<>> => read[i].val = sent[i].val

(* Every request that was accepted is sent if it could be connected, and it  *)
(* ends: with a call of res_handler, unless the parser is silent.            *)
EveryRequestEnds ==
  \A r \in Conns : stage[r] = "connect" ~>
    /\ stage[r] \in {"done", "failed", "lost"} /\ holder[r] = "gone"
    /\ calls[r] = <<"conn">> => wire[r] # <<>>
=============================================================================

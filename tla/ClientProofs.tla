----------------------------- MODULE ClientProofs -----------------------------
(***************************************************************************)
(* Theorems about Client and the Connector it is built on, for any number  *)
(* of requests, endpoints, hosts and cookies.                              *)
(***************************************************************************)
EXTENDS Client, SequenceTheorems, FiniteSetTheorems, WellFoundedInduction, TLAPS

(* What holds before the handler was called, and makes ConnectOutcome        *)
(* inductive: nothing was tried before the name resolved, nothing is         *)
(* connected while an endpoint is being tried, nothing is secured before the *)
(* handshake ended.                                                          *)
Sound(c) ==
  /\ phase[c] # "done" => calls[c] = <<>> /\ ~secured[c]
  /\ phase[c] = "done" => calls[c] \in {<<"conn">>, <<"null">>}
  /\ phase[c] \in {"idle", "resolving"} => count[c] = 0 /\ tried[c] = 0
  /\ phase[c] \in {"idle", "resolving", "connecting"} => ~linked[c]
  /\ phase[c] \in {"connecting", "handshake"} => opened[c] = tried[c]
  /\ phase[c] = "handshake" => linked[c]
  /\ tried[c] <= count[c]
  /\ calls[c] = <<"conn">> => linked[c] /\ (c \in SslConns => secured[c])
  /\ calls[c] = <<"null">> =>
       ~secured[c] /\ tried[c] = IF linked[c] THEN opened[c] ELSE count[c]

ConnectInv == ConnectorTypeOK /\ \A c \in Conns : Sound(c)

LEMMA ConnectInvInit == ConnectorInit => ConnectInv
<1> SUFFICES ASSUME ConnectorInit PROVE ConnectInv
  OBVIOUS
<1>1. ConnectorTypeOK
  BY ConnectorAssumption DEF ConnectorInit, ConnectorTypeOK
<1>2. <<>> # <<"conn">> /\ <<>> # <<"null">>
  OBVIOUS
<1>3. ASSUME NEW c \in Conns PROVE Sound(c)
  <2>1. phase[c] = "idle" /\ count[c] = 0 /\ tried[c] = 0 /\ calls[c] = <<>>
    BY DEF ConnectorInit
  <2>2. ~linked[c] /\ ~secured[c]
    BY DEF ConnectorInit
  <2> QED
    BY <1>2, <2>1, <2>2 DEF Sound
<1> QED
  BY <1>1, <1>3 DEF ConnectInv

(* The invariant says at the end what the handler must be told.              *)
LEMMA ConnectInvGives == ConnectInv => ConnectOutcome
<1> SUFFICES ASSUME ConnectInv, NEW c \in Conns
             PROVE  /\ Len(calls[c]) = IF phase[c] = "done" THEN 1 ELSE 0
                    /\ calls[c] = <<"conn">> => linked[c] /\ (c \in SslConns => secured[c])
                    /\ calls[c] = <<"null">> =>
                         ~secured[c] /\ tried[c] = IF linked[c] THEN opened[c] ELSE count[c]
                    /\ phase[c] \in {"connecting", "handshake"} => opened[c] = tried[c]
  BY DEF ConnectOutcome
<1>1. Sound(c)
  BY DEF ConnectInv
<1>2. Len(calls[c]) = IF phase[c] = "done" THEN 1 ELSE 0
  BY <1>1 DEF Sound
<1> QED
  BY <1>1, <1>2 DEF Sound

(* One step of one connection keeps the invariant of all of them.            *)
LEMMA ConnectInvStep ==
  ASSUME ConnectInv, NEW c \in Conns, AsyncConnect(c) \/ ConnectStep(c)
  PROVE  ConnectInv'
<1>1. ConnectorTypeOK
  BY DEF ConnectInv
<1>2. Sound(c)
  BY DEF ConnectInv
<1>3. ConnectorTypeOK'
  <2> USE <1>1, <1>2, ConnectorAssumption DEF ConnectorTypeOK
  <2>1. CASE AsyncConnect(c)
    BY <2>1 DEF AsyncConnect
  <2>a. Append(calls[c], "conn") \in Seq({"conn", "null"}) /\
        Append(calls[c], "null") \in Seq({"conn", "null"})
    OBVIOUS
  <2>b. 0 \in 0..MaxEndpoints /\ 1 \in 0..MaxEndpoints
    OBVIOUS
  <2>c. ASSUME Succeed(c)
        PROVE  /\ phase' \in [Conns -> {"idle", "resolving", "connecting", "handshake", "done"}]
               /\ count' \in [Conns -> 0..MaxEndpoints] /\ tried' \in [Conns -> 0..MaxEndpoints]
               /\ opened' \in [Conns -> 0..MaxEndpoints]
               /\ calls' \in [Conns -> Seq({"conn", "null"})]
    BY <2>a, <2>b, <2>c DEF Succeed, Report
  <2>2. CASE ResolveFails(c) \/ NoEndpointLeft(c)
    BY <2>2, <2>a DEF ResolveFails, NoEndpointLeft, Report
  <2>6. CASE Connected(c)
    <3>1. linked' \in [Conns -> BOOLEAN] /\ secured' \in [Conns -> BOOLEAN]
      BY <2>6 DEF Connected
    <3>2. CASE c \in SslConns
      BY <2>6, <3>1, <3>2 DEF Connected
    <3>3. CASE c \notin SslConns
      BY <2>6, <2>c, <3>1, <3>3 DEF Connected
    <3> QED
      BY <3>2, <3>3
  <2>3. CASE Resolved(c)
    <3>1. tried[c] + 1 \in 0..MaxEndpoints
      BY <2>3 DEF Resolved, Sound
    <3> QED
      BY <2>3, <3>1 DEF Resolved, Try
  <2>4. CASE EndpointFails(c)
    <3>1. tried[c] + 1 \in 0..MaxEndpoints
      BY <2>4 DEF EndpointFails
    <3> QED
      BY <2>4, <3>1 DEF EndpointFails, Try
  <2>5. CASE HandshakeOk(c)
    BY <2>5, <2>c DEF HandshakeOk
  <2>7. CASE HandshakeFails(c)
    BY <2>7, <2>a DEF HandshakeFails, Report
  <2> QED
    BY <2>1, <2>2, <2>3, <2>4, <2>5, <2>6, <2>7 DEF ConnectStep
<1>4. Sound(c)'
  <2>1. /\ Append(<<>>, "conn") = <<"conn">> /\ Append(<<>>, "null") = <<"null">>
        /\ <<"conn">> # <<"null">> /\ <<>> # <<"conn">> /\ <<>> # <<"null">>
    OBVIOUS
  <2> USE <1>1, <1>2, <2>1 DEF ConnectorTypeOK, Sound
  <2>2. CASE AsyncConnect(c)
    BY <2>2 DEF AsyncConnect
  <2>3. CASE ResolveFails(c)
    BY <2>3 DEF ResolveFails, Report
  <2>4. CASE Resolved(c)
    BY <2>4, ConnectorAssumption DEF Resolved, Try
  <2>5. CASE Connected(c)
    <3>1. CASE c \in SslConns
      BY <2>5, <3>1 DEF Connected
    <3>2. CASE c \notin SslConns
      <4>1. Succeed(c) /\ linked' = [linked EXCEPT ![c] = TRUE] /\ secured' = secured
        BY <2>5, <3>2 DEF Connected
      <4>2. /\ phase'[c] = "done" /\ calls'[c] = <<"conn">> /\ linked'[c]
            /\ secured'[c] = secured[c] /\ tried'[c] = 0 /\ count'[c] = 0
        BY <2>5, <4>1 DEF Connected, Succeed, Report
      <4> QED
        BY <3>2, <4>2
    <3> QED
      BY <3>1, <3>2
  <2>6. CASE EndpointFails(c)
    BY <2>6, ConnectorAssumption DEF EndpointFails, Try
  <2>7. CASE NoEndpointLeft(c)
    BY <2>7 DEF NoEndpointLeft, Report
  <2>8. CASE HandshakeOk(c)
    BY <2>8 DEF HandshakeOk, Report, Succeed
  <2>9. CASE HandshakeFails(c)
    BY <2>9 DEF HandshakeFails, Report
  <2> QED
    BY <2>2, <2>3, <2>4, <2>5, <2>6, <2>7, <2>8, <2>9 DEF ConnectStep
<1>5. ASSUME NEW d \in Conns, d # c PROVE Sound(d)'
  <2>1. /\ phase'[d] = phase[d] /\ count'[d] = count[d] /\ tried'[d] = tried[d]
        /\ opened'[d] = opened[d] /\ linked'[d] = linked[d]
        /\ secured'[d] = secured[d] /\ calls'[d] = calls[d]
    BY <1>1, <1>5 DEF ConnectorTypeOK, AsyncConnect, ConnectStep, ResolveFails, Resolved,
       Connected, EndpointFails, NoEndpointLeft, HandshakeOk, HandshakeFails, Report, Succeed, Try
  <2>2. Sound(d)
    BY DEF ConnectInv
  <2> QED
    BY <2>1, <2>2 DEF Sound
<1> QED
  BY <1>3, <1>4, <1>5 DEF ConnectInv

(* Every step of the client either is a step of one connection, or leaves    *)
(* connecting alone.                                                         *)
LEMMA ClientConnects ==
  ASSUME [Next]_vars
  PROVE  UNCHANGED connecting \/ \E c \in Conns : AsyncConnect(c) \/ ConnectStep(c)
<1>1. CASE UNCHANGED vars
  BY <1>1 DEF vars
<1>2. ASSUME NEW r \in Conns, Refuse(r) \/ Ask(r) \/ DropRequest(r) \/ Answer(r)
      PROVE  UNCHANGED connecting \/ AsyncConnect(r)
  BY <1>2 DEF Refuse, Ask, DropRequest, Answer, Respond, ParseFails, ParseEndsSilently
<1>3. ASSUME NEW r \in Conns, Handle(r)
      PROVE  UNCHANGED connecting \/ ConnectStep(r)
  BY <1>3 DEF Handle, Connecting, NotConnected, MakeRequest, AddCookies, CallReqHandler,
              AwaitResponse, StoreCookies, CallResHandler
<1>4. CASE EnableCookie \/ DisableCookie \/ ClearCookie \/ Tick
  BY <1>4 DEF EnableCookie, DisableCookie, ClearCookie, Switch, Tick
<1> QED
  BY <1>1, <1>2, <1>3, <1>4 DEF Next

LEMMA ConnectInvNext == ConnectInv /\ [Next]_vars => ConnectInv'
<1> SUFFICES ASSUME ConnectInv, [Next]_vars PROVE ConnectInv'
  OBVIOUS
<1>1. CASE UNCHANGED connecting
  BY <1>1 DEF connecting, ConnectInv, ConnectorTypeOK, Sound
<1>2. CASE \E c \in Conns : AsyncConnect(c) \/ ConnectStep(c)
  BY <1>2, ConnectInvStep
<1> QED
  BY <1>1, <1>2, ClientConnects

(* The handler of asyncConnect is called once and with the right result.     *)
THEOREM ConnectIsSound == Spec => []ConnectOutcome
<1>1. Init => ConnectInv
  BY ConnectInvInit DEF Init
<1> QED
  BY <1>1, ConnectInvNext, ConnectInvGives, PTL DEF Spec

-----------------------------------------------------------------------------
(* What each stage of a request implies about the calls of its handlers, the *)
(* bytes on its wire and who holds it; it makes HandlersInOrder inductive.   *)
Untold(r) ==
  /\ reqCalls[r] = <<>> /\ resCalls[r] = <<>> /\ wire[r] = <<>> /\ ~flushed[r]

Refused(r) == phase[r] = "idle" /\ reqCalls[r] = <<>> /\ resCalls[r] = <<"null">>
Unconnected(r) ==
  phase[r] = "done" /\ calls[r] = <<"null">> /\ reqCalls[r] = <<"null">> /\ resCalls[r] = <<"null">>
Responded(r) ==
  /\ calls[r] = <<"conn">> /\ reqCalls[r] = <<"req">> /\ resCalls[r] = <<"res">>
  /\ wire[r] # <<>>

Told(r) ==
  /\ stage[r] = "new" => phase[r] = "idle" /\ holder[r] = "gone"
  /\ stage[r] = "connect" => phase[r] # "idle" /\ holder[r] = "gone"
  /\ stage[r] \in {"new", "connect", "fill", "ready"} => Untold(r)
  /\ stage[r] \in {"fill", "ready", "asked", "parse", "store", "answered", "failed", "lost"} =>
       calls[r] = <<"conn">>
  /\ stage[r] \in {"asked", "parse", "store", "answered", "failed", "lost"} =>
       reqCalls[r] = <<"req">>
  /\ stage[r] \in {"asked", "parse", "store", "answered", "lost"} => resCalls[r] = <<>>
  /\ stage[r] \in {"store", "answered"} => wire[r] # <<>>
  /\ stage[r] = "failed" =>
       resCalls[r] # <<>> /\ \A i \in 1..Len(resCalls[r]) : resCalls[r][i] = "null"
  /\ stage[r] = "done" => Refused(r) \/ Unconnected(r) \/ Responded(r)

(* What is on the wire, and what will be there when the request is dropped.  *)
Heads(r) ==
  /\ wire[r] # <<>> => wire[r][1] \/ flushed[r]
  /\ flushed[r] => wire[r] # <<>>
  /\ holder[r] # "gone" /\ stage[r] \notin {"fill", "ready", "asked"} => head[r].close

Shapes ==
  /\ wire \in [Conns -> {<<>>, <<TRUE>>, <<FALSE>>}]
  /\ DOMAIN head = Conns
  /\ \A r \in Conns : DOMAIN head[r] = DOMAIN Empty

ClientInv == ConnectInv /\ TypeOK /\ Shapes /\ \A r \in Conns : Told(r) /\ Heads(r)

LEMMA ClientInvInit == Init => ClientInv
<1> SUFFICES ASSUME Init PROVE ClientInv
  OBVIOUS
<1>1. ConnectInv
  BY ConnectInvInit DEF Init
<1>2. TypeOK
  <2>1. ConnectorTypeOK
    BY <1>1 DEF ConnectInv
  <2>2. <<>> \in Seq({"req", "null"}) /\ <<>> \in Seq({"res", "null"})
    OBVIOUS
  <2>3. now \in Start..Start + MaxTicks /\ switches \in 0..MaxSwitches /\ enabled \in BOOLEAN
    BY ClientAssumption DEF Init
  <2>4. \A r \in Conns : wire[r] = <<>> /\ head[r].close = FALSE
    BY DEF Init, Empty
  <2>5. reqCalls \in [Conns -> Seq({"req", "null"})] /\ resCalls \in [Conns -> Seq({"res", "null"})]
    BY <2>2 DEF Init
  <2>6. /\ stage \in [Conns -> Stages] /\ flushed \in [Conns -> BOOLEAN]
        /\ holder \in [Conns -> {"client", "app", "gone"}]
    BY DEF Init, Stages
  <2> QED
    BY <2>1, <2>3, <2>4, <2>5, <2>6 DEF TypeOK
<1>3. Shapes
  BY DEF Init, Shapes
<1>4. ASSUME NEW r \in Conns PROVE Told(r) /\ Heads(r)
  BY DEF Init, ConnectorInit, Told, Heads, Untold
<1> QED
  BY <1>1, <1>2, <1>3, <1>4 DEF ClientInv

(* The invariant of a request depends on nothing but its own state.          *)
Own(r) ==
  <<phase[r], calls[r], stage[r], head[r], holder[r], wire[r], flushed[r],
    reqCalls[r], resCalls[r]>>

(* What is said of a request depends on its own state only.                  *)
LEMMA OwnKeeps ==
  ASSUME NEW r \in Conns, Told(r) /\ Heads(r), UNCHANGED Own(r)
  PROVE  Told(r)' /\ Heads(r)'
BY DEF Told, Heads, Untold, Refused, Unconnected, Responded, Own

Step(r) == Refuse(r) \/ Ask(r) \/ Handle(r) \/ DropRequest(r) \/ Answer(r)

(* A step of one request leaves the state of every other as it was.          *)
LEMMA OthersKeep ==
  ASSUME ClientInv, NEW r \in Conns, Step(r), NEW s \in Conns, s # r
  PROVE  UNCHANGED Own(s)
<1> USE DEF Own, ClientInv, TypeOK, Shapes, ConnectorTypeOK
<1>1. CASE Refuse(r)
  BY <1>1 DEF Refuse, connecting
<1>2. CASE Ask(r)
  BY <1>2 DEF Ask, AsyncConnect
<1>3. CASE DropRequest(r)
  BY <1>3 DEF DropRequest, connecting
<1>4. CASE Answer(r)
  BY <1>4 DEF Answer, Respond, ParseFails, ParseEndsSilently, connecting
<1>5. CASE Handle(r)
  <2>1. CASE Connecting(r)
    <3>1. phase'[s] = phase[s] /\ calls'[s] = calls[s]
      BY <2>1 DEF Connecting, ConnectStep, ResolveFails, Resolved, Connected, EndpointFails,
         NoEndpointLeft, HandshakeOk, HandshakeFails, Report, Succeed, Try
    <3> QED
      BY <2>1, <3>1 DEF Connecting, request
  <2>2. CASE NotConnected(r) \/ MakeRequest(r) \/ AddCookies(r) \/ AwaitResponse(r)
    BY <2>2 DEF NotConnected, MakeRequest, AddCookies, AwaitResponse, connecting
  <2>3. CASE CallReqHandler(r)
    BY <2>3 DEF CallReqHandler, connecting
  <2>4. CASE StoreCookies(r) \/ CallResHandler(r)
    BY <2>4 DEF StoreCookies, CallResHandler, connecting
  <2> QED
    BY <1>5, <2>1, <2>2, <2>3, <2>4 DEF Handle
<1> QED
  BY <1>1, <1>2, <1>3, <1>4, <1>5 DEF Step

(* A step of one request keeps the types.                                    *)
LEMMA RequestTypes ==
  ASSUME ClientInv, NEW r \in Conns, Step(r), ConnectInv'
  PROVE  TypeOK' /\ Shapes'
<1> USE DEF ClientInv, TypeOK, Shapes, Stages
<1>1. ConnectorTypeOK'
  BY DEF ConnectInv
<1>2. /\ Append(reqCalls[r], "req") \in Seq({"req", "null"})
      /\ Append(reqCalls[r], "null") \in Seq({"req", "null"})
      /\ Append(resCalls[r], "res") \in Seq({"res", "null"})
      /\ Append(resCalls[r], "null") \in Seq({"res", "null"})
  OBVIOUS
<1>3. CASE Refuse(r)
  BY <1>1, <1>2, <1>3 DEF Refuse, given, cookies
<1>4. CASE Ask(r)
  BY <1>1, <1>4 DEF Ask, given, cookies
<1>5. CASE DropRequest(r)
  BY <1>1, <1>5 DEF DropRequest, given, cookies, Empty
<1>6. CASE Answer(r)
  <2>1. CASE Respond(r)
    BY <1>1, <2>1 DEF Respond, given, cookies
  <2>2. CASE ParseFails(r)
    BY <1>1, <1>2, <2>2 DEF ParseFails, given, cookies
  <2>3. CASE ParseEndsSilently(r)
    BY <1>1, <2>3 DEF ParseEndsSilently, given, cookies
  <2> QED
    BY <1>6, <2>1, <2>2, <2>3 DEF Answer
<1>7. CASE Handle(r)
  <2>1. CASE Connecting(r)
    BY <1>1, <2>1 DEF Connecting, given, cookies, request
  <2>2. CASE NotConnected(r)
    BY <1>1, <1>2, <2>2 DEF NotConnected, given, cookies
  <2>3. CASE MakeRequest(r)
    BY <1>1, <2>3 DEF MakeRequest, given, cookies
  <2>4. CASE AddCookies(r)
    BY <1>1, <2>4 DEF AddCookies, given, Empty
  <2>5. CASE CallReqHandler(r)
    BY <1>1, <1>2, <2>5 DEF CallReqHandler, given, cookies
  <2>6. CASE AwaitResponse(r)
    BY <1>1, <2>6 DEF AwaitResponse, given, cookies, Empty
  <2>7. CASE StoreCookies(r)
    BY <1>1, <2>7 DEF StoreCookies, given
  <2>8. CASE CallResHandler(r)
    BY <1>1, <1>2, <2>8 DEF CallResHandler, given, cookies
  <2> QED
    BY <1>7, <2>1, <2>2, <2>3, <2>4, <2>5, <2>6, <2>7, <2>8 DEF Handle
<1> QED
  BY <1>3, <1>4, <1>5, <1>6, <1>7 DEF Step

(* And it takes the request from one stage to the next.                      *)
LEMMA RequestTold ==
  ASSUME ClientInv, NEW r \in Conns, Step(r)
  PROVE  Told(r)' /\ Heads(r)'
<1> USE DEF ClientInv, TypeOK, ConnectorTypeOK, Shapes, Stages, Told, Heads, Untold
<1>1. /\ Append(<<>>, "req") = <<"req">> /\ Append(<<>>, "null") = <<"null">>
      /\ Append(<<>>, "res") = <<"res">>
  OBVIOUS
<1>2. CASE Refuse(r)
  BY <1>1, <1>2 DEF Refuse, connecting, Refused
<1>3. CASE Ask(r)
  BY <1>3 DEF Ask, AsyncConnect
<1>4. CASE DropRequest(r)
  BY <1>4 DEF DropRequest, connecting, Refused, Unconnected, Responded
<1>5. CASE Respond(r)
  BY <1>5 DEF Respond, connecting
<1>6. CASE ParseFails(r)
  <2>1. resCalls[r] \in Seq({"res", "null"})
    OBVIOUS
  <2> QED
  BY <1>6, <2>1 DEF ParseFails, connecting
<1>7. CASE ParseEndsSilently(r)
  BY <1>7 DEF ParseEndsSilently, connecting
<1>8. CASE Connecting(r)
  <2>1. Sound(r)
    BY DEF ConnectInv
  <2>2. /\ stage'[r] = stage[r] /\ head'[r] = head[r] /\ holder'[r] = holder[r] /\ wire'[r] = wire[r]
        /\ flushed'[r] = flushed[r] /\ reqCalls'[r] = reqCalls[r] /\ resCalls'[r] = resCalls[r]
    BY <1>8 DEF Connecting, request
  <2>3. phase[r] \in {"resolving", "connecting", "handshake"} /\ calls[r] = <<>> /\ phase'[r] # "idle"
    BY <1>8, <2>1 DEF Connecting, ConnectStep, ResolveFails, Resolved, Connected, EndpointFails,
       NoEndpointLeft, HandshakeOk, HandshakeFails, Report, Succeed, Try, Sound
  <2>a. <<>> # <<"conn">> /\ <<>> # <<"null">>
    OBVIOUS
  <2>4. stage[r] = "connect"
    <3>1. stage[r] \in Stages /\ phase[r] # "idle" /\ phase[r] # "done"
      BY <2>3
    <3>2. stage[r] # "done" /\ stage[r] # "new"
      BY <2>3, <2>a, <3>1 DEF Refused, Unconnected, Responded
    <3> QED
      BY <2>3, <2>a, <3>1, <3>2
  <2> QED
    BY <2>2, <2>3, <2>4
<1>9. CASE NotConnected(r)
  <2>1. phase[r] = "done"
    BY <1>9 DEF NotConnected, ConnectInv, Sound
  <2> QED
    BY <1>1, <1>9, <2>1 DEF NotConnected, connecting, Unconnected
<1>10. CASE MakeRequest(r)
  BY <1>10 DEF MakeRequest, connecting
<1>11. CASE AddCookies(r)
  BY <1>11 DEF AddCookies, connecting
<1>12. CASE CallReqHandler(r)
  <2>1. /\ stage[r] = "ready" /\ stage'[r] = "asked" /\ reqCalls'[r] = <<"req">>
        /\ resCalls'[r] = <<>> /\ calls'[r] = <<"conn">>
    BY <1>1, <1>12 DEF CallReqHandler, connecting
  <2>2. \/ wire'[r] = <<>> /\ ~flushed'[r]
        \/ flushed'[r] /\ wire'[r] = <<head[r].close>>
    BY <1>12 DEF CallReqHandler
  <2>3. Told(r)'
    BY <2>1
  <2>a. flushed'[r] => wire'[r] # <<>>
    BY ONLY <2>2
  <2>b. wire'[r] # <<>> => flushed'[r]
    BY <2>2
  <2>4. Heads(r)'
    BY <2>1, <2>a, <2>b
  <2> QED
    BY <2>3, <2>4
<1>13. CASE AwaitResponse(r)
  BY <1>13 DEF AwaitResponse, connecting, Empty
<1>14. CASE StoreCookies(r)
  BY <1>14 DEF StoreCookies, connecting
<1>15. CASE CallResHandler(r)
  BY <1>1, <1>15 DEF CallResHandler, connecting, Responded
<1> QED
  BY <1>2, <1>3, <1>4, <1>5, <1>6, <1>7, <1>8, <1>9, <1>10, <1>11, <1>12, <1>13, <1>14, <1>15
     DEF Step, Answer, Handle

LEMMA ClientInvStep == ClientInv /\ [Next]_vars => ClientInv'
<1> SUFFICES ASSUME ClientInv, [Next]_vars PROVE ClientInv'
  OBVIOUS
<1>1. ConnectInv'
  BY ConnectInvNext DEF ClientInv
<1>2. ASSUME NEW r \in Conns, Step(r) PROVE ClientInv'
  <2>1. TypeOK' /\ Shapes'
    BY <1>1, <1>2, RequestTypes
  <2>2. ASSUME NEW s \in Conns PROVE Told(s)' /\ Heads(s)'
    <3>1. CASE s = r
      BY <1>2, <3>1, RequestTold
    <3>2. CASE s # r
      BY <1>2, <3>2, OthersKeep, OwnKeeps DEF ClientInv
    <3> QED
      BY <3>1, <3>2
  <2> QED
    BY <1>1, <2>1, <2>2 DEF ClientInv
<1>3. ASSUME UNCHANGED <<connecting, request>>, ConnectInv',
             now' \in Start..Start + MaxTicks, enabled' \in BOOLEAN, switches' \in 0..MaxSwitches
      PROVE  ClientInv'
  <2>1. TypeOK' /\ Shapes'
    BY <1>3 DEF ClientInv, TypeOK, Shapes, request, ConnectInv
  <2>2. ASSUME NEW r \in Conns PROVE Told(r)' /\ Heads(r)'
    BY <1>3, OwnKeeps DEF ClientInv, connecting, request, Own
  <2> QED
    BY <1>1, <2>1, <2>2 DEF ClientInv
<1>4. CASE EnableCookie \/ DisableCookie \/ ClearCookie
  <2>1. UNCHANGED <<connecting, given, request>> /\ switches' = switches + 1 /\ switches < MaxSwitches
    BY <1>4 DEF EnableCookie, DisableCookie, ClearCookie, Switch
  <2>2. enabled' \in BOOLEAN
    BY <1>4 DEF EnableCookie, DisableCookie, ClearCookie, Switch, ClientInv, TypeOK
  <2>3. now' \in Start..Start + MaxTicks /\ switches' \in 0..MaxSwitches
    BY <2>1, ClientAssumption DEF given, ClientInv, TypeOK
  <2> QED
    BY <1>1, <1>3, <2>1, <2>2, <2>3
<1>5. CASE Tick
  <2>1. UNCHANGED <<connecting, cookies, request>> /\ now' = now + 1 /\ now < Start + MaxTicks
    BY <1>5 DEF Tick
  <2>2. now' \in Start..Start + MaxTicks
    BY <2>1, ClientAssumption DEF ClientInv, TypeOK
  <2>3. enabled' \in BOOLEAN /\ switches' \in 0..MaxSwitches
    BY <2>1 DEF cookies, ClientInv, TypeOK
  <2> QED
    BY <1>1, <1>3, <2>1, <2>2, <2>3
<1>6. CASE UNCHANGED vars
  BY <1>1, <1>3, <1>6 DEF vars, given, cookies, ClientInv, TypeOK
<1> QED
  BY <1>2, <1>4, <1>5, <1>6 DEF Next, Step

(* The histories of the stages are in the fixed order.                       *)
LEMMA ClientInvGives == ClientInv => HandlersInOrder
<1> SUFFICES ASSUME ClientInv PROVE HandlersInOrder
  OBVIOUS
<1>1. ASSUME NEW r \in Conns
      PROVE  /\ Len(reqCalls[r]) <= 1
             /\ resCalls[r] # <<>> => Len(reqCalls[r]) = IF phase[r] = "idle" THEN 0 ELSE 1
             /\ \A i \in 1..Len(resCalls[r]) : resCalls[r][i] = "res" =>
                  resCalls[r] = <<"res">> /\ Len(wire[r]) = 1
             /\ reqCalls[r] = <<"req">> => calls[r] = <<"conn">>
             /\ Len(wire[r]) = 1 => wire[r][1] \/ flushed[r]
  <2> USE DEF ClientInv, ConnectInv, Told, Untold, Refused, Unconnected, Responded
  <2>1. /\ Len(<<>>) = 0 /\ Len(<<"req">>) = 1 /\ Len(<<"null">>) = 1 /\ <<"req">> # <<"null">>
        /\ <<>> # <<"req">> /\ <<"conn">> # <<>>
    OBVIOUS
  <2>2. stage[r] \in Stages /\ wire[r] \in {<<>>, <<TRUE>>, <<FALSE>>}
    BY DEF TypeOK
  <2>3. phase[r] = "idle" => calls[r] = <<>>
    BY DEF Sound
  <2>4. reqCalls[r] \in {<<>>, <<"req">>, <<"null">>}
    BY <2>2 DEF Stages
  <2>5. resCalls[r] # <<>> => Len(reqCalls[r]) = IF phase[r] = "idle" THEN 0 ELSE 1
    BY <2>1, <2>2, <2>3 DEF Stages
  <2>6. ASSUME NEW i \in 1..Len(resCalls[r]), resCalls[r][i] = "res"
        PROVE  resCalls[r] = <<"res">> /\ Len(wire[r]) = 1
    <3>1. stage[r] = "done"
      BY <2>1, <2>2, <2>6 DEF Stages
    <3>2. resCalls[r] # <<"null">>
      BY <2>6
    <3>3. Responded(r)
      BY <3>1, <3>2
    <3> QED
      BY <2>2, <3>3
  <2>7. reqCalls[r] = <<"req">> => calls[r] = <<"conn">>
    BY <2>1, <2>2 DEF Stages
  <2>8. Len(wire[r]) = 1 => wire[r][1] \/ flushed[r]
    BY <2>2 DEF Heads
  <2>9. Len(reqCalls[r]) <= 1
    <3>1. CASE reqCalls[r] = <<>>
      BY ONLY <3>1
    <3>2. CASE reqCalls[r] = <<"req">>
      BY ONLY <3>2
    <3>3. CASE reqCalls[r] = <<"null">>
      BY ONLY <3>3
    <3> QED
      BY ONLY <2>4, <3>1, <3>2, <3>3
  <2> QED
    BY <2>5, <2>6, <2>7, <2>8, <2>9
<1> QED
  BY <1>1 DEF HandlersInOrder, ClientInv

(* Whatever the number of requests and however their callbacks interleave,   *)
(* the application hears of each in order, and what it did not flush leaves  *)
(* with every header.                                                        *)
THEOREM ToldInOrder == Spec => []HandlersInOrder
<1>1. Init => ClientInv
  BY ClientInvInit
<1> QED
  BY <1>1, ClientInvStep, ClientInvGives, PTL DEF Spec
-----------------------------------------------------------------------------
(* The elements of a set of numbers, in order.                               *)
Below(S, i) == {j \in S : j <= i}
Rank(S, i) == Cardinality({j \in S : j <= i})

(* A set of numbers that is not empty has a least one.                       *)
LEMMA LeastNumber ==
  ASSUME NEW T \in SUBSET Nat, T # {}
  PROVE  \E x \in T : \A y \in T : x <= y
<1> DEFINE R == OpToRel(<, Nat)
<1>1. IsWellFoundedOn(R, Nat)
  BY NatLessThanWellFounded
<1> HIDE DEF R
<1>2. PICK x \in T : \A y \in T : ~(<<y, x>> \in R)
  BY <1>1, WFMin
<1>3. \A y \in T : ~(y < x)
  BY <1>2 DEF R, OpToRel
<1> QED
  BY <1>3

LEMMA SameNumbers ==
  ASSUME NEW A \in SUBSET Int, NEW B \in SUBSET Int, \A x \in Int : x \in A <=> x \in B
  PROVE  A = B
OBVIOUS

LEMMA BelowIs ==
  ASSUME NEW S, NEW i \in Int, NEW j \in Int
  PROVE  j \in Below(S, i) <=> j \in S /\ j <= i
BY DEF Below

(* A rank counts, and goes up by one at each element.                        *)
LEMMA RankIs ==
  ASSUME NEW N \in Nat, NEW S \in SUBSET (1..N), NEW i \in Int
  PROVE  /\ IsFiniteSet(S) /\ Cardinality(S) \in Nat
         /\ Rank(S, i) \in Nat /\ Rank(S, i) <= Cardinality(S)
         /\ Rank(S, i - 1) \in Nat
         /\ i \in S => Rank(S, i) = Rank(S, i - 1) + 1
         /\ i \notin S => Rank(S, i) = Rank(S, i - 1)
         /\ i <= 0 => Rank(S, i) = 0
         /\ i >= N => Rank(S, i) = Cardinality(S)
<1>0. /\ \A j \in S : j \in Int /\ 1 <= j /\ j <= N
      /\ S \in SUBSET Int /\ i - 1 \in Int
  OBVIOUS
<1>1. IsFiniteSet(1..N)
  BY FS_Interval
<1>2. IsFiniteSet(S) /\ Cardinality(S) \in Nat
  BY <1>1, FS_Subset, FS_CardinalityType
<1>3. /\ Below(S, i) \in SUBSET S /\ Below(S, i - 1) \in SUBSET S
      /\ Rank(S, i) = Cardinality(Below(S, i)) /\ Rank(S, i - 1) = Cardinality(Below(S, i - 1))
  BY DEF Below, Rank
<1>4. /\ IsFiniteSet(Below(S, i)) /\ IsFiniteSet(Below(S, i - 1))
      /\ Cardinality(Below(S, i)) <= Cardinality(S)
  BY <1>2, <1>3, FS_Subset
<1>5. Cardinality(Below(S, i)) \in Nat /\ Cardinality(Below(S, i - 1)) \in Nat
  BY <1>4, FS_CardinalityType
<1>6. ASSUME i \in S PROVE Rank(S, i) = Rank(S, i - 1) + 1
  <2>1. i \notin Below(S, i - 1)
    BY BelowIs
  <2>2. ASSUME NEW j \in Int PROVE j \in Below(S, i) <=> j \in Below(S, i - 1) \cup {i}
    <3>1. j <= i <=> j <= i - 1 \/ j = i
      OBVIOUS
    <3>2. j \in Below(S, i - 1) <=> j \in S /\ j <= i - 1
      BY <1>0, BelowIs
    <3> QED
      BY <1>6, <3>1, <3>2, BelowIs
  <2>3. Below(S, i) = Below(S, i - 1) \cup {i}
    <3>1. Below(S, i - 1) \cup {i} \in SUBSET Int /\ Below(S, i) \in SUBSET Int
      BY <1>0, <1>3
    <3> QED
      BY <2>2, <3>1, SameNumbers
  <2> QED
    BY <1>3, <1>4, <2>1, <2>3, FS_AddElement
<1>7. ASSUME i \notin S PROVE Rank(S, i) = Rank(S, i - 1)
  <2>1. ASSUME NEW j \in Int PROVE j \in Below(S, i) <=> j \in Below(S, i - 1)
    <3>1. j # i => (j <= i <=> j <= i - 1)
      OBVIOUS
    <3>2. j \in Below(S, i - 1) <=> j \in S /\ j <= i - 1
      BY <1>0, BelowIs
    <3> QED
      BY <1>7, <3>1, <3>2, BelowIs
  <2>2. Below(S, i) = Below(S, i - 1)
    BY <1>0, <1>3, <2>1, SameNumbers
  <2> QED
    BY <1>3, <2>2
<1>8. ASSUME i <= 0 PROVE Rank(S, i) = 0
  <2>1. ASSUME NEW j \in S PROVE j \notin Below(S, i)
    BY <1>0, <1>8, BelowIs
  <2>2. Below(S, i) = {}
    BY <1>3, <2>1
  <2> QED
    BY <1>3, <2>2, FS_EmptySet
<1>9. ASSUME i >= N PROVE Rank(S, i) = Cardinality(S)
  <2>1. ASSUME NEW j \in S PROVE j \in Below(S, i)
    <3>1. j \in Int /\ j <= i
      BY <1>0, <1>9
    <3> QED
      BY <3>1, BelowIs
  <2>2. Below(S, i) = S
    BY <1>3, <2>1
  <2> QED
    BY <1>3, <2>2
<1> QED
  BY <1>2, <1>3, <1>4, <1>5, <1>6, <1>7, <1>8, <1>9

LEMMA RankEnds ==
  ASSUME NEW N \in Nat, NEW S \in SUBSET (1..N)
  PROVE  Rank(S, 0) = 0 /\ Rank(S, N) = Cardinality(S) /\ Cardinality(S) \in Nat
<1>1. 0 \in Int /\ N \in Int /\ 0 <= 0 /\ N >= N
  OBVIOUS
<1>2. Rank(S, 0) = 0
  BY <1>1, RankIs
<1>3. Rank(S, N) = Cardinality(S)
  BY <1>1, RankIs
<1> QED
  BY <1>1, <1>2, <1>3, RankIs

(* Of a later element the rank is higher.                                    *)
LEMMA RankGrows ==
  ASSUME NEW N \in Nat, NEW S \in SUBSET (1..N), NEW i \in Int, NEW k \in S, i < k
  PROVE  Rank(S, i) < Rank(S, k)
<1>0. k \in Int /\ k - 1 \in Int /\ \A j \in S : j \in Int
  OBVIOUS
<1>1. Rank(S, k) = Rank(S, k - 1) + 1 /\ Rank(S, k - 1) \in Nat
  BY <1>0, RankIs
<1>2. Below(S, i) \in SUBSET Below(S, k - 1) /\ Below(S, k - 1) \in SUBSET S
  <2>1. Below(S, i) \in SUBSET S /\ Below(S, k - 1) \in SUBSET S
    BY DEF Below
  <2>2. ASSUME NEW j \in S, j \in Below(S, i) PROVE j \in Below(S, k - 1)
    <3>1. j \in Int /\ j <= i
      BY <1>0, <2>2, BelowIs
    <3>2. j <= k - 1
      BY <1>0, <3>1
    <3> QED
      BY <1>0, <3>1, <3>2, BelowIs
  <2> QED
    BY <2>1, <2>2
<1>3. IsFiniteSet(S)
  BY RankIs
<1>4. IsFiniteSet(Below(S, k - 1))
  BY <1>2, <1>3, FS_Subset
<1>5. Cardinality(Below(S, i)) <= Cardinality(Below(S, k - 1))
  BY <1>2, <1>4, FS_Subset
<1>6. Rank(S, i) <= Rank(S, k - 1)
  BY <1>5 DEF Rank, Below
<1>7. Rank(S, i) \in Nat
  BY RankIs
<1> QED
  BY <1>1, <1>6, <1>7

(* Nth is the element of that rank, and the only one.                        *)
LEMMA NthIs ==
  ASSUME NEW N \in Nat, NEW S \in SUBSET (1..N), NEW n \in 1..Cardinality(S)
  PROVE  Nth(S, n) \in S /\ Rank(S, Nth(S, n)) = n
<1>0. Cardinality(S) \in Nat /\ N \in Int /\ Rank(S, N) = Cardinality(S)
  BY RankIs
<1>1. n \in Nat /\ n >= 1 /\ n <= Cardinality(S)
  BY <1>0
<1> DEFINE T == {m \in Nat : n <= Rank(S, m)}
<1>2. T \in SUBSET Nat /\ N \in T
  BY <1>0, <1>1
<1>3. PICK m \in T : \A y \in T : m <= y
  BY <1>2, LeastNumber
<1>4. m \in Nat /\ n <= Rank(S, m) /\ m \in Int
  BY <1>3
<1>5. Rank(S, m) \in Nat /\ Rank(S, m - 1) \in Nat
  BY <1>4, RankIs
<1>6. m # 0
  <2>1. m <= 0 => Rank(S, m) = 0
    BY <1>4, RankIs
  <2> QED
    BY <1>1, <1>4, <2>1
<1>7. m - 1 \in Nat /\ m - 1 \notin T
  BY <1>3, <1>4, <1>6
<1>8. Rank(S, m - 1) < n
  BY <1>1, <1>5, <1>7
<1>9. m \in S
  <2>1. m \notin S => Rank(S, m) = Rank(S, m - 1)
    BY <1>4, RankIs
  <2> QED
    BY <1>1, <1>4, <1>5, <1>8, <2>1
<1>10. Rank(S, m) = n
  <2>1. Rank(S, m) = Rank(S, m - 1) + 1
    BY <1>4, <1>9, RankIs
  <2> QED
    BY <1>1, <1>4, <1>5, <1>8, <2>1
<1> HIDE DEF T
<1>11. \E i \in S : Cardinality({j \in S : j <= i}) = n
  BY <1>9, <1>10 DEF Rank
<1> QED
  BY <1>11 DEF Nth, Rank

LEMMA NthOnly ==
  ASSUME NEW N \in Nat, NEW S \in SUBSET (1..N), NEW i \in S, NEW n, n = Rank(S, i)
  PROVE  n \in 1..Cardinality(S) /\ Nth(S, n) = i
<1>0. i \in Int /\ i - 1 \in Int
  OBVIOUS
<1>1. /\ n \in Nat /\ n <= Cardinality(S) /\ n >= 1 /\ Cardinality(S) \in Nat
  <2>1. /\ Rank(S, i) \in Nat /\ Rank(S, i) <= Cardinality(S) /\ Cardinality(S) \in Nat
        /\ Rank(S, i) = Rank(S, i - 1) + 1 /\ Rank(S, i - 1) \in Nat
    BY <1>0, RankIs
  <2> HIDE DEF Rank
  <2> QED
    BY <2>1
<1>2. n \in 1..Cardinality(S)
  BY <1>1
<1>3. Nth(S, n) \in S /\ Rank(S, Nth(S, n)) = n
  BY <1>2, NthIs
<1>4. PICK k \in S : k = Nth(S, n)
  BY <1>3
<1>5. Rank(S, k) = n /\ k \in Int
  BY <1>3, <1>4
<1>6. ~(i < k)
  <2>1. i < k => Rank(S, i) < Rank(S, k)
    BY <1>0, RankGrows
  <2> QED
    BY <1>1, <1>5, <2>1
<1>7. ~(k < i)
  <2>1. k < i => Rank(S, k) < Rank(S, i)
    BY <1>5, RankGrows
  <2> QED
    BY <1>1, <1>5, <2>1
<1> QED
  BY <1>0, <1>2, <1>4, <1>5, <1>6, <1>7

(* Two sets of which one lies behind the other.                              *)
Behind(A, B, c) == A \cup {c + j : j \in B}

RanksBehind(S, A, B, m, n) ==
  /\ S \in SUBSET (1..(m + 1) + n)
  /\ \A i \in 0..m : Rank(S, i) = Rank(A, i)
  /\ \A j \in 0..n : Rank(S, (m + 1) + j) = Cardinality(A) + Rank(B, j)
  /\ Cardinality(S) = Cardinality(A) + Cardinality(B)

LEMMA RankBehind ==
  ASSUME NEW m \in Nat, NEW n \in Nat, NEW A \in SUBSET (1..m), NEW B \in SUBSET (1..n),
         NEW S, S = Behind(A, B, m + 1)
  PROVE  RanksBehind(S, A, B, m, n)
<1>1. S \in SUBSET (1..(m + 1) + n)
  <2>1. ASSUME NEW x \in S PROVE x \in 1..(m + 1) + n
    <3>1. CASE x \in A
      BY <3>1
    <3>2. CASE \E j \in B : x = (m + 1) + j
      <4>1. PICK j \in B : x = (m + 1) + j
        BY <3>2
      <4>2. j \in Int /\ 1 <= j /\ j <= n
        OBVIOUS
      <4> QED
        BY <4>1, <4>2
    <3> QED
      BY <3>1, <3>2 DEF Behind
  <2> QED
    BY <2>1
<1>2. ASSUME NEW i \in 0..m PROVE Rank(S, i) = Rank(A, i)
  <2>1. {j \in S : j <= i} = {j \in A : j <= i}
    BY DEF Behind
  <2> QED
    BY <2>1 DEF Rank
<1> DEFINE Good(j) == Rank(S, (m + 1) + j) = Cardinality(A) + Rank(B, j)
           Bad == {j \in 0..n : ~Good(j)}
<1>n. (m + 1) + n \in Nat
  OBVIOUS
<1>3. Good(0)
  <2>1. m + 1 \notin S
    BY DEF Behind
  <2>2. Rank(S, m + 1) = Rank(S, (m + 1) - 1)
    <3>1. m + 1 \in Int
      OBVIOUS
    <3> QED
      BY <1>1, <1>n, <2>1, <3>1, RankIs
  <2>3. Rank(S, m) = Rank(A, m) /\ (m + 1) - 1 = m /\ (m + 1) + 0 = m + 1
    BY <1>2
  <2>4. Rank(A, m) = Cardinality(A) /\ Cardinality(A) \in Nat
    BY RankIs
  <2>5. Rank(B, 0) = 0
    BY RankEnds
  <2> QED
    BY <2>2, <2>3, <2>4, <2>5
<1>4. ASSUME NEW j \in 1..n, Good(j - 1) PROVE Good(j)
  <2> DEFINE k == (m + 1) + j
  <2>1. k \in Int /\ k - 1 = (m + 1) + (j - 1) /\ j \in Int
    OBVIOUS
  <2>2. k \in S <=> j \in B
    BY DEF Behind
  <2>3. /\ k \in S => Rank(S, k) = Rank(S, k - 1) + 1
        /\ k \notin S => Rank(S, k) = Rank(S, k - 1)
    <3> HIDE DEF k
    <3> QED
      BY <1>1, <1>n, <2>1, RankIs
  <2>4. /\ j \in B => Rank(B, j) = Rank(B, j - 1) + 1
        /\ j \notin B => Rank(B, j) = Rank(B, j - 1)
        /\ Rank(B, j - 1) \in Nat
    BY <2>1, RankIs
  <2>5. Cardinality(A) \in Nat
    BY RankIs
  <2>6. Rank(S, k - 1) = Cardinality(A) + Rank(B, j - 1)
    BY <1>4, <2>1
  <2> HIDE DEF k
  <2>7. Rank(S, k) = Cardinality(A) + Rank(B, j)
    BY <2>2, <2>3, <2>4, <2>5, <2>6
  <2> QED
    BY <2>7 DEF k
<1>5. Bad = {}
  <2> SUFFICES ASSUME Bad # {} PROVE FALSE
    OBVIOUS
  <2>1. Bad \in SUBSET Nat
    OBVIOUS
  <2> HIDE DEF Good
  <2>2. PICK j \in Bad : \A y \in Bad : j <= y
    BY <2>1, LeastNumber
  <2>3. j \in 1..n /\ j - 1 \in 0..n
    BY <1>3, <2>2
  <2>4. j - 1 \notin Bad
    BY <2>2, <2>3
  <2> QED
    BY <1>4, <2>2, <2>3, <2>4
<1>6. \A j \in 0..n : Good(j)
  BY <1>5
<1>7. Cardinality(S) = Cardinality(A) + Cardinality(B)
  <2>1. Rank(S, (m + 1) + n) = Cardinality(S)
    <3>1. (m + 1) + n \in Int /\ (m + 1) + n >= (m + 1) + n
      OBVIOUS
    <3> QED
      BY <1>1, <1>n, <3>1, RankIs
  <2>2. Rank(B, n) = Cardinality(B)
    BY RankEnds
  <2>3. n \in 0..n
    OBVIOUS
  <2> QED
    BY <1>6, <2>1, <2>2, <2>3
<1> HIDE DEF Good
<1>8. \A j \in 0..n : Rank(S, (m + 1) + j) = Cardinality(A) + Rank(B, j)
  BY <1>6 DEF Good
<1> QED
  BY <1>1, <1>2, <1>7, <1>8 DEF RanksBehind

NthsBehind(S, A, B, m) ==
  /\ Cardinality(S) = Cardinality(A) + Cardinality(B)
  /\ \A k \in 1..Cardinality(A) : Nth(S, k) = Nth(A, k) /\ Nth(A, k) \in A
  /\ \A k \in 1..Cardinality(B) :
       Nth(S, Cardinality(A) + k) = (m + 1) + Nth(B, k) /\ Nth(B, k) \in B

LEMMA NthBehind ==
  ASSUME NEW m \in Nat, NEW n \in Nat, NEW A \in SUBSET (1..m), NEW B \in SUBSET (1..n),
         NEW S, S = Behind(A, B, m + 1)
  PROVE  NthsBehind(S, A, B, m)
<1>0. RanksBehind(S, A, B, m, n)
  BY RankBehind
<1>1. Cardinality(A) \in Nat /\ Cardinality(B) \in Nat
  BY RankEnds
<1>2. PICK N \in Nat : N = (m + 1) + n
  OBVIOUS
<1>3. S \in SUBSET (1..N) /\ Cardinality(S) = Cardinality(A) + Cardinality(B)
  BY <1>0, <1>2 DEF RanksBehind
<1>4. ASSUME NEW k \in 1..Cardinality(A) PROVE Nth(S, k) = Nth(A, k) /\ Nth(A, k) \in A
  <2>1. Nth(A, k) \in A /\ Rank(A, Nth(A, k)) = k
    BY NthIs
  <2>2. PICK i \in A : i = Nth(A, k)
    BY <2>1
  <2>3. i \in S /\ i \in 0..m
    BY DEF Behind
  <2>4. k = Rank(S, i)
    <3>1. Rank(S, i) = Rank(A, i)
      BY <1>0, <2>3 DEF RanksBehind
    <3> QED
      BY <2>1, <2>2, <3>1
  <2>5. Nth(S, k) = i
    BY <1>3, <2>3, <2>4, NthOnly
  <2> QED
    BY <2>1, <2>2, <2>5
<1>5. ASSUME NEW k \in 1..Cardinality(B)
      PROVE  Nth(S, Cardinality(A) + k) = (m + 1) + Nth(B, k) /\ Nth(B, k) \in B
  <2>1. Nth(B, k) \in B /\ Rank(B, Nth(B, k)) = k
    BY NthIs
  <2>2. PICK j \in B : j = Nth(B, k)
    BY <2>1
  <2>3. (m + 1) + j \in S /\ j \in 0..n
    BY DEF Behind
  <2>4. PICK i \in S : i = (m + 1) + j
    BY <2>3
  <2>5. Cardinality(A) + k = Rank(S, i)
    <3>1. Rank(S, (m + 1) + j) = Cardinality(A) + Rank(B, j)
      BY <1>0, <2>3 DEF RanksBehind
    <3> QED
      BY <2>1, <2>2, <2>4, <3>1
  <2>6. Nth(S, Cardinality(A) + k) = i
    <3>1. PICK h : h = Cardinality(A) + k
      OBVIOUS
    <3>2. h = Rank(S, i) /\ S \in SUBSET (1..N)
      BY ONLY <1>3, <2>5, <3>1
    <3>3. Nth(S, h) = i
      BY ONLY <3>2, N \in Nat, i \in S, NthOnly
    <3> QED
      BY ONLY <3>1, <3>3
  <2> QED
    BY <2>1, <2>2, <2>4, <2>6
<1> QED
  BY <1>3, <1>4, <1>5 DEF NthsBehind

-----------------------------------------------------------------------------
(* Pieces of two sequences that hold the same are the same.                  *)
LEMMA SamePieces ==
  ASSUME NEW s, NEW t, NEW i \in Int, NEW j \in Int, NEW p \in Int, NEW q \in Int, NEW c \in Int,
         p = c + i, q = c + j,
         \A k \in i..j : s[c + k] = t[k] /\ t[k] \in Characters
  PROVE  SubSeq(s, p, q) = SubSeq(t, i, j)
<1>1. \A k \in i..j : t[k] \in Characters
  OBVIOUS
<1>2. ASSUME NEW k \in p..q PROVE s[k] \in Characters
  <2>1. PICK x \in i..j : k = c + x
    <3>1. k - c \in i..j /\ k = c + (k - c)
      OBVIOUS
    <3> QED
      BY <3>1
  <2> QED
    BY <2>1
<1>3. /\ SubSeq(t, i, j) \in Seq(Characters) /\ Len(SubSeq(t, i, j)) = IF i <= j THEN j - i + 1 ELSE 0
      /\ \A k \in 1..j - i + 1 : SubSeq(t, i, j)[k] = t[i + k - 1]
  BY <1>1, SubSeqProperties
<1>4. /\ SubSeq(s, p, q) \in Seq(Characters) /\ Len(SubSeq(s, p, q)) = IF p <= q THEN q - p + 1 ELSE 0
      /\ \A k \in 1..q - p + 1 : SubSeq(s, p, q)[k] = s[p + k - 1]
  BY <1>2, SubSeqProperties
<1>5. Len(SubSeq(s, p, q)) = Len(SubSeq(t, i, j))
  <2>1. (p <= q <=> i <= j) /\ q - p + 1 = j - i + 1
    OBVIOUS
  <2> QED
    BY <1>3, <1>4, <2>1
<1>6. ASSUME NEW k \in 1..Len(SubSeq(t, i, j)) PROVE SubSeq(s, p, q)[k] = SubSeq(t, i, j)[k]
  <2>1. k \in 1..j - i + 1 /\ k \in 1..q - p + 1
    <3>1. Len(SubSeq(t, i, j)) <= j - i + 1 \/ Len(SubSeq(t, i, j)) = 0
      BY <1>3
    <3>2. q - p + 1 = j - i + 1
      OBVIOUS
    <3>3. Len(SubSeq(t, i, j)) \in Nat
      BY <1>3
    <3> QED
      BY <3>1, <3>2, <3>3
  <2>2. i + k - 1 \in i..j /\ p + k - 1 = c + (i + k - 1)
    BY <2>1
  <2>3. s[c + (i + k - 1)] = t[i + k - 1]
    BY <2>2
  <2> QED
    BY <1>3, <1>4, <2>1, <2>2, <2>3
<1> QED
  BY <1>3, <1>4, <1>5, <1>6, SeqEqual

LEMMA TwoParts ==
  ASSUME NEW S, NEW t \in Seq(S), NEW u \in Seq(S), NEW v \in Seq(S),
         Len(t) = Len(u) + Len(v),
         \A k \in 1..Len(u) : t[k] = u[k], \A k \in 1..Len(v) : t[Len(u) + k] = v[k]
  PROVE  t = u \o v
<1>p. PICK p \in Nat, q \in Nat : p = Len(u) /\ q = Len(v)
  OBVIOUS
<1>q. /\ Len(t) = p + q
      /\ \A k \in 1..p : t[k] = u[k]
      /\ \A k \in 1..q : t[p + k] = v[k]
  BY <1>p
<1>1. /\ u \o v \in Seq(S) /\ Len(u \o v) = p + q
      /\ \A i \in 1..p + q : (u \o v)[i] = IF i <= p THEN u[i] ELSE v[i - p]
  BY <1>p, ConcatProperties
<1>2. ASSUME NEW i \in 1..p + q PROVE t[i] = (u \o v)[i]
  <2>1. CASE i <= p
    BY <1>1, <1>q, <2>1
  <2>2. CASE i > p
    <3>1. i - p \in 1..q /\ p + (i - p) = i
      BY <2>2
    <3>2. t[p + (i - p)] = v[i - p]
      BY <1>q, <3>1
    <3> QED
      BY <1>1, <2>2, <3>1, <3>2
  <2>3. i <= p \/ i > p
    OBVIOUS
  <2> QED
    BY <2>1, <2>2, <2>3
<1> QED
  BY <1>1, <1>q, <1>2, SeqEqual

-----------------------------------------------------------------------------
(* Tokens: where they start, where they end.                                 *)
Starts(s, D) == {i \in 1..Len(s) : s[i] \notin D /\ (i = 1 \/ s[i - 1] \in D)}
EndsToken(s, D, i, j) ==
  /\ j \in i..Len(s)
  /\ \A k \in i..j : s[k] \notin D
  /\ j = Len(s) \/ s[j + 1] \in D
TokenEnd(s, D, i) ==
  CHOOSE j \in i..Len(s) : (\A k \in i..j : s[k] \notin D) /\ (j = Len(s) \/ s[j + 1] \in D)
TokenAt(s, D, i) == SubSeq(s, i, TokenEnd(s, D, i))

LEMMA TokensAre ==
  ASSUME NEW s, NEW D
  PROVE  Tokens(s, D) = [n \in 1..Cardinality(Starts(s, D)) |-> TokenAt(s, D, Nth(Starts(s, D), n))]
BY DEF Tokens, Starts, TokenAt, TokenEnd, Nth

(* A token has one end.                                                      *)
LEMMA TokenEnds ==
  ASSUME NEW s \in Text, NEW D, NEW i \in 1..Len(s), s[i] \notin D
  PROVE  \E j \in i..Len(s) : EndsToken(s, D, i, j)
<1>1. PICK n \in Nat : n = Len(s)
  BY DEF Text
<1> DEFINE T == {j \in Nat : i <= j /\ j <= n /\ (j = n \/ s[j + 1] \in D)}
<1>2. T \in SUBSET Nat /\ n \in T
  BY <1>1
<1>3. PICK j \in T : \A y \in T : j <= y
  BY <1>2, LeastNumber
<1>4. /\ j \in Nat /\ i <= j /\ j <= n /\ (j = n \/ s[j + 1] \in D)
  BY <1>3
<1>5. ASSUME NEW k \in i..j PROVE s[k] \notin D
  <2>1. k \in Nat /\ i <= k /\ k <= j
    BY <1>4
  <2>2. CASE k = i
    BY <2>2
  <2>3. CASE k # i
    <3>1. k - 1 \in Nat /\ i <= k - 1 /\ k - 1 <= n /\ k - 1 < j /\ (k - 1) + 1 = k
      BY <1>4, <2>1, <2>3
    <3>2. k - 1 \notin T
      BY <1>3, <1>4, <3>1
    <3> QED
      BY <3>1, <3>2
  <2> QED
    BY <2>2, <2>3
<1>6. j \in i..Len(s)
  BY <1>1, <1>4
<1>7. EndsToken(s, D, i, j)
  BY <1>1, <1>4, <1>5, <1>6 DEF EndsToken
<1> QED
  BY <1>6, <1>7

LEMMA OneEnd ==
  ASSUME NEW s \in Text, NEW D, NEW i \in 1..Len(s), NEW j, NEW k,
         EndsToken(s, D, i, j), EndsToken(s, D, i, k)
  PROVE  j = k
<1>1. PICK n \in Nat : n = Len(s)
  BY DEF Text
<1>2. /\ j \in Int /\ i <= j /\ j <= n /\ \A x \in i..j : s[x] \notin D
      /\ (j = n \/ s[j + 1] \in D)
  BY <1>1 DEF EndsToken
<1>3. /\ k \in Int /\ i <= k /\ k <= n /\ \A x \in i..k : s[x] \notin D
      /\ (k = n \/ s[k + 1] \in D)
  BY <1>1 DEF EndsToken
<1>4. ~(j < k)
  <2> SUFFICES ASSUME j < k PROVE FALSE
    OBVIOUS
  <2>1. j # n /\ j + 1 \in i..k
    BY <1>2, <1>3
  <2> QED
    BY <1>2, <1>3, <2>1
<1>5. ~(k < j)
  <2> SUFFICES ASSUME k < j PROVE FALSE
    OBVIOUS
  <2>1. k # n /\ k + 1 \in i..j
    BY <1>2, <1>3
  <2> QED
    BY <1>2, <1>3, <2>1
<1> QED
  BY <1>2, <1>3, <1>4, <1>5

LEMMA TokenEndIs ==
  ASSUME NEW s \in Text, NEW D, NEW i \in 1..Len(s), s[i] \notin D
  PROVE  EndsToken(s, D, i, TokenEnd(s, D, i))
<1>1. \E j \in i..Len(s) : (\A k \in i..j : s[k] \notin D) /\ (j = Len(s) \/ s[j + 1] \in D)
  BY TokenEnds DEF EndsToken
<1> QED
  BY <1>1 DEF EndsToken, TokenEnd

LEMMA TokenTyped ==
  ASSUME NEW s \in Text, NEW D, NEW i \in 1..Len(s), s[i] \notin D
  PROVE  TokenAt(s, D, i) \in Text
<1>1. PICK j \in Int : j = TokenEnd(s, D, i) /\ j \in i..Len(s)
  BY TokenEndIs DEF EndsToken
<1>2. \A k \in i..j : s[k] \in Characters
  BY <1>1, ElementOfSeq DEF Text
<1>3. SubSeq(s, i, j) \in Seq(Characters)
  BY <1>1, <1>2, SubSeqProperties
<1> QED
  BY <1>1, <1>3 DEF TokenAt, Text

LEMMA StartsAre ==
  ASSUME NEW s \in Text, NEW D
  PROVE  /\ Len(s) \in Nat /\ Starts(s, D) \in SUBSET (1..Len(s))
         /\ \A i \in Starts(s, D) : s[i] \notin D
         /\ Cardinality(Starts(s, D)) \in Nat
<1>1. Len(s) \in Nat
  BY DEF Text
<1>2. Starts(s, D) \in SUBSET (1..Len(s))
  BY DEF Starts
<1>3. Cardinality(Starts(s, D)) \in Nat
  BY <1>1, <1>2, RankEnds
<1> QED
  BY <1>1, <1>2, <1>3 DEF Starts

LEMMA TokensTyped ==
  ASSUME NEW s \in Text, NEW D
  PROVE  /\ Tokens(s, D) \in Seq(Text)
         /\ Len(Tokens(s, D)) = Cardinality(Starts(s, D))
         /\ \A n \in 1..Cardinality(Starts(s, D)) :
              Tokens(s, D)[n] = TokenAt(s, D, Nth(Starts(s, D), n))
<1>1. PICK c \in Nat : c = Cardinality(Starts(s, D))
  BY StartsAre
<1>2. ASSUME NEW n \in 1..c PROVE TokenAt(s, D, Nth(Starts(s, D), n)) \in Text
  <2>1. Nth(Starts(s, D), n) \in Starts(s, D)
    BY <1>1, StartsAre, NthIs
  <2>2. PICK i \in 1..Len(s) : i = Nth(Starts(s, D), n) /\ s[i] \notin D
    BY <2>1, StartsAre
  <2> QED
    BY <2>2, TokenTyped
<1>3. Tokens(s, D) = [n \in 1..c |-> TokenAt(s, D, Nth(Starts(s, D), n))]
  BY <1>1, TokensAre
<1>4. Tokens(s, D) \in [1..c -> Text]
  BY <1>2, <1>3
<1>5. Tokens(s, D) \in Seq(Text) /\ Len(Tokens(s, D)) = c
  BY <1>4
<1> QED
  BY <1>1, <1>3, <1>5

-----------------------------------------------------------------------------
(* A text of two with a delimiter between them.                              *)
Joins(s, a, d, b) ==
  /\ Len(s) = (Len(a) + 1) + Len(b)
  /\ \A i \in 1..Len(a) : s[i] = a[i]
  /\ s[Len(a) + 1] = d
  /\ \A j \in 1..Len(b) : s[(Len(a) + 1) + j] = b[j]

LEMMA JoinStarts ==
  ASSUME NEW s \in Text, NEW a \in Text, NEW b \in Text, NEW D, NEW d \in D, Joins(s, a, d, b)
  PROVE  Starts(s, D) = Behind(Starts(a, D), Starts(b, D), Len(a) + 1)
<1>1. PICK m \in Nat, n \in Nat : m = Len(a) /\ n = Len(b)
  BY DEF Text
<1>2. /\ Len(s) = (m + 1) + n
      /\ \A i \in 1..m : s[i] = a[i]
      /\ s[m + 1] \in D
      /\ \A j \in 1..n : s[(m + 1) + j] = b[j]
  BY <1>1 DEF Joins
<1>3. ASSUME NEW i \in 1..m PROVE i \in Starts(s, D) <=> i \in Starts(a, D)
  <2>1. i \in 1..(m + 1) + n /\ (i # 1 => i - 1 \in 1..m)
    OBVIOUS
  <2>2. s[i] = a[i] /\ (i # 1 => s[i - 1] = a[i - 1])
    BY <1>2, <2>1
  <2> QED
    BY <1>1, <1>2, <2>1, <2>2 DEF Starts
<1>4. m + 1 \notin Starts(s, D)
  BY <1>2 DEF Starts
<1>5. ASSUME NEW j \in 1..n PROVE (m + 1) + j \in Starts(s, D) <=> j \in Starts(b, D)
  <2>1. /\ (m + 1) + j \in 1..(m + 1) + n /\ (m + 1) + j # 1
        /\ j # 1 => j - 1 \in 1..n /\ ((m + 1) + j) - 1 = (m + 1) + (j - 1)
        /\ j = 1 => ((m + 1) + j) - 1 = m + 1
    OBVIOUS
  <2>2. s[(m + 1) + j] = b[j]
    BY <1>2
  <2>3. s[((m + 1) + j) - 1] \in D <=> j = 1 \/ b[j - 1] \in D
    BY <1>2, <2>1
  <2> QED
    BY <1>1, <1>2, <2>1, <2>2, <2>3 DEF Starts
<1>6. ASSUME NEW x \in Starts(s, D) PROVE x \in Behind(Starts(a, D), Starts(b, D), m + 1)
  <2>1. x \in 1..(m + 1) + n
    BY <1>2 DEF Starts
  <2>2. CASE x \in 1..m
    BY <1>3, <2>2 DEF Behind
  <2>3. CASE x = m + 1
    BY <1>4, <2>3
  <2>4. CASE x > m + 1
    <3>1. PICK j \in 1..n : x = (m + 1) + j
      <4>1. x - (m + 1) \in 1..n /\ x = (m + 1) + (x - (m + 1))
        BY <2>1, <2>4
      <4> QED
        BY <4>1
    <3>2. j \in Starts(b, D)
      BY <1>5, <3>1
    <3> QED
      BY <3>1, <3>2 DEF Behind
  <2> QED
    BY <2>1, <2>2, <2>3, <2>4
<1>7. ASSUME NEW x \in Behind(Starts(a, D), Starts(b, D), m + 1) PROVE x \in Starts(s, D)
  <2>1. CASE x \in Starts(a, D)
    <3>1. x \in 1..m
      BY <1>1, <2>1 DEF Starts
    <3> QED
      BY <1>3, <2>1, <3>1
  <2>2. CASE \E j \in Starts(b, D) : x = (m + 1) + j
    <3>1. PICK j \in Starts(b, D) : x = (m + 1) + j
      BY <2>2
    <3>2. j \in 1..n
      BY <1>1 DEF Starts
    <3> QED
      BY <1>5, <3>1, <3>2
  <2> QED
    BY <2>1, <2>2 DEF Behind
<1> QED
  BY <1>1, <1>6, <1>7

(* Its tokens are those of the two.                                          *)
LEMMA TokenOfFirst ==
  ASSUME NEW s \in Text, NEW a \in Text, NEW b \in Text, NEW D, NEW d \in D, Joins(s, a, d, b),
         NEW i \in Starts(a, D)
  PROVE  TokenAt(s, D, i) = TokenAt(a, D, i)
<1>1. PICK m \in Nat, n \in Nat : m = Len(a) /\ n = Len(b)
  BY DEF Text
<1>2. /\ Len(s) = (m + 1) + n
      /\ \A k \in 1..m : s[k] = a[k]
      /\ s[m + 1] \in D
  BY <1>1 DEF Joins
<1>3. i \in 1..m /\ a[i] \notin D /\ i \in 1..Len(a) /\ i \in 1..Len(s) /\ s[i] \notin D
  BY <1>1, <1>2 DEF Starts
<1>4. PICK j \in Int : j = TokenEnd(a, D, i) /\ EndsToken(a, D, i, j)
  <2>1. EndsToken(a, D, i, TokenEnd(a, D, i))
    BY <1>3, TokenEndIs
  <2> QED
    BY <1>1, <2>1 DEF EndsToken
<1>5. j \in i..m /\ (\A k \in i..j : a[k] \notin D) /\ (j = m \/ a[j + 1] \in D)
  BY <1>1, <1>4 DEF EndsToken
<1>6. EndsToken(s, D, i, j)
  <2>1. ASSUME NEW k \in i..j PROVE s[k] \notin D
    <3>1. k \in 1..m
      BY <1>3, <1>5
    <3> QED
      BY <1>2, <1>5, <3>1
  <2>2. s[j + 1] \in D
    <3>1. j # m => j + 1 \in 1..m
      BY <1>3, <1>5
    <3> QED
      BY <1>2, <1>5, <3>1
  <2>3. j \in i..Len(s)
    BY <1>2, <1>5
  <2> QED
    BY <2>1, <2>2, <2>3 DEF EndsToken
<1>7. TokenEnd(s, D, i) = j
  <2>1. EndsToken(s, D, i, TokenEnd(s, D, i))
    BY <1>3, TokenEndIs
  <2> QED
    BY <1>3, <1>6, <2>1, OneEnd
<1>8. SubSeq(s, i, j) = SubSeq(a, i, j)
  <2>1. ASSUME NEW k \in i..j PROVE s[0 + k] = a[k] /\ a[k] \in Characters
    <3>1. k \in 1..m /\ k \in 1..Len(a) /\ 0 + k = k
      BY <1>1, <1>3, <1>5
    <3> QED
      BY <1>2, <3>1, ElementOfSeq DEF Text
  <2>2. PICK c \in Int : c = 0
    OBVIOUS
  <2>3. i = c + i /\ j = c + j /\ \A k \in i..j : s[c + k] = a[k] /\ a[k] \in Characters
    BY <1>3, <2>1, <2>2
  <2>4. i \in Int
    BY <1>3
  <2> QED
    BY <2>3, <2>4, SamePieces
<1> QED
  BY <1>4, <1>7, <1>8 DEF TokenAt

LEMMA TokenOfSecond ==
  ASSUME NEW s \in Text, NEW a \in Text, NEW b \in Text, NEW D, NEW d \in D, Joins(s, a, d, b),
         NEW i \in Starts(b, D)
  PROVE  TokenAt(s, D, (Len(a) + 1) + i) = TokenAt(b, D, i)
<1>1. PICK m \in Nat, n \in Nat : m = Len(a) /\ n = Len(b)
  BY DEF Text
<1>2. /\ Len(s) = (m + 1) + n
      /\ \A k \in 1..n : s[(m + 1) + k] = b[k]
  BY <1>1 DEF Joins
<1>3. i \in 1..n /\ b[i] \notin D /\ i \in 1..Len(b)
  BY <1>1 DEF Starts
<1>4. PICK x \in Int : x = (m + 1) + i
  BY <1>3
<1>5. x \in 1..Len(s) /\ s[x] \notin D
  BY <1>2, <1>3, <1>4
<1>6. PICK j \in Int : j = TokenEnd(b, D, i) /\ EndsToken(b, D, i, j)
  <2>1. EndsToken(b, D, i, TokenEnd(b, D, i))
    BY <1>3, TokenEndIs
  <2> QED
    BY <1>1, <2>1 DEF EndsToken
<1>7. j \in i..n /\ (\A k \in i..j : b[k] \notin D) /\ (j = n \/ b[j + 1] \in D)
  BY <1>1, <1>6 DEF EndsToken
<1>8. PICK y \in Int : y = (m + 1) + j
  OBVIOUS
<1>9. EndsToken(s, D, x, y)
  <2>1. ASSUME NEW k \in x..y PROVE s[k] \notin D
    <3>1. k - (m + 1) \in i..j /\ k - (m + 1) \in 1..n /\ k = (m + 1) + (k - (m + 1))
      BY <1>3, <1>4, <1>7, <1>8
    <3>2. PICK z \in 1..n : z \in i..j /\ k = (m + 1) + z
      BY <3>1
    <3> QED
      BY <1>2, <1>7, <3>2
  <2>2. y = Len(s) \/ s[y + 1] \in D
    <3>1. CASE j = n
      BY <1>2, <1>8, <3>1
    <3>2. CASE j # n
      <4>1. j + 1 \in 1..n /\ y + 1 = (m + 1) + (j + 1)
        BY <1>3, <1>7, <1>8, <3>2
      <4> QED
        BY <1>2, <1>7, <3>2, <4>1
    <3> QED
      BY <3>1, <3>2
  <2>3. y \in x..Len(s)
    <3>1. i <= j /\ j <= n
      BY <1>3, <1>7
    <3>2. x <= y /\ y <= (m + 1) + n
      BY <1>3, <1>4, <1>8, <3>1
    <3> QED
      BY <1>2, <3>2
  <2> QED
    BY <2>1, <2>2, <2>3 DEF EndsToken
<1>10. TokenEnd(s, D, x) = y
  <2>1. EndsToken(s, D, x, TokenEnd(s, D, x))
    BY <1>5, TokenEndIs
  <2> QED
    BY <1>5, <1>9, <2>1, OneEnd
<1>11. SubSeq(s, x, y) = SubSeq(b, i, j)
  <2>1. ASSUME NEW k \in i..j PROVE s[(m + 1) + k] = b[k] /\ b[k] \in Characters
    <3>1. k \in 1..n /\ k \in 1..Len(b)
      BY <1>1, <1>3, <1>7
    <3> QED
      BY <1>2, <3>1, ElementOfSeq DEF Text
  <2>2. PICK c \in Int : c = m + 1
    OBVIOUS
  <2>3. x = c + i /\ y = c + j /\ \A k \in i..j : s[c + k] = b[k] /\ b[k] \in Characters
    BY <1>4, <1>8, <2>1, <2>2
  <2>4. i \in Int
    BY <1>3
  <2> QED
    BY <2>3, <2>4, SamePieces
<1> QED
  BY <1>1, <1>4, <1>6, <1>10, <1>11 DEF TokenAt

LEMMA JoinTokens ==
  ASSUME NEW s \in Text, NEW a \in Text, NEW b \in Text, NEW D, NEW d \in D, Joins(s, a, d, b)
  PROVE  Tokens(s, D) = Tokens(a, D) \o Tokens(b, D)
<1>1. PICK m \in Nat, n \in Nat : m = Len(a) /\ n = Len(b)
  BY DEF Text
<1> DEFINE A == Starts(a, D)
           B == Starts(b, D)
           S == Starts(s, D)
<1>2. A \in SUBSET (1..m) /\ B \in SUBSET (1..n)
  BY <1>1, StartsAre
<1>3. S = Behind(A, B, m + 1)
  BY <1>1, JoinStarts
<1>4. PICK p \in Nat, q \in Nat : p = Cardinality(A) /\ q = Cardinality(B)
  BY StartsAre
<1>5. /\ Tokens(s, D) \in Seq(Text) /\ Len(Tokens(s, D)) = Cardinality(S)
      /\ \A k \in 1..Cardinality(S) : Tokens(s, D)[k] = TokenAt(s, D, Nth(S, k))
  BY TokensTyped
<1>6. /\ Tokens(a, D) \in Seq(Text) /\ Len(Tokens(a, D)) = p
      /\ \A k \in 1..p : Tokens(a, D)[k] = TokenAt(a, D, Nth(A, k))
  BY <1>4, TokensTyped
<1>7. /\ Tokens(b, D) \in Seq(Text) /\ Len(Tokens(b, D)) = q
      /\ \A k \in 1..q : Tokens(b, D)[k] = TokenAt(b, D, Nth(B, k))
  BY <1>4, TokensTyped
<1>8. \A i \in A : TokenAt(s, D, i) = TokenAt(a, D, i)
  BY TokenOfFirst
<1>9. \A i \in B : TokenAt(s, D, (m + 1) + i) = TokenAt(b, D, i)
  BY <1>1, TokenOfSecond
<1> HIDE DEF A, B, S
<1>n. NthsBehind(S, A, B, m)
  BY <1>2, <1>3, NthBehind
<1>10. /\ Cardinality(S) = p + q
       /\ \A k \in 1..p : Nth(S, k) = Nth(A, k) /\ Nth(A, k) \in A
       /\ \A k \in 1..q : Nth(S, p + k) = (m + 1) + Nth(B, k) /\ Nth(B, k) \in B
  BY <1>4, <1>n DEF NthsBehind
<1>11. PICK t \in Seq(Text) : t = Tokens(s, D)
  BY <1>5
<1>12. PICK u \in Seq(Text) : u = Tokens(a, D)
  BY <1>6
<1>13. PICK v \in Seq(Text) : v = Tokens(b, D)
  BY <1>7
<1>14. \A k \in 1..p : t[k] = u[k]
  BY <1>5, <1>6, <1>8, <1>10, <1>11, <1>12
<1>15. \A k \in 1..q : t[p + k] = v[k]
  <2>1. ASSUME NEW k \in 1..q PROVE t[p + k] = v[k]
    <3>1. p + k \in 1..Cardinality(S)
      BY <1>10
    <3>2. t[p + k] = TokenAt(s, D, Nth(S, p + k))
      BY <1>5, <1>11, <3>1
    <3> QED
      BY <1>7, <1>9, <1>10, <1>13, <3>2
  <2> QED
    BY <2>1
<1>16. Len(t) = p + q /\ Len(u) = p /\ Len(v) = q
  BY <1>5, <1>6, <1>7, <1>10, <1>11, <1>12, <1>13
<1>17. t = u \o v
  <2>1. /\ Len(t) = Len(u) + Len(v)
        /\ \A k \in 1..Len(u) : t[k] = u[k]
        /\ \A k \in 1..Len(v) : t[Len(u) + k] = v[k]
    BY <1>14, <1>15, <1>16
  <2> QED
    BY <2>1, TwoParts
<1> QED
  BY <1>11, <1>12, <1>13, <1>17

-----------------------------------------------------------------------------
(* A delimiter at either end does not matter.                                *)
LEMMA NoTokens ==
  ASSUME NEW D
  PROVE  <<>> \in Text /\ Tokens(<<>>, D) = <<>>
<1>1. <<>> \in Text /\ Len(<<>>) = 0
  BY DEF Text
<1>2. Starts(<<>>, D) = {}
  BY <1>1 DEF Starts
<1>3. Cardinality(Starts(<<>>, D)) = 0
  BY <1>2, FS_EmptySet
<1>4. Tokens(<<>>, D) \in Seq(Text) /\ Len(Tokens(<<>>, D)) = 0
  BY <1>1, <1>3, TokensTyped
<1>5. Tokens(<<>>, D) = <<>>
  BY <1>4, EmptySeq
<1> QED
  BY <1>1, <1>5

LEMMA LeadingDelimiter ==
  ASSUME NEW t \in Text, NEW D, t # <<>>, t[1] \in D
  PROVE  Tail(t) \in Text /\ Tokens(t, D) = Tokens(Tail(t), D)
<1>1. /\ Tail(t) \in Text /\ Len(Tail(t)) = Len(t) - 1 /\ Len(t) \in Nat
      /\ \A i \in 1..Len(Tail(t)) : Tail(t)[i] = t[i + 1]
  BY HeadTailProperties, LenProperties DEF Text
<1>2. PICK b \in Text : b = Tail(t)
  BY <1>1
<1>3. PICK d \in D : d = t[1]
  OBVIOUS
<1>4. PICK a \in Text : a = <<>> /\ Len(a) = 0 /\ Tokens(a, D) = <<>>
  BY NoTokens
<1>5. Joins(t, a, d, b)
  <2>1. PICK n \in Nat : n = Len(b)
    BY DEF Text
  <2>2. Len(t) = (0 + 1) + n
    BY <1>1, <1>2, <2>1
  <2>3. ASSUME NEW j \in 1..n PROVE t[(0 + 1) + j] = b[j]
    <3>1. (0 + 1) + j = j + 1
      OBVIOUS
    <3> QED
      BY <1>1, <1>2, <2>1, <3>1
  <2> QED
    BY <1>3, <1>4, <2>1, <2>2, <2>3 DEF Joins
<1>6. Tokens(t, D) = Tokens(a, D) \o Tokens(b, D)
  BY <1>5, JoinTokens
<1>7. Tokens(b, D) \in Seq(Text)
  BY TokensTyped
<1> QED
  BY <1>1, <1>2, <1>4, <1>6, <1>7, ConcatEmptySeq

LEMMA TrailingDelimiter ==
  ASSUME NEW t \in Text, NEW a \in Text, NEW D, Len(t) = Len(a) + 1,
         \A i \in 1..Len(a) : t[i] = a[i], t[Len(t)] \in D
  PROVE  Tokens(t, D) = Tokens(a, D)
<1>1. PICK n \in Nat : n = Len(a)
  BY DEF Text
<1>2. PICK d \in D : d = t[n + 1]
  BY <1>1
<1>3. PICK b \in Text : b = <<>> /\ Len(b) = 0 /\ Tokens(b, D) = <<>>
  BY NoTokens
<1>4. Joins(t, a, d, b)
  <2>1. Len(t) = (n + 1) + 0
    BY <1>1
  <2> QED
    BY <1>1, <1>2, <1>3, <2>1 DEF Joins
<1>5. Tokens(t, D) = Tokens(a, D) \o Tokens(b, D)
  BY <1>4, JoinTokens
<1>6. Tokens(a, D) \in Seq(Text)
  BY TokensTyped
<1> QED
  BY <1>3, <1>5, <1>6, ConcatEmptySeq

LEMMA SlashlessTokens ==
  ASSUME NEW t \in Text
  PROVE  Slashless(t) \in Text /\ Tokens(Slashless(t), {"/"}) = Tokens(t, {"/"})
<1>1. CASE Len(t) > 1 /\ Last(t) = "/"
  <2>1. PICK n \in Nat : n = Len(t)
    BY DEF Text
  <2>2. n > 1 /\ t[n] \in {"/"} /\ Slashless(t) = SubSeq(t, 1, n - 1)
    BY <1>1, <2>1 DEF Slashless, Last, Front
  <2>3. \A i \in 1..n - 1 : t[i] \in Characters
    BY <2>1, ElementOfSeq DEF Text
  <2>4. /\ SubSeq(t, 1, n - 1) \in Seq(Characters)
        /\ Len(SubSeq(t, 1, n - 1)) = n - 1
        /\ \A i \in 1..n - 1 : SubSeq(t, 1, n - 1)[i] = t[i]
    <3>1. /\ SubSeq(t, 1, n - 1) \in Seq(Characters)
          /\ Len(SubSeq(t, 1, n - 1)) = IF 1 <= n - 1 THEN (n - 1) - 1 + 1 ELSE 0
          /\ \A i \in 1..(n - 1) - 1 + 1 : SubSeq(t, 1, n - 1)[i] = t[1 + i - 1]
      BY <2>3, SubSeqProperties
    <3>2. (n - 1) - 1 + 1 = n - 1 /\ 1 <= n - 1 /\ \A i \in 1..n - 1 : 1 + i - 1 = i
      BY <2>2
    <3> QED
      BY <3>1, <3>2
  <2>5. PICK a \in Text : a = SubSeq(t, 1, n - 1)
    BY <2>4 DEF Text
  <2>6. Len(t) = Len(a) + 1 /\ \A i \in 1..Len(a) : t[i] = a[i]
    BY <2>1, <2>2, <2>4, <2>5
  <2>7. Tokens(t, {"/"}) = Tokens(a, {"/"})
    BY <2>1, <2>2, <2>6, TrailingDelimiter
  <2> QED
    BY <2>2, <2>5, <2>7
<1>2. CASE ~(Len(t) > 1 /\ Last(t) = "/")
  BY <1>2 DEF Slashless
<1> QED
  BY <1>1, <1>2

LEMMA PartsOfTokens ==
  ASSUME NEW u \in Seq(Text), NEW v \in Seq(Text)
  PROVE  IsStart(u, u \o v) /\ IsEnd(v, u \o v)
<1>1. PICK m \in Nat, n \in Nat : m = Len(u) /\ n = Len(v)
  OBVIOUS
<1>2. PICK t \in Seq(Text) : t = u \o v
  BY ConcatProperties
<1>3. Len(t) = m + n
  BY <1>1, <1>2, ConcatProperties
<1>4. u = SubSeq(t, 1, m)
  <2>1. ASSUME NEW i \in 1..m PROVE t[i] \in Text /\ t[i] = u[i]
    BY <1>1, <1>2, ConcatProperties
  <2>2. /\ SubSeq(t, 1, m) \in Seq(Text)
        /\ Len(SubSeq(t, 1, m)) = IF 1 <= m THEN m - 1 + 1 ELSE 0
        /\ \A i \in 1..m - 1 + 1 : SubSeq(t, 1, m)[i] = t[1 + i - 1]
    BY <2>1, SubSeqProperties
  <2>3. m - 1 + 1 = m /\ \A i \in 1..m : 1 + i - 1 = i
    OBVIOUS
  <2>4. Len(SubSeq(t, 1, m)) = Len(u) /\ \A i \in 1..m : u[i] = SubSeq(t, 1, m)[i]
    BY <1>1, <2>1, <2>2, <2>3
  <2> QED
    BY <1>1, <2>2, <2>4, SeqEqual
<1>5. v = SubSeq(t, (m + n) - n + 1, m + n)
  <2>1. ASSUME NEW i \in 1..n PROVE t[m + i] \in Text /\ t[m + i] = v[i]
    <3>1. m + i \in 1..m + n /\ ~(m + i <= m) /\ (m + i) - m = i
      OBVIOUS
    <3> QED
      BY <1>1, <1>2, <3>1, ConcatProperties
  <2>2. ASSUME NEW k \in m + 1..m + n PROVE t[k] \in Text
    <3>1. k - m \in 1..n /\ m + (k - m) = k
      OBVIOUS
    <3> QED
      BY <2>1, <3>1
  <2>3. /\ SubSeq(t, m + 1, m + n) \in Seq(Text)
        /\ Len(SubSeq(t, m + 1, m + n)) = IF m + 1 <= m + n THEN (m + n) - (m + 1) + 1 ELSE 0
        /\ \A i \in 1..(m + n) - (m + 1) + 1 : SubSeq(t, m + 1, m + n)[i] = t[(m + 1) + i - 1]
    BY <2>2, SubSeqProperties
  <2>4. (m + n) - (m + 1) + 1 = n /\ \A i \in 1..n : (m + 1) + i - 1 = m + i
    OBVIOUS
  <2>5. Len(SubSeq(t, m + 1, m + n)) = Len(v) /\ \A i \in 1..n : v[i] = SubSeq(t, m + 1, m + n)[i]
    BY <1>1, <2>1, <2>3, <2>4
  <2>6. v = SubSeq(t, m + 1, m + n)
    BY <1>1, <2>3, <2>5, SeqEqual
  <2>7. (m + n) - n + 1 = m + 1
    OBVIOUS
  <2> QED
    BY <2>6, <2>7
<1>6. IsStart(u, t)
  BY <1>1, <1>3, <1>4 DEF IsStart
<1>7. IsEnd(v, t)
  BY <1>1, <1>3, <1>5 DEF IsEnd
<1> QED
  BY <1>2, <1>6, <1>7

LEMMA WholeTokens ==
  ASSUME NEW u \in Seq(Text)
  PROVE  IsStart(u, u) /\ IsEnd(u, u) /\ IsStart(<<>>, u)
<1>1. <<>> \in Seq(Text) /\ u \o <<>> = u /\ <<>> \o u = u
  BY ConcatEmptySeq, EmptySeq
<1> QED
  BY <1>1, PartsOfTokens

-----------------------------------------------------------------------------
(* What the two matches say in terms of segments.                            *)
LEMMA TextParts ==
  ASSUME NEW s \in Text, NEW i \in 1..Len(s) + 1, NEW j \in 0..Len(s), i <= j + 1
  PROVE  /\ SubSeq(s, i, j) \in Text
         /\ Len(SubSeq(s, i, j)) = (j - i) + 1
         /\ \A k \in 1..(j - i) + 1 : SubSeq(s, i, j)[k] = s[(i - 1) + k]
<1>1. PICK n \in Nat : n = Len(s)
  BY DEF Text
<1>2. i \in Int /\ j \in Int /\ 1 <= i /\ j <= n
  BY <1>1
<1>3. ASSUME NEW k \in i..j PROVE s[k] \in Characters
  <2>1. k \in 1..Len(s)
    BY <1>1, <1>2
  <2> QED
    BY <2>1, ElementOfSeq DEF Text
<1>4. /\ SubSeq(s, i, j) \in Seq(Characters)
      /\ Len(SubSeq(s, i, j)) = IF i <= j THEN j - i + 1 ELSE 0
      /\ \A k \in 1..j - i + 1 : SubSeq(s, i, j)[k] = s[i + k - 1]
  BY <1>2, <1>3, SubSeqProperties
<1>5. (i > j => j - i + 1 = 0) /\ \A k \in 1..(j - i) + 1 : i + k - 1 = (i - 1) + k
  BY <1>2
<1> QED
  BY <1>2, <1>4, <1>5 DEF Text

LEMMA PathStarts ==
  ASSUME NEW p0 \in Text, NEW b0 \in Text, IsPathMatch(p0, b0)
  PROVE  IsStart(Tokens(b0, {"/"}), Tokens(p0, {"/"}))
<1>1. PICK p \in Text : p = Slashless(p0) /\ Tokens(p0, {"/"}) = Tokens(p, {"/"})
  BY SlashlessTokens
<1>2. PICK b \in Text : b = Slashless(b0) /\ Tokens(b0, {"/"}) = Tokens(b, {"/"})
  BY SlashlessTokens
<1>3. Tokens(p, {"/"}) \in Seq(Text) /\ Tokens(b, {"/"}) \in Seq(Text)
  BY TokensTyped
<1>4. CASE b0 = <<>>
  <2>1. Tokens(b0, {"/"}) = <<>>
    BY <1>4, NoTokens
  <2> QED
    BY <1>1, <1>3, <2>1, WholeTokens
<1>5. CASE b0 = <<"/">>
  <2>1. b0 # <<>> /\ b0[1] \in {"/"} /\ Tail(b0) = <<>>
    BY <1>5
  <2>2. Tokens(b0, {"/"}) = <<>>
    BY <2>1, LeadingDelimiter, NoTokens
  <2> QED
    BY <1>1, <1>3, <2>2, WholeTokens
<1>6. ASSUME Len(b) <= Len(p), b = SubSeq(p, 1, Len(b)), Len(b) < Len(p) => p[Len(b) + 1] = "/"
      PROVE  IsStart(Tokens(b0, {"/"}), Tokens(p0, {"/"}))
  <2>1. PICK m \in Nat, n \in Nat : m = Len(b) /\ n = Len(p)
    BY DEF Text
  <2>2. m <= n /\ b = SubSeq(p, 1, m) /\ (m < n => p[m + 1] = "/")
    BY <1>6, <2>1
  <2>3. CASE m = n
    <3>1. SubSeq(p, 1, n) = p
      BY <2>1, SubSeqFull DEF Text
    <3>2. b = p
      BY <2>2, <2>3, <3>1
    <3> QED
      BY <1>1, <1>2, <1>3, <3>2, WholeTokens
  <2>4. CASE m < n
    <3>1. /\ 1 \in 1..Len(p) + 1 /\ m \in 0..Len(p) /\ 1 <= m + 1
          /\ m + 2 \in 1..Len(p) + 1 /\ n \in 0..Len(p) /\ m + 2 <= n + 1
      BY <2>1, <2>4
    <3>2. /\ SubSeq(p, m + 2, n) \in Text /\ Len(SubSeq(p, m + 2, n)) = (n - (m + 2)) + 1
          /\ \A k \in 1..(n - (m + 2)) + 1 : SubSeq(p, m + 2, n)[k] = p[((m + 2) - 1) + k]
      BY <3>1, TextParts
    <3>3. \A k \in 1..(m - 1) + 1 : SubSeq(p, 1, m)[k] = p[(1 - 1) + k]
      BY <3>1, TextParts
    <3>4. PICK r \in Text : r = SubSeq(p, m + 2, n)
      BY <3>2
    <3>5. \A k \in 1..m : p[k] = b[k]
      <4>1. (m - 1) + 1 = m /\ \A k \in 1..m : (1 - 1) + k = k
        OBVIOUS
      <4> QED
        BY <2>2, <3>3, <4>1
    <3>6. Len(r) = n - (m + 1) /\ \A k \in 1..n - (m + 1) : p[(m + 1) + k] = r[k]
      <4>1. (n - (m + 2)) + 1 = n - (m + 1) /\ (m + 2) - 1 = m + 1
        OBVIOUS
      <4> QED
        BY <3>2, <3>4, <4>1
    <3>7. n = (m + 1) + (n - (m + 1))
      OBVIOUS
    <3>8. PICK D : D = {"/"}
      OBVIOUS
    <3>9. PICK d \in D : d = p[m + 1]
      BY <2>2, <2>4, <3>8
    <3>j. Joins(p, b, d, r)
      BY <2>1, <3>5, <3>6, <3>7, <3>9 DEF Joins
    <3>10. Tokens(p, D) = Tokens(b, D) \o Tokens(r, D)
      BY <3>j, JoinTokens
    <3>11. Tokens(r, {"/"}) \in Seq(Text)
      BY TokensTyped
    <3> QED
      BY <1>1, <1>2, <1>3, <3>8, <3>10, <3>11, PartsOfTokens
  <2> QED
    BY <2>1, <2>2, <2>3, <2>4
<1> QED
  BY <1>1, <1>2, <1>4, <1>5, <1>6 DEF IsPathMatch

LEMMA DomainEnds ==
  ASSUME NEW host \in Text, NEW dom \in Text, IsDomainMatch(host, dom)
  PROVE  /\ IsEnd(Tokens(dom, {"."}), Tokens(host, {"."}))
         /\ IsValidIPAddress(host) => dom \in {host, <<".">> \o host}
<1>1. PICK b \in Text : /\ b = IF dom # <<>> /\ dom[1] = "." THEN Tail(dom) ELSE dom
                        /\ Tokens(dom, {"."}) = Tokens(b, {"."})
                        /\ dom \in {b, <<".">> \o b}
  <2>1. CASE dom # <<>> /\ dom[1] = "."
    <3>1. dom[1] \in {"."}
      BY <2>1
    <3>2. Tail(dom) \in Text /\ Tokens(dom, {"."}) = Tokens(Tail(dom), {"."})
      BY <2>1, <3>1, LeadingDelimiter
    <3>3. dom = <<".">> \o Tail(dom)
      BY <2>1 DEF Text
    <3> QED
      BY <2>1, <3>2, <3>3
  <2>2. CASE ~(dom # <<>> /\ dom[1] = ".")
    BY <2>2
  <2> QED
    BY <2>1, <2>2
<1>2. PICK m \in Nat, n \in Nat : m = Len(b) /\ n = Len(host)
  BY DEF Text
<1>3. /\ n - m >= 0 /\ b = SubSeq(host, (n - m) + 1, n)
      /\ n - m > 0 => ~IsValidIPAddress(host) /\ host[n - m] = "."
  BY <1>1, <1>2 DEF IsDomainMatch
<1>4. Tokens(host, {"."}) \in Seq(Text) /\ Tokens(b, {"."}) \in Seq(Text)
  BY TokensTyped
<1>5. CASE n = m
  <2>1. SubSeq(host, 1, n) = host
    BY <1>2, SubSeqFull DEF Text
  <2>2. (n - m) + 1 = 1
    BY <1>5
  <2>3. b = host
    BY <1>3, <2>1, <2>2
  <2> QED
    BY <1>1, <1>4, <2>3, WholeTokens
<1>6. CASE n # m
  <2>1. PICK e \in Nat : e = n - m - 1 /\ n = (e + 1) + m /\ n - m = e + 1 /\ (n - m) + 1 = e + 2
    <3>1. n - m - 1 \in Nat
      BY <1>3, <1>6
    <3> QED
      BY <3>1
  <2>2. /\ b = SubSeq(host, e + 2, n) /\ host[e + 1] = "." /\ ~IsValidIPAddress(host)
    BY <1>3, <1>6, <2>1
  <2>3. /\ 1 \in 1..Len(host) + 1 /\ e \in 0..Len(host) /\ 1 <= e + 1
        /\ e + 2 \in 1..Len(host) + 1 /\ n \in 0..Len(host) /\ e + 2 <= n + 1
    BY <1>2, <2>1
  <2>4. /\ SubSeq(host, 1, e) \in Text /\ Len(SubSeq(host, 1, e)) = (e - 1) + 1
        /\ \A k \in 1..(e - 1) + 1 : SubSeq(host, 1, e)[k] = host[(1 - 1) + k]
    BY <2>3, TextParts
  <2>5. \A k \in 1..(n - (e + 2)) + 1 : SubSeq(host, e + 2, n)[k] = host[((e + 2) - 1) + k]
    BY <2>3, TextParts
  <2>6. PICK a \in Text : a = SubSeq(host, 1, e)
    BY <2>4
  <2>7. Len(a) = e /\ \A k \in 1..e : host[k] = a[k]
    <3>1. (e - 1) + 1 = e /\ \A k \in 1..e : (1 - 1) + k = k
      OBVIOUS
    <3> QED
      BY <2>4, <2>6, <3>1
  <2>8. \A k \in 1..m : host[(e + 1) + k] = b[k]
    <3>1. (n - (e + 2)) + 1 = m /\ (e + 2) - 1 = e + 1
      BY <2>1
    <3> QED
      BY <2>2, <2>5, <3>1
  <2>9. PICK D : D = {"."}
    OBVIOUS
  <2>d. PICK d \in D : d = host[e + 1]
    BY <2>2, <2>9
  <2>10. Joins(host, a, d, b)
    BY <1>2, <2>1, <2>7, <2>8, <2>d DEF Joins
  <2>11. Tokens(host, D) = Tokens(a, D) \o Tokens(b, D)
    BY <2>10, JoinTokens
  <2>12. Tokens(a, {"."}) \in Seq(Text)
    BY TokensTyped
  <2> QED
    BY <1>1, <1>4, <2>2, <2>9, <2>11, <2>12, PartsOfTokens
<1> QED
  BY <1>5, <1>6

-----------------------------------------------------------------------------
(* A jar: no two cookies of one name, each the last of its name in the first *)
(* n entries of a history s.                                                 *)
UniqueKeys(j) == \A i, k \in 1..Len(j) : j[i].key = j[k].key => i = k
LatestIn(s, c, n) ==
  \E i \in 1..n : s[i].cookie = c /\ \A k \in i + 1..n : s[k].cookie.key # c.key
JarAt(j, s, n) == UniqueKeys(j) /\ \A i \in 1..Len(j) : LatestIn(s, j[i], n)

(* What is picked from a jar.                                                *)
PickedFrom(p, j, W) ==
  /\ Len(p) = Cardinality(W) /\ Cardinality(W) \in Nat
  /\ \A n \in 1..Cardinality(W) : Nth(W, n) \in W /\ p[n] = j[Nth(W, n)]
  /\ \A n, k \in 1..Cardinality(W) : Nth(W, n) = Nth(W, k) => n = k

LEMMA PickedIs ==
  ASSUME NEW S, NEW j \in Seq(S), NEW W \in SUBSET (1..Len(j))
  PROVE  Picked(j, W) \in Seq(S) /\ PickedFrom(Picked(j, W), j, W)
<1>1. Len(j) \in Nat
  OBVIOUS
<1>2. PICK c \in Nat : c = Cardinality(W)
  BY <1>1, RankEnds
<1>3. ASSUME NEW n \in 1..c PROVE Nth(W, n) \in W /\ Rank(W, Nth(W, n)) = n
  BY <1>1, <1>2, <1>3, NthIs
<1>4. ASSUME NEW n \in 1..c PROVE j[Nth(W, n)] \in S
  <2>1. PICK i \in W : i = Nth(W, n)
    BY <1>3
  <2> QED
    BY <2>1, ElementOfSeq
<1>5. Picked(j, W) = [n \in 1..c |-> j[Nth(W, n)]]
  BY <1>2 DEF Picked
<1>6. Picked(j, W) \in [1..c -> S]
  BY <1>4, <1>5
<1>7. Picked(j, W) \in Seq(S) /\ Len(Picked(j, W)) = c
  BY <1>6
<1>8. \A n, k \in 1..c : Nth(W, n) = Nth(W, k) => n = k
  BY <1>3
<1>9. \A n \in 1..c : Picked(j, W)[n] = j[Nth(W, n)]
  BY <1>5
<1> HIDE DEF Picked
<1> QED
  BY <1>2, <1>3, <1>7, <1>8, <1>9 DEF PickedFrom

LEMMA PickedJar ==
  ASSUME NEW S, NEW j \in Seq(S), NEW W \in SUBSET (1..Len(j)), NEW s, NEW n \in Nat, JarAt(j, s, n)
  PROVE  JarAt(Picked(j, W), s, n)
<1>1. PICK p \in Seq(S) : p = Picked(j, W) /\ PickedFrom(p, j, W)
  BY PickedIs
<1>2. PICK c \in Nat : c = Len(p)
  OBVIOUS
<1>3. /\ \A i \in 1..c : Nth(W, i) \in 1..Len(j) /\ p[i] = j[Nth(W, i)]
      /\ \A i, k \in 1..c : Nth(W, i) = Nth(W, k) => i = k
  BY <1>1, <1>2 DEF PickedFrom
<1>4. UniqueKeys(j) /\ \A i \in 1..Len(j) : LatestIn(s, j[i], n)
  BY DEF JarAt
<1>5. UniqueKeys(p)
  <2>1. ASSUME NEW i \in 1..c, NEW k \in 1..c, p[i].key = p[k].key PROVE i = k
    <3>1. Nth(W, i) = Nth(W, k)
      BY <1>3, <1>4, <2>1 DEF UniqueKeys
    <3> QED
      BY <1>3, <3>1
  <2> QED
    BY <1>2, <2>1 DEF UniqueKeys
<1>6. \A i \in 1..c : LatestIn(s, p[i], n)
  BY <1>3, <1>4
<1> QED
  BY <1>1, <1>2, <1>5, <1>6 DEF JarAt

(* One more entry, and the cookie of it put into the jar.                    *)
LEMMA StaysLatest ==
  ASSUME NEW s, NEW c, NEW n \in Nat, LatestIn(s, c, n), s[n + 1].cookie.key # c.key
  PROVE  LatestIn(s, c, n + 1)
<1>1. PICK i \in 1..n : s[i].cookie = c /\ \A k \in i + 1..n : s[k].cookie.key # c.key
  BY DEF LatestIn
<1>2. ASSUME NEW k \in i + 1..n + 1 PROVE s[k].cookie.key # c.key
  <2>1. k \in i + 1..n \/ k = n + 1
    OBVIOUS
  <2> QED
    BY <1>1, <2>1
<1>3. i \in 1..n + 1
  OBVIOUS
<1> QED
  BY <1>1, <1>2, <1>3 DEF LatestIn

LEMMA LastIsLatest ==
  ASSUME NEW s, NEW c, NEW n \in Nat, s[n + 1].cookie = c
  PROVE  LatestIn(s, c, n + 1)
<1>1. n + 1 \in 1..n + 1 /\ \A k \in (n + 1) + 1..n + 1 : FALSE
  OBVIOUS
<1> QED
  BY <1>1 DEF LatestIn

LEMMA PutKeeps ==
  ASSUME NEW S, NEW j \in Seq(S), NEW c \in S, NEW s, NEW n \in Nat, JarAt(j, s, n),
         s[n + 1].cookie = c
  PROVE  Put(j, c) \in Seq(S) /\ JarAt(Put(j, c), s, n + 1)
<1> DEFINE same == {i \in 1..Len(j) : j[i].key = c.key}
<1>1. UniqueKeys(j) /\ \A i \in 1..Len(j) : LatestIn(s, j[i], n)
  BY DEF JarAt
<1>2. LatestIn(s, c, n + 1)
  BY LastIsLatest
<1>3. PICK m \in Nat : m = Len(j)
  OBVIOUS
<1>4. ASSUME NEW i \in 1..m, j[i].key # c.key PROVE LatestIn(s, j[i], n + 1)
  BY <1>1, <1>3, <1>4, StaysLatest
<1>5. CASE same = {}
  <2>a. Put(j, c) = Append(j, c)
    BY <1>5, Zenon DEF Put
  <2>b. Append(j, c) \in Seq(S)
    OBVIOUS
  <2>1. PICK a \in Seq(S) : a = Put(j, c) /\ a = Append(j, c)
    BY <2>a, <2>b, Zenon
  <2>2. Len(a) = m + 1 /\ a[m + 1] = c /\ \A i \in 1..m : a[i] = j[i] /\ j[i].key # c.key
    BY <1>3, <1>5, <2>1
  <2>3. ASSUME NEW i \in 1..m + 1 PROVE LatestIn(s, a[i], n + 1)
    <3>1. i \in 1..m \/ i = m + 1
      OBVIOUS
    <3> QED
      BY <1>2, <1>4, <2>2, <3>1
  <2>4. ASSUME NEW i \in 1..m + 1, NEW k \in 1..m + 1, a[i].key = a[k].key PROVE i = k
    <3>1. (i \in 1..m \/ i = m + 1) /\ (k \in 1..m \/ k = m + 1)
      OBVIOUS
    <3> QED
      BY <1>1, <1>3, <2>2, <2>4, <3>1 DEF UniqueKeys
  <2> QED
    BY <2>1, <2>2, <2>3, <2>4 DEF JarAt, UniqueKeys
<1>6. CASE same # {}
  <2>1. same \in SUBSET Nat
    OBVIOUS
  <2>2. \E x \in same : \A y \in same : x <= y
    BY <1>6, <2>1, LeastNumber
  <2>3. PICK f \in same : f = CHOOSE i \in same : \A k \in same : i <= k
    BY <2>2
  <2>4. f \in 1..m /\ j[f].key = c.key
    BY <1>3, <2>3
  <2>5. Put(j, c) = [j EXCEPT ![f] = c]
    BY <1>6, <2>3 DEF Put
  <2>6. PICK a \in Seq(S) : a = [j EXCEPT ![f] = c] /\ Len(a) = m /\ a[f] = c
                            /\ \A i \in 1..m : i # f => a[i] = j[i]
    <3>1. f \in 1..Len(j)
      BY <1>3, <2>4
    <3>2. /\ [j EXCEPT ![f] = c] \in Seq(S)
          /\ Len([j EXCEPT ![f] = c]) = Len(j)
          /\ \A i \in 1..Len(j) : [j EXCEPT ![f] = c][i] = IF i = f THEN c ELSE j[i]
      BY <3>1, ExceptSeq
    <3> QED
      BY <1>3, <3>1, <3>2
  <2>7. ASSUME NEW i \in 1..m, i # f PROVE j[i].key # c.key
    BY <1>1, <1>3, <2>4, <2>7 DEF UniqueKeys
  <2>8. ASSUME NEW i \in 1..m PROVE LatestIn(s, a[i], n + 1)
    <3>1. CASE i = f
      BY <1>2, <2>6, <3>1
    <3>2. CASE i # f
      BY <1>4, <2>6, <2>7, <3>2
    <3> QED
      BY <3>1, <3>2
  <2>9. ASSUME NEW i \in 1..m, NEW k \in 1..m, a[i].key = a[k].key PROVE i = k
    <3>1. CASE i = f
      BY <2>6, <2>7, <2>9, <3>1
    <3>2. CASE k = f
      BY <2>6, <2>7, <2>9, <3>2
    <3>3. CASE i # f /\ k # f
      <4>1. j[i].key = j[k].key
        BY <2>6, <2>9, <3>3
      <4> QED
        BY <1>1, <1>3, <4>1 DEF UniqueKeys
    <3> QED
      BY <3>1, <3>2, <3>3
  <2> QED
    BY <2>5, <2>6, <2>8, <2>9 DEF JarAt, UniqueKeys
<1> QED
  BY <1>5, <1>6

(* The loop over the cookies of a response.                                  *)
Puts(f, j, new, n) ==
  f = [i \in 0..n |-> IF i = 0 THEN j ELSE Put(f[i - 1], new[i].cookie)]

LEMMA PutsExist ==
  ASSUME NEW j, NEW new, NEW n \in Nat
  PROVE  \E f : Puts(f, j, new, n)
<1> DEFINE Good(m) == \E f : Puts(f, j, new, m)
           Bad == {m \in Nat : ~Good(m)}
<1>1. Good(0)
  <2> DEFINE f == [i \in 0..0 |-> j]
  <2>1. f = [i \in 0..0 |-> IF i = 0 THEN j ELSE Put(f[i - 1], new[i].cookie)]
    OBVIOUS
  <2> QED
    BY <2>1 DEF Puts
<1>2. ASSUME NEW m \in Nat \ {0}, Good(m - 1) PROVE Good(m)
  <2>1. PICK f : Puts(f, j, new, m - 1)
    BY <1>2
  <2> DEFINE last == Put(f[m - 1], new[m].cookie)
             g == [i \in 0..m |-> IF i = m THEN last ELSE f[i]]
  <2>2. ASSUME NEW i \in 0..m PROVE g[i] = IF i = 0 THEN j ELSE Put(g[i - 1], new[i].cookie)
    <3>1. CASE i = m
      <4>1. m - 1 \in 0..m /\ m - 1 # m /\ m # 0
        OBVIOUS
      <4>2. g[m - 1] = f[m - 1] /\ g[m] = last
        BY <4>1
      <4> QED
        BY <3>1, <4>1, <4>2
    <3>2. CASE i # m
      <4>1. i \in 0..m - 1 /\ g[i] = f[i] /\ (i # 0 => i - 1 \in 0..m /\ i - 1 # m)
        BY <3>2
      <4>2. f[i] = IF i = 0 THEN j ELSE Put(f[i - 1], new[i].cookie)
        BY <2>1, <4>1 DEF Puts
      <4>3. i # 0 => g[i - 1] = f[i - 1]
        BY <4>1
      <4> HIDE DEF g
      <4> QED
        BY <4>1, <4>2, <4>3
    <3> QED
      BY <3>1, <3>2
  <2>3. g = [i \in 0..m |-> g[i]]
    OBVIOUS
  <2> HIDE DEF g
  <2>4. Puts(g, j, new, m)
    BY <2>2, <2>3 DEF Puts
  <2> QED
    BY <2>4
<1> HIDE DEF Good
<1>3. Bad = {}
  <2> SUFFICES ASSUME Bad # {} PROVE FALSE
    OBVIOUS
  <2>1. Bad \in SUBSET Nat
    OBVIOUS
  <2>2. PICK m \in Bad : \A y \in Bad : m <= y
    BY <2>1, LeastNumber
  <2>3. m \in Nat \ {0} /\ m - 1 \in Nat /\ m - 1 < m
    BY <1>1, <2>2
  <2>4. m - 1 \notin Bad
    BY <2>2, <2>3
  <2> QED
    BY <1>2, <2>2, <2>3, <2>4
<1> QED
  BY <1>3 DEF Good

LEMMA PutAllKeeps ==
  ASSUME NEW S, NEW j \in Seq(S), NEW new, NEW s, NEW n \in Nat, JarAt(j, s, n), Len(new) \in Nat,
         \A i \in 1..Len(new) : new[i].cookie \in S /\ s[n + i] = new[i]
  PROVE  PutAll(j, new) \in Seq(S) /\ JarAt(PutAll(j, new), s, n + Len(new))
<1>1. PICK m \in Nat : m = Len(new)
  OBVIOUS
<1> DEFINE f == CHOOSE g : Puts(g, j, new, m)
<1>2. Puts(f, j, new, m)
  BY PutsExist
<1>3. PutAll(j, new) = f[m]
  BY <1>1 DEF PutAll, Puts
<1> HIDE DEF f
<1> DEFINE Good(i) == f[i] \in Seq(S) /\ JarAt(f[i], s, n + i)
           Bad == {i \in 0..m : ~Good(i)}
<1>4. Good(0)
  <2>1. f[0] = j /\ n + 0 = n
    BY <1>2 DEF Puts
  <2> QED
    BY <2>1
<1>5. ASSUME NEW i \in 1..m, Good(i - 1) PROVE Good(i)
  <2>1. f[i] = Put(f[i - 1], new[i].cookie)
    <3>1. i \in 0..m /\ i # 0
      OBVIOUS
    <3> QED
      BY <1>2, <3>1 DEF Puts
  <2>2. PICK k \in Nat : k = n + (i - 1) /\ k + 1 = n + i
    OBVIOUS
  <2>3. PICK h \in Seq(S) : h = f[i - 1] /\ JarAt(h, s, k)
    BY <1>5, <2>2
  <2>4. PICK c \in S : c = new[i].cookie /\ s[k + 1].cookie = c
    BY <1>1, <2>2
  <2>5. Put(h, c) \in Seq(S) /\ JarAt(Put(h, c), s, k + 1)
    BY <2>3, <2>4, PutKeeps
  <2> QED
    BY <2>1, <2>2, <2>3, <2>4, <2>5
<1> HIDE DEF Good
<1>6. Bad = {}
  <2> SUFFICES ASSUME Bad # {} PROVE FALSE
    OBVIOUS
  <2>1. Bad \in SUBSET Nat
    OBVIOUS
  <2>2. PICK i \in Bad : \A y \in Bad : i <= y
    BY <2>1, LeastNumber
  <2>3. i \in 1..m /\ i - 1 \in 0..m /\ i - 1 < i
    BY <1>4, <2>2
  <2>4. i - 1 \notin Bad
    BY <2>2, <2>3
  <2> QED
    BY <1>5, <2>2, <2>3, <2>4
<1>7. Good(m)
  BY <1>6
<1> QED
  BY <1>1, <1>3, <1>7 DEF Good

-----------------------------------------------------------------------------
(* What is in the jar has texts for its domain and its path.                 *)
AttributesOf(m) ==
  {[name |-> "max-age", age |-> m.age[1]], [name |-> "expires", date |-> GmtTime(m.expires)],
   [name |-> "domain", val |-> m.domain], [name |-> "path", val |-> m.path], [name |-> "secure"]}

LEMMA HeaderAttributes ==
  ASSUME NEW m \in Meant
  PROVE  HeaderOf(m).attributes \in Seq(AttributesOf(m))
<1> DEFINE A == AttributesOf(m)
           e == IF m.expires = 0 THEN <<>> ELSE <<[name |-> "expires", date |-> GmtTime(m.expires)]>>
           d == IF m.domain = <<>> THEN <<>> ELSE <<[name |-> "domain", val |-> m.domain]>>
           p == IF m.path = <<>> THEN <<>> ELSE <<[name |-> "path", val |-> m.path]>>
           s == IF m.secure THEN <<[name |-> "secure"]>> ELSE <<>>
<1>1. <<>> \in Seq(A)
  OBVIOUS
<1>2. /\ [name |-> "max-age", age |-> m.age[1]] \in A
      /\ [name |-> "expires", date |-> GmtTime(m.expires)] \in A
      /\ [name |-> "domain", val |-> m.domain] \in A
      /\ [name |-> "path", val |-> m.path] \in A
      /\ [name |-> "secure"] \in A
  BY Zenon DEF AttributesOf
<1> HIDE DEF A
<1>3. e \in Seq(A)
  BY <1>1, <1>2
<1>4. d \in Seq(A)
  BY <1>1, <1>2
<1>5. p \in Seq(A)
  BY <1>1, <1>2
<1>6. s \in Seq(A)
  BY <1>1, <1>2
<1>7. WriteSetCookie(m).attributes = e \o d \o p \o s
  BY DEF WriteSetCookie
<1> HIDE DEF e, d, p, s
<1>8. PICK w \in Seq(A) : w = WriteSetCookie(m).attributes
  <2>1. e \o d \in Seq(A)
    BY <1>3, <1>4, ConcatProperties
  <2>2. (e \o d) \o p \in Seq(A)
    BY <1>5, <2>1, ConcatProperties
  <2>3. ((e \o d) \o p) \o s \in Seq(A)
    BY <1>6, <2>2, ConcatProperties
  <2> QED
    BY <1>7, <2>3
<1>9. CASE m.age = <<>>
  BY <1>8, <1>9 DEF HeaderOf, A
<1>10. CASE m.age # <<>>
  <2>1. PICK a : a = [name |-> "max-age", age |-> m.age[1]]
    OBVIOUS
  <2>2. <<a>> \in Seq(A)
    BY <1>2, <2>1
  <2>3. HeaderOf(m).attributes = <<a>> \o w
    BY <1>8, <1>10, <2>1 DEF HeaderOf, WriteSetCookie
  <2>4. <<a>> \o w \in Seq(A)
    BY <2>2, ConcatProperties
  <2> QED
    BY <2>3, <2>4 DEF A
<1> QED
  BY <1>9, <1>10

LEMMA GreatestNumber ==
  ASSUME NEW n \in Nat, NEW T \in SUBSET (1..n), T # {}
  PROVE  \E x \in T : \A y \in T : y <= x
<1> DEFINE U == {n - x : x \in T}
<1>0. \A x \in T : x \in Int /\ x <= n
  OBVIOUS
<1>1. U \in SUBSET Nat /\ U # {}
  <2>1. \A x \in T : n - x \in Nat
    BY <1>0
  <2>2. PICK x \in T : TRUE
    OBVIOUS
  <2>3. n - x \in U
    OBVIOUS
  <2> QED
    BY <2>1, <2>3
<1>2. PICK u \in U : \A v \in U : u <= v
  BY <1>1, LeastNumber
<1>3. PICK x \in T : u = n - x
  BY <1>2
<1>4. ASSUME NEW y \in T PROVE y <= x
  <2>1. u <= n - y
    BY <1>2
  <2> QED
    BY <1>0, <1>3, <2>1
<1> QED
  BY <1>3, <1>4

LEMMA ParsedTexts ==
  ASSUME NEW m \in Meant, NEW h, h.attributes \in Seq(AttributesOf(m)), NEW t, NEW z
  PROVE  LET c == ParseResponseCookie(h, t, z) IN
         /\ c = [key |-> c.key, val |-> c.val, expires |-> c.expires, domain |-> c.domain,
                 path |-> c.path, secure |-> c.secure]
         /\ c.domain \in Text /\ c.path \in Text
<1> DEFINE as == h.attributes
           At(name) == {i \in 1..Len(as) : as[i].name = name}
           LastAt(name) == CHOOSE i \in At(name) : \A j \in At(name) : j <= i
           Value(name) == IF At(name) = {} THEN <<>> ELSE as[LastAt(name)].val
           c == ParseResponseCookie(h, t, z)
<1>1. PICK n \in Nat : n = Len(as)
  OBVIOUS
<1>2. m.domain \in Text /\ m.path \in Text
  BY DEF Meant
<1>3. ASSUME NEW i \in 1..n
      PROVE  /\ as[i].name = "domain" => as[i].val = m.domain
             /\ as[i].name = "path" => as[i].val = m.path
  <2>1. as[i] \in AttributesOf(m)
    BY <1>1, ElementOfSeq
  <2> QED
    BY <2>1 DEF AttributesOf
<1>4. ASSUME NEW name, At(name) # {}
      PROVE  LastAt(name) \in At(name)
  <2>1. \E i \in At(name) : \A j \in At(name) : j <= i
    <3>1. At(name) \in SUBSET (1..n)
      BY <1>1
    <3> HIDE DEF At
    <3> QED
      BY <1>4, <3>1, GreatestNumber
  <2> HIDE DEF At
  <2> QED
    BY <2>1
<1>5. <<>> \in Text
  BY DEF Text
<1>6. Value("domain") \in Text
  <2>1. CASE At("domain") = {}
    BY <1>5, <2>1
  <2>2. CASE At("domain") # {}
    <3>1. PICK i \in At("domain") : i = LastAt("domain")
      BY <1>4, <2>2
    <3>2. i \in 1..n /\ as[i].name = "domain"
      BY <1>1
    <3> HIDE DEF LastAt, At, as
    <3> QED
      BY <1>2, <1>3, <2>2, <3>1, <3>2
  <2> QED
    BY <2>1, <2>2
<1>7. Value("path") \in Text
  <2>1. CASE At("path") = {}
    BY <1>5, <2>1
  <2>2. CASE At("path") # {}
    <3>1. PICK i \in At("path") : i = LastAt("path")
      BY <1>4, <2>2
    <3>2. i \in 1..n /\ as[i].name = "path"
      BY <1>1
    <3> HIDE DEF LastAt, At, as
    <3> QED
      BY <1>2, <1>3, <2>2, <3>1, <3>2
  <2> QED
    BY <2>1, <2>2
<1>a. \E k, v, e, s : c = [key |-> k, val |-> v, expires |-> e, domain |-> Value("domain"),
                         path |-> Value("path"), secure |-> s]
  BY Zenon DEF ParseResponseCookie
<1> HIDE DEF Value, c
<1>8. /\ c.domain = Value("domain") /\ c.path = Value("path")
      /\ c = [key |-> c.key, val |-> c.val, expires |-> c.expires, domain |-> c.domain,
              path |-> c.path, secure |-> c.secure]
  BY <1>a
<1>9. c.domain \in Text /\ c.path \in Text
  BY <1>6, <1>7, <1>8
<1> USE DEF c
<1> QED
  BY <1>8, <1>9

(* The cookies that may come to be stored.                                   *)
Headers == {HeaderOf(m) : m \in Meant}
Kept == {WithDefaults(ParseResponseCookie(h, t, Zone), host) : h \in Headers, t \in Nat, host \in Text}

LEMMA RootIsText == <<"/">> \in Text
<1>1. \A S : \A x \in S : <<x>> \in Seq(S)
  OBVIOUS
<1> QED
  BY <1>1, ClientAssumption, Zenon DEF Text

LEMMA KeptTyped ==
  ASSUME NEW c \in Kept
  PROVE  c.domain \in Text /\ c.path \in Text
<1>1. PICK h \in Headers, t \in Nat, host \in Text :
        c = WithDefaults(ParseResponseCookie(h, t, Zone), host)
  BY DEF Kept
<1>2. PICK m \in Meant : h = HeaderOf(m)
  BY DEF Headers
<1>3. h.attributes \in Seq(AttributesOf(m))
  BY <1>2, HeaderAttributes
<1>4. PICK p : p = ParseResponseCookie(h, t, Zone)
  OBVIOUS
<1>5. /\ p = [key |-> p.key, val |-> p.val, expires |-> p.expires, domain |-> p.domain,
              path |-> p.path, secure |-> p.secure]
      /\ p.domain \in Text /\ p.path \in Text
  BY <1>3, <1>4, ParsedTexts
<1>6. <<"/">> \in Text
  BY RootIsText
<1>7. /\ c.domain = IF p.domain = <<>> THEN host ELSE p.domain
      /\ c.path = IF p.path = <<>> THEN <<"/">> ELSE p.path
  BY <1>1, <1>4, <1>5 DEF WithDefaults
<1> QED
  BY <1>5, <1>6, <1>7

-----------------------------------------------------------------------------
(* The types of what concerns cookies.                                       *)
Arriving == [header : Headers, meant : Meant, at : Nat]
Entries == [cookie : Kept, meant : Meant, at : Nat, host : Text]
CookieTypes ==
  /\ urlOf \in [Conns -> [host : Text, path : Text]]
  /\ reply \in [Conns -> Seq(Arriving)]
  /\ stored \in Seq(Entries) /\ jar \in Seq(Kept)
  /\ \A r \in Conns : head[r].cookies \in Seq(Kept) /\ head[r].after \in 0..Len(stored)

(* The cookies of a request were the jar's when they were put on it.         *)
Suits(r, c) ==
  /\ c.expires = 0 \/ c.expires >= head[r].at
  /\ IF urlOf[r].host \in Addresses THEN c.domain \in {urlOf[r].host, <<".">> \o urlOf[r].host}
     ELSE IsEnd(Tokens(c.domain, {"."}), Tokens(urlOf[r].host, {"."}))
  /\ IsStart(Tokens(c.path, {"/"}), Tokens(urlOf[r].path, {"/"}))
  /\ c.secure => r \in SslConns
Carries(r) ==
  /\ JarAt(head[r].cookies, stored, head[r].after)
  /\ \A i \in 1..Len(head[r].cookies) : Suits(r, head[r].cookies[i])

CookieInv == CookieTypes /\ JarAt(jar, stored, Len(stored)) /\ \A r \in Conns : Carries(r)

LEMMA EmptyJar ==
  ASSUME NEW s, NEW n
  PROVE  JarAt(<<>>, s, n)
<1>1. 1..Len(<<>>) = {}
  OBVIOUS
<1> QED
  BY <1>1 DEF JarAt, UniqueKeys

LEMMA CookieInvInit == Init => CookieInv
<1> SUFFICES ASSUME Init PROVE CookieInv
  OBVIOUS
<1>1. \A S : <<>> \in Seq(S)
  OBVIOUS
<1>2. /\ stored = <<>> /\ jar = <<>> /\ urlOf \in UrlMaps
      /\ reply = [r \in Conns |-> <<>>]
      /\ \A r \in Conns : head[r].cookies = <<>> /\ head[r].after = 0
  BY DEF Init, Empty
<1>3. Len(<<>>) = 0 /\ 0 \in 0..0 /\ 1..0 = {}
  OBVIOUS
<1>4. urlOf \in [Conns -> [host : Text, path : Text]]
  BY <1>2, ClientAssumption
<1>5. CookieTypes
  BY <1>1, <1>2, <1>3, <1>4 DEF CookieTypes
<1>6. \A r \in Conns : Carries(r)
  BY <1>2, <1>3, EmptyJar DEF Carries
<1> QED
  BY <1>2, <1>5, <1>6, EmptyJar DEF CookieInv

LEMMA CookieInvGives == CookieInv => CookiesAreCurrent
<1> SUFFICES ASSUME CookieInv PROVE CookiesAreCurrent
  OBVIOUS
<1>1. \A i \in 1..Len(jar) : Newest(jar[i], Len(stored))
  BY DEF CookieInv, JarAt, LatestIn, Newest
<1>2. ASSUME NEW r \in Conns, NEW i \in 1..Len(head[r].cookies)
      PROVE  LET c == head[r].cookies[i] IN
             /\ Newest(c, head[r].after)
             /\ \A j \in 1..Len(head[r].cookies) : head[r].cookies[j].key = c.key => j = i
             /\ Suits(r, c)
  <2>1. Carries(r)
    BY DEF CookieInv
  <2>2. UniqueKeys(head[r].cookies) /\ LatestIn(stored, head[r].cookies[i], head[r].after)
    BY <2>1 DEF Carries, JarAt
  <2>3. Suits(r, head[r].cookies[i])
    BY <2>1 DEF Carries
  <2> QED
    BY <2>2, <2>3 DEF UniqueKeys, LatestIn, Newest
<1> QED
  BY <1>1, <1>2 DEF CookiesAreCurrent, Suits

(* What was true of the first entries of a history stays true.               *)
LEMMA JarSame ==
  ASSUME NEW j, NEW s, NEW t, NEW n \in Nat, JarAt(j, s, n), \A k \in 1..n : t[k] = s[k]
  PROVE  JarAt(j, t, n)
<1>1. ASSUME NEW i \in 1..Len(j) PROVE LatestIn(t, j[i], n)
  <2>1. LatestIn(s, j[i], n)
    BY DEF JarAt
  <2>2. PICK x \in 1..n : s[x].cookie = j[i] /\ \A k \in x + 1..n : s[k].cookie.key # j[i].key
    BY <2>1 DEF LatestIn
  <2>3. \A k \in x + 1..n : k \in 1..n
    OBVIOUS
  <2>4. t[x].cookie = j[i] /\ \A k \in x + 1..n : t[k].cookie.key # j[i].key
    BY <2>2, <2>3
  <2> QED
    BY <2>4 DEF LatestIn
<1> QED
  BY <1>1 DEF JarAt

LEMMA CarriesOn ==
  ASSUME CookieTypes, NEW r \in Conns, Carries(r), urlOf' = urlOf,
         \A k \in 1..Len(stored) : stored'[k] = stored[k],
         head'[r].cookies = head[r].cookies, head'[r].at = head[r].at, head'[r].after = head[r].after
  PROVE  Carries(r)'
<1>1. head[r].after \in Nat /\ \A k \in 1..head[r].after : k \in 1..Len(stored)
  BY DEF CookieTypes
<1>2. \A k \in 1..head[r].after : stored'[k] = stored[k]
  BY <1>1
<1>3. JarAt(head[r].cookies, stored', head[r].after)
  BY <1>1, <1>2, JarSame DEF Carries
<1>4. \A c : Suits(r, c) => Suits(r, c)'
  BY DEF Suits
<1> QED
  BY <1>3, <1>4 DEF Carries

LEMMA CookieInvSame ==
  ASSUME CookieInv, UNCHANGED <<urlOf, reply, stored>>,
         jar' \in {jar, <<>>},
         \A r \in Conns : \/ head'[r].cookies = head[r].cookies /\ head'[r].at = head[r].at
                             /\ head'[r].after = head[r].after
                          \/ head'[r] = Empty
  PROVE  CookieInv'
<1>1. CookieTypes
  BY DEF CookieInv
<1>2. <<>> \in Seq(Kept) /\ 1..Len(<<>>) = {} /\ 0 \in 0..Len(stored)
  BY <1>1 DEF CookieTypes
<1>3. ASSUME NEW r \in Conns
      PROVE  Carries(r)' /\ head'[r].cookies \in Seq(Kept) /\ head'[r].after \in 0..Len(stored)
  <2>1. CASE head'[r] = Empty
    <3>1. head'[r].cookies = <<>> /\ head'[r].after = 0
      BY <2>1 DEF Empty
    <3> QED
      BY <1>2, <3>1, EmptyJar DEF Carries
  <2>2. CASE head'[r].cookies = head[r].cookies /\ head'[r].at = head[r].at
             /\ head'[r].after = head[r].after
    <3>1. Carries(r)
      BY DEF CookieInv
    <3>2. Carries(r)'
      BY <1>1, <2>2, <3>1, CarriesOn
    <3> QED
      BY <1>1, <2>2, <3>2 DEF CookieTypes
  <2> QED
    BY <2>1, <2>2
<1>4. CookieTypes'
  BY <1>1, <1>2, <1>3 DEF CookieTypes
<1>5. JarAt(jar', stored', Len(stored'))
  BY EmptyJar DEF CookieInv
<1> QED
  BY <1>3, <1>4, <1>5 DEF CookieInv

-----------------------------------------------------------------------------
(* Most steps take nothing but a pointer, a flag or a stage.                 *)
LEMMA QuietKeep ==
  ASSUME CookieInv, ClientInv, NEW r \in Conns,
         \/ Refuse(r) \/ Ask(r) \/ DropRequest(r) \/ ParseFails(r) \/ ParseEndsSilently(r)
         \/ Connecting(r) \/ NotConnected(r) \/ MakeRequest(r) \/ CallReqHandler(r)
         \/ AwaitResponse(r) \/ CallResHandler(r)
  PROVE  CookieInv'
<1> DEFINE Alone == UNCHANGED <<urlOf, reply, stored, jar>>
           SameHead(s) == head'[s].cookies = head[s].cookies /\ head'[s].at = head[s].at
                          /\ head'[s].after = head[s].after
<1>1. CASE DropRequest(r)
  <2>1. Alone
    BY <1>1 DEF DropRequest, given, cookies
  <2>2. ASSUME NEW s \in Conns PROVE SameHead(s) \/ head'[s] = Empty
    BY <1>1 DEF DropRequest, ClientInv, Shapes
  <2> QED
    BY <2>1, <2>2, CookieInvSame
<1>2. CASE AwaitResponse(r)
  <2>1. Alone
    BY <1>2 DEF AwaitResponse, given, cookies
  <2>2. ASSUME NEW s \in Conns PROVE SameHead(s)
    BY <1>2 DEF AwaitResponse
  <2> QED
    BY <2>1, <2>2, CookieInvSame
<1>3. ASSUME UNCHANGED <<urlOf, reply, stored, jar, head>> PROVE CookieInv'
  BY <1>3, CookieInvSame
<1>4. CASE Refuse(r) \/ Ask(r) \/ ParseFails(r) \/ ParseEndsSilently(r)
  BY <1>3, <1>4 DEF Refuse, Ask, ParseFails, ParseEndsSilently, given, cookies
<1>5. CASE Connecting(r)
  BY <1>3, <1>5 DEF Connecting, given, cookies, request
<1>6. CASE NotConnected(r) \/ MakeRequest(r) \/ CallReqHandler(r) \/ CallResHandler(r)
  BY <1>3, <1>6 DEF NotConnected, MakeRequest, CallReqHandler, CallResHandler, given, cookies
<1> QED
  BY <1>1, <1>2, <1>4, <1>5, <1>6

(* A response puts its cookies aside as they came.                           *)
LEMMA RespondKeeps ==
  ASSUME CookieInv, ClientInv, NEW r \in Conns, Respond(r)
  PROVE  CookieInv'
<1>1. CookieTypes /\ UNCHANGED <<urlOf, stored, jar, head>>
  BY DEF CookieInv, Respond, given, cookies
<1>2. now \in Nat
  BY ClientAssumption DEF ClientInv, TypeOK
<1>3. ASSUME NEW a \in Answers
      PROVE  [i \in 1..Len(a) |-> [header |-> HeaderOf(a[i]), meant |-> a[i], at |-> now]]
               \in Seq(Arriving)
  <2>1. a \in Seq(Meant)
    BY ClientAssumption
  <2>2. PICK n \in Nat : n = Len(a)
    BY <2>1
  <2>3. ASSUME NEW i \in 1..n
        PROVE  [header |-> HeaderOf(a[i]), meant |-> a[i], at |-> now] \in Arriving
    <3>1. a[i] \in Meant
      BY <2>1, <2>2, ElementOfSeq
    <3> QED
      BY <1>2, <3>1 DEF Arriving, Headers
  <2>4. [i \in 1..n |-> [header |-> HeaderOf(a[i]), meant |-> a[i], at |-> now]] \in [1..n -> Arriving]
    BY <2>3
  <2> HIDE DEF Arriving
  <2> QED
    BY <2>2, <2>4
<1>4. reply' \in [Conns -> Seq(Arriving)]
  <2>1. reply \in [Conns -> Seq(Arriving)]
    BY <1>1 DEF CookieTypes
  <2>2. \/ reply' = reply
        \/ \E a \in Answers : reply' = [reply EXCEPT ![r] =
             [i \in 1..Len(a) |-> [header |-> HeaderOf(a[i]), meant |-> a[i], at |-> now]]]
    BY DEF Respond
  <2> HIDE DEF Arriving
  <2>3. ASSUME NEW a \in Answers, reply' = [reply EXCEPT ![r] =
               [i \in 1..Len(a) |-> [header |-> HeaderOf(a[i]), meant |-> a[i], at |-> now]]]
        PROVE  reply' \in [Conns -> Seq(Arriving)]
    <3>1. PICK q \in Seq(Arriving) :
            q = [i \in 1..Len(a) |-> [header |-> HeaderOf(a[i]), meant |-> a[i], at |-> now]]
      BY <1>3
    <3>2. reply' = [reply EXCEPT ![r] = q]
      BY <2>3, <3>1
    <3> QED
      BY <2>1, <3>2
  <2> QED
    BY <2>1, <2>2, <2>3
<1>5. CookieTypes'
  BY <1>1, <1>4 DEF CookieTypes
<1>6. ASSUME NEW s \in Conns PROVE Carries(s)'
  <2>1. Carries(s)
    BY DEF CookieInv
  <2> QED
    BY <1>1, <2>1, CarriesOn
<1> QED
  BY <1>1, <1>5, <1>6 DEF CookieInv

(* What fits a request suits it.                                             *)
LEMMA FitsSuits ==
  ASSUME CookieTypes, NEW r \in Conns, NEW c \in Kept, Fits(r, c)
  PROVE  /\ IF urlOf[r].host \in Addresses
              THEN c.domain \in {urlOf[r].host, <<".">> \o urlOf[r].host}
              ELSE IsEnd(Tokens(c.domain, {"."}), Tokens(urlOf[r].host, {"."}))
         /\ IsStart(Tokens(c.path, {"/"}), Tokens(urlOf[r].path, {"/"}))
         /\ c.secure => r \in SslConns
<1>1. PICK host \in Text, path \in Text : host = urlOf[r].host /\ path = urlOf[r].path
  BY DEF CookieTypes
<1>2. PICK dom \in Text, base \in Text : dom = c.domain /\ base = c.path
  BY KeptTyped
<1>3. IsPathMatch(path, base) /\ IsDomainMatch(host, dom) /\ (c.secure => r \in SslConns)
  BY <1>1, <1>2 DEF Fits
<1>4. IsStart(Tokens(base, {"/"}), Tokens(path, {"/"}))
  BY <1>3, PathStarts
<1>5. /\ IsEnd(Tokens(dom, {"."}), Tokens(host, {"."}))
      /\ IsValidIPAddress(host) => dom \in {host, <<".">> \o host}
  BY <1>3, DomainEnds
<1>6. host \in Addresses => IsValidIPAddress(host)
  BY ClientAssumption
<1> QED
  BY <1>1, <1>2, <1>3, <1>4, <1>5, <1>6

(* A request takes from the jar what is fresh and fits.                      *)
LEMMA AddCookiesKeeps ==
  ASSUME CookieInv, ClientInv, NEW r \in Conns, AddCookies(r)
  PROVE  CookieInv'
<1>1. /\ CookieTypes /\ JarAt(jar, stored, Len(stored))
      /\ urlOf' = urlOf /\ reply' = reply /\ stored' = stored
  BY DEF CookieInv, AddCookies, given
<1>2. PICK m \in Nat : m = Len(stored)
  BY <1>1 DEF CookieTypes
<1>3. jar \in Seq(Kept)
  BY <1>1 DEF CookieTypes
<1> DEFINE W == {i \in 1..Len(jar) : jar[i].expires = 0 \/ jar[i].expires >= now}
<1>4. W \in SUBSET (1..Len(jar)) /\ Fresh = Picked(jar, W)
  BY DEF Fresh
<1>5. \A i \in W : jar[i].expires = 0 \/ jar[i].expires >= now
  OBVIOUS
<1> HIDE DEF W
<1>6. PICK f \in Seq(Kept) : f = Fresh /\ PickedFrom(f, jar, W) /\ JarAt(f, stored, m)
  BY <1>1, <1>2, <1>3, <1>4, PickedIs, PickedJar
<1>7. \A i \in 1..Len(f) : f[i].expires = 0 \/ f[i].expires >= now
  BY <1>5, <1>6 DEF PickedFrom
<1> DEFINE V == {i \in 1..Len(f) : Fits(r, f[i])}
<1>8. V \in SUBSET (1..Len(f)) /\ \A i \in V : Fits(r, f[i])
  OBVIOUS
<1>9. /\ jar' = f
      /\ head' = [head EXCEPT ![r].cookies = Picked(f, V), ![r].at = now, ![r].after = m]
  BY <1>2, <1>6 DEF AddCookies
<1> HIDE DEF V
<1>10. PICK p \in Seq(Kept) : p = Picked(f, V) /\ PickedFrom(p, f, V) /\ JarAt(p, stored, m)
  BY <1>6, <1>8, PickedIs, PickedJar
<1>11. head'[r].cookies = p /\ head'[r].at = now /\ head'[r].after = m
  <2>1. r \in DOMAIN head /\ DOMAIN head[r] = {"cookies", "at", "after", "close"}
    BY DEF ClientInv, Shapes, Empty
  <2> QED
    BY <1>9, <1>10, <2>1
<1>12. ASSUME NEW i \in 1..Len(p) PROVE Suits(r, p[i])'
  <2>1. PICK k \in V : p[i] = f[k]
    BY <1>10 DEF PickedFrom
  <2>2. PICK c \in Kept : c = p[i] /\ c = f[k]
    <3>1. p[i] \in Kept
      BY <1>10, ElementOfSeq
    <3> QED
      BY <2>1, <3>1
  <2>3. Fits(r, c) /\ (c.expires = 0 \/ c.expires >= now)
    BY <1>7, <1>8, <2>1, <2>2
  <2> QED
    BY <1>1, <1>11, <2>2, <2>3, FitsSuits DEF Suits
<1>13. Carries(r)'
  BY <1>1, <1>10, <1>11, <1>12 DEF Carries
<1>14. ASSUME NEW s \in Conns, s # r
       PROVE  Carries(s)' /\ head'[s] = head[s]
  <2>1. Carries(s)
    BY DEF CookieInv
  <2>2. head'[s] = head[s]
    BY <1>9, <1>14 DEF ClientInv, Shapes
  <2>3. Carries(s)'
    BY <1>1, <2>1, <2>2, CarriesOn
  <2> QED
    BY <2>2, <2>3
<1>15. ASSUME NEW s \in Conns
       PROVE  head'[s].cookies \in Seq(Kept) /\ head'[s].after \in 0..Len(stored)
  <2>1. CASE s = r
    BY <1>2, <1>10, <1>11, <2>1
  <2>2. CASE s # r
    BY <1>1, <1>14, <2>2 DEF CookieTypes
  <2> QED
    BY <2>1, <2>2
<1>16. CookieTypes'
  BY <1>1, <1>6, <1>9, <1>15 DEF CookieTypes
<1>17. \A s \in Conns : Carries(s)'
  BY <1>13, <1>14
<1>18. JarAt(jar', stored', Len(stored'))
  BY <1>1, <1>2, <1>6, <1>9
<1> QED
  BY <1>16, <1>17, <1>18 DEF CookieInv

(* A response's cookies are put into the jar in their order.                 *)
LEMMA ReceivedTyped ==
  ASSUME CookieTypes, NEW r \in Conns
  PROVE  Received(r) \in Seq(Entries)
<1>1. PICK q \in Seq(Arriving), host \in Text : q = reply[r] /\ host = urlOf[r].host
  BY DEF CookieTypes
<1>2. PICK n \in Nat : n = Len(q)
  OBVIOUS
<1>3. ASSUME NEW i \in 1..n
      PROVE  [cookie |-> WithDefaults(ParseResponseCookie(q[i].header, q[i].at, Zone), host),
              meant |-> q[i].meant, at |-> q[i].at, host |-> host] \in Entries
  <2>1. q[i] \in Arriving
    BY <1>2, ElementOfSeq
  <2>2. q[i].header \in Headers /\ q[i].meant \in Meant /\ q[i].at \in Nat
    BY <2>1 DEF Arriving
  <2>3. WithDefaults(ParseResponseCookie(q[i].header, q[i].at, Zone), host) \in Kept
    BY <2>2 DEF Kept
  <2> QED
    BY <2>2, <2>3 DEF Entries
<1>4. Received(r) =
        [i \in 1..n |->
          [cookie |-> WithDefaults(ParseResponseCookie(q[i].header, q[i].at, Zone), host),
           meant |-> q[i].meant, at |-> q[i].at, host |-> host]]
  BY <1>1, <1>2 DEF Received
<1>5. Received(r) \in [1..n -> Entries]
  BY <1>3, <1>4
<1> HIDE DEF Entries, Received
<1> QED
  BY <1>5

LEMMA StoreCookiesKeeps ==
  ASSUME CookieInv, ClientInv, NEW r \in Conns, StoreCookies(r)
  PROVE  CookieInv'
<1>1. CookieTypes /\ JarAt(jar, stored, Len(stored)) /\ urlOf' = urlOf /\ head' = head
  BY DEF CookieInv, StoreCookies, given
<1>2. PICK old \in Seq(Entries), new \in Seq(Entries) : old = stored /\ new = Received(r)
  BY <1>1, ReceivedTyped DEF CookieTypes
<1>3. PICK m \in Nat, n \in Nat : m = Len(old) /\ n = Len(new)
  OBVIOUS
<1>4. PICK all \in Seq(Entries) :
        /\ all = old \o new /\ Len(all) = m + n
        /\ \A k \in 1..m : all[k] = old[k]
        /\ \A i \in 1..n : all[m + i] = new[i]
  <2>1. /\ old \o new \in Seq(Entries) /\ Len(old \o new) = Len(old) + Len(new)
        /\ \A i \in 1..Len(old) + Len(new) :
             (old \o new)[i] = IF i <= Len(old) THEN old[i] ELSE new[i - Len(old)]
    BY ConcatProperties
  <2>2. ASSUME NEW k \in 1..m PROVE (old \o new)[k] = old[k]
    <3>1. k \in 1..Len(old) + Len(new) /\ k <= Len(old)
      BY <1>3
    <3> QED
      BY <2>1, <3>1
  <2>3. ASSUME NEW i \in 1..n PROVE (old \o new)[m + i] = new[i]
    <3>1. m + i \in 1..Len(old) + Len(new) /\ ~(m + i <= Len(old)) /\ (m + i) - Len(old) = i
      BY <1>3
    <3> QED
      BY <2>1, <3>1
  <2> QED
    BY <1>3, <2>1, <2>2, <2>3
<1>5. stored' = all /\ jar' = PutAll(jar, new) /\ reply' = [reply EXCEPT ![r] = <<>>]
  BY <1>2, <1>4 DEF StoreCookies
<1>6. JarAt(jar, all, m)
  BY <1>1, <1>2, <1>3, <1>4, JarSame
<1>7. ASSUME NEW i \in 1..n PROVE new[i].cookie \in Kept
  <2>1. new[i] \in Entries
    BY <1>3, ElementOfSeq
  <2> QED
    BY <2>1 DEF Entries
<1>8. PutAll(jar, new) \in Seq(Kept) /\ JarAt(PutAll(jar, new), all, m + n)
  <2>1. jar \in Seq(Kept) /\ Len(new) \in Nat
    BY <1>1 DEF CookieTypes
  <2>2. \A i \in 1..Len(new) : new[i].cookie \in Kept /\ all[m + i] = new[i]
    BY <1>3, <1>4, <1>7
  <2> QED
    BY <1>3, <1>6, <2>1, <2>2, PutAllKeeps
<1>9. ASSUME NEW s \in Conns
      PROVE  Carries(s)' /\ head'[s].cookies \in Seq(Kept) /\ head'[s].after \in 0..m + n
  <2>1. Carries(s) /\ head'[s] = head[s]
    BY <1>1 DEF CookieInv
  <2>2. \A k \in 1..Len(stored) : stored'[k] = stored[k]
    BY <1>2, <1>3, <1>4, <1>5
  <2>3. Carries(s)'
    BY <1>1, <2>1, <2>2, CarriesOn
  <2>4. head[s].cookies \in Seq(Kept) /\ head[s].after \in 0..m
    BY <1>1, <1>2, <1>3 DEF CookieTypes
  <2> QED
    BY <2>1, <2>3, <2>4
<1>10. reply' \in [Conns -> Seq(Arriving)]
  <2>1. reply \in [Conns -> Seq(Arriving)] /\ <<>> \in Seq(Arriving)
    BY <1>1 DEF CookieTypes
  <2> QED
    BY <1>5, <2>1
<1>11. CookieTypes'
  BY <1>1, <1>4, <1>5, <1>8, <1>9, <1>10 DEF CookieTypes
<1>12. JarAt(jar', stored', Len(stored'))
  BY <1>4, <1>5, <1>8
<1> QED
  BY <1>9, <1>11, <1>12 DEF CookieInv

LEMMA CookieInvStep == ClientInv /\ CookieInv /\ [Next]_vars => CookieInv'
<1> SUFFICES ASSUME ClientInv, CookieInv, [Next]_vars PROVE CookieInv'
  OBVIOUS
<1>1. ASSUME NEW r \in Conns, Step(r) PROVE CookieInv'
  BY <1>1, QuietKeep, RespondKeeps, AddCookiesKeeps, StoreCookiesKeeps DEF Step, Handle, Answer
<1>2. CASE EnableCookie \/ DisableCookie \/ ClearCookie
  <2>1. UNCHANGED <<urlOf, reply, stored, head>> /\ jar' \in {jar, <<>>}
    BY <1>2 DEF EnableCookie, DisableCookie, ClearCookie, Switch, given, request
  <2> QED
    BY <2>1, CookieInvSame
<1>3. CASE Tick \/ UNCHANGED vars
  <2>1. UNCHANGED <<urlOf, reply, stored, jar, head>>
    BY <1>3 DEF Tick, vars, given, cookies, request
  <2> QED
    BY <2>1, CookieInvSame
<1> QED
  BY <1>1, <1>2, <1>3 DEF Next, Step

(* Whatever responses, requests and switches come in between, under whatever *)
(* names, hosts and paths: the jar has one cookie per name, the newest (the  *)
(* loops of client.cc:194-214), and what add_cookie_to_request (client.cc:   *)
(* 171-191) puts on a request is fresh and belongs to that host and path.    *)
THEOREM CookiesStayCurrent == Spec => []CookiesAreCurrent
<1>1. Init => ClientInv /\ CookieInv
  BY ClientInvInit, CookieInvInit
<1>2. ClientInv /\ CookieInv /\ [Next]_vars => (ClientInv /\ CookieInv)'
  BY ClientInvStep, CookieInvStep
<1>3. ClientInv /\ CookieInv => CookiesAreCurrent
  BY CookieInvGives
<1> QED
  BY <1>1, <1>2, <1>3, PTL DEF Spec
=============================================================================

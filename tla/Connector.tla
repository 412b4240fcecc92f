------------------------------ MODULE Connector ------------------------------
(***************************************************************************)
(* asyncConnect of TcpConnection and SslConnection: resolve the name, try  *)
(* its endpoints one after the other on the same socket object, on TLS do  *)
(* the handshake, and call the handler with the connection or nullptr.     *)
(* Each connection has one callback under way at a time, which is a step;  *)
(* callbacks of different connections interleave.  Nobody in the           *)
(* repository stops a connection before its handler was called.            *)
(***************************************************************************)
EXTENDS Naturals, Sequences

CONSTANTS
  Conns,       (* the connections, each connected once                      *)
  SslConns,    (* those that are SslConnections                             *)
  MaxEndpoints (* bound: the endpoints a name resolves to                   *)

ASSUME ConnectorAssumption == SslConns \subseteq Conns /\ MaxEndpoints \in Nat \ {0}

VARIABLES
  phase,    (* phase[c]: what c waits for                                   *)
  count,    (* count[c]: how many endpoints the name has                    *)
  tried,    (* tried[c]: how many of them async_connect was called for      *)
  opened,   (* opened[c]: the endpoint the socket was opened for, 0: closed *)
            (* (which one, as long as it matters)                           *)
  linked,   (* linked[c]: the socket is connected                           *)
  secured,  (* secured[c]: the client's handshake succeeded                 *)
  calls     (* calls[c]: history, what the handler was called with          *)

connecting == <<phase, count, tried, opened, linked, secured, calls>>

ConnectorInit ==
  /\ phase = [c \in Conns |-> "idle"]
  /\ count = [c \in Conns |-> 0] /\ tried = [c \in Conns |-> 0]
  /\ opened = [c \in Conns |-> 0]
  /\ linked = [c \in Conns |-> FALSE] /\ secured = [c \in Conns |-> FALSE]
  /\ calls = [c \in Conns |-> <<>>]

-----------------------------------------------------------------------------
AsyncConnect(c) ==
  /\ phase[c] = "idle"
  /\ phase' = [phase EXCEPT ![c] = "resolving"]
  /\ UNCHANGED <<count, tried, opened, linked, secured, calls>>

Report(c, result) ==
  /\ phase' = [phase EXCEPT ![c] = "done"]
  /\ calls' = [calls EXCEPT ![c] = Append(@, result)]

(* The handler is called with the connection; the iterator is gone with the  *)
(* closure that held it.                                                     *)
Succeed(c) ==
  /\ Report(c, "conn")
  /\ count' = [count EXCEPT ![c] = 0] /\ tried' = [tried EXCEPT ![c] = 0]
  /\ opened' = [opened EXCEPT ![c] = 1]

ResolveFails(c) ==
  /\ phase[c] = "resolving"
  /\ Report(c, "null")
  /\ UNCHANGED <<count, tried, opened, linked, secured>>

(* async_connect opens the socket if it is closed.  (Slip: it is not closed  *)
(* after the last attempt, and stays as it was opened for that endpoint.)    *)
TryWithoutClose(c) ==
  /\ tried' = [tried EXCEPT ![c] = @ + 1]
  /\ opened' = [opened EXCEPT ![c] = IF @ = 0 THEN 1 ELSE @]

(* Close the socket and try the next endpoint.                               *)
Try(c) ==
  /\ tried' = [tried EXCEPT ![c] = @ + 1]
  /\ opened' = [opened EXCEPT ![c] = tried[c] + 1]

Resolved(c) ==
  /\ phase[c] = "resolving"
  /\ phase' = [phase EXCEPT ![c] = "connecting"]
  /\ \E n \in 1..MaxEndpoints : count' = [count EXCEPT ![c] = n]
  /\ Try(c)
  /\ UNCHANGED <<linked, secured, calls>>

(* handle_connect.                                                           *)
Connected(c) ==
  /\ phase[c] = "connecting"
  /\ linked' = [linked EXCEPT ![c] = TRUE]
  /\ IF c \in SslConns
       THEN phase' = [phase EXCEPT ![c] = "handshake"] /\ UNCHANGED <<count, tried, opened, calls>>
       ELSE Succeed(c)
  /\ UNCHANGED secured

EndpointFails(c) ==
  /\ phase[c] = "connecting" /\ tried[c] < count[c]
  /\ Try(c)
  /\ UNCHANGED <<phase, count, linked, secured, calls>>

NoEndpointLeft(c) ==
  /\ phase[c] = "connecting" /\ tried[c] = count[c]
  /\ Report(c, "null")
  /\ UNCHANGED <<count, tried, opened, linked, secured>>

(* The client's side of the TLS handshake, which accepts any certificate; no *)
(* other endpoint is tried when it fails.                                    *)
HandshakeOk(c) ==
  /\ phase[c] = "handshake"
  /\ secured' = [secured EXCEPT ![c] = TRUE]
  /\ Succeed(c)
  /\ UNCHANGED linked

HandshakeFails(c) ==
  /\ phase[c] = "handshake"
  /\ Report(c, "null")
  /\ UNCHANGED <<count, tried, opened, linked, secured>>

ConnectStep(c) ==
  \/ ResolveFails(c) \/ Resolved(c)
  \/ Connected(c) \/ EndpointFails(c) \/ NoEndpointLeft(c)
  \/ HandshakeOk(c) \/ HandshakeFails(c)

-----------------------------------------------------------------------------
(* The variables take values of their types.                                 *)
ConnectorTypeOK ==
  /\ phase \in [Conns -> {"idle", "resolving", "connecting", "handshake", "done"}]
  /\ count \in [Conns -> 0..MaxEndpoints] /\ tried \in [Conns -> 0..MaxEndpoints]
  /\ opened \in [Conns -> 0..MaxEndpoints]
  /\ linked \in [Conns -> BOOLEAN] /\ secured \in [Conns -> BOOLEAN]
  /\ calls \in [Conns -> Seq({"conn", "null"})]

(* The handler is called once, and with nullptr only after the name did not  *)
(* resolve, every endpoint was tried in vain, or the handshake failed; the   *)
(* connection it gets is connected, and secured if it is to be.  Every       *)
(* attempt is made on a socket opened for it: one left from an endpoint of   *)
(* another address family could not connect to this one (inc/TcpConnection.hh*)
(* :66 closes it).                                                           *)
ConnectOutcome ==
  \A c \in Conns :
    /\ Len(calls[c]) = IF phase[c] = "done" THEN 1 ELSE 0
    /\ calls[c] = <<"conn">> => linked[c] /\ (c \in SslConns => secured[c])
    /\ calls[c] = <<"null">> =>
         ~secured[c] /\ tried[c] = IF linked[c] THEN opened[c] ELSE count[c]
    /\ phase[c] \in {"connecting", "handshake"} => opened[c] = tried[c]
=============================================================================

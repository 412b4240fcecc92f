------------------------------ MODULE Acceptor ------------------------------
(***************************************************************************)
(* How connections enter the server (src/server.cc): one accept under way  *)
(* per port into a connection object made in advance, which is handed to   *)
(* handleRequest, on the TLS port after a handshake, and then replaced;    *)
(* and the io_service that runs all handlers, with Server::run and stop.   *)
(*                                                                         *)
(* A handler runs as one step: only one accept or handshake of a port is   *)
(* under way, and no other handler touches the members it uses.            *)
(***************************************************************************)
EXTENDS Integers, Sequences, FiniteSets, SequencesExt

CONSTANTS
  Ports,     (* a subset of {"tcp", "ssl"}                                  *)
  Clients,   (* bound: those that connect, each once                        *)
  MayFail,   (* an accept may fail (no descriptors left)                    *)
  MaxStops   (* bound: calls of stop                                        *)

ASSUME AcceptorAssumption ==
  /\ Ports \subseteq {"tcp", "ssl"} /\ MayFail \in BOOLEAN /\ MaxStops \in Nat
  /\ IsFiniteSet(Clients) /\ "nobody" \notin Clients

VARIABLES
  backlog,  (* clients waiting at each port, in order                       *)
  state,    (* each acceptor: "armed", "handshake" or "dead"                *)
  spare,    (* new_tcp_connection_, new_ssl_connection_                     *)
  shaking,  (* the object a port's handshake runs on, or 0                  *)
  peer,     (* whose socket each connection object made so far has          *)
  secured,  (* the connection objects whose handshake succeeded             *)
  handed,   (* what was given to handleRequest, and for which port          *)
  running,  (* Server::run is in its loop                                   *)
  halted,   (* service_.stopped()                                           *)
  stops     (* bound                                                        *)

sockets == <<backlog, state, spare, shaking, peer, secured, handed>>
acceptorVars == <<backlog, state, spare, shaking, peer, secured, handed, running, halted, stops>>

Objects == 1..Len(peer)

(* The constructor makes the first connection objects and starts to accept.  *)
AcceptorInit ==
  /\ backlog = [p \in Ports |-> <<>>]
  /\ state = [p \in Ports |-> "armed"]
  /\ peer = <<"nobody", "nobody">>
  /\ spare = [p \in Ports |-> IF p = "tcp" THEN 1 ELSE 2]
  /\ shaking = [p \in Ports |-> 0]
  /\ secured = {} /\ handed = <<>>
  /\ running = FALSE /\ halted = FALSE /\ stops = 0

Known == UNION {ToSet(backlog[p]) : p \in Ports} \cup ToSet(peer)

(* A client connects; the kernel queues it.                                  *)
Arrive(c, p) ==
  /\ c \notin Known
  /\ backlog' = [backlog EXCEPT ![p] = Append(@, c)]
  /\ UNCHANGED <<state, spare, shaking, peer, secured, handed, running, halted, stops>>

-----------------------------------------------------------------------------
(* Handlers run in the threads of Server::run while the service is not       *)
(* stopped.                                                                  *)
Live == running /\ ~halted

(* The accept of port p completes: the spare gets the client's socket, and   *)
(* once it is handed on or given up, a new object takes its place.           *)
Accepts(p) == Live /\ state[p] = "armed" /\ backlog[p] # <<>>
PeersWith(p, c) == [peer EXCEPT ![spare[p]] = c]
Replace(p, peers) ==
  /\ peer' = Append(peers, "nobody")
  /\ spare' = [spare EXCEPT ![p] = Len(peers) + 1]

(* handleTcpAccept.  (Before it a slip: the object handed on is accepted     *)
(* into again.)                                                              *)
AcceptTcpIntoSame(p) ==
  /\ p = "tcp" /\ Accepts(p)
  /\ backlog' = [backlog EXCEPT ![p] = Tail(@)]
  /\ peer' = PeersWith(p, Head(backlog[p]))
  /\ handed' = Append(handed, [conn |-> spare[p], port |-> p])
  /\ UNCHANGED <<state, spare, shaking, secured, running, halted, stops>>

AcceptTcp(p) ==
  /\ p = "tcp" /\ Accepts(p)
  /\ backlog' = [backlog EXCEPT ![p] = Tail(@)]
  /\ handed' = Append(handed, [conn |-> spare[p], port |-> p])
  /\ Replace(p, PeersWith(p, Head(backlog[p])))
  /\ UNCHANGED <<state, shaking, secured, running, halted, stops>>

(* handleSslAccept: the handshake first; meanwhile nobody is accepted.       *)
(* (Before it a slip: the member is replaced as soon as the handshake runs.) *)
AcceptSslReplacingAtOnce(p) ==
  /\ p = "ssl" /\ Accepts(p)
  /\ backlog' = [backlog EXCEPT ![p] = Tail(@)]
  /\ Replace(p, PeersWith(p, Head(backlog[p])))
  /\ shaking' = [shaking EXCEPT ![p] = spare[p]]
  /\ state' = [state EXCEPT ![p] = "handshake"]
  /\ UNCHANGED <<secured, handed, running, halted, stops>>

AcceptSsl(p) ==
  /\ p = "ssl" /\ Accepts(p)
  /\ backlog' = [backlog EXCEPT ![p] = Tail(@)]
  /\ peer' = PeersWith(p, Head(backlog[p]))
  /\ shaking' = [shaking EXCEPT ![p] = spare[p]]
  /\ state' = [state EXCEPT ![p] = "handshake"]
  /\ UNCHANGED <<spare, secured, handed, running, halted, stops>>

(* The handshake secures the object it was started on; its handler hands on  *)
(* and replaces what the member points to by then.                           *)
HandshakeOk(p) ==
  /\ Live /\ state[p] = "handshake"
  /\ secured' = secured \cup {shaking[p]}
  /\ handed' = Append(handed, [conn |-> spare[p], port |-> p])
  /\ Replace(p, peer)
  /\ shaking' = [shaking EXCEPT ![p] = 0]
  /\ state' = [state EXCEPT ![p] = "armed"]
  /\ UNCHANGED <<backlog, running, halted, stops>>

HandshakeFails(p) ==
  /\ Live /\ state[p] = "handshake"
  /\ Replace(p, peer)
  /\ shaking' = [shaking EXCEPT ![p] = 0]
  /\ state' = [state EXCEPT ![p] = "armed"]
  /\ UNCHANGED <<backlog, secured, handed, running, halted, stops>>

(* An accept that fails is not repeated.                                     *)
AcceptFails(p) ==
  /\ MayFail /\ Live /\ state[p] = "armed"
  /\ state' = [state EXCEPT ![p] = "dead"]
  /\ UNCHANGED <<backlog, spare, shaking, peer, secured, handed, running, halted, stops>>

-----------------------------------------------------------------------------
(* run: its threads end when the service is stopped; then it is reset.  (A   *)
(* slip: it is not, and the next run ends at once.)                          *)
Run ==
  /\ ~running /\ running' = TRUE
  /\ UNCHANGED <<sockets, halted, stops>>

RunEndsWithoutReset ==
  /\ running /\ halted
  /\ running' = FALSE
  /\ UNCHANGED <<sockets, halted, stops>>

RunEnds ==
  /\ running /\ halted
  /\ running' = FALSE /\ halted' = FALSE
  /\ UNCHANGED <<sockets, stops>>

(* stop, from a signal, a handler or anywhere.                               *)
Stop ==
  /\ stops < MaxStops /\ stops' = stops + 1
  /\ halted' = TRUE
  /\ UNCHANGED <<sockets, running>>

Handle(p) == AcceptTcp(p) \/ AcceptSsl(p) \/ HandshakeOk(p) \/ HandshakeFails(p)

AcceptorNext ==
  \/ \E c \in Clients, p \in Ports : Arrive(c, p)
  \/ \E p \in Ports : Handle(p) \/ AcceptFails(p)
  \/ Run \/ RunEnds \/ Stop

AcceptorSpec == AcceptorInit /\ [][AcceptorNext]_acceptorVars

(* The service's threads run what is ready, handshakes end, and the          *)
(* application runs the server again after each stop.                        *)
AcceptorFairness ==
  /\ \A p \in Ports : WF_acceptorVars(Handle(p))
  /\ WF_acceptorVars(Run) /\ WF_acceptorVars(RunEnds)

AcceptorFairSpec == AcceptorSpec /\ AcceptorFairness

-----------------------------------------------------------------------------
(* The variables take values of their types.                                 *)
AcceptorTypeOK ==
  /\ backlog \in [Ports -> Seq(Clients)]
  /\ state \in [Ports -> {"armed", "handshake", "dead"}]
  /\ peer \in Seq(Clients \cup {"nobody"}) /\ spare \in [Ports -> Objects]
  /\ shaking \in [Ports -> Objects \cup {0}]
  /\ secured \in SUBSET Objects /\ handed \in Seq([conn : Objects, port : Ports])
  /\ running \in BOOLEAN /\ halted \in BOOLEAN /\ stops \in 0..MaxStops

(* A connection object is handed on once, and is no longer the one that the  *)
(* next client is accepted into, on either port; and what came in at the TLS *)
(* port is handed on only after its own handshake, although the callback     *)
(* reads the member and not a captured pointer.  (With the types.)           *)
HandedOnceAndSecured ==
  /\ AcceptorTypeOK
  /\ \A i, j \in 1..Len(handed) : i # j => handed[i].conn # handed[j].conn
  /\ \A i \in 1..Len(handed), p \in Ports : spare[p] # handed[i].conn
  /\ \A i \in 1..Len(handed) : handed[i].port = "ssl" => handed[i].conn \in secured

(* A client that waits is accepted, unless accepting failed before it.       *)
WaitingIsAccepted ==
  \A c \in Clients, p \in Ports :
    c \in ToSet(backlog[p]) ~> c \notin ToSet(backlog[p]) \/ state[p] = "dead"
=============================================================================

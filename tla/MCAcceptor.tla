----------------------------- MODULE MCAcceptor -----------------------------
(* Model checking of Acceptor.                                               *)
EXTENDS Acceptor

CONSTANTS c1, c2, c3
BothPorts == {"tcp", "ssl"}
ThreeClients == {c1, c2, c3}
=============================================================================

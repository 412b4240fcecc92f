------------------------------- MODULE MCTunnel -------------------------------
(* Model checking of Tunnel: two connections, bounded bytes per peer.       *)
EXTENDS Tunnel

MCAppStops == {A}
=============================================================================

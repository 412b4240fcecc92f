----------------------------- MODULE MCConnection -----------------------------
(* Model checking of Connection: model values for threads and operations.   *)
EXTENDS Connection

CONSTANTS worker, io1, io2, r1, w1, w2, w3

MCThreads == {worker, io1, io2}
MCIoThreads == {io1, io2}
MCReadOps == {r1}
MCWriteOps == {w1, w2, w3}
MCThrowing == {w2}
=============================================================================

------------------------------ MODULE MCSession ------------------------------
(* Model checking of Session: worker threads are model values.               *)
EXTENDS Session

CONSTANT w1
OneWorker == {w1}
=============================================================================

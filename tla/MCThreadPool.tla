----------------------------- MODULE MCThreadPool -----------------------------
(* Model checking of ThreadPool: model values for threads and tasks.        *)
EXTENDS ThreadPool

CONSTANTS w1, w2, c1, c2, t1, t2, t3

MCWorkersTwo == {w1, w2}
MCWorkersOne == {w1}
MCClients == {c1, c2}
MCClientsOne == {c1}
MCTasks == {t1, t2, t3}
MCTasksOne == {t1}
=============================================================================

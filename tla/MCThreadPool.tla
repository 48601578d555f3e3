---------------------------- MODULE MCThreadPool ----------------------------
(* Small instances of ThreadPool: a worker may also push from its task.    *)
EXTENDS ThreadPool

CONSTANTS w1, w2, w3, k1, k2, p1, o1, o2
=============================================================================

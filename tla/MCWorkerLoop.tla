---------------------------- MODULE MCWorkerLoop ----------------------------
(* Small instances of WorkerLoop for TLC. *)
EXTENDS WorkerLoop, TLC

CONSTANTS w1, w2, c1, c2, c3

=============================================================================

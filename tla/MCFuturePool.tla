---------------------------- MODULE MCFuturePool ----------------------------
(* Instances of FuturePool for TLC. *)
EXTENDS FuturePool, TLC

CONSTANTS t1, t2, t3, p1, p2, w1, w2

(* Two pools of one worker each, one task spawned in each: the cross-pool *)
(* wake of test_multi_pools_wake.                                         *)
TwoPoolsPoolOf == (w1 :> p1) @@ (w2 :> p2)
TwoPoolsTaskPool == (t1 :> p1) @@ (t2 :> p2) @@ (t3 :> p1)

(* One pool of two workers and two tasks: contention inside one pool. *)
OnePoolPoolOf == [w \in Workers |-> p1]
OnePoolTaskPool == [t \in Tasks |-> p1]

OnePoolSymmetry == Permutations({t1, t2, t3}) \cup Permutations({w1, w2})

=============================================================================

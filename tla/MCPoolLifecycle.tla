--------------------------- MODULE MCPoolLifecycle ---------------------------
(* Small instances of PoolLifecycle for TLC. *)
EXTENDS PoolLifecycle, TLC

CONSTANTS c1, c2, drop

(* Two callers of shutdown are interchangeable. *)
CallerSymmetry == Permutations({c1, c2})

=============================================================================

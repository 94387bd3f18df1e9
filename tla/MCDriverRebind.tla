--------------------------- MODULE MCDriverRebind ---------------------------
(* One or two tasks and the watcher, over one or two pages. *)
EXTENDS DriverRebind, TLC

CONSTANTS t1, t2, p1, p2

Symmetric == Permutations({t1, t2})
=============================================================================

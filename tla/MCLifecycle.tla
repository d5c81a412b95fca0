----------------------------- MODULE MCLifecycle -----------------------------
(***************************************************************************)
(* Two tasks, two container names, a source tree with two contents and a   *)
(* go-vendor transform with two modules.                                   *)
(***************************************************************************)
EXTENDS Lifecycle

CONSTANTS t1, t2, n1, n2, c1, c2

MCModules == <<"m1", "m2">>
Symmetry == Permutations({t1, t2}) \cup Permutations({n1, n2}) \cup Permutations({c1, c2})
=============================================================================

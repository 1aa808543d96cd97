----------------------------- MODULE MCLifecycle -----------------------------
(* Lifecycle with threads and pods as model values.  The pods are alike, and *)
(* so are the writers and the deleters where BesideDelete has none of them;  *)
(* no liveness is checked.                                                   *)
EXTENDS Lifecycle, TLC

Symmetry ==
    Permutations(PodNames) \cup Permutations(Writers) \cup Permutations(Deleters)
=============================================================================

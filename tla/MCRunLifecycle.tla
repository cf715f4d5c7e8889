--------------------------- MODULE MCRunLifecycle ---------------------------
(* Small instances of RunLifecycle for TLC. *)
EXTENDS RunLifecycle, TLC

\* Runs, stages and payloads are interchangeable names.
Symmetry ==
  Permutations(Runs) \union Permutations(Stages) \union Permutations(Contents)
=============================================================================

-------------------------- MODULE MCRunLifecycle --------------------------
(* Small instances of RunLifecycle for TLC.                              *)
EXTENDS RunLifecycle, TLC

\* Slots and request threads are interchangeable: no definition tells two of
\* them apart. Used by the runs without a liveness property only.
Symmetry == Permutations(Workers) \cup Permutations(Handlers)
=============================================================================

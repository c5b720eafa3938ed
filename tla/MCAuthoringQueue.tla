------------------------- MODULE MCAuthoringQueue -------------------------
(* Small instances of AuthoringQueue for TLC.                            *)
EXTENDS AuthoringQueue, TLC

\* Ids, devices, threads and turns are interchangeable: no definition tells
\* two of them apart. Used by the runs without a liveness property only.
Symmetry == Permutations(Sids) \cup Permutations(Devices)
            \cup Permutations(Requests) \cup Permutations(Turns)
=============================================================================

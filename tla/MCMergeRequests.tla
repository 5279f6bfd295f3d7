--------------------------- MODULE MCMergeRequests ---------------------------
(* Instances of MergeRequests for TLC.                                     *)
EXTENDS MergeRequests, TLC

\* Submits are interchangeable, and so are branches.
Interchangeable == Permutations(Submits) \cup Permutations(Branches)
=============================================================================

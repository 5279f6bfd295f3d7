--------------------------- MODULE MCRepoOwnership ---------------------------
(* Instances of RepoOwnership for TLC.                                     *)
EXTENDS RepoOwnership, TLC

\* Requests are interchangeable, and so are tenants.
Interchangeable == Permutations(Requests) \cup Permutations(Tenants)
=============================================================================

------------------------- MODULE MCManagedService --------------------------
(* Instances of ManagedService for TLC.                                    *)
EXTENDS ManagedService, TLC

CONSTANTS r1, r2, web, primary, sibling, plain, stateful, data, alice, bob

\* Service web may have a sibling Service; one of the templates mounts a claim.
MCServicesOf == [n \in Names |-> {primary, sibling}]
MCMountOf == [t \in Templates |-> IF t = stateful THEN data ELSE None]

\* Tenants, requests and the two Services differ in nothing but their names.
Symmetry ==
  Permutations(Tenants) \cup Permutations(Requests) \cup Permutations(Services)
=============================================================================

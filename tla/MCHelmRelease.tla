--------------------------- MODULE MCHelmRelease ----------------------------
(* Instances of HelmRelease for TLC.                                       *)
EXTENDS HelmRelease

CONSTANTS r1, r2, big, small, web, config, old

\* Chart big has two objects, a ConfigMap among them; small drops one of each.
MCObjectsOf ==
  [c \in Charts |-> IF c = big THEN {web, config, old} ELSE {web}]
=============================================================================

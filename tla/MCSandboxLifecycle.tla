------------------------- MODULE MCSandboxLifecycle -------------------------
(* Instances of SandboxLifecycle for TLC.                                  *)
EXTENDS SandboxLifecycle

CONSTANTS a, c1, c2, c3, d1, d2, k, w, s1, s2

\* The creators c1 and c2 and the deleter d1 are agent sessions; d2 and c3 are
\* the tenant console, and the cascade k deletes the session s1.
MCSessionOf ==
  [r \in Creators \cup Deleters \cup Cascades |->
     IF r \in {c1, d1, k} THEN s1 ELSE IF r = c2 THEN s2 ELSE Console]
=============================================================================

--------------------------- MODULE ReleaseHistory ---------------------------
(***************************************************************************)
(* What a Helm release promises its users: a current revision, and the     *)
(* newest HistoryMax revisions to roll back to, each with the chart it     *)
(* deployed.  Every operation happens at once.                             *)
(***************************************************************************)
EXTENDS Integers, FiniteSets

CONSTANTS
  Charts,      \* what a revision deploys: a rendered chart and its values
  None,        \* no chart
  Revisions,   \* the revision numbers, 1 upwards
  HistoryMax   \* how many revisions are kept; <= 0 keeps all of them

VARIABLES
  current,     \* the current revision, 0 when the release does not exist
  history      \* the chart of each revision that is kept, or None

\* The newest HistoryMax of a set of revision numbers.
Newest(S) ==
  IF HistoryMax <= 0 THEN S
  ELSE {n \in S : Cardinality({m \in S : m > n}) < HistoryMax}

Kept(h) == {n \in Revisions : h[n] # None}

\* The revisions from h that remain, and nothing else.
Trim(h) == [n \in Revisions |-> IF n \in Newest(Kept(h)) THEN h[n] ELSE None]

Init ==
  /\ current \in Revisions \cup {0}
  /\ history \in [Revisions -> Charts \cup {None}]
  /\ Kept(history) = Newest(1..current)

Record(c) ==
  /\ current + 1 \in Revisions
  /\ current' = current + 1
  /\ history' = Trim([history EXCEPT ![current + 1] = c])

Deploy == \E c \in Charts : Record(c)

Rollback ==
  /\ current # 0
  /\ \E n \in Kept(history) : Record(history[n])

Uninstall ==
  /\ current' = 0
  /\ history' = [n \in Revisions |-> None]

Next == Deploy \/ Rollback \/ Uninstall

Spec == Init /\ [][Next]_<<current, history>>
=============================================================================

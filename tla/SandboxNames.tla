---------------------------- MODULE SandboxNames ----------------------------
(***************************************************************************)
(* What the sandbox manager promises about names when each of its calls is *)
(* taken as a whole: a name is free or held by one create; Create takes a  *)
(* free name, or is denied and takes nothing; and a name becomes free only *)
(* by a delete.  Every operation happens at once.                          *)
(***************************************************************************)
CONSTANTS
  Names,     \* sandbox names
  Creators,  \* CreateSandbox requests
  None       \* nobody; no answer

VARIABLES
  holder,    \* the create each name is held by, or None
  answer     \* what each create was told: "granted", "denied", or None yet

Init ==
  /\ holder = [n \in Names |-> None]
  /\ answer = [c \in Creators |-> None]

Answered(c, a) == answer[c] = None /\ answer' = [answer EXCEPT ![c] = a]

Grant(c, n) ==
  /\ Answered(c, "granted")
  /\ holder[n] = None
  /\ holder' = [holder EXCEPT ![n] = c]

\* The name is taken or being taken, or the cluster refuses the sandbox.
Deny(c) == Answered(c, "denied") /\ UNCHANGED holder

Release(n) ==
  /\ holder[n] # None
  /\ holder' = [holder EXCEPT ![n] = None]
  /\ UNCHANGED answer

Next ==
  \/ \E c \in Creators : Deny(c) \/ \E n \in Names : Grant(c, n)
  \/ \E n \in Names : Release(n)

Spec == Init /\ [][Next]_<<holder, answer>>
=============================================================================

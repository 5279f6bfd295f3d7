-------------------------- MODULE SandboxLifecycle --------------------------
(***************************************************************************)
(* The life of a sandbox: three Kubernetes objects under one resource name *)
(* (a bearer-token Secret, the worker Pod, the Service in front of it),    *)
(* created and deleted one API call at a time by requests that hold no     *)
(* lock: CreateSandbox, DeleteSandbox, the session-delete cascade and the  *)
(* idle reaper.  Every action below is one API call of one request.        *)
(*                                                                         *)
(* A creation is identified by the request that makes it: the bearer token *)
(* it mints is modelled by the request itself (tokens are 32 random bytes).*)
(***************************************************************************)
EXTENDS FiniteSets

CONSTANTS
  Names,      \* sandbox resource names
  Creators,   \* CreateSandbox requests (each runs once)
  Deleters,   \* callers of DeleteSandbox (each may call it again and again)
  Cascades,   \* callers that delete a session (deleteSessionCascade)
  Reapers,    \* reaper loops
  Sessions,   \* agent sessions
  Console,    \* the tenant console: a caller without a session header
  SessionOf,  \* the session each creator, deleter or cascade speaks for
  None,       \* the absent object
  Faults,     \* which failures the environment may inject
  Exclusive   \* TRUE: callers run a delete of a name alone (see MayDelete)

Requests == Creators \cup Deleters \cup Cascades \cup Reapers

(***************************************************************************)
(* The failures: a rejected create (quota, admission), of the Secret or    *)
(* Pod and of the Service; a best-effort delete that is lost; a request    *)
(* whose context is cancelled or whose gateway dies; a pod that outlives   *)
(* the 30 s wait of Delete; a pod removed behind the gateway's back.       *)
(***************************************************************************)
FaultKinds ==
  {"reject", "rejectService", "drop", "abandon", "slow", "evict"}

ASSUME RequestsAssumption ==
  /\ Creators \cap (Deleters \cup Cascades \cup Reapers) = {}
  /\ Deleters \cap (Cascades \cup Reapers) = {}
  /\ Cascades \cap Reapers = {}

ASSUME SessionsAssumption ==
  /\ Console \notin Sessions
  /\ SessionOf \in [Creators \cup Deleters \cup Cascades
                      -> Sessions \cup {Console}]
  /\ \A c \in Cascades : SessionOf[c] # Console

ASSUME EnvironmentAssumption ==
  /\ Faults \subseteq FaultKinds
  /\ Exclusive \in BOOLEAN

VARIABLES
  secret,  \* per name: the creator whose token the Secret carries, or None
  pod,     \* per name: the Pod, or None
  svc,     \* per name: whether the Service exists
  pc,      \* per request: the API call it makes next
  arg,     \* per request: the name it works on
  todo     \* per cascade or reaper: the listed names still to be handled

objs == <<secret, pod, svc>>
vars == <<secret, pod, svc, pc, arg, todo>>

-----------------------------------------------------------------------------
(* Types.                                                                  *)

Phases == {"pending", "running", "failed", "terminating"}

\* No job within the TTL, a running one, or one finished within the TTL.
Jobs == {"idle", "running", "recent"}

\* old: the pod has existed for the idle TTL.
Pods == [token : Creators, phase : Phases, old : BOOLEAN, job : Jobs]

ASSUME NoneAssumption == None \notin Creators \cup Names \cup Pods

\* Create's API calls, in order, and the calls that undo a half-made sandbox.
Creating == {"secret", "pod", "svc", "wait", "undoPod", "undoSecret"}
Created  == {"ok", "unready", "refused", "failed", "gone"}
\* Delete's API calls, in order; "get" decides whether there is a sandbox.
Deleting == {"dsvc", "dsecret", "dpod", "dwait"}

PCs == {"idle", "loop", "get"} \cup Creating \cup Created \cup Deleting

TypeOK ==
  /\ secret \in [Names -> Creators \cup {None}]
  /\ pod \in [Names -> Pods \cup {None}]
  /\ svc \in [Names -> BOOLEAN]
  /\ pc \in [Requests -> PCs]
  /\ arg \in [Requests -> Names \cup {None}]
  /\ todo \in [Requests -> SUBSET Names]

-----------------------------------------------------------------------------
(* Helpers.                                                                *)

Fault(f) == f \in Faults

Goto(r, next) == pc' = [pc EXCEPT ![r] = next]

Live(n) == pod[n] # None /\ pod[n].phase # "terminating"

\* Some creation of n is between its first API call and its answer.
InCreation(n) == \E c \in Creators : arg[c] = n /\ pc[c] \in Creating

\* Some deletion of n is past its existence check.
InDeletion(n) == \E r \in Requests : arg[r] = n /\ pc[r] \in Deleting

\* The worker of n answers a call made with the token its Secret carries.
Reachable(n) ==
  /\ pod[n] # None /\ pod[n].phase = "running"
  /\ svc[n]
  /\ secret[n] = pod[n].token

\* A DELETE of the Pod: it terminates, and disappears later.
Terminate(n) ==
  pod' = IF pod[n] = None THEN pod ELSE [pod EXCEPT ![n].phase = "terminating"]

\* The gateway takes no lock.  With Exclusive the CALLERS are disciplined: a
\* delete of n starts only when no create and no other delete of n is in flight.
MayDelete(n) == Exclusive => ~InCreation(n) /\ ~InDeletion(n)

Init ==
  /\ secret = [n \in Names |-> None]
  /\ pod = [n \in Names |-> None]
  /\ svc = [n \in Names |-> FALSE]
  /\ pc = [r \in Requests |-> "idle"]
  /\ arg = [r \in Requests |-> None]
  /\ todo = [r \in Requests |-> {}]

-----------------------------------------------------------------------------
(* CreateSandbox: the service's early refusal, Create, WaitReady.          *)

CreateCheck(r, n) ==
  /\ pc[r] = "idle"
  /\ arg' = [arg EXCEPT ![r] = n]
  /\ Goto(r, IF pod[n] = None THEN "secret" ELSE "refused")
  /\ UNCHANGED <<objs, todo>>

\* Mutant: the Secret is applied, not created, so an existing one is replaced.
CreateSecretApplies(r) ==
  /\ pc[r] = "secret"
  /\ secret' = [secret EXCEPT ![arg[r]] = r]
  /\ Goto(r, "pod")
  /\ UNCHANGED <<pod, svc, arg, todo>>

\* Mutant: one clean-up for every error, the refusal of the name included.
CreateSecretCleansUp(r) ==
  /\ pc[r] = "secret"
  /\ \/ /\ secret[arg[r]] = None
        /\ secret' = [secret EXCEPT ![arg[r]] = r]
        /\ Goto(r, "pod")
     \/ /\ secret[arg[r]] # None \/ Fault("reject")
        /\ Goto(r, "undoPod")
        /\ UNCHANGED secret
  /\ UNCHANGED <<pod, svc, arg, todo>>

CreateSecret(r) ==
  /\ pc[r] = "secret"
  /\ \/ /\ secret[arg[r]] = None
        /\ secret' = [secret EXCEPT ![arg[r]] = r]
        /\ Goto(r, "pod")
     \/ /\ secret[arg[r]] # None
        /\ Goto(r, "refused")
        /\ UNCHANGED secret
     \/ /\ Fault("reject")
        /\ Goto(r, "failed")
        /\ UNCHANGED secret
  /\ UNCHANGED <<pod, svc, arg, todo>>

NewPod(r) == [token |-> r, phase |-> "pending", old |-> FALSE, job |-> "idle"]

\* Mutant: a refused Pod does not take the Secret back.
CreatePodKeepsSecret(r) ==
  /\ pc[r] = "pod"
  /\ \/ /\ pod[arg[r]] = None
        /\ pod' = [pod EXCEPT ![arg[r]] = NewPod(r)]
        /\ Goto(r, "svc")
     \/ /\ pod[arg[r]] # None \/ Fault("reject")
        /\ Goto(r, "failed")
        /\ UNCHANGED pod
  /\ UNCHANGED <<secret, svc, arg, todo>>

CreatePod(r) ==
  /\ pc[r] = "pod"
  /\ \/ /\ pod[arg[r]] = None
        /\ pod' = [pod EXCEPT ![arg[r]] = NewPod(r)]
        /\ Goto(r, "svc")
     \/ /\ pod[arg[r]] # None \/ Fault("reject")
        /\ Goto(r, "undoSecret")
        /\ UNCHANGED pod
  /\ UNCHANGED <<secret, svc, arg, todo>>

CreateService(r) ==
  /\ pc[r] = "svc"
  /\ \/ /\ ~svc[arg[r]]
        /\ svc' = [svc EXCEPT ![arg[r]] = TRUE]
        /\ Goto(r, "wait")
     \/ /\ svc[arg[r]] \/ Fault("rejectService")
        /\ Goto(r, "undoPod")
        /\ UNCHANGED svc
  /\ UNCHANGED <<secret, pod, arg, todo>>

\* The two undo calls ignore their errors, and delete whatever has the name.
UndoPod(r) ==
  /\ pc[r] = "undoPod"
  /\ Terminate(arg[r]) \/ (Fault("drop") /\ UNCHANGED pod)
  /\ Goto(r, "undoSecret")
  /\ UNCHANGED <<secret, svc, arg, todo>>

UndoSecret(r) ==
  /\ pc[r] = "undoSecret"
  /\ \/ secret' = [secret EXCEPT ![arg[r]] = None]
     \/ Fault("drop") /\ UNCHANGED secret
  /\ Goto(r, "failed")
  /\ UNCHANGED <<pod, svc, arg, todo>>

\* Mutant: the wait has no timeout and does not notice a failed pod.
WaitReadyForever(r) ==
  /\ pc[r] = "wait"
  /\ pod[arg[r]] # None /\ pod[arg[r]].phase = "running" /\ svc[arg[r]]
  /\ Goto(r, "ok")
  /\ UNCHANGED <<objs, arg, todo>>

\* Ready when the pod runs and both it and its Service accept a connection; a
\* failed pod or the timeout ends the wait and leaves the sandbox in place.
WaitReady(r) ==
  /\ pc[r] = "wait"
  /\ \/ /\ pod[arg[r]] # None /\ pod[arg[r]].phase = "running" /\ svc[arg[r]]
        /\ Goto(r, "ok")
     \/ Goto(r, "unready")
  /\ UNCHANGED <<objs, arg, todo>>

-----------------------------------------------------------------------------
(* Delete, shared by DeleteSandbox, the cascade and the reaper.            *)

\* Where a request goes on when its Delete of one sandbox has returned.
Back(r) == IF r \in Deleters THEN "idle" ELSE "loop"

\* Mutant: a pod that does not run yet counts as absent.
DeleteGetRunning(r) ==
  /\ pc[r] = "get"
  /\ LET found == pod[arg[r]] # None /\ pod[arg[r]].phase # "pending"
     IN \/ ~found /\ Goto(r, Back(r))
        \/ found /\ MayDelete(arg[r]) /\ Goto(r, "dsvc")
  /\ UNCHANGED <<objs, arg, todo>>

DeleteGet(r) ==
  /\ pc[r] = "get"
  /\ \/ pod[arg[r]] = None /\ Goto(r, Back(r))
     \/ pod[arg[r]] # None /\ MayDelete(arg[r]) /\ Goto(r, "dsvc")
  /\ UNCHANGED <<objs, arg, todo>>

\* Mutant: the Service is forgotten.
DeleteServiceSkipped(r) ==
  /\ pc[r] = "dsvc"
  /\ Goto(r, "dsecret")
  /\ UNCHANGED <<objs, arg, todo>>

DeleteService(r) ==
  /\ pc[r] = "dsvc"
  /\ \/ svc' = [svc EXCEPT ![arg[r]] = FALSE]
     \/ Fault("drop") /\ UNCHANGED svc
  /\ Goto(r, "dsecret")
  /\ UNCHANGED <<secret, pod, arg, todo>>

\* Mutant: the Secret is forgotten.
DeleteSecretSkipped(r) ==
  /\ pc[r] = "dsecret"
  /\ Goto(r, "dpod")
  /\ UNCHANGED <<objs, arg, todo>>

DeleteSecret(r) ==
  /\ pc[r] = "dsecret"
  /\ \/ secret' = [secret EXCEPT ![arg[r]] = None]
     \/ Fault("drop") /\ UNCHANGED secret
  /\ Goto(r, "dpod")
  /\ UNCHANGED <<pod, svc, arg, todo>>

\* The only call of the three whose error is returned (and ends the Delete).
DeletePod(r) ==
  /\ pc[r] = "dpod"
  /\ \/ Terminate(arg[r]) /\ Goto(r, "dwait")
     \/ Fault("drop") /\ Goto(r, Back(r)) /\ UNCHANGED pod
  /\ UNCHANGED <<secret, svc, arg, todo>>

\* Mutant: the wait for the pod to disappear has no deadline.
DeleteWaitForever(r) ==
  /\ pc[r] = "dwait"
  /\ pod[arg[r]] = None
  /\ Goto(r, Back(r))
  /\ UNCHANGED <<objs, arg, todo>>

\* Polls until the pod is gone, for 30 s: long enough for a terminating pod,
\* unless the pod is slow; a pod created since under the name is waited out.
DeleteWait(r) ==
  /\ pc[r] = "dwait"
  /\ pod[arg[r]] = None \/ Live(arg[r]) \/ Fault("slow")
  /\ Goto(r, Back(r))
  /\ UNCHANGED <<objs, arg, todo>>

-----------------------------------------------------------------------------
(* The callers of Delete.                                                  *)

Accessible(r, n) ==
  /\ pod[n] # None
  /\ SessionOf[r] \in {Console, SessionOf[pod[n].token]}

DeleteSandbox(r, n) ==
  /\ pc[r] = "idle"
  /\ Accessible(r, n)
  /\ arg' = [arg EXCEPT ![r] = n]
  /\ Goto(r, "get")
  /\ UNCHANGED <<objs, todo>>

\* Bound by annotation; a sandbox without a session is matched by its name.
OfSession(n, s) ==
  /\ pod[n] # None
  /\ \/ SessionOf[pod[n].token] = s
     \/ SessionOf[pod[n].token] = Console /\ n = s

CascadeList(r) ==
  /\ pc[r] = "idle"
  /\ todo' = [todo EXCEPT ![r] = {n \in Names : OfSession(n, SessionOf[r])}]
  /\ Goto(r, "loop")
  /\ UNCHANGED <<objs, arg>>

CascadeNext(r, n) ==
  /\ pc[r] = "loop" /\ n \in todo[r]
  /\ todo' = [todo EXCEPT ![r] = @ \ {n}]
  /\ arg' = [arg EXCEPT ![r] = n]
  /\ Goto(r, "get")
  /\ UNCHANGED objs

\* The age is taken from the listing: a young pod is dropped here.
ReapList(r) ==
  /\ pc[r] = "idle"
  /\ todo' = [todo EXCEPT ![r] = {n \in Names : pod[n] # None /\ pod[n].old}]
  /\ Goto(r, "loop")
  /\ UNCHANGED <<objs, arg>>

\* A worker that cannot be inspected is not idle.
Idle(n) == Reachable(n) /\ pod[n].job = "idle"

ReapCheck(r, n) ==
  /\ pc[r] = "loop" /\ n \in todo[r]
  /\ todo' = [todo EXCEPT ![r] = @ \ {n}]
  /\ \/ Idle(n) /\ arg' = [arg EXCEPT ![r] = n] /\ Goto(r, "get")
     \/ ~Idle(n) /\ UNCHANGED <<arg, pc>>
  /\ UNCHANGED objs

SweepEnd(r) ==
  /\ pc[r] = "loop" /\ todo[r] = {}
  /\ Goto(r, "idle")
  /\ UNCHANGED <<objs, arg, todo>>

\* The request's context is cancelled, or its gateway dies: its remaining
\* calls, the undo calls included, have no effect.
Abandon(r) ==
  /\ Fault("abandon")
  /\ pc[r] \notin Created \cup {"idle"}
  /\ Goto(r, IF r \in Creators THEN "gone" ELSE "idle")
  /\ todo' = [todo EXCEPT ![r] = {}]
  /\ UNCHANGED <<objs, arg>>

-----------------------------------------------------------------------------
(* The cluster and the agent that uses the sandbox.                        *)

SetPhase(n, from, to) ==
  /\ pod[n] # None /\ pod[n].phase \in from
  /\ pod' = [pod EXCEPT ![n].phase = to]
  /\ UNCHANGED <<secret, svc, pc, arg, todo>>

PodRuns(n) == SetPhase(n, {"pending"}, "running")

PodFails(n) == SetPhase(n, {"pending", "running"}, "failed")

\* A terminating pod disappears; eviction removes one that is not.
PodRemoved(n) ==
  /\ pod[n] # None
  /\ pod[n].phase = "terminating" \/ Fault("evict")
  /\ pod' = [pod EXCEPT ![n] = None]
  /\ UNCHANGED <<secret, svc, pc, arg, todo>>

\* A create is answered within a minute or so, long before any pod is old.
PodAges(n) ==
  /\ Live(n) /\ ~InCreation(n)
  /\ pod' = [pod EXCEPT ![n].old = TRUE]
  /\ UNCHANGED <<secret, svc, pc, arg, todo>>

\* A job is submitted to the worker, ends, and is forgotten a TTL later.
Job(n, from, to) ==
  /\ pod[n] # None /\ pod[n].phase = "running" /\ pod[n].job = from
  /\ pod' = [pod EXCEPT ![n].job = to]
  /\ UNCHANGED <<secret, svc, pc, arg, todo>>

JobStarts(n) == Reachable(n) /\ \E j \in {"idle", "recent"} : Job(n, j, "running")

JobEnds(n) == Job(n, "running", "recent")

JobForgotten(n) == pod[n] # None /\ pod[n].old /\ Job(n, "recent", "idle")

-----------------------------------------------------------------------------
CreatorStep(r) ==
  \/ CreateSecret(r) \/ CreatePod(r) \/ CreateService(r)
  \/ WaitReady(r) \/ UndoPod(r) \/ UndoSecret(r)

DeleteStep(r) ==
  \/ DeleteGet(r) \/ DeleteService(r) \/ DeleteSecret(r)
  \/ DeletePod(r) \/ DeleteWait(r)

CascadeStep(r) == SweepEnd(r) \/ \E n \in Names : CascadeNext(r, n)

ReaperStep(r) == SweepEnd(r) \/ \E n \in Names : ReapCheck(r, n)

ClusterStep(n) ==
  \/ PodRuns(n) \/ PodFails(n) \/ PodRemoved(n) \/ PodAges(n)
  \/ JobStarts(n) \/ JobEnds(n) \/ JobForgotten(n)

Next ==
  \/ \E r \in Creators : CreatorStep(r) \/ \E n \in Names : CreateCheck(r, n)
  \/ \E r \in Requests \ Creators : DeleteStep(r)
  \/ \E r \in Deleters, n \in Names : DeleteSandbox(r, n)
  \/ \E r \in Cascades : CascadeList(r) \/ CascadeStep(r)
  \/ \E r \in Reapers : ReapList(r) \/ ReaperStep(r)
  \/ \E r \in Requests : Abandon(r)
  \/ \E n \in Names : ClusterStep(n)

Spec == Init /\ [][Next]_vars

(***************************************************************************)
(* Fairness: a request's goroutine keeps running, the reaper's ticker keeps*)
(* firing and the kubelet removes a terminating pod.  Nobody has to make a *)
(* request, and no pod has to become ready.                                *)
(***************************************************************************)
Fairness ==
  /\ \A r \in Creators : WF_vars(CreatorStep(r))
  /\ \A r \in Requests \ Creators : WF_vars(DeleteStep(r))
  /\ \A r \in Cascades : WF_vars(CascadeStep(r))
  /\ \A r \in Reapers : WF_vars(ReapList(r) \/ ReaperStep(r))
  /\ \A n \in Names :
       WF_vars(pod[n] # None /\ pod[n].phase = "terminating" /\ PodRemoved(n))

FairSpec == Spec /\ Fairness

-----------------------------------------------------------------------------
(* Properties.                                                             *)

\* Create's undo paths work: a CreateSandbox that has answered with an error
\* of Create leaves neither its Secret nor its Pod behind, whatever other
\* creates and deletes of the name ran meanwhile.
FailedCreateLeavesNothing ==
  \A r \in Creators, n \in Names :
    pc[r] \in {"refused", "failed"} =>
      secret[n] # r /\ ~(Live(n) /\ pod[n].token = r)

\* Complete: once its create has answered and while nobody deletes it, a live
\* pod has its Service, and the Secret that Resolve reads has its token.
SandboxUsable ==
  \A n \in Names :
    Live(n) /\ ~InDeletion(n) /\ pc[pod[n].token] \notin Creating =>
      svc[n] /\ secret[n] = pod[n].token

\* A name is either free or deletable: when no request is working on it and
\* it has no Pod, so that Delete would answer "not found", it has no Secret
\* and no Service either, so that Create is not refused.
NoOrphans ==
  \A n \in Names :
    pod[n] = None /\ ~InCreation(n) /\ ~InDeletion(n) =>
      secret[n] = None /\ ~svc[n]

\* Create leaves an existing sandbox untouched: a live pod is terminated by a
\* Delete of its name, or by the undo of the very create that made it.
NoForeignKill ==
  [][\A n \in Names :
       Live(n) /\ pod'[n] # None /\ pod'[n].phase = "terminating" =>
         \/ \E r \in Requests : arg[r] = n /\ pc[r] = "dpod"
         \/ pc[pod[n].token] = "undoPod"]_vars

\* Resolve never hands out a token that the worker of the name rejects, even
\* after deletes that stopped halfway: a settled pod's Secret carries its own
\* token, or is missing, unless a create of the name was cut off itself.
TokensAgree ==
  \A n \in Names :
    /\ Live(n) /\ ~InDeletion(n) /\ ~InCreation(n)
    /\ \A c \in Creators : arg[c] = n => pc[c] # "gone"
    => secret[n] \in {pod[n].token, None}

\* The reaper reclaims a sandbox only after a full idle day, and running or
\* recent jobs keep it alive: what it terminates is old and has no such job.
ReapsOnlyIdle ==
  [][\A r \in Reapers :
       pc[r] = "dpod" /\ pc'[r] = "dwait" /\ Live(arg[r]) =>
         pod[arg[r]].old /\ pod[arg[r]].job = "idle"]_vars

\* An agent session only touches sandboxes bound to its own session: the pod
\* a DeleteSandbox call terminates belongs to the session that made the call.
SessionIsolation ==
  [][\A r \in Deleters :
       pc[r] = "dpod" /\ pc'[r] = "dwait" /\ Live(arg[r]) =>
         SessionOf[r] \in {Console, SessionOf[pod[arg[r]].token]}]_vars

\* Every CreateSandbox call is answered.
CreatesEnd == \A r \in Creators : pc[r] \in Creating ~> pc[r] \in Created

\* Deleting a session reclaims its sandboxes: each one that the cascade has
\* listed stops living (even if others of the same name come after it).
CascadeReclaims ==
  \A r \in Cascades, n \in Names, c \in Creators :
    n \in todo[r] /\ Live(n) /\ pod[n].token = c
      ~> ~(Live(n) /\ pod[n].token = c)

\* No old sandbox stays idle forever: the reaper gets it.
IdleReclaimed == \A n \in Names : []<>~(Idle(n) /\ pod[n].old)

\* CreateSandbox and DeleteSandbox are atomic to those who respect Exclusive,
\* though each is several API calls: a name is held from the Service's creation
\* to its deletion, by the create whose token the Secret carries.
Holder == [n \in Names |-> IF svc[n] THEN secret[n] ELSE None]

\* An answer is settled when the Service exists, or the create is refused.
Answer ==
  [c \in Creators |->
     IF pc[c] \in {"wait", "ok", "unready"} THEN "granted"
     ELSE IF pc[c] \in {"refused", "failed"} THEN "denied" ELSE None]

Registry == INSTANCE SandboxNames WITH holder <- Holder, answer <- Answer

\* A create that succeeds took a free name, one that fails took nothing, and
\* only a delete frees a name (k8s.go Create, Delete as whole operations).
NamesKept == Registry!Spec
=============================================================================

--------------------------- MODULE ManagedService ---------------------------
(***************************************************************************)
(* Managed services and the volume claims they mount.  A service is a      *)
(* Deployment and one Service per port group, all found again by name and  *)
(* label.  Every request first reads the Deployment to see whose it is,    *)
(* and then works with calls of its own.  Scale, pause, resume and         *)
(* rollback send back the Deployment they read, with its resourceVersion;  *)
(* deploy and apply overwrite what they find.  The namespace also holds    *)
(* Deployments that nobody owns: a chart's, or made by hand.               *)
(***************************************************************************)
EXTENDS Integers, FiniteSets

CONSTANTS
  Requests,     \* callers of the service and claim RPCs
  Names,        \* service names
  Services,     \* names of Service objects
  ServicesOf,   \* those that each service's port groups may have
  Templates,    \* pod templates
  Claims,       \* volume claims
  MountOf,      \* the claim that each template mounts, or None
  Tenants,      \* who calls
  None,         \* no object, no annotation, no claim
  MaxReplicas,  \* bound of the model: the largest replica count asked for
  Operations,   \* what callers ask for (see Kinds)
  Faults,       \* which failures may happen (see FaultKinds)
  Exclusive     \* TRUE: callers run one Structural request at a time

\* A request that stops at any call, for an error that the code returns or
\* because its context or the gateway ends; a delete whose error the code
\* ignores; a read whose failure counts as "nothing there".
FaultKinds == {"abandon", "drop", "blind"}

Counted    == {"scale", "pause", "resume"}
Structural == {"deploy", "apply", "rollback", "delete", "createPVC", "deletePVC"}
Kinds      == Counted \cup Structural

ASSUME NamesAssumption ==
  /\ ServicesOf \in [Names -> SUBSET Services]
  /\ MountOf \in [Templates -> Claims \cup {None}]
  /\ None \notin Names \cup Templates \cup Claims \cup Tenants \cup Int

ASSUME BoundsAssumption == MaxReplicas \in Nat \ {0}

ASSUME EnvironmentAssumption ==
  /\ Operations \subseteq Kinds
  /\ Faults \subseteq FaultKinds
  /\ Exclusive \in BOOLEAN

VARIABLES
  dep,   \* the Deployment of each service, or None
  svc,   \* each Service object, or None
  pvc,   \* the creator of each claim, or None
  past,  \* the templates of each Deployment's ReplicaSets
  pc,    \* per request: the call it makes next
  op,    \* per request: what it was asked, and by whom
  copy,  \* per request: the Deployment it will send back, or None if by now
         \* somebody else has written it, so that the update is a conflict
  left   \* per request: the Services the loop it is in has still to handle

store == <<dep, svc, pvc, past>>
vars == <<dep, svc, pvc, past, pc, op, copy, left>>

-----------------------------------------------------------------------------
(* Types.                                                                  *)

\* creator: its owner, or None.  managed: it has the label of a service.
\* marker: the replica count remembered by Pause; it is there when, and only
\* when, the service is paused.
Deployments ==
  [creator : Tenants \cup {None}, managed : BOOLEAN, tmpl : Templates,
   replicas : 0..MaxReplicas, marker : 1..MaxReplicas \cup {None}]

\* Those that did not come from this program.
Unowned == {d \in Deployments : d.creator = None /\ d.marker = None}

\* of: the service it is labelled with (and routes to).  Somebody else's
\* Service has no label.
ServiceObjects ==
  [of : Names \cup {None}, creator : Tenants \cup {None}]

Foreign == [of |-> None, creator |-> None]

\* creator: the owner that a deploy will write, or that an apply has read.
Ops ==
  [kind : Kinds, tenant : Tenants, name : Names \cup {None},
   claim : Claims \cup {None}, tmpl : Templates \cup {None},
   ports : SUBSET Services, creator : Tenants \cup {None}]

PCs == {"idle", "check", "volume", "ports", "deploy", "expose", "get", "update",
        "revision", "apply", "list", "unexpose", "remove",
        "claim", "create", "mounted", "unclaim"}

ASSUME NoneAssumption ==
  None \notin Deployments \cup ServiceObjects \cup Ops

TypeOK ==
  /\ dep \in [Names -> Deployments \cup {None}]
  /\ svc \in [Services -> ServiceObjects \cup {None}]
  /\ pvc \in [Claims -> Tenants \cup {None}]
  /\ past \in [Names -> SUBSET Templates]
  /\ pc \in [Requests -> PCs]
  /\ op \in [Requests -> Ops \cup {None}]
  /\ copy \in [Requests -> Deployments \cup {None}]
  /\ left \in [Requests -> SUBSET Services]

-----------------------------------------------------------------------------
(* Helpers.                                                                *)

Fault(f) == f \in Faults

Busy(r) == pc[r] # "idle"

Goto(r, next) == pc' = [pc EXCEPT ![r] = next]

\* The request's own part of the state when it returns.
Leave(r) ==
  /\ Goto(r, "idle")
  /\ op' = [op EXCEPT ![r] = None]
  /\ left' = [left EXCEPT ![r] = {}]

\* It returns, with or without an error, and has written nothing.
Return(r) ==
  /\ Leave(r)
  /\ copy' = [copy EXCEPT ![r] = None]
  /\ UNCHANGED store

\* Mutant: the update carries no resourceVersion.
Unversioned(r, n, d) == [copy EXCEPT ![r] = None]

\* What the copies are worth once request r has written Deployment n.
Outdated(r, n, d) ==
  [q \in Requests |->
     IF q = r \/ (op[q] # None /\ op[q].name = n /\ dep[n] # d)
     THEN None ELSE copy[q]]

Write(r, n, d) ==
  /\ dep' = [dep EXCEPT ![n] = d]
  /\ copy' = Outdated(r, n, d)

\* The strict test, and the lax one that lets anybody pass where nobody owns.
Writable(d, tenant) == d # None /\ d.creator = tenant

OwnedService(d, tenant) == d # None /\ d.creator \in {tenant, None}

\* Mutant: only services with replicas count.
MountedByRunning(v) ==
  {n \in Names : dep[n] # None /\ dep[n].managed /\ MountOf[dep[n].tmpl] = v
                   /\ dep[n].replicas > 0}

\* An unlabelled Deployment is not listed.
MountedBy(v) ==
  {n \in Names : dep[n] # None /\ dep[n].managed /\ MountOf[dep[n].tmpl] = v}

\* Paused or not, the number of replicas the service has when it runs.
Count(d) == IF d.marker = None THEN d.replicas ELSE d.marker

-----------------------------------------------------------------------------
Init ==
  /\ dep \in [Names -> Unowned \cup {None}]
  /\ svc \in [Services -> {None, Foreign}]
  /\ pvc = [v \in Claims |-> None]
  /\ past = [n \in Names |-> {}]
  /\ pc = [r \in Requests |-> "idle"]
  /\ op = [r \in Requests |-> None]
  /\ copy = [r \in Requests |-> None]
  /\ left = [r \in Requests |-> {}]

Begin(r) ==
  /\ pc[r] = "idle"
  /\ \E k \in Operations, t \in Tenants :
       /\ (Exclusive /\ k \in Structural) =>
            \A q \in Requests : Busy(q) => op[q].kind \in Counted
       /\ \E n \in Names \cup {None}, v \in Claims \cup {None} :
            /\ IF k \in {"createPVC", "deletePVC"}
               THEN n = None /\ v # None /\ Goto(r, "claim")
               ELSE n # None /\ v = None /\ Goto(r, "check")
            /\ op' = [op EXCEPT ![r] =
                 [kind |-> k, tenant |-> t, name |-> n, claim |-> v,
                  tmpl |-> None, ports |-> {}, creator |-> None]]
  /\ UNCHANGED <<store, copy, left>>

-----------------------------------------------------------------------------
(* Whose is it?                                                            *)

\* The ownership guard of a deploy: a service that exists must be the caller's;
\* a read that fails counts as no service.
CheckDeploy(r) ==
  /\ pc[r] = "check" /\ op[r].kind = "deploy"
  /\ LET d == dep[op[r].name]
     IN  \/ /\ d = None \/ Writable(d, op[r].tenant) \/ Fault("blind")
            /\ \E t \in Templates, s \in SUBSET ServicesOf[op[r].name] :
                 /\ s # {}
                 /\ op' = [op EXCEPT ![r] = [@ EXCEPT !.tmpl = t, !.ports = s,
                                                      !.creator = op[r].tenant]]
                 /\ left' = [left EXCEPT ![r] = s]
                 /\ Goto(r, IF MountOf[t] = None THEN "ports" ELSE "volume")
            /\ UNCHANGED <<store, copy>>
         \/ d # None /\ ~Writable(d, op[r].tenant) /\ Return(r)

\* The guard of the others; an apply and a rollback have the lax one.
May(d, tenant, kind) ==
  IF kind \in {"apply", "rollback"} THEN OwnedService(d, tenant) ELSE Writable(d, tenant)

Check(r) ==
  /\ pc[r] = "check" /\ op[r].kind # "deploy"
  /\ LET may == May(dep[op[r].name], op[r].tenant, op[r].kind)
     IN  \/ may /\ Goto(r, "get") /\ UNCHANGED <<store, op, copy, left>>
         \/ ~may /\ Return(r)

-----------------------------------------------------------------------------
(* Deploy.                                                                 *)

\* A mounted claim must exist and be the caller's.
ResolveVolume(r) ==
  /\ pc[r] = "volume"
  /\ \/ /\ pvc[MountOf[op[r].tmpl]] = op[r].tenant
        /\ Goto(r, "ports")
        /\ UNCHANGED <<store, op, copy, left>>
     \/ pvc[MountOf[op[r].tmpl]] # op[r].tenant /\ Return(r)

\* A Service that may be overwritten: a managed one of this tenant.
Ours(s, tenant) == s # None /\ s.of # None /\ s.creator = tenant

\* The conflict precheck of one Service.
CheckPort(r) ==
  /\ pc[r] = "ports"
  /\ \E s \in left[r] :
       \/ /\ svc[s] = None \/ Ours(svc[s], op[r].tenant)
          /\ \/ /\ left[r] # {s}
                /\ left' = [left EXCEPT ![r] = @ \ {s}]
                /\ UNCHANGED pc
             \/ /\ left[r] = {s}
                /\ left' = [left EXCEPT ![r] = op[r].ports]
                /\ Goto(r, "deploy")
          /\ UNCHANGED <<store, op, copy>>
       \/ svc[s] # None /\ ~Ours(svc[s], op[r].tenant) /\ Return(r)

\* Created, or overwritten: no marker, at least one replica.
DeployDeployment(r) ==
  /\ pc[r] = "deploy"
  /\ \E k \in 1..MaxReplicas :
       Write(r, op[r].name,
             [creator |-> op[r].creator, managed |-> TRUE, tmpl |-> op[r].tmpl,
              replicas |-> k, marker |-> None])
  /\ Goto(r, "expose")
  /\ UNCHANGED <<svc, pvc, past, op, left>>

\* One Service is created or overwritten.  A manifest's has whatever creator
\* annotation the manifest gives it, or none.
Expose(r) ==
  /\ pc[r] = "expose"
  /\ \E s \in left[r], c \in Tenants \cup {None} :
       /\ op[r].kind = "deploy" => c = op[r].creator
       /\ svc' = [svc EXCEPT ![s] = [of |-> op[r].name, creator |-> c]]
       /\ \/ left[r] = {s} /\ Leave(r)
          \/ /\ left[r] # {s}
             /\ left' = [left EXCEPT ![r] = @ \ {s}]
             /\ UNCHANGED <<pc, op>>
  /\ UNCHANGED <<dep, pvc, past, copy>>

-----------------------------------------------------------------------------
(* Requests on an existing service: the manager reads the Deployment again. *)

Get(r) ==
  /\ pc[r] = "get"
  /\ LET d == dep[op[r].name]
         k == op[r].kind
     IN  \/ /\ d # None
            /\ copy' = [copy EXCEPT ![r] = IF k \in {"apply", "delete"} THEN None ELSE d]
            /\ op' = [op EXCEPT ![r] =
                        IF k = "apply" THEN [@ EXCEPT !.creator = d.creator] ELSE @]
            /\ Goto(r, CASE k \in Counted    -> "update"
                         [] k = "rollback"   -> "revision"
                         [] k = "apply"      -> "apply"
                         [] k = "delete"     -> "list")
            /\ UNCHANGED <<store, left>>
         \/ d = None /\ Return(r)

\* Mutant: a count of zero is remembered as it is.
PausedAtZero(d) ==
  [d EXCEPT !.replicas = 0, !.marker = IF @ = None THEN d.replicas ELSE @]

Paused(d) ==
  [d EXCEPT !.replicas = 0,
            !.marker = IF @ # None THEN @ ELSE IF d.replicas < 1 THEN 1 ELSE d.replicas]

\* A service that is not paused gets one replica.
Resumed(d) ==
  [d EXCEPT !.replicas = IF d.marker = None THEN 1 ELSE d.marker, !.marker = None]

Scaled(d, k) == [d EXCEPT !.replicas = k, !.marker = None]

\* The Deployment that was read goes back, changed.
Update(r) ==
  /\ pc[r] = "update"
  /\ \/ /\ copy[r] # None
        /\ \/ op[r].kind = "pause" /\ Write(r, op[r].name, Paused(copy[r]))
           \/ op[r].kind = "resume" /\ Write(r, op[r].name, Resumed(copy[r]))
           \/ /\ op[r].kind = "scale"
              /\ \E k \in 0..MaxReplicas : Write(r, op[r].name, Scaled(copy[r], k))
        /\ Leave(r)
        /\ UNCHANGED <<svc, pvc, past>>
     \/ copy[r] = None /\ Return(r)

\* The template of an earlier ReplicaSet (revision 0: of the one before).
Revision(r) ==
  /\ pc[r] = "revision"
  /\ \/ /\ copy[r] # None
        /\ \E t \in past[op[r].name] :
             Write(r, op[r].name, [copy[r] EXCEPT !.tmpl = t])
        /\ Leave(r)
        /\ UNCHANGED <<svc, pvc, past>>
     \/ (copy[r] = None \/ past[op[r].name] = {}) /\ Return(r)

\* Mutant: the creator annotation of a manifest wins.
AppliedCreatorsAny(c) == Tenants \cup {None}

\* The creator after an apply over a Deployment of creator c: the owner stays;
\* where there is none, the manifest may name one.
AppliedCreators(c) == IF c = None THEN Tenants \cup {None} ELSE {c}

\* A manifest, as exported at some time and edited: its Deployment replaces
\* whatever is there, marker included, but for the owner, and gets the label;
\* the Services it names follow.
ApplyDeployment(r) ==
  /\ pc[r] = "apply"
  /\ \E c \in AppliedCreators(op[r].creator), t \in Templates,
        k \in 0..MaxReplicas, m \in 1..MaxReplicas \cup {None} :
       Write(r, op[r].name,
             [creator |-> c, managed |-> TRUE, tmpl |-> t, replicas |-> k, marker |-> m])
  /\ \/ Leave(r)
     \/ \E s \in SUBSET Services \ {{}} :
          /\ left' = [left EXCEPT ![r] = s]
          /\ Goto(r, "expose")
          /\ UNCHANGED op
  /\ UNCHANGED <<svc, pvc, past>>

-----------------------------------------------------------------------------
(* Delete: the Services labelled with the name, then the Deployment.       *)

\* Mutant: the Deployment goes first, then its Services.
DeploymentFirst(r) ==
  /\ pc[r] = "list"
  /\ Write(r, op[r].name, None)
  /\ past' = [past EXCEPT ![op[r].name] = {}]
  /\ left' = [left EXCEPT ![r] = {s \in Services : svc[s] # None /\ svc[s].of = op[r].name}]
  /\ Goto(r, IF left'[r] = {} THEN "remove" ELSE "unexpose")
  /\ UNCHANGED <<svc, pvc, op>>

ListServices(r) ==
  /\ pc[r] = "list"
  /\ LET listed == {s \in Services : svc[s] # None /\ svc[s].of = op[r].name}
     IN  \/ /\ listed # {}
            /\ left' = [left EXCEPT ![r] = listed]
            /\ Goto(r, "unexpose")
         \/ /\ listed = {} \/ Fault("blind")
            /\ Goto(r, "remove")
            /\ UNCHANGED left
  /\ UNCHANGED <<store, op, copy>>

DeleteService(r) ==
  /\ pc[r] = "unexpose"
  /\ \E s \in left[r] :
       /\ svc' = [svc EXCEPT ![s] = None] \/ (Fault("drop") /\ UNCHANGED svc)
       /\ left' = [left EXCEPT ![r] = @ \ {s}]
       /\ Goto(r, IF left[r] = {s} THEN "remove" ELSE "unexpose")
  /\ UNCHANGED <<dep, pvc, past, op, copy>>

\* The garbage collector takes the ReplicaSets with it.
DeleteDeployment(r) ==
  /\ pc[r] = "remove"
  /\ Write(r, op[r].name, None)
  /\ past' = [past EXCEPT ![op[r].name] = {}]
  /\ Leave(r)
  /\ UNCHANGED <<svc, pvc>>

-----------------------------------------------------------------------------
(* Volume claims.                                                          *)

\* Both start with a look at the claim: creating an own one again returns it.
CheckClaim(r) ==
  /\ pc[r] = "claim"
  /\ LET c == pvc[op[r].claim]
     IN  \/ /\ c = IF op[r].kind = "createPVC" THEN None ELSE op[r].tenant
            /\ Goto(r, IF op[r].kind = "createPVC" THEN "create" ELSE "mounted")
            /\ UNCHANGED <<store, op, copy, left>>
         \/ c # (IF op[r].kind = "createPVC" THEN None ELSE op[r].tenant) /\ Return(r)

CreateClaim(r) ==
  /\ pc[r] = "create"
  /\ \/ /\ pvc[op[r].claim] = None
        /\ pvc' = [pvc EXCEPT ![op[r].claim] = op[r].tenant]
        /\ Leave(r)
        /\ UNCHANGED <<dep, svc, past, copy>>
     \/ pvc[op[r].claim] # None /\ Return(r)

\* A listing that fails finds nothing mounted.
CheckMounted(r) ==
  /\ pc[r] = "mounted"
  /\ \/ /\ MountedBy(op[r].claim) = {} \/ Fault("blind")
        /\ Goto(r, "unclaim")
        /\ UNCHANGED <<store, op, copy, left>>
     \/ MountedBy(op[r].claim) # {} /\ Return(r)

DeleteClaim(r) ==
  /\ pc[r] = "unclaim"
  /\ pvc' = [pvc EXCEPT ![op[r].claim] = None]
  /\ Leave(r)
  /\ UNCHANGED <<dep, svc, past, copy>>

-----------------------------------------------------------------------------
(* The cluster.                                                            *)

\* The Deployment controller keeps a ReplicaSet for each template and writes
\* its number on the Deployment.
Rollout(n) ==
  /\ dep[n] # None
  /\ dep[n].tmpl \notin past[n]
  /\ past' = [past EXCEPT ![n] = @ \cup {dep[n].tmpl}]
  /\ copy' = [q \in Requests |->
                IF op[q] # None /\ op[q].name = n THEN None ELSE copy[q]]
  /\ UNCHANGED <<dep, svc, pvc, pc, op, left>>

Abandon(r) ==
  /\ Fault("abandon")
  /\ Busy(r)
  /\ Return(r)

Deploy(r) ==
  CheckDeploy(r) \/ ResolveVolume(r) \/ CheckPort(r) \/ DeployDeployment(r) \/ Expose(r)

Change(r) ==
  Check(r) \/ Get(r) \/ Update(r) \/ Revision(r) \/ ApplyDeployment(r)

Delete(r) ==
  ListServices(r) \/ DeleteService(r) \/ DeleteDeployment(r)

Claim(r) ==
  CheckClaim(r) \/ CreateClaim(r) \/ CheckMounted(r) \/ DeleteClaim(r)

Next ==
  \/ \E r \in Requests :
       Begin(r) \/ Deploy(r) \/ Change(r) \/ Delete(r) \/ Claim(r) \/ Abandon(r)
  \/ \E n \in Names : Rollout(n)

Spec == Init /\ [][Next]_vars

-----------------------------------------------------------------------------
(* Properties.                                                             *)

\* Nothing stays behind that Delete would not find: a labelled Service has its
\* Deployment, also after a request that ended half-way, since the Deployment is
\* made first and deleted last.
NoStrandedService ==
  (\A r \in Requests : Busy(r) => op[r].kind \in Counted) =>
    \A s \in Services :
      svc[s] # None /\ svc[s].of # None => dep[svc[s].of] # None

\* A claim is never deleted while a service mounts it, paused or not ("any
\* managed Deployment", services.go:893; what is not labelled does not count).
MountedClaimStays ==
  [][\A v \in Claims :
       pvc[v] # None /\ pvc'[v] = None =>
         \A n \in Names :
           dep[n] # None /\ dep[n].managed => MountOf[dep[n].tmpl] # v]_vars

\* What has an owner keeps it: a Deployment under every request, a Service (of
\* this tenant, of another, or not managed at all) under every deploy.  A
\* Deployment without an owner gets one only from an apply.
OwnersKept ==
  [][/\ \A n \in Names :
          dep[n] # None /\ dep'[n] # None /\ dep'[n].creator # dep[n].creator =>
            /\ dep[n].creator = None
            /\ \E r \in Requests : pc[r] = "apply" /\ op[r].name = n
     /\ \A r \in Requests, s \in Services :
          /\ pc[r] = "expose" /\ op[r].kind = "deploy"
          /\ svc[s] # None /\ svc'[s] # svc[s]
          => svc[s].creator = svc'[s].creator]_vars

\* "An UNOWNED object (creator "") is NOT writable by anyone" (service.go:3427).
\* The code breaks it: an apply and a rollback pass the lax test, and an apply
\* may even make its caller, or anybody, the owner.
UnownedUntouched ==
  [][\A n \in Names :
       dep[n] # None /\ dep[n].creator = None => dep'[n] = dep[n]]_vars

\* However scales, pauses and resumes overlap, each acts on the service as it is:
\* a pause keeps the count for the resume, a resume of a paused service brings
\* it back, and none of them touches the template.
PauseReversible ==
  [][\A r \in Requests :
       pc[r] = "update" /\ pc'[r] = "idle" /\ dep' # dep =>
         LET before == dep[op[r].name]
             after  == dep'[op[r].name]
         IN  /\ after.tmpl = before.tmpl
             /\ op[r].kind = "pause" =>
                  /\ after.replicas = 0 /\ after.marker # None
                  /\ Count(after) = IF Count(before) < 1 THEN 1 ELSE Count(before)
             /\ op[r].kind = "resume" /\ before.marker # None =>
                  after.marker = None /\ Count(after) = Count(before)]_vars
=============================================================================

------------------------ MODULE ManagedServiceProofs ------------------------
(***************************************************************************)
(* Proofs about ManagedService, for every set of requests, names, claims   *)
(* and tenants: the type invariant, and that pause and resume are inverse  *)
(* however requests overlap and fail; and, when deploys, deletes and claim *)
(* requests run one at a time and no ignored error occurs, that nothing is *)
(* stranded, no mounted claim is deleted and owners are kept.              *)
(***************************************************************************)
EXTENDS ManagedService, TLAPS

-----------------------------------------------------------------------------
(* The inductive invariants.                                               *)

ClaimKinds == {"createPVC", "deletePVC"}

\* Which requests make which calls, with what they know by then.
PcOK ==
  \A r \in Requests :
    /\ pc[r] = "idle" <=> op[r] = None
    /\ pc[r] \in {"claim", "create", "mounted", "unclaim"} =>
         op[r].kind \in ClaimKinds /\ op[r].claim \in Claims
    /\ pc[r] \in PCs \ {"idle", "claim", "create", "mounted", "unclaim"} =>
         op[r].kind \notin ClaimKinds /\ op[r].name \in Names
    /\ pc[r] \in {"volume", "ports", "deploy"} =>
         /\ op[r].kind = "deploy"
         /\ op[r].tmpl \in Templates
         /\ op[r].creator = op[r].tenant
         /\ left[r] \subseteq op[r].ports
    /\ pc[r] = "volume" => MountOf[op[r].tmpl] \in Claims
    /\ pc[r] = "get" => op[r].kind # "deploy"
    /\ pc[r] = "update" => op[r].kind \in Counted
    /\ pc[r] = "revision" => op[r].kind = "rollback"
    /\ pc[r] = "apply" => op[r].kind = "apply"
    /\ pc[r] = "expose" =>
         /\ op[r].kind \in {"deploy", "apply"}
         /\ op[r].kind = "deploy" =>
              op[r].creator = op[r].tenant /\ left[r] \subseteq op[r].ports
    /\ pc[r] \in {"list", "unexpose", "remove"} => op[r].kind = "delete"
    /\ pc[r] = "create" => op[r].kind = "createPVC"
    /\ pc[r] \in {"mounted", "unclaim"} => op[r].kind = "deletePVC"

\* A copy that can still be sent back is the Deployment as it is.
CopyCurrent ==
  \A r \in Requests :
    copy[r] # None =>
      /\ pc[r] \in {"update", "revision"}
      /\ copy[r] = dep[op[r].name]

TInv == TypeOK /\ PcOK /\ CopyCurrent

-----------------------------------------------------------------------------
(* Type correctness.                                                       *)

LEMMA ReturnTyped ==
  ASSUME TInv, NEW r \in Requests, Return(r)
  PROVE  TInv'
BY NoneAssumption
   DEF TInv, TypeOK, PcOK, CopyCurrent, Return, Leave, Goto, store, PCs

\* Writing a Deployment keeps the copies current.
LEMMA WriteTyped ==
  ASSUME TInv, NEW r \in Requests, NEW n \in Names,
         NEW d \in Deployments \cup {None}, Write(r, n, d), op[r] # None
  PROVE  /\ dep' \in [Names -> Deployments \cup {None}]
         /\ copy' \in [Requests -> Deployments \cup {None}]
         /\ dep'[n] = d
         /\ \A m \in Names : m # n => dep'[m] = dep[m]
         /\ copy'[r] = None
         /\ \A q \in Requests :
              copy'[q] # None =>
                /\ pc[q] \in {"update", "revision"} /\ copy'[q] = dep'[op[q].name]
                /\ copy'[q] = copy[q]
<1>1. /\ dep' \in [Names -> Deployments \cup {None}]
      /\ copy' \in [Requests -> Deployments \cup {None}]
      /\ dep'[n] = d
      /\ \A m \in Names : m # n => dep'[m] = dep[m]
      /\ copy'[r] = None
  BY DEF TInv, TypeOK, Write, Outdated
<1>2. ASSUME NEW q \in Requests, copy'[q] # None
      PROVE  /\ pc[q] \in {"update", "revision"} /\ copy'[q] = dep'[op[q].name]
             /\ copy'[q] = copy[q]
  <2>1. copy'[q] = copy[q] /\ (op[q].name = n => dep[n] = d)
    BY <1>2 DEF TInv, TypeOK, PcOK, Write, Outdated, CopyCurrent
  <2>2. op[q].name \in Names
    BY <1>2, <2>1 DEF TInv, TypeOK, PcOK, CopyCurrent, PCs
  <2> QED
    BY <1>1, <1>2, <2>1, <2>2 DEF TInv, CopyCurrent
<1> QED
  BY <1>1, <1>2

LEMMA BeginTyped ==
  ASSUME TInv, NEW r \in Requests, Begin(r)
  PROVE  TInv'
<1>1. PICK k \in Operations, t \in Tenants, n \in Names \cup {None},
           v \in Claims \cup {None} :
        /\ IF k \in ClaimKinds
           THEN n = None /\ v # None /\ Goto(r, "claim")
           ELSE n # None /\ v = None /\ Goto(r, "check")
        /\ op' = [op EXCEPT ![r] =
             [kind |-> k, tenant |-> t, name |-> n, claim |-> v,
              tmpl |-> None, ports |-> {}, creator |-> None]]
  BY DEF Begin, ClaimKinds
<1>2. [kind |-> k, tenant |-> t, name |-> n, claim |-> v,
       tmpl |-> None, ports |-> {}, creator |-> None] \in Ops
  BY EnvironmentAssumption DEF Ops
<1>3. copy[r] = None
  BY DEF TInv, CopyCurrent, Begin
<1>4. /\ op'[r] \in Ops /\ op'[r].kind = k /\ op'[r].name = n /\ op'[r].claim = v
      /\ \A q \in Requests \ {r} : op'[q] = op[q] /\ pc'[q] = pc[q]
      /\ pc'[r] = IF k \in ClaimKinds THEN "claim" ELSE "check"
      /\ UNCHANGED <<store, copy, left>>
  BY <1>1, <1>2 DEF TInv, TypeOK, Begin, Goto
<1>5. TypeOK'
  BY <1>1, <1>2, <1>4 DEF TInv, TypeOK, Goto, store, PCs
<1>6. PcOK'
  <2>1. k \in ClaimKinds => v \in Claims
    BY <1>1
  <2>2. k \notin ClaimKinds => n \in Names
    BY <1>1
  <2>3. op'[r] # None
    BY <1>4, NoneAssumption
  <2> QED
    BY <1>4, <2>1, <2>2, <2>3 DEF TInv, PcOK, PCs
<1>7. CopyCurrent'
  BY <1>3, <1>4 DEF TInv, CopyCurrent, store
<1> QED
  BY <1>5, <1>6, <1>7 DEF TInv

LEMMA CheckDeployTyped ==
  ASSUME TInv, NEW r \in Requests, CheckDeploy(r)
  PROVE  TInv'
<1>1. CASE Return(r)
  BY <1>1, ReturnTyped
<1>2. CASE ~Return(r)
  <2>1. op[r] \in Ops /\ op[r].name \in Names /\ op[r].kind = "deploy"
    BY NoneAssumption DEF TInv, TypeOK, PcOK, CheckDeploy, PCs
  <2>2. PICK t \in Templates, s \in SUBSET ServicesOf[op[r].name] :
          /\ op' = [op EXCEPT ![r] = [@ EXCEPT !.tmpl = t, !.ports = s,
                                               !.creator = op[r].tenant]]
          /\ left' = [left EXCEPT ![r] = s]
          /\ Goto(r, IF MountOf[t] = None THEN "ports" ELSE "volume")
          /\ UNCHANGED <<store, copy>>
    BY <1>2 DEF CheckDeploy
  <2>3. s \subseteq Services /\ MountOf[t] \in Claims \cup {None}
    BY <2>1, <2>2, NamesAssumption
  <2>4. /\ op'[r] \in Ops
        /\ op'[r].name = op[r].name /\ op'[r].kind = op[r].kind
        /\ op'[r].tmpl = t /\ op'[r].ports = s
        /\ op'[r].creator = op'[r].tenant
    <3>1. op'[r] = [op[r] EXCEPT !.tmpl = t, !.ports = s, !.creator = op[r].tenant]
      BY <2>2 DEF TInv, TypeOK
    <3> QED
      BY <2>1, <2>3, <3>1 DEF Ops
  <2>5. pc'[r] = IF MountOf[t] = None THEN "ports" ELSE "volume"
    BY <2>2 DEF Goto, TInv, TypeOK
  <2>6. \A q \in Requests \ {r} :
          op'[q] = op[q] /\ pc'[q] = pc[q] /\ left'[q] = left[q]
    BY <2>2 DEF Goto, TInv, TypeOK
  <2>7. TypeOK'
    BY <2>2, <2>3, <2>4 DEF TInv, TypeOK, Goto, store, PCs
  <2>8. PcOK'
    BY <2>1, <2>2, <2>3, <2>4, <2>5, <2>6, NoneAssumption
       DEF TInv, TypeOK, PcOK, ClaimKinds, PCs
  <2>9. CopyCurrent'
    BY <2>2, <2>6 DEF TInv, CopyCurrent, CheckDeploy, store
  <2> QED
    BY <2>7, <2>8, <2>9 DEF TInv
<1> QED
  BY <1>1, <1>2

\* A step of request r that writes nothing and keeps its question.
LEMMA MoveTyped ==
  ASSUME TInv, NEW r \in Requests, UNCHANGED <<store, op, copy>>,
         NEW next \in PCs, Goto(r, next), left' \in [Requests -> SUBSET Services],
         \A q \in Requests : q # r => left'[q] = left[q],
         pc[r] \notin {"update", "revision"},
         \/ pc[r] = "check" /\ next = "get" /\ op[r].kind # "deploy"
         \/ /\ pc[r] = "volume" /\ next = "ports" /\ left'[r] = left[r]
         \/ /\ pc[r] = "ports" /\ next \in {"ports", "deploy"}
            /\ left'[r] \subseteq op[r].ports
         \/ /\ pc[r] \in {"list", "unexpose"} /\ next \in {"unexpose", "remove"}
         \/ /\ pc[r] = "claim"
            /\ \/ next = "create" /\ op[r].kind = "createPVC"
               \/ next = "mounted" /\ op[r].kind = "deletePVC"
         \/ pc[r] = "mounted" /\ next = "unclaim"
  PROVE  TInv'
<1>1. TypeOK'
  BY DEF TInv, TypeOK, Goto, store
<1>2. pc'[r] = next /\ \A q \in Requests \ {r} : pc'[q] = pc[q]
  BY DEF TInv, TypeOK, Goto
<1>3. PcOK'
  BY <1>2 DEF TInv, PcOK, PCs, store
<1>4. CopyCurrent'
  BY <1>2 DEF TInv, CopyCurrent, store
<1> QED
  BY <1>1, <1>3, <1>4 DEF TInv

LEMMA CheckTyped ==
  ASSUME TInv, NEW r \in Requests,
         Check(r) \/ ResolveVolume(r) \/ CheckPort(r)
         \/ ListServices(r) \/ CheckClaim(r) \/ CheckMounted(r)
  PROVE  TInv'
<1>1. CASE Return(r)
  BY <1>1, ReturnTyped
<1>2. CASE ~Return(r)
  <2>0. left \in [Requests -> SUBSET Services] /\ pc \in [Requests -> PCs]
    BY DEF TInv, TypeOK
  <2>1. CASE Check(r)
    <3>1. /\ pc[r] = "check" /\ op[r].kind # "deploy" /\ Goto(r, "get")
          /\ UNCHANGED <<store, op, copy, left>>
      BY <1>2, <2>1 DEF Check
    <3> QED
      BY <2>0, <3>1, MoveTyped DEF PCs
  <2>2. CASE ResolveVolume(r)
    <3>1. /\ pc[r] = "volume" /\ Goto(r, "ports")
          /\ UNCHANGED <<store, op, copy, left>>
      BY <1>2, <2>2 DEF ResolveVolume
    <3> QED
      BY <2>0, <3>1, MoveTyped DEF PCs
  <2>3. CASE CheckPort(r)
    <3>1. left[r] \subseteq op[r].ports /\ op[r].ports \subseteq Services
      BY <2>3, NoneAssumption DEF CheckPort, TInv, TypeOK, PcOK, Ops, PCs
    <3>2. PICK next \in {"ports", "deploy"} :
            /\ pc[r] = "ports" /\ Goto(r, next)
            /\ left' \in [Requests -> SUBSET Services]
            /\ left'[r] \subseteq op[r].ports
            /\ \A q \in Requests : q # r => left'[q] = left[q]
            /\ UNCHANGED <<store, op, copy>>
      BY <1>2, <2>0, <2>3, <3>1 DEF CheckPort, Goto
    <3> QED
      BY <3>2, MoveTyped DEF PCs
  <2>4. CASE ListServices(r)
    <3>1. PICK next \in {"unexpose", "remove"} :
            /\ pc[r] = "list" /\ Goto(r, next)
            /\ left' \in [Requests -> SUBSET Services]
            /\ \A q \in Requests : q # r => left'[q] = left[q]
            /\ UNCHANGED <<store, op, copy>>
      BY <2>0, <2>4 DEF ListServices
    <3> QED
      BY <3>1, MoveTyped DEF PCs
  <2>5. CASE CheckClaim(r)
    <3>1. /\ pc[r] = "claim"
          /\ Goto(r, IF op[r].kind = "createPVC" THEN "create" ELSE "mounted")
          /\ UNCHANGED <<store, op, copy, left>>
      BY <1>2, <2>5 DEF CheckClaim
    <3>2. op[r].kind \in {"createPVC", "deletePVC"}
      BY <3>1 DEF TInv, PcOK, ClaimKinds
    <3> QED
      BY <2>0, <3>1, <3>2, MoveTyped DEF PCs
  <2>6. CASE CheckMounted(r)
    <3>1. /\ pc[r] = "mounted" /\ Goto(r, "unclaim")
          /\ UNCHANGED <<store, op, copy, left>>
      BY <1>2, <2>6 DEF CheckMounted
    <3> QED
      BY <2>0, <3>1, MoveTyped DEF PCs
  <2> QED
    BY <2>1, <2>2, <2>3, <2>4, <2>5, <2>6
<1> QED
  BY <1>1, <1>2

-----------------------------------------------------------------------------
(* The steps that write.                                                   *)

\* Pausing, resuming and scaling keep template and creator; a pause keeps the
\* count, and a resume brings it back.
LEMMA CountedValues ==
  ASSUME NEW d \in Deployments, NEW k \in 0..MaxReplicas
  PROVE  /\ {Paused(d), Resumed(d), Scaled(d, k)} \subseteq Deployments
         /\ \A e \in {Paused(d), Resumed(d), Scaled(d, k)} :
              e.tmpl = d.tmpl /\ e.creator = d.creator /\ e.managed = d.managed
         /\ Paused(d).replicas = 0 /\ Paused(d).marker # None
         /\ Count(Paused(d)) = IF Count(d) < 1 THEN 1 ELSE Count(d)
         /\ d.marker # None =>
              Resumed(d).marker = None /\ Count(Resumed(d)) = Count(d)
<1> None \notin Int /\ MaxReplicas \in Nat /\ MaxReplicas >= 1
  BY NamesAssumption, BoundsAssumption
<1>1. /\ d.creator \in Tenants \cup {None} /\ d.tmpl \in Templates
      /\ d.replicas \in 0..MaxReplicas /\ d.marker \in 1..MaxReplicas \cup {None}
  BY DEF Deployments
<1>11. ASSUME NEW q \in 0..MaxReplicas, NEW m \in 1..MaxReplicas \cup {None}
      PROVE  [d EXCEPT !.replicas = q, !.marker = m] \in Deployments
  BY DEF Deployments
<1>2. Paused(d) \in Deployments
  <2>1. (IF d.marker # None THEN d.marker ELSE IF d.replicas < 1 THEN 1 ELSE d.replicas)
          \in 1..MaxReplicas \cup {None}
    BY <1>1
  <2>2. 0 \in 0..MaxReplicas
    OBVIOUS
  <2> QED
    BY <1>11, <2>1, <2>2 DEF Paused
<1>3. Resumed(d) \in Deployments
  <2>1. (IF d.marker = None THEN 1 ELSE d.marker) \in 0..MaxReplicas
    BY <1>1
  <2>2. None \in 1..MaxReplicas \cup {None}
    OBVIOUS
  <2> QED
    BY <1>11, <2>1, <2>2 DEF Resumed
<1>4. Scaled(d, k) \in Deployments
  BY <1>1 DEF Scaled, Deployments
<1>5. /\ Paused(d).tmpl = d.tmpl /\ Paused(d).creator = d.creator
      /\ Paused(d).managed = d.managed
      /\ Paused(d).replicas = 0
      /\ Paused(d).marker =
           IF d.marker # None THEN d.marker ELSE IF d.replicas < 1 THEN 1 ELSE d.replicas
  BY DEF Paused, Deployments
<1>6. /\ Resumed(d).tmpl = d.tmpl /\ Resumed(d).creator = d.creator
      /\ Resumed(d).managed = d.managed
      /\ Resumed(d).marker = None
      /\ Resumed(d).replicas = IF d.marker = None THEN 1 ELSE d.marker
  BY DEF Resumed, Deployments
<1>7. /\ Scaled(d, k).tmpl = d.tmpl /\ Scaled(d, k).creator = d.creator
      /\ Scaled(d, k).managed = d.managed
  BY DEF Scaled, Deployments
<1>8. Paused(d).marker # None
  BY <1>1, <1>5
<1>9. Count(Paused(d)) = IF Count(d) < 1 THEN 1 ELSE Count(d)
  BY <1>1, <1>5, <1>8 DEF Count
<1>10. d.marker # None => Count(Resumed(d)) = Count(d)
  BY <1>6 DEF Count
<1> QED
  BY <1>2, <1>3, <1>4, <1>5, <1>6, <1>7, <1>8, <1>9, <1>10

\* A request that writes its Deployment and returns.
LEMMA LastWriteTyped ==
  ASSUME TInv, NEW r \in Requests, op[r] # None, op[r].name \in Names,
         NEW d \in Deployments \cup {None}, Write(r, op[r].name, d),
         Leave(r), UNCHANGED <<svc, pvc>>, past' \in [Names -> SUBSET Templates]
  PROVE  TInv'
<1>1. /\ dep' \in [Names -> Deployments \cup {None}]
      /\ copy' \in [Requests -> Deployments \cup {None}]
      /\ copy'[r] = None
      /\ \A q \in Requests :
           copy'[q] # None =>
             pc[q] \in {"update", "revision"} /\ copy'[q] = dep'[op[q].name]
  BY WriteTyped
<1>2. TypeOK'
  BY <1>1 DEF TInv, TypeOK, Leave, Goto, PCs
<1>3. /\ pc'[r] = "idle" /\ op'[r] = None
      /\ \A q \in Requests \ {r} :
           pc'[q] = pc[q] /\ op'[q] = op[q] /\ left'[q] = left[q]
  BY DEF TInv, TypeOK, Leave, Goto
<1>4. PcOK'
  BY <1>3 DEF TInv, PcOK, PCs
<1>5. CopyCurrent'
  BY <1>1, <1>3 DEF CopyCurrent
<1> QED
  BY <1>2, <1>4, <1>5 DEF TInv

\* What Update writes, if it writes.
LEMMA UpdateWrites ==
  ASSUME TInv, NEW r \in Requests, Update(r), ~Return(r)
  PROVE  /\ op[r] # None /\ op[r].name \in Names
         /\ copy[r] \in Deployments /\ copy[r] = dep[op[r].name]
         /\ \E k \in 0..MaxReplicas :
              \E d \in {Paused(copy[r]), Resumed(copy[r]), Scaled(copy[r], k)} :
                /\ d \in Deployments /\ d.tmpl = copy[r].tmpl
                /\ d.creator = copy[r].creator /\ d.managed = copy[r].managed
                /\ Write(r, op[r].name, d)
                /\ op[r].kind = "pause" => d = Paused(copy[r])
                /\ op[r].kind = "resume" => d = Resumed(copy[r])
         /\ Leave(r) /\ UNCHANGED <<svc, pvc, past>>
<1>1. /\ copy[r] # None /\ Leave(r) /\ UNCHANGED <<svc, pvc, past>>
      /\ \/ op[r].kind = "pause" /\ Write(r, op[r].name, Paused(copy[r]))
         \/ op[r].kind = "resume" /\ Write(r, op[r].name, Resumed(copy[r]))
         \/ /\ op[r].kind = "scale"
            /\ \E k \in 0..MaxReplicas : Write(r, op[r].name, Scaled(copy[r], k))
  BY DEF Update
<1>2. op[r] # None /\ op[r].name \in Names
  BY DEF TInv, PcOK, PCs, Update
<1>3. copy[r] \in Deployments /\ copy[r] = dep[op[r].name]
  BY <1>1 DEF TInv, TypeOK, CopyCurrent
<1>4. 0 \in 0..MaxReplicas
  BY BoundsAssumption
<1> QED
  BY <1>1, <1>2, <1>3, <1>4, CountedValues

LEMMA UpdateTyped ==
  ASSUME TInv, NEW r \in Requests, Update(r)
  PROVE  TInv'
<1>1. CASE Return(r)
  BY <1>1, ReturnTyped
<1>2. CASE ~Return(r)
  <2>1. PICK d \in Deployments : Write(r, op[r].name, d)
    BY <1>2, UpdateWrites
  <2> QED
    BY <1>2, <2>1, UpdateWrites, LastWriteTyped DEF TInv, TypeOK
<1> QED
  BY <1>1, <1>2

\* What Revision writes, if it writes.
LEMMA RevisionWrites ==
  ASSUME TInv, NEW r \in Requests, Revision(r), ~Return(r)
  PROVE  /\ op[r] # None /\ op[r].name \in Names /\ op[r].kind = "rollback"
         /\ copy[r] = dep[op[r].name]
         /\ \E d \in Deployments :
              d.creator = copy[r].creator /\ Write(r, op[r].name, d)
         /\ Leave(r) /\ UNCHANGED <<svc, pvc, past>>
<1>1. /\ copy[r] # None /\ Leave(r) /\ UNCHANGED <<svc, pvc, past>>
      /\ \E t \in past[op[r].name] :
           Write(r, op[r].name, [copy[r] EXCEPT !.tmpl = t])
  BY DEF Revision
<1>2. op[r] # None /\ op[r].name \in Names /\ op[r].kind = "rollback"
  BY DEF TInv, PcOK, PCs, Revision
<1>3. copy[r] \in Deployments /\ copy[r] = dep[op[r].name]
  BY <1>1 DEF TInv, TypeOK, CopyCurrent
<1>4. PICK t \in Templates : Write(r, op[r].name, [copy[r] EXCEPT !.tmpl = t])
  BY <1>1, <1>2 DEF TInv, TypeOK
<1>5. /\ [copy[r] EXCEPT !.tmpl = t] \in Deployments
      /\ [copy[r] EXCEPT !.tmpl = t].creator = copy[r].creator
  BY <1>3 DEF Deployments
<1> QED
  BY <1>1, <1>2, <1>3, <1>4, <1>5

LEMMA RevisionTyped ==
  ASSUME TInv, NEW r \in Requests, Revision(r)
  PROVE  TInv'
<1>1. CASE Return(r)
  BY <1>1, ReturnTyped
<1>2. CASE ~Return(r)
  <2>1. PICK d \in Deployments : Write(r, op[r].name, d)
    BY <1>2, RevisionWrites
  <2> QED
    BY <1>2, <2>1, RevisionWrites, LastWriteTyped DEF TInv, TypeOK
<1> QED
  BY <1>1, <1>2

LEMMA DeleteDeploymentTyped ==
  ASSUME TInv, NEW r \in Requests, DeleteDeployment(r)
  PROVE  TInv'
<1>1. op[r] # None /\ op[r].name \in Names
  BY DEF TInv, PcOK, PCs, DeleteDeployment
<1>2. past' \in [Names -> SUBSET Templates]
  BY DEF TInv, TypeOK, DeleteDeployment
<1> QED
  BY <1>1, <1>2, LastWriteTyped DEF DeleteDeployment

LEMMA DeployDeploymentTyped ==
  ASSUME TInv, NEW r \in Requests, DeployDeployment(r)
  PROVE  TInv'
<1>1. /\ op[r] \in Ops /\ op[r].name \in Names /\ op[r].kind = "deploy"
      /\ op[r].tmpl \in Templates /\ op[r].creator = op[r].tenant
      /\ op[r].tenant \in Tenants /\ left[r] \subseteq op[r].ports /\ op[r] # None
  BY NoneAssumption DEF TInv, TypeOK, PcOK, PCs, Ops, DeployDeployment
<1>2. PICK k \in 1..MaxReplicas :
        Write(r, op[r].name,
              [creator |-> op[r].creator, managed |-> TRUE, tmpl |-> op[r].tmpl,
               replicas |-> k, marker |-> None])
  BY DEF DeployDeployment
<1>3. [creator |-> op[r].creator, managed |-> TRUE, tmpl |-> op[r].tmpl,
       replicas |-> k, marker |-> None] \in Deployments
  BY <1>1 DEF Deployments
<1>4. /\ dep' \in [Names -> Deployments \cup {None}]
      /\ copy' \in [Requests -> Deployments \cup {None}]
      /\ copy'[r] = None
      /\ \A q \in Requests :
           copy'[q] # None =>
             pc[q] \in {"update", "revision"} /\ copy'[q] = dep'[op[q].name]
  BY <1>1, <1>2, <1>3, WriteTyped
<1>5. pc'[r] = "expose" /\ \A q \in Requests \ {r} : pc'[q] = pc[q]
  BY DEF TInv, TypeOK, DeployDeployment, Goto
<1>6. TypeOK'
  BY <1>4 DEF TInv, TypeOK, DeployDeployment, Goto, PCs
<1>7. PcOK'
  BY <1>1, <1>5 DEF TInv, PcOK, DeployDeployment, ClaimKinds, PCs
<1>8. CopyCurrent'
  BY <1>4, <1>5 DEF CopyCurrent, DeployDeployment
<1> QED
  BY <1>6, <1>7, <1>8 DEF TInv

\* What an apply writes over a Deployment whose owner it has read: the owner
\* stays, if there is one.
LEMMA AppliedDeployment ==
  ASSUME NEW r \in Requests, ApplyDeployment(r), op[r].creator \in Tenants \cup {None}
  PROVE  \E d \in Deployments :
           /\ Write(r, op[r].name, d) /\ d.managed = TRUE
           /\ op[r].creator # None => d.creator = op[r].creator
<1>1. PICK c \in AppliedCreators(op[r].creator), t \in Templates,
           k \in 0..MaxReplicas, m \in 1..MaxReplicas \cup {None} :
        Write(r, op[r].name,
              [creator |-> c, managed |-> TRUE, tmpl |-> t, replicas |-> k, marker |-> m])
  BY DEF ApplyDeployment
<1> DEFINE d == [creator |-> c, managed |-> TRUE, tmpl |-> t, replicas |-> k, marker |-> m]
<1>2. c \in Tenants \cup {None} /\ (op[r].creator # None => c = op[r].creator)
  BY DEF AppliedCreators
<1>3. /\ d \in Deployments /\ d.managed = TRUE
      /\ op[r].creator # None => d.creator = op[r].creator
  BY <1>2 DEF Deployments
<1> QED
  BY <1>1, <1>3

LEMMA ApplyDeploymentTyped ==
  ASSUME TInv, NEW r \in Requests, ApplyDeployment(r)
  PROVE  TInv'
<1>1. /\ op[r] \in Ops /\ op[r].name \in Names /\ op[r].kind = "apply"
      /\ op[r].creator \in Tenants \cup {None} /\ op[r] # None
  BY NoneAssumption DEF TInv, TypeOK, PcOK, PCs, Ops, ApplyDeployment
<1>2. PICK d \in Deployments : Write(r, op[r].name, d)
  BY <1>1, AppliedDeployment
<1>4. CASE Leave(r)
  BY <1>1, <1>2, <1>4, LastWriteTyped DEF ApplyDeployment, TInv, TypeOK
<1>5. CASE ~Leave(r)
  <2>1. PICK s \in SUBSET Services :
          left' = [left EXCEPT ![r] = s] /\ Goto(r, "expose") /\ UNCHANGED op
    BY <1>5 DEF ApplyDeployment
  <2>2. /\ dep' \in [Names -> Deployments \cup {None}]
        /\ copy' \in [Requests -> Deployments \cup {None}]
        /\ copy'[r] = None
        /\ \A q \in Requests :
             copy'[q] # None =>
               pc[q] \in {"update", "revision"} /\ copy'[q] = dep'[op[q].name]
    BY <1>1, <1>2, WriteTyped
  <2>3. /\ pc'[r] = "expose"
        /\ \A q \in Requests \ {r} : pc'[q] = pc[q] /\ left'[q] = left[q]
    BY <2>1 DEF TInv, TypeOK, Goto
  <2>4. TypeOK'
    BY <2>1, <2>2 DEF TInv, TypeOK, ApplyDeployment, Goto, PCs
  <2>5. PcOK'
    BY <1>1, <2>1, <2>3 DEF TInv, PcOK, ClaimKinds, PCs
  <2>6. CopyCurrent'
    BY <2>1, <2>2, <2>3 DEF CopyCurrent
  <2> QED
    BY <2>4, <2>5, <2>6 DEF TInv
<1> QED
  BY <1>4, <1>5

LEMMA ExposeTyped ==
  ASSUME TInv, NEW r \in Requests, Expose(r)
  PROVE  TInv'
<1>1. /\ op[r] \in Ops /\ op[r].name \in Names /\ left[r] \subseteq Services
  BY NoneAssumption DEF TInv, TypeOK, PcOK, PCs, Expose
<1>2. copy[r] = None
  BY DEF TInv, CopyCurrent, Expose
<1>3. svc' \in [Services -> ServiceObjects \cup {None}]
  BY <1>1 DEF TInv, TypeOK, Expose, ServiceObjects
<1>4. CASE Leave(r)
  BY <1>2, <1>3, <1>4
     DEF TInv, TypeOK, PcOK, CopyCurrent, Expose, Leave, Goto, PCs
<1>5. CASE ~Leave(r)
  <2>1. /\ left' \in [Requests -> SUBSET Services] /\ left'[r] \subseteq left[r]
        /\ \A q \in Requests \ {r} : left'[q] = left[q]
        /\ UNCHANGED <<pc, op>>
    BY <1>5 DEF TInv, TypeOK, Expose
  <2> QED
    BY <1>3, <2>1 DEF TInv, TypeOK, PcOK, CopyCurrent, Expose
<1> QED
  BY <1>4, <1>5

LEMMA GetTyped ==
  ASSUME TInv, NEW r \in Requests, Get(r)
  PROVE  TInv'
<1>1. CASE Return(r)
  BY <1>1, ReturnTyped
<1>2. CASE ~Return(r)
  <2> DEFINE d == dep[op[r].name]
             k == op[r].kind
  <2>1. /\ op[r] \in Ops /\ op[r].name \in Names
        /\ k \in Kinds \ ClaimKinds /\ k # "deploy"
    BY NoneAssumption DEF TInv, TypeOK, PcOK, PCs, Ops, Get
  <2>2. /\ d # None /\ UNCHANGED <<store, left>>
        /\ copy' = [copy EXCEPT ![r] = IF k \in {"apply", "delete"} THEN None ELSE d]
        /\ op' = [op EXCEPT ![r] =
                    IF k = "apply" THEN [@ EXCEPT !.creator = d.creator] ELSE @]
        /\ Goto(r, CASE k \in Counted    -> "update"
                     [] k = "rollback"   -> "revision"
                     [] k = "apply"      -> "apply"
                     [] k = "delete"     -> "list")
    BY <1>2 DEF Get
  <2>3. d \in Deployments /\ d.creator \in Tenants \cup {None}
    BY <2>1, <2>2 DEF TInv, TypeOK, Deployments
  <2>4. /\ op'[r] \in Ops /\ op'[r].name = op[r].name /\ op'[r].kind = k
        /\ k = "apply" => op'[r].creator = d.creator
        /\ \A q \in Requests \ {r} : op'[q] = op[q]
    <3>1. op'[r] = IF k = "apply" THEN [op[r] EXCEPT !.creator = d.creator] ELSE op[r]
      BY <2>1, <2>2 DEF TInv, TypeOK
    <3>2. \A q \in Requests \ {r} : op'[q] = op[q]
      BY <2>2 DEF TInv, TypeOK
    <3>3. /\ [op[r] EXCEPT !.creator = d.creator] \in Ops
          /\ [op[r] EXCEPT !.creator = d.creator].name = op[r].name
          /\ [op[r] EXCEPT !.creator = d.creator].kind = op[r].kind
          /\ [op[r] EXCEPT !.creator = d.creator].creator = d.creator
      BY <2>1, <2>3 DEF Ops
    <3> QED
      BY <2>1, <3>1, <3>2, <3>3
  <2>5. /\ k \in Counted => pc'[r] = "update"
        /\ k = "rollback" => pc'[r] = "revision"
        /\ k = "apply" => pc'[r] = "apply"
        /\ k = "delete" => pc'[r] = "list"
        /\ \A q \in Requests \ {r} : pc'[q] = pc[q]
    BY <2>2 DEF TInv, TypeOK, Goto, Counted
  <2>6. k \in Counted \cup {"rollback", "apply", "delete"}
    BY <2>1 DEF Kinds, Structural, ClaimKinds
  <2>7. pc' \in [Requests -> PCs]
    BY <2>2, <2>5, <2>6 DEF TInv, TypeOK, Goto, PCs
  <2>8. op' \in [Requests -> Ops \cup {None}]
    BY <2>2, <2>4 DEF TInv, TypeOK
  <2>9. /\ copy' \in [Requests -> Deployments \cup {None}]
        /\ copy'[r] = IF k \in {"apply", "delete"} THEN None ELSE d
        /\ \A q \in Requests \ {r} : copy'[q] = copy[q]
    BY <2>2, <2>3 DEF TInv, TypeOK
  <2>10. TypeOK'
    BY <2>2, <2>7, <2>8, <2>9 DEF TInv, TypeOK, store
  <2>11. PcOK'
    BY <2>1, <2>2, <2>3, <2>4, <2>5, <2>6, NoneAssumption
       DEF TInv, PcOK, PCs, Counted, ClaimKinds
  <2>12. CopyCurrent'
    BY <2>2, <2>4, <2>5, <2>6, <2>9 DEF TInv, CopyCurrent, store
  <2> QED
    BY <2>10, <2>11, <2>12 DEF TInv
<1> QED
  BY <1>1, <1>2

LEMMA DeleteServiceTyped ==
  ASSUME TInv, NEW r \in Requests, DeleteService(r)
  PROVE  TInv'
<1>1. left[r] \subseteq Services /\ left' \in [Requests -> SUBSET Services]
      /\ \A q \in Requests : q # r => left'[q] = left[q]
  BY DEF TInv, TypeOK, DeleteService
<1>2. svc' \in [Services -> ServiceObjects \cup {None}]
  BY <1>1 DEF TInv, TypeOK, DeleteService
<1>3. /\ pc[r] = "unexpose" /\ pc' \in [Requests -> PCs]
      /\ pc'[r] \in {"unexpose", "remove"}
      /\ \A q \in Requests \ {r} : pc'[q] = pc[q]
  BY DEF TInv, TypeOK, DeleteService, Goto, PCs
<1>4. TypeOK'
  BY <1>1, <1>2, <1>3 DEF TInv, TypeOK, DeleteService
<1>5. PcOK'
  BY <1>1, <1>3 DEF TInv, PcOK, DeleteService, PCs
<1>6. CopyCurrent'
  BY <1>3 DEF TInv, CopyCurrent, DeleteService
<1> QED
  BY <1>4, <1>5, <1>6 DEF TInv

LEMMA ClaimTyped ==
  ASSUME TInv, NEW r \in Requests, CreateClaim(r) \/ DeleteClaim(r)
  PROVE  TInv'
<1>1. CASE Return(r)
  BY <1>1, ReturnTyped
<1>2. CASE ~Return(r)
  <2>1. Leave(r) /\ UNCHANGED <<dep, svc, past, copy>>
        /\ pc[r] \in {"create", "unclaim"}
    BY <1>2 DEF CreateClaim, DeleteClaim
  <2>2. op[r] \in Ops /\ op[r].tenant \in Tenants
    BY <2>1, NoneAssumption DEF TInv, TypeOK, PcOK, PCs, Ops
  <2>3. pvc' \in [Claims -> Tenants \cup {None}]
    BY <1>2, <2>2 DEF TInv, TypeOK, CreateClaim, DeleteClaim
  <2> QED
    BY <2>1, <2>3 DEF TInv, TypeOK, PcOK, CopyCurrent, Leave, Goto, PCs
<1> QED
  BY <1>1, <1>2

LEMMA RolloutTyped ==
  ASSUME TInv, NEW n \in Names, Rollout(n)
  PROVE  TInv'
<1>1. dep[n] \in Deployments /\ dep[n].tmpl \in Templates
  BY DEF TInv, TypeOK, Rollout, Deployments
<1>2. TypeOK'
  BY <1>1 DEF TInv, TypeOK, Rollout
<1> QED
  BY <1>2 DEF TInv, PcOK, CopyCurrent, Rollout

LEMMA InitTyped == Init => TInv
BY NoneAssumption
   DEF Init, TInv, TypeOK, PcOK, CopyCurrent, PCs, ServiceObjects, Foreign, Unowned

LEMMA NextTyped == TInv /\ [Next]_vars => TInv'
<1> SUFFICES ASSUME TInv, [Next]_vars PROVE TInv'
  OBVIOUS
<1>1. ASSUME NEW r \in Requests, Begin(r) PROVE TInv'
  BY <1>1, BeginTyped
<1>2. ASSUME NEW r \in Requests, Deploy(r) PROVE TInv'
  BY <1>2, CheckDeployTyped, CheckTyped, DeployDeploymentTyped, ExposeTyped DEF Deploy
<1>3. ASSUME NEW r \in Requests, Change(r) PROVE TInv'
  BY <1>3, CheckTyped, GetTyped, UpdateTyped, RevisionTyped, ApplyDeploymentTyped
     DEF Change
<1>4. ASSUME NEW r \in Requests, Delete(r) PROVE TInv'
  BY <1>4, CheckTyped, DeleteServiceTyped, DeleteDeploymentTyped DEF Delete
<1>5. ASSUME NEW r \in Requests, Claim(r) PROVE TInv'
  BY <1>5, CheckTyped, ClaimTyped DEF Claim
<1>6. ASSUME NEW r \in Requests, Abandon(r) PROVE TInv'
  BY <1>6, ReturnTyped DEF Abandon
<1>7. ASSUME NEW n \in Names, Rollout(n) PROVE TInv'
  BY <1>7, RolloutTyped
<1>8. CASE UNCHANGED vars
  BY <1>8 DEF vars, TInv, TypeOK, PcOK, CopyCurrent
<1> QED
  BY <1>1, <1>2, <1>3, <1>4, <1>5, <1>6, <1>7, <1>8 DEF Next

LEMMA TypedAlways == Spec => []TInv
BY InitTyped, NextTyped, PTL DEF Spec

\* Every request, at every call, has what that call needs: the types of the
\* cluster's objects and of what the requests carry.
THEOREM TypeCorrect == Spec => []TypeOK
BY TypedAlways, PTL DEF TInv

-----------------------------------------------------------------------------
(* Pause and resume, under any interleaving and every fault.               *)

\* A step of one request leaves the others where they are.
LEMMA OthersStay ==
  ASSUME TInv, NEW q \in Requests, NEW r \in Requests, q # r,
         Begin(q) \/ Deploy(q) \/ Change(q) \/ Delete(q) \/ Claim(q) \/ Abandon(q)
  PROVE  pc'[r] = pc[r] /\ op'[r] = op[r] /\ left'[r] = left[r]
<1> pc \in [Requests -> PCs] /\ op \in [Requests -> Ops \cup {None}]
    /\ left \in [Requests -> SUBSET Services]
  BY DEF TInv, TypeOK
<1>1. Return(q) => pc'[r] = pc[r] /\ op'[r] = op[r] /\ left'[r] = left[r]
  BY DEF Return, Leave, Goto
<1>2. CASE Begin(q)
  BY <1>2 DEF Begin, Goto
<1>3. CASE Deploy(q)
  BY <1>1, <1>3 DEF Deploy, CheckDeploy, ResolveVolume, CheckPort, DeployDeployment,
                    Expose, Leave, Goto
<1>4. CASE Change(q)
  BY <1>1, <1>4 DEF Change, Check, Get, Update, Revision, ApplyDeployment, Leave, Goto
<1>5. CASE Delete(q)
  BY <1>5 DEF Delete, ListServices, DeleteService, DeleteDeployment, Leave, Goto
<1>6. CASE Claim(q)
  BY <1>1, <1>6 DEF Claim, CheckClaim, CreateClaim, CheckMounted, DeleteClaim, Leave, Goto
<1>7. CASE Abandon(q)
  BY <1>1, <1>7 DEF Abandon
<1> QED
  BY <1>2, <1>3, <1>4, <1>5, <1>6, <1>7

\* A request that is at its update leaves it by the update, or with nothing
\* written.
LEMMA UpdateStep ==
  ASSUME TInv, [Next]_vars, NEW r \in Requests,
         pc[r] = "update", pc'[r] = "idle", dep' # dep
  PROVE  Update(r) /\ ~Return(r)
<1>1. ASSUME NEW n \in Names PROVE ~Rollout(n)
  BY DEF Rollout
<1>2. ASSUME NEW q \in Requests, q # r
      PROVE  ~(Begin(q) \/ Deploy(q) \/ Change(q) \/ Delete(q) \/ Claim(q) \/ Abandon(q))
  BY <1>2, OthersStay
<1>3. ~Return(r)
  BY DEF Return, store
<1>4. Begin(r) \/ Deploy(r) \/ Change(r) \/ Delete(r) \/ Claim(r) \/ Abandon(r)
  BY <1>1, <1>2 DEF Next, vars
<1>5. ~(Begin(r) \/ Deploy(r) \/ Delete(r) \/ Claim(r) \/ Abandon(r))
  BY <1>3 DEF Begin, Abandon,
     Deploy, CheckDeploy, ResolveVolume, CheckPort, DeployDeployment, Expose,
     Delete, ListServices, DeleteService, DeleteDeployment,
     Claim, CheckClaim, CreateClaim, CheckMounted, DeleteClaim
<1> QED
  BY <1>3, <1>4, <1>5 DEF Change, Check, Get, Revision, ApplyDeployment

\* However scales, pauses and resumes overlap with anything else, a pause keeps
\* the count for the resume and a resume brings it back: an update that goes
\* through was made from the Deployment as it is.
THEOREM PauseResume == Spec => PauseReversible
<1> DEFINE Kept(r) ==
      pc[r] = "update" /\ pc'[r] = "idle" /\ dep' # dep =>
        LET before == dep[op[r].name]
            after  == dep'[op[r].name]
        IN  /\ after.tmpl = before.tmpl
            /\ op[r].kind = "pause" =>
                 /\ after.replicas = 0 /\ after.marker # None
                 /\ Count(after) = IF Count(before) < 1 THEN 1 ELSE Count(before)
            /\ op[r].kind = "resume" /\ before.marker # None =>
                 after.marker = None /\ Count(after) = Count(before)
<1>1. ASSUME TInv, [Next]_vars, NEW r \in Requests PROVE Kept(r)
  <2> SUFFICES ASSUME pc[r] = "update", pc'[r] = "idle", dep' # dep PROVE Kept(r)
    OBVIOUS
  <2>1. Update(r) /\ ~Return(r)
    BY <1>1, UpdateStep
  <2>2. PICK d \in Deployments :
          /\ op[r] # None /\ op[r].name \in Names
          /\ copy[r] \in Deployments /\ copy[r] = dep[op[r].name]
          /\ d.tmpl = copy[r].tmpl
          /\ Write(r, op[r].name, d)
          /\ op[r].kind = "pause" => d = Paused(copy[r])
          /\ op[r].kind = "resume" => d = Resumed(copy[r])
    BY <1>1, <2>1, UpdateWrites
  <2>3. dep'[op[r].name] = d
    BY <1>1, <2>2, WriteTyped
  <2> 0 \in 0..MaxReplicas
    BY BoundsAssumption
  <2>4. /\ Paused(copy[r]).replicas = 0 /\ Paused(copy[r]).marker # None
        /\ Count(Paused(copy[r])) = IF Count(copy[r]) < 1 THEN 1 ELSE Count(copy[r])
        /\ copy[r].marker # None =>
             Resumed(copy[r]).marker = None /\ Count(Resumed(copy[r])) = Count(copy[r])
    BY <2>2, CountedValues
  <2> QED
    BY <2>2, <2>3, <2>4
<1>2. TInv /\ [Next]_vars => [\A r \in Requests : Kept(r)]_vars
  BY <1>1
<1>3. Spec => [][\A r \in Requests : Kept(r)]_vars
  BY <1>2, TypedAlways, PTL DEF Spec
<1> QED
  BY <1>3 DEF PauseReversible

-----------------------------------------------------------------------------
(* Structural requests one at a time, and no error that the code ignores.  *)

Calm == Exclusive /\ Faults \subseteq {"abandon"}

\* At most one structural request is at work.
OneStructural ==
  \A r, q \in Requests :
    /\ Busy(r) /\ op[r].kind \notin Counted
    /\ Busy(q) /\ op[q].kind \notin Counted
    => r = q

\* A labelled Service has its Deployment, in the middle of a request too.
ServicesHaveDeployment ==
  \A s \in Services :
    svc[s] # None /\ svc[s].of # None => dep[svc[s].of] # None

\* A delete has found every Service, and has deleted those it is done with.
Swept(r) ==
  /\ pc[r] = "unexpose" =>
       \A s \in Services : svc[s] # None /\ svc[s].of = op[r].name => s \in left[r]
  /\ pc[r] = "remove" =>
       \A s \in Services : svc[s] # None => svc[s].of # op[r].name

\* A claim about to be deleted is mounted by no service.
Unmounted(r) ==
  pc[r] = "unclaim" =>
    \A n \in Names : dep[n] # None /\ dep[n].managed => MountOf[dep[n].tmpl] # op[r].claim

\* What a deploy or an apply is about to write has the right owner.
Mine(r) ==
  /\ pc[r] \in {"volume", "ports", "deploy"} =>
       dep[op[r].name] = None \/ Writable(dep[op[r].name], op[r].tenant)
  /\ pc[r] = "apply" =>
       dep[op[r].name] = None \/ dep[op[r].name].creator = op[r].creator
  /\ pc[r] = "expose" => dep[op[r].name] # None

\* The Services that a deploy has checked can be taken.
Prechecked(r) ==
  /\ pc[r] \in {"volume", "ports"} =>
       \A s \in op[r].ports \ left[r] :
         svc[s] = None \/ Ours(svc[s], op[r].tenant)
  /\ pc[r] \in {"deploy", "expose"} /\ op[r].kind = "deploy" =>
       \A s \in op[r].ports : svc[s] = None \/ Ours(svc[s], op[r].tenant)

Ready(r) == Swept(r) /\ Unmounted(r) /\ Mine(r) /\ Prechecked(r)

Alone ==
  OneStructural /\ ServicesHaveDeployment /\ \A r \in Requests : Ready(r)

\* The calls before which nothing has been found out.
Unready == {"idle", "check", "claim", "get", "list", "create", "mounted",
            "update", "revision"}

LEMMA UnreadyIsReady ==
  ASSUME NEW r \in Requests, pc[r] \in Unready
  PROVE  Ready(r)
BY DEF Unready, Ready, Swept, Unmounted, Mine, Prechecked

\* While a structural request is at work, the others have found out nothing.
LEMMA OthersUnready ==
  ASSUME TInv, OneStructural, NEW r \in Requests, NEW q \in Requests, q # r,
         Busy(r), op[r].kind \notin Counted
  PROVE  pc[q] \in Unready
<1>1. pc[q] \in PCs
  BY DEF TInv, TypeOK
<1>2. ~Busy(q) \/ op[q].kind \in Counted
  BY DEF OneStructural
<1> QED
  BY <1>1, <1>2
     DEF TInv, PcOK, Busy, PCs, Counted, ClaimKinds, Unready

\* A step that starts no structural request keeps there being one.
LEMMA OneStructuralKept ==
  ASSUME OneStructural,
         \A q \in Requests :
           Busy(q)' => Busy(q) /\ op'[q].kind = op[q].kind
  PROVE  OneStructural'
BY DEF OneStructural

\* The cluster keeps its shape: no Deployment comes or goes or changes owner,
\* label or template, no Service changes.
SameShape ==
  /\ svc' = svc
  /\ \A n \in Names :
       /\ dep'[n] = None <=> dep[n] = None
       /\ dep[n] # None =>
            /\ dep'[n].creator = dep[n].creator /\ dep'[n].tmpl = dep[n].tmpl
            /\ dep'[n].managed = dep[n].managed

\* A step of one request that keeps the shape, and ends ready, keeps the rest.
LEMMA SameShapeAlone ==
  ASSUME TInv, TInv', Alone, SameShape, OneStructural', NEW r \in Requests,
         \A q \in Requests : q # r =>
           pc'[q] = pc[q] /\ op'[q] = op[q] /\ left'[q] = left[q],
         Ready(r)'
  PROVE  Alone'
<1>1. ServicesHaveDeployment'
  <2> SUFFICES ASSUME NEW s \in Services, svc[s] # None, svc[s].of # None
               PROVE  dep'[svc[s].of] # None
    BY DEF ServicesHaveDeployment, SameShape
  <2>1. svc[s].of \in Names
    BY DEF TInv, TypeOK, ServiceObjects
  <2> QED
    BY <2>1 DEF Alone, ServicesHaveDeployment, SameShape
<1>2. ASSUME NEW q \in Requests, q # r PROVE Ready(q)'
  <2>1. Ready(q) /\ pc'[q] = pc[q] /\ op'[q] = op[q] /\ left'[q] = left[q]
    BY <1>2 DEF Alone
  <2>2. Swept(q)'
    BY <2>1 DEF Ready, Swept, SameShape
  <2>3. Unmounted(q)'
    BY <2>1 DEF Ready, Unmounted, SameShape
  <2>4. pc[q] \in {"volume", "ports", "deploy", "apply", "expose"} => op[q].name \in Names
    BY DEF TInv, PcOK, PCs
  <2>5. Mine(q)'
    BY <2>1, <2>4 DEF Ready, Mine, SameShape, Writable
  <2>6. Prechecked(q)'
    BY <2>1 DEF Ready, Prechecked, SameShape
  <2> QED
    BY <2>2, <2>3, <2>5, <2>6 DEF Ready
<1> QED
  BY <1>1, <1>2 DEF Alone

\* A structural request that writes only has its own readiness to keep.
LEMMA WriterAlone ==
  ASSUME TInv, OneStructural, NEW r \in Requests, Busy(r), op[r].kind \notin Counted,
         \A q \in Requests : q # r => pc'[q] = pc[q] /\ op'[q] = op[q],
         pc'[r] = "idle" \/ op'[r].kind = op[r].kind,
         ServicesHaveDeployment', Ready(r)'
  PROVE  Alone'
<1>1. OneStructural'
  BY OneStructuralKept DEF Busy
<1>2. ASSUME NEW q \in Requests, q # r PROVE Ready(q)'
  <2>1. pc'[q] \in Unready
    BY <1>2, OthersUnready
  <2> QED
    BY <2>1 DEF Unready, Ready, Swept, Unmounted, Mine, Prechecked
<1> QED
  BY <1>1, <1>2 DEF Alone

\* Steps that return, or start.
LEMMA ReturnAlone ==
  ASSUME TInv, TInv', Alone, NEW r \in Requests, Return(r)
  PROVE  Alone'
<1>1. pc'[r] = "idle" /\ UNCHANGED store
      /\ \A q \in Requests : q # r =>
           pc'[q] = pc[q] /\ op'[q] = op[q] /\ left'[q] = left[q]
  BY DEF TInv, TypeOK, Return, Leave, Goto
<1>2. SameShape /\ Ready(r)'
  BY <1>1 DEF SameShape, store, Ready, Swept, Unmounted, Mine, Prechecked
<1>3. OneStructural'
  BY <1>1, OneStructuralKept DEF Alone, Busy
<1> QED
  BY <1>1, <1>2, <1>3, SameShapeAlone

LEMMA BeginAlone ==
  ASSUME Calm, TInv, TInv', Alone, NEW r \in Requests, Begin(r)
  PROVE  Alone'
<1>1. /\ UNCHANGED <<store, left>> /\ pc[r] = "idle" /\ pc'[r] \in {"check", "claim"}
      /\ \A q \in Requests : q # r =>
           pc'[q] = pc[q] /\ op'[q] = op[q] /\ left'[q] = left[q]
      /\ op'[r].kind \notin Counted =>
           \A q \in Requests : Busy(q) => op[q].kind \in Counted
  <2>1. PICK k \in Operations, t \in Tenants, n \in Names \cup {None},
             v \in Claims \cup {None} :
          /\ (Exclusive /\ k \in Structural) =>
               \A q \in Requests : Busy(q) => op[q].kind \in Counted
          /\ \/ Goto(r, "claim") \/ Goto(r, "check")
          /\ op' = [op EXCEPT ![r] =
               [kind |-> k, tenant |-> t, name |-> n, claim |-> v,
                tmpl |-> None, ports |-> {}, creator |-> None]]
    BY DEF Begin
  <2>2. k \in Counted \cup Structural
    BY EnvironmentAssumption DEF Kinds
  <2> QED
    BY <2>1, <2>2 DEF Begin, Calm, Goto, TInv, TypeOK
<1>2. SameShape /\ Ready(r)'
  BY <1>1 DEF SameShape, store, Ready, Swept, Unmounted, Mine, Prechecked
<1>3. OneStructural'
  BY <1>1 DEF Alone, OneStructural, Busy
<1> QED
  BY <1>1, <1>2, <1>3, SameShapeAlone

\* Steps that only read.
LEMMA ReadAlone ==
  ASSUME Calm, TInv, TInv', Alone, NEW r \in Requests, ~Return(r),
         CheckDeploy(r) \/ ResolveVolume(r) \/ CheckPort(r) \/ Check(r) \/ Get(r)
         \/ ListServices(r) \/ CheckClaim(r) \/ CheckMounted(r)
  PROVE  Alone'
<1>1. /\ UNCHANGED store /\ Busy(r) /\ op[r] # None /\ ~Fault("blind")
      /\ pc \in [Requests -> PCs] /\ op \in [Requests -> Ops \cup {None}]
      /\ left \in [Requests -> SUBSET Services]
  BY DEF TInv, TypeOK, PcOK, Calm, Fault, Busy, CheckDeploy, ResolveVolume, CheckPort, Check,
         Get, ListServices, CheckClaim, CheckMounted
<1>2. SameShape
  BY <1>1 DEF SameShape, store
<1>3. \A q \in Requests : q # r =>
        pc'[q] = pc[q] /\ op'[q] = op[q] /\ left'[q] = left[q]
  BY OthersStay DEF Deploy, Change, Delete, Claim
<1>4. OneStructural' /\ Ready(r)'
  <2>1. CASE CheckDeploy(r)
    <3>1. op[r] \in Ops /\ op[r].name \in Names
      BY <1>1, <2>1 DEF TInv, PcOK, PCs, CheckDeploy
    <3>2. PICK t \in Templates, s \in SUBSET ServicesOf[op[r].name] :
            /\ op' = [op EXCEPT ![r] = [@ EXCEPT !.tmpl = t, !.ports = s,
                                                 !.creator = op[r].tenant]]
            /\ left' = [left EXCEPT ![r] = s]
            /\ Goto(r, IF MountOf[t] = None THEN "ports" ELSE "volume")
            /\ dep[op[r].name] = None \/ Writable(dep[op[r].name], op[r].tenant)
      BY <1>1, <2>1 DEF CheckDeploy
    <3>3. /\ op'[r].name = op[r].name /\ op'[r].tenant = op[r].tenant
          /\ op'[r].kind = op[r].kind /\ op'[r].ports = s
      BY <1>1, <3>1, <3>2 DEF Ops
    <3>4. left'[r] = s /\ pc'[r] \in {"ports", "volume"} /\ dep' = dep
      BY <1>1, <3>2 DEF Goto, store
    <3>5. Ready(r)'
      BY <3>2, <3>3, <3>4 DEF Ready, Swept, Unmounted, Mine, Prechecked, Writable
    <3>6. OneStructural'
      BY <1>1, <1>3, <3>3, OneStructuralKept DEF Alone, Busy
    <3> QED
      BY <3>5, <3>6
  <2>2. CASE Get(r)
    <3>1. op[r] \in Ops /\ op[r].name \in Names
          /\ op[r].kind \in {"scale", "pause", "resume", "rollback", "apply", "delete"}
      BY <1>1, <2>2 DEF TInv, PcOK, PCs, Get, Ops, Kinds, Counted, Structural, ClaimKinds
    <3>2. /\ dep[op[r].name] # None
          /\ op' = [op EXCEPT ![r] = IF op[r].kind = "apply"
                      THEN [@ EXCEPT !.creator = dep[op[r].name].creator] ELSE @]
          /\ Goto(r, CASE op[r].kind \in Counted    -> "update"
                       [] op[r].kind = "rollback"   -> "revision"
                       [] op[r].kind = "apply"      -> "apply"
                       [] op[r].kind = "delete"     -> "list")
      BY <2>2 DEF Get
    <3>3. /\ op'[r].name = op[r].name /\ op'[r].kind = op[r].kind
          /\ op[r].kind = "apply" => op'[r].creator = dep[op[r].name].creator
      BY <1>1, <3>1, <3>2 DEF Ops
    <3>4. /\ pc'[r] \in {"update", "revision", "apply", "list"}
          /\ pc'[r] = "apply" => op[r].kind = "apply"
          /\ dep' = dep
      BY <1>1, <3>1, <3>2 DEF Goto, Counted, store
    <3>5. Ready(r)'
      BY <3>3, <3>4 DEF Ready, Swept, Unmounted, Mine, Prechecked
    <3>6. OneStructural'
      BY <1>1, <1>3, <3>3, OneStructuralKept DEF Alone, Busy
    <3> QED
      BY <3>5, <3>6
  <2>3. CASE ~CheckDeploy(r) /\ ~Get(r)
    <3>1. op'[r] = op[r]
      BY <2>3 DEF ResolveVolume, CheckPort, Check, ListServices, CheckClaim, CheckMounted
    <3>2. OneStructural'
      BY <1>1, <1>3, <3>1, OneStructuralKept DEF Alone, Busy
    <3>3. dep' = dep /\ svc' = svc /\ pvc' = pvc
      BY <1>1 DEF store
    <3>4. CASE ResolveVolume(r)
      <4>1. pc[r] = "volume" /\ pc'[r] = "ports" /\ left'[r] = left[r]
        BY <1>1, <3>4 DEF ResolveVolume, Goto
      <4>2. Mine(r)'
        BY <3>1, <3>3, <4>1 DEF Alone, Ready, Mine, Writable
      <4>3. Prechecked(r)'
        BY <3>1, <3>3, <4>1 DEF Alone, Ready, Prechecked, Ours
      <4> QED
        BY <3>2, <4>1, <4>2, <4>3 DEF Ready, Swept, Unmounted
    <3>5. CASE CheckPort(r)
      <4>1. /\ pc[r] = "ports" /\ pc'[r] \in {"ports", "deploy"}
            /\ \E s \in left[r] :
                 /\ svc[s] = None \/ Ours(svc[s], op[r].tenant)
                 /\ pc'[r] = "ports" => left'[r] = left[r] \ {s}
                 /\ pc'[r] = "deploy" => left[r] = {s}
        BY <1>1, <3>5 DEF CheckPort, Goto
      <4>2. Mine(r)'
        BY <3>1, <3>3, <4>1 DEF Alone, Ready, Mine, Writable
      <4>3. Prechecked(r)'
        BY <3>1, <3>3, <4>1 DEF Alone, Ready, Prechecked, Ours
      <4> QED
        BY <3>2, <4>1, <4>2, <4>3 DEF Ready, Swept, Unmounted
    <3>6. CASE Check(r)
      <4>1. pc'[r] = "get"
        BY <1>1, <3>6 DEF Check, Goto
      <4> QED
        BY <3>2, <4>1 DEF Ready, Swept, Unmounted, Mine, Prechecked
    <3>7. CASE ListServices(r)
      <4> DEFINE listed == {s \in Services : svc[s] # None /\ svc[s].of = op[r].name}
      <4>1. \/ pc'[r] = "unexpose" /\ left'[r] = listed
            \/ pc'[r] = "remove" /\ listed = {}
        BY <1>1, <3>7 DEF ListServices, Goto
      <4>2. Swept(r)'
        BY <3>1, <3>3, <4>1 DEF Swept
      <4> QED
        BY <3>2, <4>1, <4>2 DEF Ready, Unmounted, Mine, Prechecked
    <3>8. CASE CheckClaim(r)
      <4>1. pc'[r] \in {"create", "mounted"}
        BY <1>1, <3>8 DEF CheckClaim, Goto
      <4> QED
        BY <3>2, <4>1 DEF Ready, Swept, Unmounted, Mine, Prechecked
    <3>9. CASE CheckMounted(r)
      <4>1. pc'[r] = "unclaim" /\ MountedBy(op[r].claim) = {}
        BY <1>1, <3>9 DEF CheckMounted, Goto
      <4>2. Unmounted(r)'
        BY <3>1, <3>3, <4>1 DEF Unmounted, MountedBy
      <4> QED
        BY <3>2, <4>1, <4>2 DEF Ready, Swept, Mine, Prechecked
    <3> QED
      BY <2>3, <3>4, <3>5, <3>6, <3>7, <3>8, <3>9
  <2> QED
    BY <2>1, <2>2, <2>3
<1> QED
  BY <1>2, <1>3, <1>4, SameShapeAlone

\* Scale, pause and resume: the shape stays.
LEMMA UpdateAlone ==
  ASSUME TInv, TInv', Alone, NEW r \in Requests, Update(r), ~Return(r)
  PROVE  Alone'
<1>1. PICK d \in Deployments :
        /\ op[r].name \in Names /\ copy[r] = dep[op[r].name] /\ copy[r] \in Deployments
        /\ d.tmpl = copy[r].tmpl /\ d.creator = copy[r].creator
        /\ d.managed = copy[r].managed
        /\ Write(r, op[r].name, d)
        /\ op[r] # None /\ Leave(r) /\ UNCHANGED <<svc, pvc, past>>
  BY UpdateWrites
<1>2. dep'[op[r].name] = d /\ \A m \in Names : m # op[r].name => dep'[m] = dep[m]
  BY <1>1, WriteTyped
<1>3. SameShape
  BY <1>1, <1>2, NoneAssumption DEF SameShape
<1>4. /\ pc'[r] = "idle"
      /\ \A q \in Requests : q # r =>
           pc'[q] = pc[q] /\ op'[q] = op[q] /\ left'[q] = left[q]
  BY <1>1 DEF TInv, TypeOK, Leave, Goto
<1>5. Ready(r)' /\ OneStructural'
  BY <1>4, OneStructuralKept DEF Alone, Busy, Ready, Swept, Unmounted, Mine, Prechecked
<1> QED
  BY <1>3, <1>4, <1>5, SameShapeAlone

\* A rollback writes another template, at the end.
LEMMA RevisionAlone ==
  ASSUME TInv, Alone, NEW r \in Requests, Revision(r), ~Return(r)
  PROVE  Alone'
<1>1. PICK d \in Deployments :
        /\ op[r] # None /\ op[r].name \in Names /\ op[r].kind = "rollback"
        /\ Write(r, op[r].name, d)
        /\ Leave(r) /\ UNCHANGED <<svc, pvc, past>>
  BY RevisionWrites
<1>2. dep'[op[r].name] = d /\ \A m \in Names : m # op[r].name => dep'[m] = dep[m]
  BY <1>1, WriteTyped
<1>3. ServicesHaveDeployment'
  BY <1>1, <1>2, NoneAssumption DEF Alone, ServicesHaveDeployment, TInv, TypeOK, ServiceObjects
<1>4. Busy(r) /\ op[r].kind \notin Counted
  BY <1>1 DEF Revision, Busy, Counted
<1>5. /\ pc'[r] = "idle"
      /\ \A q \in Requests : q # r => pc'[q] = pc[q] /\ op'[q] = op[q]
  BY <1>1 DEF TInv, TypeOK, Leave, Goto
<1> QED
  BY <1>3, <1>4, <1>5, WriterAlone DEF Alone, Ready, Swept, Unmounted, Mine, Prechecked

\* Deploy and apply write the Deployment, and then its Services.
LEMMA DeployDeploymentAlone ==
  ASSUME TInv, Alone, NEW r \in Requests, DeployDeployment(r)
  PROVE  Alone'
<1>1. /\ op[r] # None /\ op[r].name \in Names /\ op[r].kind = "deploy"
      /\ op[r].tmpl \in Templates /\ op[r].creator \in Tenants
  BY DEF TInv, TypeOK, PcOK, PCs, DeployDeployment, Ops
<1>2. PICK k \in 1..MaxReplicas :
        Write(r, op[r].name,
              [creator |-> op[r].creator, managed |-> TRUE, tmpl |-> op[r].tmpl,
               replicas |-> k, marker |-> None])
  BY DEF DeployDeployment
<1>3. [creator |-> op[r].creator, managed |-> TRUE, tmpl |-> op[r].tmpl,
       replicas |-> k, marker |-> None] \in Deployments
  BY <1>1 DEF Deployments
<1>4. /\ dep'[op[r].name] # None
      /\ \A m \in Names : m # op[r].name => dep'[m] = dep[m]
  BY <1>1, <1>2, <1>3, WriteTyped, NoneAssumption
<1>5. ServicesHaveDeployment'
  BY <1>1, <1>4
     DEF Alone, ServicesHaveDeployment, TInv, TypeOK, ServiceObjects, DeployDeployment
<1>6. /\ pc'[r] = "expose" /\ Busy(r) /\ op[r].kind \notin Counted
      /\ \A q \in Requests : q # r => pc'[q] = pc[q]
      /\ op' = op /\ svc' = svc
  BY <1>1 DEF TInv, TypeOK, DeployDeployment, Goto, Busy, Counted
<1>7. Ready(r)'
  BY <1>1, <1>4, <1>6
     DEF Alone, Ready, Swept, Unmounted, Mine, Prechecked, DeployDeployment, Ours
<1> QED
  BY <1>5, <1>6, <1>7, WriterAlone DEF Alone

LEMMA ApplyDeploymentAlone ==
  ASSUME TInv, Alone, NEW r \in Requests, ApplyDeployment(r)
  PROVE  Alone'
<1>1. /\ op[r] # None /\ op[r].name \in Names /\ op[r].kind = "apply"
      /\ op[r].creator \in Tenants \cup {None}
  BY DEF TInv, TypeOK, PcOK, PCs, Ops, ApplyDeployment
<1>2. PICK d \in Deployments : Write(r, op[r].name, d)
  BY <1>1, AppliedDeployment
<1>4. /\ dep'[op[r].name] # None
      /\ \A n \in Names : n # op[r].name => dep'[n] = dep[n]
  BY <1>1, <1>2, WriteTyped, NoneAssumption
<1>5. ServicesHaveDeployment'
  BY <1>1, <1>4
     DEF Alone, ServicesHaveDeployment, TInv, TypeOK, ServiceObjects, ApplyDeployment
<1>6. /\ Busy(r) /\ op[r].kind \notin Counted /\ svc' = svc
      /\ \A q \in Requests : q # r => pc'[q] = pc[q] /\ op'[q] = op[q]
      /\ pc'[r] = "idle" \/ (pc'[r] = "expose" /\ op'[r] = op[r])
  BY <1>1 DEF TInv, TypeOK, ApplyDeployment, Leave, Goto, Busy, Counted
<1>7. Ready(r)'
  BY <1>1, <1>4, <1>6 DEF Ready, Swept, Unmounted, Mine, Prechecked
<1> QED
  BY <1>5, <1>6, <1>7, WriterAlone DEF Alone

\* A Service that is written belongs to a Deployment that is there.
LEMMA ExposeAlone ==
  ASSUME TInv, Alone, NEW r \in Requests, Expose(r)
  PROVE  Alone'
<1>1. /\ op[r] # None /\ op[r].name \in Names /\ op[r].kind \in {"deploy", "apply"}
      /\ op[r].kind = "deploy" => op[r].creator = op[r].tenant
  BY DEF TInv, TypeOK, PcOK, PCs, Expose
<1>2. PICK s \in left[r], c \in Tenants \cup {None} :
        /\ op[r].kind = "deploy" => c = op[r].creator
        /\ svc' = [svc EXCEPT ![s] = [of |-> op[r].name, creator |-> c]]
        /\ \/ Leave(r)
           \/ UNCHANGED <<pc, op>>
        /\ dep' = dep
  BY DEF Expose
<1>3. /\ s \in Services
      /\ svc'[s] = [of |-> op[r].name, creator |-> c]
      /\ \A u \in Services : u # s => svc'[u] = svc[u]
  BY <1>2 DEF TInv, TypeOK
<1>4. dep[op[r].name] # None
  BY DEF Alone, Ready, Mine, Expose
<1>5. ServicesHaveDeployment'
  BY <1>2, <1>3, <1>4 DEF Alone, ServicesHaveDeployment
<1>6. /\ Busy(r) /\ op[r].kind \notin Counted
      /\ \A q \in Requests : q # r => pc'[q] = pc[q] /\ op'[q] = op[q]
      /\ pc'[r] = "idle" \/ (pc'[r] = "expose" /\ op'[r] = op[r])
  BY <1>1, <1>2 DEF TInv, TypeOK, Leave, Goto, Busy, Counted, Expose
<1>7. op[r].kind = "deploy" =>
        \A u \in Services : u \in op[r].ports => svc[u] = None \/ Ours(svc[u], op[r].tenant)
  BY DEF Alone, Ready, Prechecked, Expose
<1>8. op[r].kind = "deploy" => Ours(svc'[s], op[r].tenant)
  BY <1>1, <1>2, <1>3, NamesAssumption, NoneAssumption DEF Ours, ServiceObjects
<1>9. Prechecked(r)'
  <2>1. op[r].kind = "deploy" => op[r].ports \subseteq Services
    BY <1>1 DEF TInv, TypeOK, Ops
  <2> QED
    BY <1>3, <1>6, <1>7, <1>8, <2>1 DEF Prechecked, Ours
<1>10. Ready(r)'
  BY <1>2, <1>4, <1>6, <1>9 DEF Ready, Swept, Unmounted, Mine
<1> QED
  BY <1>5, <1>6, <1>10, WriterAlone DEF Alone

\* Delete takes the Services first.
LEMMA DeleteServiceAlone ==
  ASSUME Calm, TInv, Alone, NEW r \in Requests, DeleteService(r)
  PROVE  Alone'
<1>1. op[r] # None /\ op[r].kind = "delete"
  BY DEF TInv, PcOK, DeleteService
<1>2. PICK s \in left[r] :
        /\ svc' = [svc EXCEPT ![s] = None]
        /\ left' = [left EXCEPT ![r] = @ \ {s}]
        /\ Goto(r, IF left[r] = {s} THEN "remove" ELSE "unexpose")
        /\ UNCHANGED <<dep, op>>
  BY DEF DeleteService, Calm, Fault
<1>3. /\ s \in Services /\ svc'[s] = None
      /\ \A u \in Services : u # s => svc'[u] = svc[u]
      /\ left'[r] = left[r] \ {s}
  BY <1>2 DEF TInv, TypeOK
<1>4. ServicesHaveDeployment'
  BY <1>2, <1>3 DEF Alone, ServicesHaveDeployment
<1>5. /\ Busy(r) /\ op[r].kind \notin Counted
      /\ \A q \in Requests : q # r => pc'[q] = pc[q] /\ op'[q] = op[q]
      /\ op'[r] = op[r]
      /\ pc'[r] = IF left[r] = {s} THEN "remove" ELSE "unexpose"
  BY <1>1, <1>2 DEF TInv, TypeOK, Goto, Busy, Counted, DeleteService
<1>6. \A u \in Services : svc[u] # None /\ svc[u].of = op[r].name => u \in left[r]
  BY DEF Alone, Ready, Swept, DeleteService
<1>7. Swept(r)'
  BY <1>3, <1>5, <1>6 DEF Swept
<1>8. Ready(r)'
  BY <1>5, <1>7 DEF Ready, Unmounted, Mine, Prechecked
<1> QED
  BY <1>4, <1>5, <1>8, WriterAlone DEF Alone

\* The Deployment goes when no Service is left.
LEMMA DeleteDeploymentAlone ==
  ASSUME TInv, Alone, NEW r \in Requests, DeleteDeployment(r)
  PROVE  Alone'
<1>1. op[r] # None /\ op[r].name \in Names /\ op[r].kind = "delete"
  BY DEF TInv, PcOK, PCs, DeleteDeployment
<1>2. /\ svc' = svc
      /\ \A n \in Names : n # op[r].name => dep'[n] = dep[n]
  BY <1>1, WriteTyped DEF DeleteDeployment
<1>3. \A s \in Services : svc[s] # None => svc[s].of # op[r].name
  BY DEF Alone, Ready, Swept, DeleteDeployment
<1>4. ServicesHaveDeployment'
  BY <1>2, <1>3 DEF Alone, ServicesHaveDeployment, TInv, TypeOK, ServiceObjects
<1>5. /\ Busy(r) /\ op[r].kind \notin Counted /\ pc'[r] = "idle"
      /\ \A q \in Requests : q # r => pc'[q] = pc[q] /\ op'[q] = op[q]
  BY <1>1 DEF TInv, TypeOK, Leave, Goto, Busy, Counted, DeleteDeployment
<1> QED
  BY <1>4, <1>5, WriterAlone DEF Alone, Ready, Swept, Unmounted, Mine, Prechecked

\* Claims do not concern Deployments and Services.
LEMMA ClaimWriteAlone ==
  ASSUME TInv, Alone, NEW r \in Requests, ~Return(r), CreateClaim(r) \/ DeleteClaim(r)
  PROVE  Alone'
<1>1. op[r] # None /\ op[r].kind \in ClaimKinds
  BY DEF TInv, PcOK, CreateClaim, DeleteClaim
<1>2. UNCHANGED <<dep, svc>> /\ Leave(r)
  BY DEF CreateClaim, DeleteClaim
<1>3. ServicesHaveDeployment'
  BY <1>2 DEF Alone, ServicesHaveDeployment
<1>4. /\ Busy(r) /\ op[r].kind \notin Counted /\ pc'[r] = "idle"
      /\ \A q \in Requests : q # r => pc'[q] = pc[q] /\ op'[q] = op[q]
  BY <1>1, <1>2
     DEF TInv, TypeOK, Leave, Goto, Busy, Counted, ClaimKinds, CreateClaim, DeleteClaim
<1> QED
  BY <1>3, <1>4, WriterAlone DEF Alone, Ready, Swept, Unmounted, Mine, Prechecked

LEMMA AloneStart == Init => Alone
<1> SUFFICES ASSUME Init PROVE Alone
  OBVIOUS
<1>1. OneStructural
  BY DEF Init, OneStructural, Busy
<1>2. ServicesHaveDeployment
  BY DEF Init, ServicesHaveDeployment, Foreign
<1>3. \A r \in Requests : Ready(r)
  BY DEF Init, Ready, Swept, Unmounted, Mine, Prechecked
<1> QED
  BY <1>1, <1>2, <1>3 DEF Alone

LEMMA AloneKept ==
  ASSUME Calm, TInv, TInv', Alone, [Next]_vars
  PROVE  Alone'
<1>1. ASSUME NEW r \in Requests,
             Begin(r) \/ Deploy(r) \/ Change(r) \/ Delete(r) \/ Claim(r) \/ Abandon(r)
      PROVE  Alone'
  <2>1. CASE Return(r)
    BY <2>1, ReturnAlone
  <2>2. CASE ~Return(r)
    <3>1. CASE Begin(r)
      BY <3>1, BeginAlone
    <3>2. CASE Deploy(r)
      BY <2>2, <3>2, ReadAlone, DeployDeploymentAlone, ExposeAlone DEF Deploy
    <3>3. CASE Change(r)
      BY <2>2, <3>3, ReadAlone, UpdateAlone, RevisionAlone, ApplyDeploymentAlone DEF Change
    <3>4. CASE Delete(r)
      BY <2>2, <3>4, ReadAlone, DeleteServiceAlone, DeleteDeploymentAlone DEF Delete
    <3>5. CASE Claim(r)
      BY <2>2, <3>5, ReadAlone, ClaimWriteAlone DEF Claim
    <3>6. CASE Abandon(r)
      BY <2>2, <3>6 DEF Abandon
    <3> QED
      BY <1>1, <3>1, <3>2, <3>3, <3>4, <3>5, <3>6
  <2> QED
    BY <2>1, <2>2
<1>2. ASSUME UNCHANGED <<dep, svc, pc, op, left>>
      PROVE  Alone'
  BY <1>2 DEF Alone, OneStructural, ServicesHaveDeployment, Ready, Swept, Unmounted, Mine,
              Prechecked, Busy, Writable, Ours
<1> QED
  BY <1>1, <1>2 DEF Next, Rollout, vars

IInv == TInv /\ Alone

LEMMA AloneAlways ==
  ASSUME Calm
  PROVE  Spec => []IInv
<1>1. Init => IInv
  BY InitTyped, AloneStart DEF IInv
<1>2. IInv /\ [Next]_vars => IInv'
  BY NextTyped, AloneKept DEF IInv
<1> QED
  BY <1>1, <1>2, PTL DEF Spec

\* Delete never leaves a Service behind that no Deployment leads to, whatever
\* call a request stops at, when structural requests do not overlap and no
\* error is ignored.
THEOREM NoStrandedServiceCalm ==
  ASSUME Calm
  PROVE  Spec => []NoStrandedService
<1>1. IInv => NoStrandedService
  BY DEF IInv, Alone, ServicesHaveDeployment, NoStrandedService
<1> QED
  BY <1>1, AloneAlways, PTL

\* No claim goes while a service mounts it, paused or not, when structural
\* requests do not overlap and the listing of Deployments succeeds.
THEOREM MountedClaimStaysCalm ==
  ASSUME Calm
  PROVE  Spec => MountedClaimStays
<1> DEFINE Stays(v) ==
      pvc[v] # None /\ pvc'[v] = None =>
        \A n \in Names : dep[n] # None /\ dep[n].managed => MountOf[dep[n].tmpl] # v
<1>1. ASSUME IInv, [Next]_vars, NEW v \in Claims PROVE Stays(v)
  <2> SUFFICES ASSUME pvc[v] # None, pvc'[v] = None,
                      NEW n \in Names, dep[n] # None, dep[n].managed
               PROVE  MountOf[dep[n].tmpl] # v
    OBVIOUS
  <2> pvc \in [Claims -> Tenants \cup {None}]
    BY <1>1 DEF IInv, TInv, TypeOK
  <2>1. PICK r \in Requests : CreateClaim(r) \/ DeleteClaim(r)
    <3>1. ASSUME NEW r \in Requests, Return(r) PROVE FALSE
      BY <3>1 DEF Return, store
    <3>2. \A m \in Names : ~Rollout(m)
      BY DEF Rollout
    <3>3. PICK r \in Requests :
            Begin(r) \/ Deploy(r) \/ Change(r) \/ Delete(r) \/ Claim(r) \/ Abandon(r)
      BY <1>1, <3>2 DEF Next, vars
    <3>4. ~Begin(r) /\ ~Deploy(r) /\ ~Change(r) /\ ~Delete(r) /\ ~Abandon(r)
      BY <3>1 DEF Begin, Abandon, store,
         Deploy, CheckDeploy, ResolveVolume, CheckPort, DeployDeployment, Expose,
         Change, Check, Get, Update, Revision, ApplyDeployment,
         Delete, ListServices, DeleteService, DeleteDeployment
    <3>5. ~CheckClaim(r) /\ ~CheckMounted(r)
      BY <3>1 DEF CheckClaim, CheckMounted, store
    <3> QED
      BY <3>3, <3>4, <3>5 DEF Claim
  <2>2. op[r] \in Ops
    BY <1>1, <2>1 DEF IInv, TInv, TypeOK, PcOK, CreateClaim, DeleteClaim
  <2>3. CASE CreateClaim(r)
    <3>1. ~Return(r)
      BY DEF Return, store
    <3>2. pvc' = [pvc EXCEPT ![op[r].claim] = op[r].tenant]
      BY <2>3, <3>1 DEF CreateClaim
    <3> QED
      BY <2>2, <3>2, NamesAssumption DEF Ops
  <2>4. CASE DeleteClaim(r)
    <3>1. op[r].claim = v
      BY <2>4 DEF DeleteClaim
    <3> QED
      BY <1>1, <2>4, <3>1 DEF IInv, Alone, Ready, Unmounted, DeleteClaim
  <2> QED
    BY <2>1, <2>3, <2>4
<1>2. IInv /\ [Next]_vars => [\A v \in Claims : Stays(v)]_vars
  BY <1>1
<1>3. Spec => [][\A v \in Claims : Stays(v)]_vars
  BY <1>2, AloneAlways, PTL DEF Spec
<1> QED
  BY <1>3 DEF MountedClaimStays

\* Who can change a Deployment, and who a Service.
LEMMA Writers ==
  ASSUME TInv, [Next]_vars, dep' # dep \/ svc' # svc
  PROVE  \E r \in Requests :
           /\ ~Return(r)
           /\ \/ Update(r) \/ Revision(r) \/ DeployDeployment(r) \/ ApplyDeployment(r)
              \/ DeleteDeployment(r) \/ Expose(r) \/ DeleteService(r)
<1>1. ASSUME NEW r \in Requests, Return(r) PROVE FALSE
  BY <1>1 DEF Return, store
<1>2. \A m \in Names : ~Rollout(m)
  BY DEF Rollout
<1>3. PICK r \in Requests :
        Begin(r) \/ Deploy(r) \/ Change(r) \/ Delete(r) \/ Claim(r) \/ Abandon(r)
  BY <1>2 DEF Next, vars
<1>4. ~Begin(r) /\ ~Claim(r) /\ ~Abandon(r)
  BY <1>1 DEF Begin, Abandon, store,
     Claim, CheckClaim, CreateClaim, CheckMounted, DeleteClaim
<1>5. ~CheckDeploy(r) /\ ~ResolveVolume(r) /\ ~CheckPort(r) /\ ~Check(r) /\ ~Get(r)
      /\ ~ListServices(r)
  BY <1>1 DEF CheckDeploy, ResolveVolume, CheckPort, Check, Get, ListServices, store
<1> QED
  BY <1>1, <1>3, <1>4, <1>5 DEF Deploy, Change, Delete

\* A write gives a Deployment another creator only where there is none, and only
\* if it is an apply.
LEMMA CreatorKept ==
  ASSUME IInv, [Next]_vars, NEW n \in Names, dep[n] # None, dep'[n] # None,
         dep'[n].creator # dep[n].creator
  PROVE  /\ dep[n].creator = None
         /\ \E r \in Requests : pc[r] = "apply" /\ op[r].name = n
<1> TInv /\ Alone /\ dep' # dep
  BY DEF IInv
<1>1. PICK r \in Requests :
        /\ ~Return(r)
        /\ \/ Update(r) \/ Revision(r) \/ DeployDeployment(r) \/ ApplyDeployment(r)
           \/ DeleteDeployment(r)
  BY Writers DEF Expose, DeleteService
<1>2. op[r] # None /\ op[r].name \in Names /\ op[r] \in Ops
  BY <1>1 DEF TInv, TypeOK, PcOK, PCs, Update, Revision, DeployDeployment, ApplyDeployment,
              DeleteDeployment
<1>3. CASE Update(r)
  <2>1. PICK d \in Deployments :
          /\ copy[r] = dep[op[r].name] /\ d.creator = copy[r].creator
          /\ Write(r, op[r].name, d)
    BY <1>1, <1>3, UpdateWrites
  <2> QED
    BY <1>2, <2>1, WriteTyped
<1>4. CASE Revision(r)
  <2>1. PICK d \in Deployments :
          /\ copy[r] = dep[op[r].name] /\ d.creator = copy[r].creator
          /\ Write(r, op[r].name, d)
    BY <1>1, <1>4, RevisionWrites
  <2> QED
    BY <1>2, <2>1, WriteTyped
<1>5. CASE DeployDeployment(r)
  <2>1. /\ op[r].tmpl \in Templates /\ op[r].creator = op[r].tenant
        /\ op[r].creator \in Tenants
    BY <1>2, <1>5 DEF TInv, PcOK, DeployDeployment, Ops
  <2>2. PICK k \in 1..MaxReplicas :
          Write(r, op[r].name,
                [creator |-> op[r].creator, managed |-> TRUE, tmpl |-> op[r].tmpl,
                 replicas |-> k, marker |-> None])
    BY <1>5 DEF DeployDeployment
  <2>3. [creator |-> op[r].creator, managed |-> TRUE, tmpl |-> op[r].tmpl,
         replicas |-> k, marker |-> None] \in Deployments
    BY <2>1 DEF Deployments
  <2>4. dep[op[r].name] = None \/ Writable(dep[op[r].name], op[r].tenant)
    BY <1>5 DEF Alone, Ready, Mine, DeployDeployment
  <2> QED
    BY <1>2, <2>1, <2>2, <2>3, <2>4, WriteTyped DEF Writable
<1>6. CASE ApplyDeployment(r)
  <2>1. op[r].creator \in Tenants \cup {None}
    BY <1>2 DEF Ops
  <2>2. PICK d \in Deployments :
          /\ Write(r, op[r].name, d)
          /\ op[r].creator # None => d.creator = op[r].creator
    BY <1>6, <2>1, AppliedDeployment
  <2>3. dep[op[r].name] = None \/ dep[op[r].name].creator = op[r].creator
    BY <1>6 DEF Alone, Ready, Mine, ApplyDeployment
  <2>4. n = op[r].name /\ dep'[n] = d
    BY <1>2, <2>2, WriteTyped
  <2>5. pc[r] = "apply"
    BY <1>6 DEF ApplyDeployment
  <2> QED
    BY <2>2, <2>3, <2>4, <2>5
<1>7. CASE DeleteDeployment(r)
  BY <1>2, <1>7, WriteTyped DEF DeleteDeployment
<1> QED
  BY <1>1, <1>3, <1>4, <1>5, <1>6, <1>7

\* A deploy writes only Services that it may take.
LEMMA TakesItsOwn ==
  ASSUME IInv, [Next]_vars, NEW r \in Requests, NEW s \in Services,
         pc[r] = "expose", op[r].kind = "deploy", svc[s] # None, svc'[s] # svc[s]
  PROVE  svc[s].creator = svc'[s].creator
<1> TInv /\ Alone
  BY DEF IInv
<1>1. PICK q \in Requests : Expose(q) \/ DeleteService(q)
  BY Writers DEF Update, Revision, DeployDeployment, ApplyDeployment, DeleteDeployment
<1>2. q = r
  <2>1. Busy(q) /\ op[q].kind \notin Counted
    BY <1>1 DEF TInv, PcOK, Busy, Counted, Expose, DeleteService
  <2>2. Busy(r) /\ op[r].kind \notin Counted
    BY DEF Busy, Counted
  <2> QED
    BY <2>1, <2>2 DEF Alone, OneStructural
<1>3. PICK u \in left[r] :
        svc' = [svc EXCEPT ![u] = [of |-> op[r].name, creator |-> op[r].creator]]
  BY <1>1, <1>2 DEF Expose, DeleteService
<1>4. svc \in [Services -> ServiceObjects \cup {None}]
  BY DEF TInv, TypeOK
<1>5. u = s /\ svc'[s].creator = op[r].creator
  BY <1>3, <1>4
<1>6. op[r].creator = op[r].tenant /\ s \in op[r].ports
  BY <1>3, <1>5 DEF TInv, PcOK
<1>7. Ours(svc[s], op[r].tenant)
  BY <1>6 DEF Alone, Ready, Prechecked
<1> QED
  BY <1>5, <1>6, <1>7 DEF Ours

\* No request changes the owner of a Deployment that has one, only an apply
\* changes that of one that has none, and no deploy takes somebody else's
\* Service, when structural requests do not overlap and no failed read counts as
\* "nothing there".
THEOREM OwnersKeptCalm ==
  ASSUME Calm
  PROVE  Spec => OwnersKept
<1> DEFINE
      Kept ==
        /\ \A n \in Names :
             dep[n] # None /\ dep'[n] # None /\ dep'[n].creator # dep[n].creator =>
               /\ dep[n].creator = None
               /\ \E r \in Requests : pc[r] = "apply" /\ op[r].name = n
        /\ \A r \in Requests, s \in Services :
             /\ pc[r] = "expose" /\ op[r].kind = "deploy"
             /\ svc[s] # None /\ svc'[s] # svc[s]
             => svc[s].creator = svc'[s].creator
<1>1. IInv /\ [Next]_vars => [Kept]_vars
  BY CreatorKept, TakesItsOwn
<1>2. Spec => [][Kept]_vars
  BY <1>1, AloneAlways, PTL DEF Spec
<1> QED
  BY <1>2 DEF OwnersKept
=============================================================================

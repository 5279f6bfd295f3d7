----------------------- MODULE SandboxLifecycleProofs -----------------------
(***************************************************************************)
(* Proofs about SandboxLifecycle, for every set of names, requests and     *)
(* sessions: the type invariant; that a failed create leaves nothing, under*)
(* any interleaving; and that to callers who run a delete of a name alone  *)
(* (Exclusive) a create and a delete are atomic, though creates may be     *)
(* refused and pods evicted: they never meet a half-made sandbox, a kill of*)
(* somebody else's, or (without evictions) an orphan.                      *)
(***************************************************************************)
EXTENDS SandboxLifecycle, TLAPS

-----------------------------------------------------------------------------
(* The inductive invariants.                                               *)

\* Where a request of each kind may stand; one that works has a name.
PcOK ==
  /\ \A r \in Creators : pc[r] \in {"idle"} \cup Creating \cup Created
  /\ \A r \in Requests \ Creators :
       pc[r] \in {"idle", "loop", "get"} \cup Deleting
  /\ \A r \in Requests :
       pc[r] \notin {"idle", "loop"} => arg[r] \in Names

\* The Secret of a name is held by a create past its first call.
SecretHeld ==
  \A n \in Names, c \in Creators :
    secret[n] = c =>
      arg[c] = n /\ pc[c] \notin {"idle", "secret", "refused", "failed"}

\* A live pod was made by a create past its second call.
PodHeld ==
  \A n \in Names :
    Live(n) =>
      /\ arg[pod[n].token] = n
      /\ pc[pod[n].token] \in {"svc", "wait", "undoPod", "ok", "unready", "gone"}

FInv == TypeOK /\ PcOK /\ SecretHeld /\ PodHeld

\* The calls of a create that has made its Secret, and its answers once it has
\* made all three objects.
Holding == {"pod", "svc", "wait", "undoPod", "undoSecret"}
Served == {"wait", "ok", "unready"}

\* At most one request is deleting a name.
OneDelete ==
  \A r, q \in Requests :
    /\ pc[r] \in Deleting /\ pc[q] \in Deleting
    /\ arg[r] = arg[q]
    => r = q

\* Until a delete has taken the Secret it is the Secret of a sandbox whose
\* create is over, so no other create can get into the name.
DeleteOwns(n) ==
  \A r \in Requests :
    arg[r] = n /\ pc[r] \in {"dsvc", "dsecret"} =>
      /\ secret[n] # None
      /\ \A c \in Creators : arg[c] = n => pc[c] \notin Holding
      /\ pc[r] = "dsecret" => ~svc[n]

\* Nobody takes the Secret of a create at work; its Service is never refused.
CreateOwns(n) ==
  \A c \in Creators :
    arg[c] = n /\ pc[c] \in Holding => secret[n] = c /\ pc[c] # "undoPod"

\* A Service stands in front of the Secret of a create that has made it.
ServiceOwned(n) == svc[n] => secret[n] # None /\ pc[secret[n]] \in Served

\* A live pod has its Secret and Service, but for the deletes and creates that
\* are one call away from taking or giving them.
PodComplete(n) ==
  Live(n) =>
    /\ \/ secret[n] = pod[n].token
       \/ \E r \in Requests : arg[r] = n /\ pc[r] = "dpod"
    /\ \/ svc[n]
       \/ pc[pod[n].token] = "svc"
       \/ \E r \in Requests : arg[r] = n /\ pc[r] \in {"dsecret", "dpod"}

\* A terminating pod is waited for by the delete that terminated it.
TerminatingWaited(n) ==
  pod[n] # None /\ ~Live(n) => \E r \in Requests : arg[r] = n /\ pc[r] = "dwait"

Sound(n) ==
  /\ DeleteOwns(n) /\ CreateOwns(n)
  /\ ServiceOwned(n) /\ PodComplete(n) /\ TerminatingWaited(n)

SInv == FInv /\ OneDelete /\ \A n \in Names : Sound(n)

\* Where no pod is evicted, a delete that has not reached the Pod yet has it,
\* and no create, before it.
DeleteAlone(n) ==
  \A r \in Requests :
    arg[r] = n /\ pc[r] \in {"dsvc", "dsecret", "dpod"} =>
      /\ Live(n) /\ ~InCreation(n)
      /\ pc[r] = "dpod" => secret[n] = None

\* A Secret belongs to the create that still works on the name, or to its pod.
SecretOwned(n) ==
  secret[n] # None =>
    \/ pc[secret[n]] \in {"pod", "undoSecret"}
    \/ Live(n) /\ pod[n].token = secret[n]

IInv == SInv /\ \A n \in Names : DeleteAlone(n) /\ SecretOwned(n)

-----------------------------------------------------------------------------
(* Type correctness.                                                       *)

\* Deleting a Pod keeps the map of pods well-typed, and changes no token.
LEMMA TerminateTyped ==
  ASSUME TypeOK, NEW n \in Names, Terminate(n)
  PROVE  /\ pod' \in [Names -> Pods \cup {None}]
         /\ \A m \in Names : (pod'[m] = None) <=> (pod[m] = None)
         /\ \A m \in Names : pod[m] # None => pod'[m].token = pod[m].token
         /\ \A m \in Names : m # n => pod'[m] = pod[m]
         /\ ~Live(n)'
BY NoneAssumption DEF TypeOK, Terminate, Pods, Phases, Live

\* Changing the phase of a pod that is there does the same.
LEMMA SetPhaseTyped ==
  ASSUME TypeOK, NEW n \in Names, NEW from, NEW to \in Phases, SetPhase(n, from, to)
  PROVE  /\ pod' \in [Names -> Pods \cup {None}]
         /\ \A m \in Names : (pod'[m] = None) <=> (pod[m] = None)
         /\ \A m \in Names : pod[m] # None => pod'[m].token = pod[m].token
         /\ \A m \in Names : m # n => pod'[m] = pod[m]
         /\ pod'[n].phase = to
BY NoneAssumption DEF TypeOK, SetPhase, Pods

\* Neither do ageing or jobs touch a pod's token or phase.
LEMMA MarkTyped ==
  ASSUME TypeOK, NEW n \in Names, PodAges(n) \/
              \E from, to \in Jobs : Job(n, from, to)
  PROVE  /\ pod' \in [Names -> Pods \cup {None}]
         /\ \A m \in Names : (pod'[m] = None) <=> (pod[m] = None)
         /\ \A m \in Names : pod[m] # None =>
              pod'[m].token = pod[m].token /\ pod'[m].phase = pod[m].phase
<1>1. CASE PodAges(n)
  <2>1. Live(n) /\ pod' = [pod EXCEPT ![n].old = TRUE]
    BY <1>1 DEF PodAges
  <2> QED BY <2>1, NoneAssumption DEF TypeOK, Live, Pods
<1>2. ASSUME NEW from \in Jobs, NEW to \in Jobs, Job(n, from, to)
      PROVE  /\ pod' \in [Names -> Pods \cup {None}]
             /\ \A m \in Names : (pod'[m] = None) <=> (pod[m] = None)
             /\ \A m \in Names : pod[m] # None =>
                  pod'[m].token = pod[m].token /\ pod'[m].phase = pod[m].phase
  <2>1. pod[n] # None /\ pod' = [pod EXCEPT ![n].job = to]
    BY <1>2 DEF Job
  <2> QED BY <2>1, NoneAssumption DEF TypeOK, Pods, Jobs
<1> QED BY <1>1, <1>2

TInv == TypeOK /\ PcOK

LEMMA InitTInv == Init => TInv
<1> SUFFICES ASSUME Init PROVE TInv
  OBVIOUS
<1>1. TypeOK BY DEF Init, TypeOK, PCs
<1>2. PcOK BY DEF Init, PcOK, Requests
<1> QED BY <1>1, <1>2 DEF TInv

\* A create that moves on to one of its own places.
LEMMA CreatorMoves ==
  ASSUME TInv, NEW r \in Creators, NEW next \in Creating \cup Created,
         Goto(r, next), arg' \in [Requests -> Names \cup {None}],
         arg'[r] \in Names, \A q \in Requests \ {r} : arg'[q] = arg[q]
  PROVE  pc' \in [Requests -> PCs] /\ PcOK'
<1>0. r \in Requests BY DEF Requests
<1>1. pc' \in [Requests -> PCs] BY <1>0 DEF TInv, TypeOK, Goto, PCs
<1>2. pc'[r] = next /\ \A q \in Requests \ {r} : pc'[q] = pc[q]
  BY <1>0 DEF TInv, TypeOK, Goto
<1>3. Creators \subseteq Requests BY DEF Requests
<1> QED BY <1>0, <1>1, <1>2, <1>3 DEF TInv, PcOK

\* The same for the callers of Delete.
LEMMA DeleterMoves ==
  ASSUME TInv, NEW r \in Requests \ Creators,
         NEW next \in {"idle", "loop", "get"} \cup Deleting,
         Goto(r, next), arg' \in [Requests -> Names \cup {None}],
         next \in {"idle", "loop"} \/ arg'[r] \in Names,
         \A q \in Requests \ {r} : arg'[q] = arg[q]
  PROVE  pc' \in [Requests -> PCs] /\ PcOK'
<1>1. pc' \in [Requests -> PCs] BY DEF TInv, TypeOK, Goto, PCs
<1>2. pc'[r] = next /\ \A q \in Requests \ {r} : pc'[q] = pc[q]
  BY DEF TInv, TypeOK, Goto
<1>3. Creators \subseteq Requests BY DEF Requests
<1> QED BY <1>1, <1>2, <1>3 DEF TInv, PcOK

\* A step of a create keeps the types.
LEMMA CreatorTInv ==
  ASSUME TInv, NEW r \in Creators,
         CreatorStep(r) \/ \E n \in Names : CreateCheck(r, n)
  PROVE  TInv'
<1>0. r \in Requests BY DEF Requests
<1>a. ASSUME pc[r] \in Creating, UNCHANGED arg
      PROVE  /\ arg' \in [Requests -> Names \cup {None}]
             /\ arg'[r] \in Names
             /\ \A q \in Requests \ {r} : arg'[q] = arg[q]
  BY <1>0, <1>a DEF TInv, TypeOK, PcOK, Creating
<1>1. ASSUME NEW n \in Names, CreateCheck(r, n) PROVE TInv'
  <2>1. /\ arg' \in [Requests -> Names \cup {None}]
        /\ arg'[r] \in Names
        /\ \A q \in Requests \ {r} : arg'[q] = arg[q]
    BY <1>0, <1>1 DEF CreateCheck, TInv, TypeOK
  <2>2. \E next \in Creating \cup Created : Goto(r, next)
    BY <1>1 DEF CreateCheck, Creating, Created
  <2>3. pc' \in [Requests -> PCs] /\ PcOK' BY <2>1, <2>2, CreatorMoves
  <2> QED BY <1>1, <2>1, <2>3 DEF CreateCheck, TInv, TypeOK, objs
<1>2. CASE CreateSecret(r)
  <2>1. \E next \in Creating \cup Created : Goto(r, next)
    BY <1>2 DEF CreateSecret, Creating, Created
  <2>2. pc' \in [Requests -> PCs] /\ PcOK'
    BY <1>2, <1>a, <2>1, CreatorMoves DEF CreateSecret, Creating
  <2>3. secret' \in [Names -> Creators \cup {None}]
    BY <1>2 DEF CreateSecret, TInv, TypeOK
  <2> QED BY <1>2, <2>2, <2>3 DEF CreateSecret, TInv, TypeOK
<1>3. CASE CreatePod(r)
  <2>1. \E next \in Creating \cup Created : Goto(r, next)
    BY <1>3 DEF CreatePod, Creating, Created
  <2>2. pc' \in [Requests -> PCs] /\ PcOK'
    BY <1>3, <1>a, <2>1, CreatorMoves DEF CreatePod, Creating
  <2>3. NewPod(r) \in Pods BY DEF NewPod, Pods, Phases, Jobs
  <2>4. pod' \in [Names -> Pods \cup {None}]
    BY <1>3, <2>3 DEF CreatePod, TInv, TypeOK
  <2> QED BY <1>3, <2>2, <2>4 DEF CreatePod, TInv, TypeOK
<1>4. CASE CreateService(r)
  <2>1. \E next \in Creating \cup Created : Goto(r, next)
    BY <1>4 DEF CreateService, Creating, Created
  <2>2. pc' \in [Requests -> PCs] /\ PcOK'
    BY <1>4, <1>a, <2>1, CreatorMoves DEF CreateService, Creating
  <2>3. svc' \in [Names -> BOOLEAN]
    BY <1>4 DEF CreateService, TInv, TypeOK
  <2> QED BY <1>4, <2>2, <2>3 DEF CreateService, TInv, TypeOK
<1>5. CASE UndoPod(r)
  <2>1. \E next \in Creating \cup Created : Goto(r, next)
    BY <1>5 DEF UndoPod, Creating
  <2>2. pc' \in [Requests -> PCs] /\ PcOK'
    BY <1>5, <1>a, <2>1, CreatorMoves DEF UndoPod, Creating
  <2>3. arg[r] \in Names BY <1>0, <1>5 DEF TInv, PcOK, UndoPod
  <2>4. pod' \in [Names -> Pods \cup {None}]
    BY <2>3, <1>5, TerminateTyped DEF UndoPod, TInv, TypeOK
  <2> QED BY <1>5, <2>2, <2>4 DEF UndoPod, TInv, TypeOK
<1>6. CASE UndoSecret(r)
  <2>1. \E next \in Creating \cup Created : Goto(r, next)
    BY <1>6 DEF UndoSecret, Created
  <2>2. pc' \in [Requests -> PCs] /\ PcOK'
    BY <1>6, <1>a, <2>1, CreatorMoves DEF UndoSecret, Creating
  <2>3. secret' \in [Names -> Creators \cup {None}]
    BY <1>6 DEF UndoSecret, TInv, TypeOK
  <2> QED BY <1>6, <2>2, <2>3 DEF UndoSecret, TInv, TypeOK
<1>7. CASE WaitReady(r)
  <2>1. \E next \in Creating \cup Created : Goto(r, next)
    BY <1>7 DEF WaitReady, Created
  <2>2. pc' \in [Requests -> PCs] /\ PcOK'
    BY <1>7, <1>a, <2>1, CreatorMoves DEF WaitReady, Creating
  <2> QED BY <1>7, <2>2 DEF WaitReady, TInv, TypeOK, objs
<1> QED BY <1>1, <1>2, <1>3, <1>4, <1>5, <1>6, <1>7 DEF CreatorStep

\* A step of a Delete keeps the types.
LEMMA DeleteTInv ==
  ASSUME TInv, NEW r \in Requests \ Creators, DeleteStep(r)
  PROVE  TInv'
<1>0. Back(r) \in {"idle", "loop"} BY DEF Back
<1>a. ASSUME pc[r] \in {"get"} \cup Deleting, UNCHANGED arg
      PROVE  /\ arg' \in [Requests -> Names \cup {None}]
             /\ arg'[r] \in Names
             /\ \A q \in Requests \ {r} : arg'[q] = arg[q]
  BY <1>a DEF TInv, TypeOK, PcOK, Deleting
<1>1. CASE DeleteGet(r)
  <2>1. \E next \in {"idle", "loop", "get"} \cup Deleting : Goto(r, next)
    BY <1>0, <1>1 DEF DeleteGet, Deleting
  <2>2. pc' \in [Requests -> PCs] /\ PcOK'
    BY <1>1, <1>a, <2>1, DeleterMoves DEF DeleteGet
  <2> QED BY <1>1, <2>2 DEF DeleteGet, TInv, TypeOK, objs
<1>2. CASE DeleteService(r)
  <2>1. \E next \in {"idle", "loop", "get"} \cup Deleting : Goto(r, next)
    BY <1>2 DEF DeleteService, Deleting
  <2>2. pc' \in [Requests -> PCs] /\ PcOK'
    BY <1>2, <1>a, <2>1, DeleterMoves DEF DeleteService, Deleting
  <2>3. svc' \in [Names -> BOOLEAN]
    BY <1>2 DEF DeleteService, TInv, TypeOK
  <2> QED BY <1>2, <2>2, <2>3 DEF DeleteService, TInv, TypeOK
<1>3. CASE DeleteSecret(r)
  <2>1. \E next \in {"idle", "loop", "get"} \cup Deleting : Goto(r, next)
    BY <1>3 DEF DeleteSecret, Deleting
  <2>2. pc' \in [Requests -> PCs] /\ PcOK'
    BY <1>3, <1>a, <2>1, DeleterMoves DEF DeleteSecret, Deleting
  <2>3. secret' \in [Names -> Creators \cup {None}]
    BY <1>3 DEF DeleteSecret, TInv, TypeOK
  <2> QED BY <1>3, <2>2, <2>3 DEF DeleteSecret, TInv, TypeOK
<1>4. CASE DeletePod(r)
  <2>1. \E next \in {"idle", "loop", "get"} \cup Deleting : Goto(r, next)
    BY <1>0, <1>4 DEF DeletePod, Deleting
  <2>2. pc' \in [Requests -> PCs] /\ PcOK'
    BY <1>4, <1>a, <2>1, DeleterMoves DEF DeletePod, Deleting
  <2>3. arg[r] \in Names BY <1>4 DEF TInv, PcOK, DeletePod
  <2>4. pod' \in [Names -> Pods \cup {None}]
    BY <2>3, <1>4, TerminateTyped DEF DeletePod, TInv, TypeOK
  <2> QED BY <1>4, <2>2, <2>4 DEF DeletePod, TInv, TypeOK
<1>5. CASE DeleteWait(r)
  <2>1. \E next \in {"idle", "loop", "get"} \cup Deleting : Goto(r, next)
    BY <1>0, <1>5 DEF DeleteWait
  <2>2. pc' \in [Requests -> PCs] /\ PcOK'
    BY <1>5, <1>a, <2>1, DeleterMoves DEF DeleteWait, Deleting
  <2> QED BY <1>5, <2>2 DEF DeleteWait, TInv, TypeOK, objs
<1> QED BY <1>1, <1>2, <1>3, <1>4, <1>5 DEF DeleteStep

\* What a caller of Delete does outside Delete: it lists, picks a name, ends.
CallerStep(r) ==
  \/ r \in Deleters /\ \E n \in Names : DeleteSandbox(r, n)
  \/ r \in Cascades /\ (CascadeList(r) \/ CascadeStep(r))
  \/ r \in Reapers /\ (ReapList(r) \/ ReaperStep(r))

\* It changes no object, makes no API call of Delete, and keeps the types.
LEMMA CallerMoves ==
  ASSUME TInv, NEW r \in Requests \ Creators, CallerStep(r)
  PROVE  /\ UNCHANGED objs
         /\ pc[r] \in {"idle", "loop"}
         /\ \A q \in Requests \ {r} : pc'[q] = pc[q] /\ arg'[q] = arg[q]
         /\ pc'[r] \in {"idle", "loop", "get"}
         /\ TInv'
<1> DEFINE Moves(next) ==
             /\ UNCHANGED objs
             /\ pc[r] \in {"idle", "loop"}
             /\ Goto(r, next)
             /\ next \in {"idle", "loop"} \/ arg'[r] \in Names
             /\ \A q \in Requests \ {r} : arg'[q] = arg[q]
             /\ arg' \in [Requests -> Names \cup {None}]
             /\ todo' \in [Requests -> SUBSET Names]
<1>1. ASSUME NEW n \in Names, DeleteSandbox(r, n) PROVE Moves("get")
  BY <1>1 DEF DeleteSandbox, TInv, TypeOK
<1>2. ASSUME CascadeList(r) PROVE Moves("loop")
  BY <1>2 DEF CascadeList, TInv, TypeOK
<1>3. ASSUME NEW n \in Names, CascadeNext(r, n) PROVE Moves("get")
  <2>1. todo' \in [Requests -> SUBSET Names]
    BY <1>3 DEF CascadeNext, TInv, TypeOK
  <2> QED BY <1>3, <2>1 DEF CascadeNext, TInv, TypeOK
<1>4. ASSUME SweepEnd(r) PROVE Moves("idle")
  BY <1>4 DEF SweepEnd, TInv, TypeOK
<1>5. ASSUME ReapList(r) PROVE Moves("loop")
  BY <1>5 DEF ReapList, TInv, TypeOK
<1>6. ASSUME NEW n \in Names, ReapCheck(r, n) PROVE Moves("get") \/ Moves("loop")
  <2>0. todo' \in [Requests -> SUBSET Names]
    BY <1>6 DEF ReapCheck, TInv, TypeOK
  <2>1. ASSUME arg' = [arg EXCEPT ![r] = n], Goto(r, "get") PROVE Moves("get")
    BY <1>6, <2>0, <2>1 DEF ReapCheck, TInv, TypeOK
  <2>2. ASSUME UNCHANGED <<arg, pc>> PROVE Moves("loop")
    <3>1. Goto(r, "loop") BY <1>6, <2>2 DEF ReapCheck, Goto, TInv, TypeOK
    <3> QED BY <1>6, <2>0, <2>2, <3>1 DEF ReapCheck, TInv, TypeOK
  <2> QED BY <1>6, <2>1, <2>2 DEF ReapCheck
<1>7. PICK next \in {"idle", "loop", "get"} : Moves(next)
  BY <1>1, <1>2, <1>3, <1>4, <1>5, <1>6 DEF CallerStep, CascadeStep, ReaperStep
<1>8. pc' \in [Requests -> PCs] /\ PcOK' BY <1>7, DeleterMoves
<1>9. TInv' BY <1>7, <1>8 DEF TInv, TypeOK, objs
<1> QED BY <1>7, <1>9 DEF Goto, TInv, TypeOK

\* The cluster and the worker only move pods along: none appears, none changes
\* its token, a live one stays live, and only an eviction removes it.
LEMMA ClusterMoves ==
  ASSUME TInv, NEW n \in Names, ClusterStep(n)
  PROVE  /\ UNCHANGED <<secret, svc, pc, arg>>
         /\ TInv'
         /\ \A m \in Names :
              /\ pod'[m] # None =>
                   /\ pod[m] # None /\ pod'[m].token = pod[m].token
                   /\ Live(m)' <=> Live(m)
              /\ Live(m) => Live(m)' \/ Fault("evict")
<1> DEFINE Kept ==
             /\ UNCHANGED <<secret, svc, pc, arg, todo>>
             /\ pod' \in [Names -> Pods \cup {None}]
             /\ \A m \in Names :
                  /\ pod'[m] # None =>
                       /\ pod[m] # None /\ pod'[m].token = pod[m].token
                       /\ Live(m)' <=> Live(m)
                  /\ Live(m) => Live(m)' \/ Fault("evict")
<1>1. ASSUME NEW to \in {"running", "failed"}, NEW from,
             "terminating" \notin from, SetPhase(n, from, to)
      PROVE  Kept
  <2>1. to \in Phases BY DEF Phases
  <2>2. Live(n) BY <1>1 DEF SetPhase, Live
  <2>3. UNCHANGED <<secret, svc, pc, arg, todo>> BY <1>1 DEF SetPhase
  <2> QED BY <1>1, <2>1, <2>2, <2>3, SetPhaseTyped DEF Live, TInv
<1>2. ASSUME PodAges(n) \/ \E from, to \in Jobs : Job(n, from, to)
      PROVE  Kept
  <2>1. UNCHANGED <<secret, svc, pc, arg, todo>> BY <1>2 DEF PodAges, Job
  <2> QED BY <1>2, <2>1, MarkTyped DEF Live, TInv
<1>3. ASSUME PodRemoved(n) PROVE Kept
  <2>1. /\ UNCHANGED <<secret, svc, pc, arg, todo>>
        /\ pod' = [pod EXCEPT ![n] = None]
        /\ Live(n) => Fault("evict")
    BY <1>3 DEF PodRemoved, Live
  <2> QED BY <2>1 DEF TInv, TypeOK, Live
<1>4. Kept
  <2>1. PodRuns(n) => Kept BY <1>1 DEF PodRuns
  <2>2. PodFails(n) => Kept BY <1>1 DEF PodFails
  <2>3. JobStarts(n) => Kept BY <1>2 DEF JobStarts, Jobs
  <2>4. JobEnds(n) \/ JobForgotten(n) => Kept
    BY <1>2 DEF JobEnds, JobForgotten, Jobs
  <2> QED BY <1>2, <1>3, <2>1, <2>2, <2>3, <2>4 DEF ClusterStep
<1>5. TInv' BY <1>4 DEF TInv, TypeOK, PcOK
<1> QED BY <1>4, <1>5

\* A request that is abandoned changes nothing but its own place.
LEMMA AbandonMoves ==
  ASSUME TInv, NEW r \in Requests, Abandon(r)
  PROVE  /\ UNCHANGED <<objs, arg>>
         /\ pc'[r] = IF r \in Creators THEN "gone" ELSE "idle"
         /\ \A q \in Requests \ {r} : pc'[q] = pc[q]
         /\ pc[r] \notin Created \cup {"idle"}
         /\ TInv'
<1>1. /\ UNCHANGED <<objs, arg>>
      /\ pc' = [pc EXCEPT ![r] = IF r \in Creators THEN "gone" ELSE "idle"]
      /\ pc[r] \notin Created \cup {"idle"}
      /\ todo' = [todo EXCEPT ![r] = {}]
  BY DEF Abandon, Goto
<1>2. TypeOK' BY <1>1 DEF TInv, TypeOK, objs, PCs, Created
<1>3. Creators \subseteq Requests BY DEF Requests
<1>4. PcOK'
  <2>1. r \in Creators => arg[r] \in Names
    BY <1>1 DEF TInv, PcOK, Creating, Created
  <2> QED BY <1>1, <1>3, <2>1 DEF TInv, TypeOK, PcOK, Created
<1> QED BY <1>1, <1>2, <1>4 DEF TInv, TypeOK

\* Every step is one of these.
LEMMA NextCases ==
  ASSUME Next
  PROVE  \/ \E r \in Creators : CreatorStep(r) \/ \E n \in Names : CreateCheck(r, n)
         \/ \E r \in Requests \ Creators : DeleteStep(r) \/ CallerStep(r)
         \/ \E r \in Requests : Abandon(r)
         \/ \E n \in Names : ClusterStep(n)
BY RequestsAssumption DEF Next, CallerStep, Requests

LEMMA NextTInv == TInv /\ [Next]_vars => TInv'
<1> SUFFICES ASSUME TInv, [Next]_vars PROVE TInv'
  OBVIOUS
<1>1. CASE Next
  BY <1>1, NextCases, CreatorTInv, DeleteTInv, CallerMoves, AbandonMoves, ClusterMoves
<1>2. CASE UNCHANGED vars
  BY <1>2 DEF vars, objs, TInv, TypeOK, PcOK
<1> QED BY <1>1, <1>2

\* Types: every request stays in its own program, every object in its type.
THEOREM TypeCorrect == Spec => []TypeOK
<1>1. TInv => TypeOK BY DEF TInv
<1> QED BY InitTInv, NextTInv, <1>1, PTL DEF Spec

-----------------------------------------------------------------------------
(* A failed create leaves nothing behind, for every interleaving and every *)
(* failure but a lost delete.                                              *)

LEMMA TokenIsCreator ==
  ASSUME TypeOK, NEW n \in Names, pod[n] # None
  PROVE  pod[n].token \in Creators /\ pod[n].phase \in Phases
BY DEF TypeOK, Pods

\* A step that takes objects away and moves no create keeps the two invariants.
LEMMA HeldShrinks ==
  ASSUME FInv,
         \A c \in Creators : pc'[c] = pc[c] /\ arg'[c] = arg[c],
         \A n \in Names : secret'[n] \in {secret[n], None},
         \A n \in Names :
           Live(n)' => Live(n) /\ pod'[n].token = pod[n].token
  PROVE  SecretHeld' /\ PodHeld'
<1>1. SecretHeld' BY NoneAssumption DEF FInv, SecretHeld
<1>2. PodHeld'
  <2> SUFFICES ASSUME NEW n \in Names, Live(n)'
      PROVE /\ arg'[pod'[n].token] = n
            /\ pc'[pod'[n].token] \in
                 {"svc", "wait", "undoPod", "ok", "unready", "gone"}
    BY DEF PodHeld
  <2>1. pod[n].token \in Creators BY TokenIsCreator DEF FInv, Live
  <2> QED BY <2>1 DEF FInv, PodHeld
<1> QED BY <1>1, <1>2

\* The same for a step of the create r that may make or lose its own pod.
LEMMA PodHeldMoves ==
  ASSUME FInv, NEW r \in Creators, UNCHANGED arg,
         \A c \in Creators : c # r => pc'[c] = pc[c],
         \A n \in Names : Live(n)' /\ pod'[n] = pod[n] /\ pod[n].token = r =>
           pc'[r] \in {"svc", "wait", "undoPod", "ok", "unready", "gone"},
         \A n \in Names : Live(n)' /\ pod'[n] # pod[n] =>
           n = arg[r] /\ pod'[n].token = r /\ pc'[r] = "svc"
  PROVE  PodHeld'
<1> SUFFICES ASSUME NEW n \in Names, Live(n)'
             PROVE  /\ arg[pod'[n].token] = n
                    /\ pc'[pod'[n].token] \in
                         {"svc", "wait", "undoPod", "ok", "unready", "gone"}
  BY DEF PodHeld
<1>1. CASE pod'[n] # pod[n] BY <1>1
<1>2. CASE pod'[n] = pod[n]
  <2>1. Live(n) BY <1>2 DEF Live
  <2>2. pod[n].token \in Creators BY <2>1, TokenIsCreator DEF FInv, Live
  <2>3. /\ arg[pod[n].token] = n
        /\ pc[pod[n].token] \in
             {"svc", "wait", "undoPod", "ok", "unready", "gone"}
    BY <2>1 DEF FInv, PodHeld
  <2>4. CASE pod[n].token = r BY <1>2, <2>3, <2>4
  <2>5. CASE pod[n].token # r BY <1>2, <2>2, <2>3, <2>5
  <2> QED BY <2>4, <2>5
<1> QED BY <1>1, <1>2

LEMMA CreatorFInv ==
  ASSUME ~Fault("drop"), FInv, NEW r \in Creators,
         CreatorStep(r) \/ \E n \in Names : CreateCheck(r, n)
  PROVE  SecretHeld' /\ PodHeld'
<1>0. /\ r \in Requests /\ Creators \subseteq Requests
      /\ pc[r] \in Creating => arg[r] \in Names
      /\ pc \in [Requests -> PCs] /\ arg \in [Requests -> Names \cup {None}]
      /\ TypeOK
  BY DEF Requests, FInv, TypeOK, PcOK, Creating
<1>t. \A n \in Names : Live(n) => pod[n].token \in Creators
  BY <1>0, TokenIsCreator DEF Live
<1>1. ASSUME NEW n \in Names, CreateCheck(r, n) PROVE SecretHeld' /\ PodHeld'
  BY <1>0, <1>1, <1>t DEF FInv, SecretHeld, PodHeld, CreateCheck, Goto, objs, Live
<1>2. CASE CreateSecret(r)
  <2>1. SecretHeld'
    BY <1>0, <1>2, NoneAssumption
       DEF FInv, TypeOK, SecretHeld, CreateSecret, Goto, Creating
  <2>2. PodHeld'
    BY <1>0, <1>2, <1>t DEF FInv, PodHeld, CreateSecret, Goto, Live
  <2> QED BY <2>1, <2>2
<1>3. CASE CreatePod(r)
  <2>1. SecretHeld' BY <1>0, <1>3 DEF FInv, SecretHeld, CreatePod, Goto
  <2>2. CASE pod' = [pod EXCEPT ![arg[r]] = NewPod(r)] /\ Goto(r, "svc")
    <3>1. arg[r] \in Names /\ UNCHANGED arg
      BY <1>0, <1>3 DEF CreatePod, Creating
    <3>2. pod'[arg[r]].token = r
      BY <2>2, <3>1 DEF NewPod, FInv, TypeOK
    <3>3. \A n \in Names : n # arg[r] => pod'[n] = pod[n]
      BY <2>2, <3>1 DEF FInv, TypeOK
    <3>4. pc'[r] = "svc" /\ \A c \in Creators : c # r => pc'[c] = pc[c]
      BY <1>0, <2>2 DEF Goto
    <3> QED BY <2>1, <3>1, <3>2, <3>3, <3>4, PodHeldMoves DEF Live
  <2>3. CASE UNCHANGED pod /\ Goto(r, "undoSecret")
    <3>1. pc[r] = "pod" /\ UNCHANGED arg BY <1>3 DEF CreatePod
    <3>2. \A n \in Names : Live(n) => pod[n].token # r
      BY <3>1 DEF FInv, PodHeld
    <3>3. \A c \in Creators : c # r => pc'[c] = pc[c] BY <1>0, <2>3 DEF Goto
    <3> QED BY <2>1, <2>3, <3>1, <3>2, <3>3, PodHeldMoves DEF Live
  <2> QED BY <1>3, <2>1, <2>2, <2>3 DEF CreatePod
<1>4. CASE CreateService(r)
  <2>1. SecretHeld' BY <1>0, <1>4 DEF FInv, SecretHeld, CreateService, Goto
  <2>2. PodHeld' BY <1>0, <1>4, <1>t DEF FInv, PodHeld, CreateService, Goto, Live
  <2> QED BY <2>1, <2>2
<1>5. CASE WaitReady(r)
  <2>1. SecretHeld' BY <1>0, <1>5 DEF FInv, SecretHeld, WaitReady, Goto, objs
  <2>2. PodHeld' BY <1>0, <1>5, <1>t DEF FInv, PodHeld, WaitReady, Goto, objs, Live
  <2> QED BY <2>1, <2>2
<1>6. CASE UndoPod(r)
  <2>1. SecretHeld' BY <1>0, <1>6 DEF FInv, SecretHeld, UndoPod, Goto
  <2>2. PICK m \in Names : m = arg[r]
    BY <1>0, <1>6 DEF UndoPod, Creating
  <2>3. /\ ~Live(m)'
        /\ \A n \in Names : n # m => pod'[n] = pod[n]
    BY <1>0, <1>6, <2>2, TerminateTyped DEF UndoPod, Fault
  <2>4. UNCHANGED arg /\ \A c \in Creators : c # r => pc'[c] = pc[c]
    BY <1>0, <1>6 DEF UndoPod, Goto
  <2>5. \A n \in Names : Live(n)' => pod'[n] = pod[n] /\ n # arg[r]
    BY <2>2, <2>3
  <2>6. \A n \in Names : Live(n)' => pod[n].token # r
    BY <2>5 DEF FInv, PodHeld, Live
  <2>7. PodHeld' BY <2>4, <2>5, <2>6, PodHeldMoves
  <2> QED BY <2>1, <2>7
<1>7. CASE UndoSecret(r)
  <2>1. SecretHeld'
    BY <1>0, <1>7, NoneAssumption
       DEF FInv, TypeOK, SecretHeld, UndoSecret, Goto, Creating
  <2>2. PodHeld' BY <1>0, <1>7, <1>t DEF FInv, PodHeld, UndoSecret, Goto, Live
  <2> QED BY <2>1, <2>2
<1> QED BY <1>1, <1>2, <1>3, <1>4, <1>5, <1>6, <1>7 DEF CreatorStep

\* What one call of Delete does to the objects of its name, and to no other.
LEMMA DeleteMoves ==
  ASSUME TInv, NEW r \in Requests \ Creators, DeleteStep(r)
  PROVE  /\ UNCHANGED arg
         /\ \A q \in Requests \ {r} : pc'[q] = pc[q]
         /\ \A n \in Names : secret'[n] \in {secret[n], None}
         /\ \A n \in Names :
              Live(n)' => Live(n) /\ pod'[n].token = pod[n].token
<1>0. Requests \ Creators \subseteq Requests OBVIOUS
<1>1. CASE DeleteGet(r)
  BY <1>1 DEF DeleteGet, Goto, objs, Live, TInv, TypeOK
<1>2. CASE DeleteService(r)
  BY <1>2 DEF DeleteService, Goto, Live, TInv, TypeOK
<1>3. CASE DeleteSecret(r)
  BY <1>3 DEF DeleteSecret, Goto, Live, TInv, TypeOK
<1>4. CASE DeletePod(r)
  <2>1. arg[r] \in Names BY <1>4 DEF TInv, PcOK, DeletePod
  <2>2. Terminate(arg[r]) \/ UNCHANGED pod BY <1>4 DEF DeletePod
  <2>3. \A n \in Names :
          Live(n)' => Live(n) /\ pod'[n].token = pod[n].token
    BY <2>1, <2>2, TerminateTyped DEF Live, TInv
  <2> QED BY <1>4, <2>3 DEF DeletePod, Goto, TInv, TypeOK
<1>5. CASE DeleteWait(r)
  BY <1>5 DEF DeleteWait, Goto, objs, Live, TInv, TypeOK
<1> QED BY <1>1, <1>2, <1>3, <1>4, <1>5 DEF DeleteStep

LEMMA NextFInv == ~Fault("drop") /\ FInv /\ [Next]_vars => FInv'
<1> SUFFICES ASSUME ~Fault("drop"), FInv, [Next]_vars
             PROVE  SecretHeld' /\ PodHeld'
  BY NextTInv DEF FInv, TInv
<1>0. TInv /\ Creators \subseteq Requests BY DEF FInv, TInv, Requests
<1>1. ASSUME NEW r \in Requests \ Creators, DeleteStep(r)
      PROVE  SecretHeld' /\ PodHeld'
  BY <1>0, <1>1, DeleteMoves, HeldShrinks
<1>2. ASSUME NEW r \in Requests \ Creators, CallerStep(r)
      PROVE  SecretHeld' /\ PodHeld'
  <2>1. \A c \in Creators : pc'[c] = pc[c] /\ arg'[c] = arg[c]
    BY <1>0, <1>2, CallerMoves
  <2>2. UNCHANGED objs BY <1>0, <1>2, CallerMoves
  <2> QED BY <2>1, <2>2, HeldShrinks DEF objs, Live
<1>3. ASSUME NEW r \in Requests, Abandon(r) PROVE SecretHeld' /\ PodHeld'
  <2>1. /\ UNCHANGED <<objs, arg>>
        /\ pc[r] \notin Created \cup {"idle"}
        /\ \A c \in Creators : pc'[c] = IF c = r THEN "gone" ELSE pc[c]
    BY <1>0, <1>3, AbandonMoves
  <2>2. SecretHeld' BY <2>1 DEF FInv, SecretHeld, objs, Created
  <2>3. \A n \in Names : Live(n) => pod[n].token \in Creators
    BY TokenIsCreator DEF FInv, Live
  <2>4. PodHeld' BY <2>1, <2>3 DEF FInv, PodHeld, objs, Live
  <2> QED BY <2>2, <2>4
<1>4. ASSUME NEW n \in Names, ClusterStep(n) PROVE SecretHeld' /\ PodHeld'
  <2>1. UNCHANGED <<secret, svc, pc, arg>> BY <1>0, <1>4, ClusterMoves
  <2>2. \A m \in Names : Live(m)' => Live(m) /\ pod'[m].token = pod[m].token
    BY <1>0, <1>4, ClusterMoves DEF Live
  <2> QED BY <2>1, <2>2, HeldShrinks
<1>5. CASE UNCHANGED vars
  BY <1>5, HeldShrinks DEF vars, objs, Live
<1>6. CASE Next
  BY <1>6, NextCases, CreatorFInv, <1>1, <1>2, <1>3, <1>4
<1> QED BY <1>5, <1>6

LEMMA InitFInv == Init => FInv
<1> SUFFICES ASSUME Init PROVE FInv
  OBVIOUS
<1>1. SecretHeld BY NoneAssumption DEF Init, SecretHeld
<1>2. PodHeld BY DEF Init, PodHeld, Live
<1> QED BY <1>1, <1>2, InitTInv DEF FInv, TInv

\* Unless a delete is lost, a create that answered with an error has left
\* neither Secret nor Pod, whoever else works on the name (k8s.go Create).
THEOREM FailedCreateClean ==
  ASSUME "drop" \notin Faults
  PROVE  Spec => []FailedCreateLeavesNothing
<1>1. ~Fault("drop") BY DEF Fault
<1>2. FInv => FailedCreateLeavesNothing
  <2> SUFFICES ASSUME FInv, NEW r \in Creators, NEW n \in Names,
                      pc[r] \in {"refused", "failed"}
               PROVE  secret[n] # r /\ ~(Live(n) /\ pod[n].token = r)
    BY DEF FailedCreateLeavesNothing
  <2>1. secret[n] # r BY DEF FInv, SecretHeld
  <2>2. ~(Live(n) /\ pod[n].token = r) BY DEF FInv, PodHeld
  <2> QED BY <2>1, <2>2
<1> QED BY InitFInv, NextFInv, <1>1, <1>2, PTL DEF Spec

-----------------------------------------------------------------------------
(* Callers that delete a name alone; creates may be refused, pods evicted. *)

Calm == Exclusive /\ Faults \subseteq {"reject", "evict"}

\* Who holds the Secret and who made the pod are creates of the name.
LEMMA Holders ==
  ASSUME FInv, NEW n \in Names
  PROVE  /\ secret[n] # None =>
              /\ secret[n] \in Creators /\ arg[secret[n]] = n
              /\ pc[secret[n]] \in Holding \cup Served \cup {"gone"}
         /\ Live(n) =>
              /\ pod[n].token \in Creators /\ arg[pod[n].token] = n
              /\ pc[pod[n].token] \in {"svc", "undoPod", "gone"} \cup Served
<1>1. ASSUME secret[n] # None
      PROVE  /\ secret[n] \in Creators /\ arg[secret[n]] = n
             /\ pc[secret[n]] \in Holding \cup Served \cup {"gone"}
  <2>1. secret[n] \in Creators BY <1>1 DEF FInv, TypeOK
  <2> QED
    BY <2>1 DEF FInv, SecretHeld, PcOK, Creating, Created, Holding, Served
<1>2. ASSUME Live(n)
      PROVE  /\ pod[n].token \in Creators /\ arg[pod[n].token] = n
             /\ pc[pod[n].token] \in {"svc", "undoPod", "gone"} \cup Served
  BY <1>2, TokenIsCreator DEF FInv, PodHeld, Live, Served
<1> QED BY <1>1, <1>2

\* A step of a create moves that create only.
LEMMA CreatorFrame ==
  ASSUME TInv, NEW r \in Creators, CreatorStep(r)
  PROVE  /\ r \in Requests /\ arg[r] \in Names /\ UNCHANGED arg
         /\ pc[r] \in Creating
         /\ \A q \in Requests : q # r => pc'[q] = pc[q]
<1>1. r \in Requests BY DEF Requests
<1>2. CASE CreateSecret(r)
  BY <1>1, <1>2 DEF CreateSecret, Goto, TInv, TypeOK, PcOK, Creating
<1>3. CASE CreatePod(r)
  BY <1>1, <1>3 DEF CreatePod, Goto, TInv, TypeOK, PcOK, Creating
<1>4. CASE CreateService(r)
  BY <1>1, <1>4 DEF CreateService, Goto, TInv, TypeOK, PcOK, Creating
<1>5. CASE WaitReady(r)
  BY <1>1, <1>5 DEF WaitReady, Goto, TInv, TypeOK, PcOK, Creating
<1>6. CASE UndoPod(r)
  BY <1>1, <1>6 DEF UndoPod, Goto, TInv, TypeOK, PcOK, Creating
<1>7. CASE UndoSecret(r)
  BY <1>1, <1>7 DEF UndoSecret, Goto, TInv, TypeOK, PcOK, Creating
<1> QED BY <1>2, <1>3, <1>4, <1>5, <1>6, <1>7 DEF CreatorStep

\* A name is deleted by one request at a time, if callers see to it.
LEMMA OneDeleteNext == Exclusive /\ TInv /\ OneDelete /\ [Next]_vars => OneDelete'
<1> SUFFICES ASSUME Exclusive, TInv, OneDelete, [Next]_vars PROVE OneDelete'
  OBVIOUS
<1>0. TInv' /\ Creators \subseteq Requests BY NextTInv DEF Requests
<1>1. ASSUME NEW r \in Requests,
             \A q \in Requests \ {r} :
               pc'[q] \in Deleting => pc[q] \in Deleting /\ arg'[q] = arg[q],
             \/ pc'[r] \notin Deleting
             \/ pc[r] \in Deleting /\ arg'[r] = arg[r]
             \/ ~InDeletion(arg'[r])
      PROVE  OneDelete'
  BY <1>1 DEF OneDelete, InDeletion
<1>2. ASSUME NEW r \in Creators, CreatorStep(r) \/ \E n \in Names : CreateCheck(r, n)
      PROVE  OneDelete'
  <2>1. pc'[r] \notin Deleting BY <1>0 DEF TInv, PcOK, Creating, Created, Deleting
  <2>2. \A q \in Requests \ {r} : pc'[q] = pc[q] /\ arg'[q] = arg[q]
    BY <1>2 DEF TInv, TypeOK, CreatorStep, CreateCheck, CreateSecret, CreatePod,
       CreateService, WaitReady, UndoPod, UndoSecret, Goto
  <2> QED BY <1>0, <1>1, <2>1, <2>2
<1>3. ASSUME NEW r \in Requests \ Creators, DeleteStep(r) PROVE OneDelete'
  <2>1. UNCHANGED arg /\ \A q \in Requests \ {r} : pc'[q] = pc[q]
    BY <1>3, DeleteMoves
  <2>2. pc'[r] \notin Deleting \/ pc[r] \in Deleting \/ ~InDeletion(arg[r])
    BY <1>3 DEF DeleteStep, DeleteGet, DeleteService, DeleteSecret, DeletePod, DeleteWait,
       MayDelete, Goto, Back, TInv, TypeOK, Deleting
  <2> QED BY <1>1, <2>1, <2>2
<1>4. ASSUME NEW r \in Requests \ Creators, CallerStep(r) PROVE OneDelete'
  BY <1>1, <1>4, CallerMoves DEF Deleting
<1>5. ASSUME NEW r \in Requests, Abandon(r) PROVE OneDelete'
  BY <1>1, <1>5, AbandonMoves DEF Deleting
<1>6. ASSUME NEW n \in Names, ClusterStep(n) PROVE OneDelete'
  BY <1>6, ClusterMoves DEF OneDelete
<1>7. CASE UNCHANGED vars BY <1>7 DEF vars, OneDelete
<1> QED BY <1>2, <1>3, <1>4, <1>5, <1>6, <1>7, NextCases

\* A step that leaves the Secret and the Service of a name, and the creates and
\* deletes at work on it, and does not make or terminate its pod.
LEMMA SoundElsewhere ==
  ASSUME FInv, NEW n \in Names, Sound(n),
         secret'[n] = secret[n], svc'[n] = svc[n],
         Live(n)' => Live(n) /\ pod'[n].token = pod[n].token,
         pod'[n] # None /\ ~Live(n)' => pod[n] # None /\ ~Live(n),
         \A c \in Creators :
           arg[c] = n /\ pc[c] \in Holding \cup Served => pc'[c] = pc[c],
         \A c \in Creators :
           arg'[c] = n /\ pc'[c] \in Holding => arg[c] = n /\ pc[c] = pc'[c],
         \A r \in Requests :
           arg'[r] = n /\ pc'[r] \in {"dsvc", "dsecret"} =>
             arg[r] = n /\ pc[r] = pc'[r],
         \A r \in Requests :
           arg[r] = n /\ pc[r] \in {"dsecret", "dpod", "dwait"} =>
             arg'[r] = n /\ pc'[r] = pc[r]
  PROVE  Sound(n)'
<1>1. secret[n] # None => secret[n] \in Creators /\ arg[secret[n]] = n
  BY Holders
<1>2. Live(n) => pod[n].token \in Creators /\ arg[pod[n].token] = n
  BY Holders
<1>3. DeleteOwns(n)' BY DEF Sound, DeleteOwns
<1>4. CreateOwns(n)' BY DEF Sound, CreateOwns
<1>5. ServiceOwned(n)' BY <1>1 DEF Sound, ServiceOwned
<1>6. PodComplete(n)'
  <2> SUFFICES ASSUME Live(n)'
      PROVE  /\ \/ secret'[n] = pod'[n].token
                \/ \E r \in Requests : arg'[r] = n /\ pc'[r] = "dpod"
             /\ \/ svc'[n]
                \/ pc'[pod'[n].token] = "svc"
                \/ \E r \in Requests : arg'[r] = n /\ pc'[r] \in {"dsecret", "dpod"}
    BY DEF PodComplete
  <2>1. \/ secret'[n] = pod'[n].token
        \/ \E r \in Requests : arg'[r] = n /\ pc'[r] = "dpod"
    BY DEF Sound, PodComplete
  <2>2. \/ svc'[n]
        \/ pc'[pod'[n].token] = "svc"
        \/ \E r \in Requests : arg'[r] = n /\ pc'[r] \in {"dsecret", "dpod"}
    BY <1>2 DEF Sound, PodComplete, Holding
  <2> QED BY <2>1, <2>2
<1>7. TerminatingWaited(n)' BY DEF Sound, TerminatingWaited
<1> QED BY <1>3, <1>4, <1>5, <1>6, <1>7 DEF Sound

\* A create at its own name.
LEMMA CreatorSound ==
  ASSUME Calm, SInv, NEW r \in Creators, CreatorStep(r), NEW n \in Names, n = arg[r]
  PROVE  Sound(n)'
<1>0. /\ FInv /\ TypeOK /\ TInv /\ Sound(n) /\ UNCHANGED arg
      /\ r \in Requests /\ Creators \subseteq Requests
      /\ pc \in [Requests -> PCs] /\ pc[r] \in Creating
      /\ \A q \in Requests : q # r => pc'[q] = pc[q]
      /\ \A c \in Creators : pc[c] \notin Deleting
  BY CreatorFrame
     DEF SInv, FInv, TInv, TypeOK, PcOK, Requests, Creating, Created, Deleting
<1>h. /\ secret[n] # None => secret[n] \in Creators /\ arg[secret[n]] = n
      /\ Live(n) => pod[n].token \in Creators
      /\ Live(n) => pc[pod[n].token] \in {"svc", "undoPod", "gone"} \cup Served
  BY <1>0, Holders
\* A create that is refused its Secret is not at work on the name yet.
<1>1. CASE CreateSecret(r)
  <2>0. pc[r] = "secret" /\ pod' = pod /\ svc' = svc BY <1>1 DEF CreateSecret
  <2>1. CASE secret[n] = None /\ secret' = [secret EXCEPT ![n] = r] /\ pc'[r] = "pod"
    <3>1. secret'[n] = r BY <2>1 DEF TypeOK, TInv, SInv, FInv
    <3>2. \A q \in Requests : arg[q] = n => pc[q] \notin {"dsvc", "dsecret"}
      BY <1>0, <2>1 DEF Sound, DeleteOwns
    <3>3. ~svc[n] BY <1>0, <2>1 DEF Sound, ServiceOwned
    <3>4. DeleteOwns(n)' BY <1>0, <2>1, <3>2 DEF DeleteOwns
    <3>5. CreateOwns(n)'
      BY <1>0, <2>1, <3>1, NoneAssumption DEF Sound, CreateOwns
    <3>6. ServiceOwned(n)' BY <2>0, <3>3 DEF ServiceOwned
    <3>7. PodComplete(n)'
      BY <1>0, <1>h, <2>0, <2>1, NoneAssumption DEF Sound, PodComplete, Live, Served
    <3>8. TerminatingWaited(n)'
      BY <1>0, <2>0 DEF Sound, TerminatingWaited, Live
    <3> QED BY <3>4, <3>5, <3>6, <3>7, <3>8 DEF Sound
  <2>2. CASE secret' = secret /\ pc'[r] \in {"refused", "failed"}
    BY <1>0, <2>0, <2>2, SoundElsewhere DEF Live, Holding, Served
  <2> QED BY <1>0, <1>1, <2>1, <2>2 DEF CreateSecret, Goto
<1>2. CASE CreatePod(r)
  <2>0. pc[r] = "pod" /\ secret' = secret /\ svc' = svc /\ pc'[r] \in {"svc", "undoSecret"}
    BY <1>0, <1>2 DEF CreatePod, Goto
  <2>1. /\ secret[n] = r /\ ~svc[n]
        /\ \A q \in Requests : arg[q] = n => pc[q] \notin {"dsvc", "dsecret"}
    BY <1>0, <2>0 DEF Sound, CreateOwns, DeleteOwns, ServiceOwned, Holding, Served
  <2>2. DeleteOwns(n)' BY <1>0, <2>0, <2>1 DEF DeleteOwns
  <2>3. CreateOwns(n)' BY <1>0, <2>0, <2>1 DEF Sound, CreateOwns, Holding
  <2>4. ServiceOwned(n)' BY <2>0, <2>1 DEF ServiceOwned
  <2>5. CASE pod[n] = None /\ pod' = [pod EXCEPT ![n] = NewPod(r)] /\ pc'[r] = "svc"
    <3>1. pod'[n] = NewPod(r) /\ pod'[n].token = r /\ Live(n)'
      <4>1. NewPod(r) \in Pods BY DEF NewPod, Pods, Phases, Jobs
      <4>2. NewPod(r) # None BY <4>1, NoneAssumption
      <4> QED BY <1>0, <2>5, <4>2 DEF NewPod, Live, TypeOK
    <3>2. PodComplete(n)' BY <2>0, <2>1, <2>5, <3>1 DEF PodComplete
    <3>3. TerminatingWaited(n)' BY <3>1 DEF TerminatingWaited
    <3> QED BY <2>2, <2>3, <2>4, <3>2, <3>3 DEF Sound
  <2>6. CASE pod' = pod /\ pc'[r] = "undoSecret"
    <3>1. PodComplete(n)'
      BY <1>0, <1>h, <2>0, <2>6 DEF Sound, PodComplete, Live, Served
    <3>2. TerminatingWaited(n)'
      BY <1>0, <2>0, <2>6 DEF Sound, TerminatingWaited, Live
    <3> QED BY <2>2, <2>3, <2>4, <3>1, <3>2 DEF Sound
  <2> QED BY <1>0, <1>2, <2>5, <2>6 DEF CreatePod, Goto
<1>3. CASE CreateService(r)
  <2>0. pc[r] = "svc" /\ secret' = secret /\ pod' = pod BY <1>3 DEF CreateService
  <2>1. /\ secret[n] = r /\ ~svc[n]
        /\ \A q \in Requests : arg[q] = n => pc[q] \notin {"dsvc", "dsecret"}
    BY <1>0, <2>0 DEF Sound, CreateOwns, DeleteOwns, ServiceOwned, Holding, Served
  <2>2. svc'[n] /\ pc'[r] = "wait"
    BY <1>0, <1>3, <2>1 DEF CreateService, Goto, Calm, Fault, TypeOK
  <2>3. DeleteOwns(n)' BY <1>0, <2>1, <2>2 DEF DeleteOwns
  <2>4. CreateOwns(n)' BY <1>0, <2>0, <2>1, <2>2 DEF Sound, CreateOwns, Holding
  <2>5. ServiceOwned(n)' BY <2>0, <2>1, <2>2, NoneAssumption DEF ServiceOwned, Served
  <2>6. PodComplete(n)'
    BY <1>0, <2>0, <2>2 DEF Sound, PodComplete, Live
  <2>7. TerminatingWaited(n)'
    BY <1>0, <2>0 DEF Sound, TerminatingWaited, Live
  <2> QED BY <2>3, <2>4, <2>5, <2>6, <2>7 DEF Sound
<1>4. CASE WaitReady(r)
  <2>0. pc[r] = "wait" /\ UNCHANGED objs /\ pc'[r] \in {"ok", "unready"}
    BY <1>0, <1>4 DEF WaitReady, Goto
  <2>1. DeleteOwns(n)' BY <1>0, <2>0 DEF Sound, DeleteOwns, Holding, objs
  <2>2. CreateOwns(n)' BY <1>0, <2>0 DEF Sound, CreateOwns, Holding, objs
  <2>3. ServiceOwned(n)' BY <1>0, <1>h, <2>0 DEF Sound, ServiceOwned, Served, objs
  <2>4. PodComplete(n)'
    BY <1>0, <1>h, <2>0 DEF Sound, PodComplete, Live, Served, objs
  <2>5. TerminatingWaited(n)'
    BY <1>0, <2>0 DEF Sound, TerminatingWaited, Live, objs
  <2> QED BY <2>1, <2>2, <2>3, <2>4, <2>5 DEF Sound
<1>5. CASE UndoPod(r) BY <1>0, <1>5 DEF UndoPod, Sound, CreateOwns, Holding
<1>6. CASE UndoSecret(r)
  <2>0. /\ pc[r] = "undoSecret" /\ pc'[r] = "failed" /\ pod' = pod /\ svc' = svc
        /\ secret'[n] = None
    BY <1>0, <1>6 DEF UndoSecret, Goto, Calm, Fault, TypeOK
  <2>1. /\ secret[n] = r /\ ~svc[n]
        /\ \A q \in Requests : arg[q] = n => pc[q] \notin {"dsvc", "dsecret"}
    BY <1>0, <2>0 DEF Sound, CreateOwns, DeleteOwns, ServiceOwned, Holding, Served
  <2>2. DeleteOwns(n)' BY <1>0, <2>0, <2>1 DEF DeleteOwns
  <2>3. CreateOwns(n)' BY <1>0, <2>0, <2>1 DEF Sound, CreateOwns, Holding
  <2>4. ServiceOwned(n)' BY <2>0, <2>1 DEF ServiceOwned
  <2>5. PodComplete(n)'
    <3>1. Live(n) => pod[n].token # r BY <1>h, <2>0 DEF Served
    <3> QED BY <1>0, <1>h, <2>0, <2>1, <3>1 DEF Sound, PodComplete, Live
  <2>6. TerminatingWaited(n)'
    BY <1>0, <2>0 DEF Sound, TerminatingWaited, Live
  <2> QED BY <2>2, <2>3, <2>4, <2>5, <2>6 DEF Sound
<1> QED BY <1>1, <1>2, <1>3, <1>4, <1>5, <1>6 DEF CreatorStep

\* A delete at the name it works on.
LEMMA DeleteSound ==
  ASSUME Calm, SInv, NEW r \in Requests \ Creators, DeleteStep(r),
         NEW n \in Names, n = arg[r]
  PROVE  Sound(n)'
<1>0. /\ FInv /\ TypeOK /\ TInv /\ Sound(n) /\ UNCHANGED arg
      /\ Creators \subseteq Requests
      /\ \A q \in Requests : q # r => pc'[q] = pc[q]
      /\ \A c \in Creators : pc'[c] = pc[c]
      /\ pc \in [Requests -> PCs] /\ Back(r) \in {"idle", "loop"}
  BY DeleteMoves DEF SInv, FInv, TInv, TypeOK, Requests, Back
<1>h. /\ secret[n] # None => secret[n] \in Creators
      /\ Live(n) => pod[n].token \in Creators
  BY <1>0, Holders
<1>1. CASE DeleteGet(r)
  <2>0. pc[r] = "get" /\ UNCHANGED objs /\ pc'[r] \in {"idle", "loop", "dsvc"}
    BY <1>0, <1>1 DEF DeleteGet, Goto
  <2>1. CASE pc'[r] = "dsvc"
    <3>1. pod[n] # None /\ ~InCreation(n) /\ ~InDeletion(n)
      BY <1>0, <1>1, <2>1 DEF DeleteGet, MayDelete, Calm, Goto
    <3>2. Live(n) BY <1>0, <3>1 DEF Sound, TerminatingWaited, InDeletion, Deleting
    <3>3. secret[n] # None
      BY <1>0, <1>h, <3>1, <3>2, NoneAssumption DEF Sound, PodComplete, InDeletion, Deleting
    <3>4. \A c \in Creators : arg[c] = n => pc[c] \notin Holding
      BY <3>1 DEF InCreation, Creating, Holding
    <3>5. DeleteOwns(n)'
      BY <1>0, <2>0, <2>1, <3>1, <3>3, <3>4 DEF DeleteOwns, InDeletion, Deleting, objs
    <3>6. CreateOwns(n)' BY <1>0, <2>0 DEF Sound, CreateOwns, objs
    <3>7. ServiceOwned(n)' BY <1>0, <1>h, <2>0 DEF Sound, ServiceOwned, objs
    <3>8. PodComplete(n)'
      BY <1>0, <1>h, <2>0 DEF Sound, PodComplete, Live, objs
    <3>9. TerminatingWaited(n)' BY <2>0, <3>2 DEF TerminatingWaited, Live, objs
    <3> QED BY <3>5, <3>6, <3>7, <3>8, <3>9 DEF Sound
  <2>2. CASE pc'[r] # "dsvc"
    BY <1>0, <2>0, <2>2, SoundElsewhere DEF objs, Live
  <2> QED BY <2>1, <2>2
<1>2. CASE DeleteService(r)
  <2>0. /\ pc[r] = "dsvc" /\ pc'[r] = "dsecret" /\ secret' = secret /\ pod' = pod
        /\ svc'[n] = FALSE
    BY <1>0, <1>2 DEF DeleteService, Goto, Calm, Fault, TypeOK
  <2>1. /\ secret[n] # None
        /\ \A c \in Creators : arg[c] = n => pc[c] \notin Holding
    BY <1>0, <2>0 DEF Sound, DeleteOwns
  <2>2. DeleteOwns(n)' BY <1>0, <2>0, <2>1 DEF DeleteOwns
  <2>3. CreateOwns(n)' BY <1>0, <2>0 DEF Sound, CreateOwns
  <2>4. ServiceOwned(n)' BY <2>0 DEF ServiceOwned
  <2>5. PodComplete(n)'
    BY <1>0, <1>h, <2>0 DEF Sound, PodComplete, Live
  <2>6. TerminatingWaited(n)'
    BY <1>0, <2>0 DEF Sound, TerminatingWaited, Live
  <2> QED BY <2>2, <2>3, <2>4, <2>5, <2>6 DEF Sound
<1>3. CASE DeleteSecret(r)
  <2>0. /\ pc[r] = "dsecret" /\ pc'[r] = "dpod" /\ svc' = svc /\ pod' = pod
        /\ secret'[n] = None
    BY <1>0, <1>3 DEF DeleteSecret, Goto, Calm, Fault, TypeOK
  <2>1. /\ ~svc[n]
        /\ \A c \in Creators : arg[c] = n => pc[c] \notin Holding
    BY <1>0, <2>0 DEF Sound, DeleteOwns
  <2>2. \A q \in Requests : arg[q] = n => pc'[q] \notin {"dsvc", "dsecret"}
    BY <1>0, <2>0 DEF SInv, OneDelete, Deleting
  <2>3. DeleteOwns(n)' BY <1>0, <2>2 DEF DeleteOwns
  <2>4. CreateOwns(n)' BY <1>0, <2>1 DEF CreateOwns
  <2>5. ServiceOwned(n)' BY <2>0, <2>1 DEF ServiceOwned
  <2>6. PodComplete(n)' BY <1>0, <2>0 DEF PodComplete
  <2>7. TerminatingWaited(n)'
    BY <1>0, <2>0 DEF Sound, TerminatingWaited, Live
  <2> QED BY <2>3, <2>4, <2>5, <2>6, <2>7 DEF Sound
<1>4. CASE DeletePod(r)
  <2>0. pc[r] = "dpod" /\ pc'[r] = "dwait" /\ UNCHANGED <<secret, svc>> /\ Terminate(n)
    BY <1>0, <1>4 DEF DeletePod, Goto, Calm, Fault
  <2>1. ~Live(n)' BY <1>0, <2>0, TerminateTyped
  <2>2. DeleteOwns(n)' BY <1>0, <2>0 DEF Sound, DeleteOwns
  <2>3. CreateOwns(n)' BY <1>0, <2>0 DEF Sound, CreateOwns
  <2>4. ServiceOwned(n)' BY <1>0, <1>h, <2>0 DEF Sound, ServiceOwned
  <2>5. PodComplete(n)' BY <2>1 DEF PodComplete
  <2>6. TerminatingWaited(n)' BY <1>0, <2>0 DEF TerminatingWaited
  <2> QED BY <2>2, <2>3, <2>4, <2>5, <2>6 DEF Sound
<1>5. CASE DeleteWait(r)
  <2>0. /\ pc[r] = "dwait" /\ UNCHANGED objs /\ pc'[r] \in {"idle", "loop"}
        /\ pod[n] = None \/ Live(n)
    BY <1>0, <1>5 DEF DeleteWait, Goto, Calm, Fault
  <2>1. DeleteOwns(n)' BY <1>0, <2>0 DEF Sound, DeleteOwns, objs
  <2>2. CreateOwns(n)' BY <1>0, <2>0 DEF Sound, CreateOwns, objs
  <2>3. ServiceOwned(n)' BY <1>0, <1>h, <2>0 DEF Sound, ServiceOwned, objs
  <2>4. PodComplete(n)'
    BY <1>0, <1>h, <2>0 DEF Sound, PodComplete, Live, objs
  <2>5. TerminatingWaited(n)' BY <2>0 DEF TerminatingWaited, Live, objs
  <2> QED BY <2>1, <2>2, <2>3, <2>4, <2>5 DEF Sound
<1> QED BY <1>1, <1>2, <1>3, <1>4, <1>5 DEF DeleteStep

\* An API call changes the objects of the name it is made for, and no other.
LEMMA OtherNames ==
  ASSUME TInv, NEW r \in Requests,
         \/ r \in Creators /\ CreatorStep(r)
         \/ r \notin Creators /\ DeleteStep(r),
         NEW n \in Names, n # arg[r]
  PROVE  secret'[n] = secret[n] /\ svc'[n] = svc[n] /\ pod'[n] = pod[n]
<1>1. CASE r \in Creators /\ CreatorStep(r)
  BY <1>1 DEF TInv, TypeOK, CreatorStep, CreateSecret, CreatePod, CreateService, WaitReady,
     UndoPod, UndoSecret, Terminate, objs
<1>2. CASE r \notin Creators /\ DeleteStep(r)
  BY <1>2 DEF TInv, TypeOK, DeleteStep, DeleteGet, DeleteService, DeleteSecret, DeletePod,
     DeleteWait, Terminate, objs
<1> QED BY <1>1, <1>2

LEMMA NextSInv == Calm /\ SInv /\ [Next]_vars => SInv'
<1> SUFFICES ASSUME Calm, SInv, [Next]_vars, NEW n \in Names PROVE Sound(n)'
  BY NextFInv, OneDeleteNext DEF SInv, FInv, TInv, Calm, Fault
<1>0. /\ FInv /\ TInv /\ TypeOK /\ Sound(n) /\ Creators \subseteq Requests
  BY DEF SInv, FInv, TInv, Requests
<1>1. ASSUME NEW r \in Creators, CreatorStep(r) PROVE Sound(n)'
  <2>1. CASE arg[r] = n BY <1>1, <2>1, CreatorSound
  <2>2. CASE arg[r] # n
    <3>1. UNCHANGED arg /\ \A q \in Requests : q # r => pc'[q] = pc[q]
      BY <1>0, <1>1, CreatorFrame
    <3>2. secret'[n] = secret[n] /\ svc'[n] = svc[n] /\ pod'[n] = pod[n]
      BY <1>0, <1>1, <2>2, OtherNames
    <3> QED BY <1>0, <2>2, <3>1, <3>2, SoundElsewhere DEF Live
  <2> QED BY <2>1, <2>2
<1>2. ASSUME NEW r \in Creators, NEW m \in Names, CreateCheck(r, m) PROVE Sound(n)'
  <2>1. /\ UNCHANGED objs /\ pc[r] = "idle" /\ pc'[r] \in {"secret", "refused"}
        /\ \A q \in Requests : q # r => pc'[q] = pc[q] /\ arg'[q] = arg[q]
    BY <1>0, <1>2 DEF CreateCheck, Goto, TypeOK
  <2> QED BY <1>0, <2>1, SoundElsewhere DEF objs, Live, Holding, Served
<1>3. ASSUME NEW r \in Requests \ Creators, DeleteStep(r) PROVE Sound(n)'
  <2>1. CASE arg[r] = n BY <1>3, <2>1, DeleteSound
  <2>2. CASE arg[r] # n
    <3>1. UNCHANGED arg /\ \A q \in Requests : q # r => pc'[q] = pc[q]
      BY <1>0, <1>3, DeleteMoves
    <3>2. secret'[n] = secret[n] /\ svc'[n] = svc[n] /\ pod'[n] = pod[n]
      BY <1>0, <1>3, <2>2, OtherNames
    <3> QED BY <1>0, <2>2, <3>1, <3>2, SoundElsewhere DEF Live
  <2> QED BY <2>1, <2>2
<1>4. ASSUME NEW r \in Requests \ Creators, CallerStep(r) PROVE Sound(n)'
  <2>1. /\ UNCHANGED objs
        /\ pc[r] \in {"idle", "loop"} /\ pc'[r] \in {"idle", "loop", "get"}
        /\ \A q \in Requests : q # r => pc'[q] = pc[q] /\ arg'[q] = arg[q]
    BY <1>0, <1>4, CallerMoves
  <2> QED BY <1>0, <2>1, SoundElsewhere DEF objs, Live
<1>5. ASSUME NEW r \in Requests, Abandon(r) PROVE FALSE
  BY <1>5 DEF Abandon, Calm, Fault
<1>6. ASSUME NEW m \in Names, ClusterStep(m) PROVE Sound(n)'
  <2>1. UNCHANGED <<secret, svc, pc, arg>> BY <1>0, <1>6, ClusterMoves
  <2>2. /\ Live(n)' => Live(n) /\ pod'[n].token = pod[n].token
        /\ pod'[n] # None /\ ~Live(n)' => pod[n] # None /\ ~Live(n)
    BY <1>0, <1>6, ClusterMoves DEF Live
  <2> QED BY <1>0, <2>1, <2>2, SoundElsewhere
<1>7. CASE UNCHANGED vars
  BY <1>0, <1>7, SoundElsewhere DEF vars, objs, Live
<1> QED BY <1>1, <1>2, <1>3, <1>4, <1>5, <1>6, <1>7, NextCases

LEMMA InitSInv == Init => SInv
<1> SUFFICES ASSUME Init, NEW n \in Names PROVE OneDelete /\ Sound(n)
  BY InitFInv DEF SInv, Init, OneDelete, Deleting
<1>1. Creators \subseteq Requests BY DEF Requests
<1>2. OneDelete BY DEF Init, OneDelete, Deleting
<1>3. DeleteOwns(n) BY DEF Init, DeleteOwns
<1>4. CreateOwns(n) BY <1>1 DEF Init, CreateOwns, Holding
<1>5. ServiceOwned(n) /\ PodComplete(n) /\ TerminatingWaited(n)
  BY DEF Init, ServiceOwned, PodComplete, TerminatingWaited, Live
<1> QED BY <1>2, <1>3, <1>4, <1>5 DEF Sound

LEMMA Inductive == ASSUME Calm PROVE Spec => []SInv
BY InitSInv, NextSInv, PTL DEF Spec

\* A sandbox whose create has answered, and that nobody deletes, has all its
\* three objects and one token (k8s.go Create, Resolve).
THEOREM SandboxUsableCalm == ASSUME Calm PROVE Spec => []SandboxUsable
<1>1. SInv => SandboxUsable
  <2> SUFFICES ASSUME SInv, NEW n \in Names, Live(n), ~InDeletion(n),
                      pc[pod[n].token] \notin Creating
               PROVE  svc[n] /\ secret[n] = pod[n].token
    BY DEF SandboxUsable
  <2> QED BY DEF SInv, Sound, PodComplete, InDeletion, Deleting, Creating
<1> QED BY Inductive, <1>1, PTL

\* No create ever terminates a pod that another create made.
THEOREM NoForeignKillCalm == ASSUME Calm PROVE Spec => NoForeignKill
<1> DEFINE Kill(n) == Live(n) /\ pod'[n] # None /\ pod'[n].phase = "terminating"
           Lawful(n) == \/ \E r \in Requests : arg[r] = n /\ pc[r] = "dpod"
                        \/ pc[pod[n].token] = "undoPod"
<1>1. SInv /\ [Next]_vars => [\A n \in Names : Kill(n) => Lawful(n)]_vars
  <2> SUFFICES ASSUME SInv, [Next]_vars, NEW n \in Names, Kill(n) PROVE Lawful(n)
    OBVIOUS
  <2>0. TInv /\ TypeOK /\ Sound(n) /\ ~Live(n)' BY DEF SInv, FInv, TInv, Live
  <2>1. pod'[n] # pod[n] BY <2>0 DEF Live
  <2>2. ASSUME NEW r \in Creators, CreatorStep(r) PROVE FALSE
    <3>1. r \in Requests /\ arg[r] = n
      BY <2>0, <2>1, <2>2, CreatorFrame, OtherNames DEF Requests
    <3>2. ~UndoPod(r) BY <2>0, <3>1 DEF UndoPod, Sound, CreateOwns, Holding
    <3>3. pod[n] # None BY DEF Live
    <3> QED BY <2>1, <2>2, <3>1, <3>2, <3>3
        DEF CreatorStep, CreateSecret, CreatePod, CreateService, WaitReady, UndoSecret, objs
  <2>3. ASSUME NEW r \in Requests \ Creators, DeleteStep(r) PROVE Lawful(n)
    <3>1. arg[r] = n BY <2>0, <2>1, <2>3, OtherNames
    <3>2. CASE DeletePod(r) BY <3>1, <3>2 DEF DeletePod
    <3> QED BY <2>1, <2>3, <3>2
        DEF DeleteStep, DeleteGet, DeleteService, DeleteSecret, DeleteWait, objs
  <2>4. ASSUME NEW r \in Requests \ Creators, CallerStep(r) PROVE FALSE
    BY <2>0, <2>1, <2>4, CallerMoves DEF objs
  <2>5. ASSUME NEW r \in Requests, Abandon(r) PROVE FALSE
    BY <2>0, <2>1, <2>5, AbandonMoves DEF objs
  <2>6. ASSUME NEW m \in Names, ClusterStep(m) PROVE FALSE
    BY <2>0, <2>6, ClusterMoves
  <2>7. ASSUME NEW r \in Creators, NEW m \in Names, CreateCheck(r, m) PROVE FALSE
    BY <2>1, <2>7 DEF CreateCheck, objs
  <2> QED BY <2>1, <2>2, <2>3, <2>4, <2>5, <2>6, <2>7, NextCases DEF vars, objs
<1>2. Spec => [][\A n \in Names : Kill(n) => Lawful(n)]_vars
  BY Inductive, <1>1, PTL DEF Spec
<1> QED BY <1>2 DEF NoForeignKill

-----------------------------------------------------------------------------
(* Where no pod is evicted either, a name that nobody works on is free or  *)
(* has its Pod.                                                            *)

\* A create works on a name that no delete has before it.
LEMMA CreatorLeavesAlone ==
  ASSUME Calm, IInv, NEW r \in Creators, CreatorStep(r), NEW n \in Names
  PROVE  DeleteAlone(n)' /\ SecretOwned(n)'
<1>0. /\ FInv /\ TypeOK /\ TInv /\ Sound(n) /\ UNCHANGED arg
      /\ r \in Requests /\ Creators \subseteq Requests
      /\ pc \in [Requests -> PCs] /\ pc[r] \in Creating /\ arg[r] \in Names
      /\ \A q \in Requests : q # r => pc'[q] = pc[q]
      /\ DeleteAlone(n) /\ SecretOwned(n)
  BY CreatorFrame DEF IInv, SInv, FInv, TInv, TypeOK, Requests
<1>1. CASE arg[r] # n
  <2>1. secret'[n] = secret[n] /\ svc'[n] = svc[n] /\ pod'[n] = pod[n]
    BY <1>0, <1>1, OtherNames
  <2>2. InCreation(n)' => InCreation(n) BY <1>0, <1>1 DEF InCreation
  <2>4. DeleteAlone(n)' BY <1>0, <1>1, <2>1, <2>2 DEF DeleteAlone, Live
  <2>5. secret[n] # None => secret[n] \in Creators /\ arg[secret[n]] = n
    BY <1>0, Holders
  <2>6. SecretOwned(n)' BY <1>0, <1>1, <2>1, <2>5 DEF SecretOwned, Live
  <2> QED BY <2>4, <2>6
<1>2. CASE arg[r] = n
  <2>1. InCreation(n) BY <1>0, <1>2 DEF InCreation
  <2>2. \A q \in Requests : arg[q] = n => pc[q] \notin {"dsvc", "dsecret", "dpod"}
    BY <1>0, <2>1 DEF DeleteAlone
  <2>3. pc'[r] \notin {"dsvc", "dsecret", "dpod"}
    BY <1>0, CreatorTInv DEF TInv, PcOK, Creating, Created
  <2>4. DeleteAlone(n)' BY <1>0, <2>2, <2>3 DEF DeleteAlone
  <2>h. /\ secret[n] # None => secret[n] \in Creators
        /\ Live(n) => pod[n].token \in Creators
        /\ Live(n) => pc[pod[n].token] \in {"svc", "undoPod", "gone"} \cup Served
    BY <1>0, Holders
  <2>5. CASE CreateSecret(r)
    <3>1. pc[r] = "secret" /\ pod' = pod BY <2>5 DEF CreateSecret
    <3>2. CASE secret' = [secret EXCEPT ![n] = r] /\ pc'[r] = "pod"
      BY <2>4, <1>0, <3>2 DEF SecretOwned, TypeOK
    <3>3. CASE secret' = secret
      BY <2>4, <1>0, <2>h, <3>1, <3>3 DEF SecretOwned, Live
    <3> QED BY <1>0, <1>2, <2>5, <3>2, <3>3 DEF CreateSecret, Goto
  <2>6. CASE CreatePod(r)
    <3>1. pc[r] = "pod" /\ secret' = secret BY <2>6 DEF CreatePod
    <3>2. secret[n] = r BY <1>0, <1>2, <3>1 DEF Sound, CreateOwns, Holding
    <3>3. CASE pc'[r] = "undoSecret" BY <2>4, <3>1, <3>2, <3>3 DEF SecretOwned
    <3>4. CASE pod' = [pod EXCEPT ![n] = NewPod(r)]
      <4>1. NewPod(r) \in Pods BY DEF NewPod, Pods, Phases, Jobs
      <4>2. NewPod(r) # None BY <4>1, NoneAssumption
      <4>3. Live(n)' /\ pod'[n].token = r
        BY <1>0, <3>4, <4>2 DEF NewPod, Live, TypeOK
      <4> QED BY <2>4, <3>1, <3>2, <4>3 DEF SecretOwned
    <3> QED BY <1>0, <1>2, <2>6, <3>3, <3>4 DEF CreatePod, Goto
  <2>7. CASE CreateService(r) \/ WaitReady(r)
    <3>1. pc[r] \in {"svc", "wait"} /\ UNCHANGED <<secret, pod>>
      BY <2>7 DEF CreateService, WaitReady, objs
    <3> QED BY <2>4, <1>0, <2>h, <3>1 DEF SecretOwned, Live
  <2>8. CASE UndoPod(r) BY <1>0, <1>2, <2>8 DEF UndoPod, Sound, CreateOwns, Holding
  <2>9. CASE UndoSecret(r)
    BY <2>4, <1>0, <1>2, <2>9 DEF UndoSecret, SecretOwned, Calm, Fault, TypeOK
  <2> QED BY <2>4, <2>5, <2>6, <2>7, <2>8, <2>9 DEF CreatorStep
<1> QED BY <1>1, <1>2

\* A delete starts at a live pod with nobody at work on its name.
LEMMA DeleteLeavesAlone ==
  ASSUME Calm, IInv, NEW r \in Requests \ Creators, DeleteStep(r), NEW n \in Names
  PROVE  DeleteAlone(n)' /\ SecretOwned(n)'
<1>0. /\ FInv /\ TypeOK /\ TInv /\ Sound(n) /\ UNCHANGED arg /\ OneDelete
      /\ Creators \subseteq Requests
      /\ \A q \in Requests : q # r => pc'[q] = pc[q]
      /\ \A c \in Creators : pc'[c] = pc[c]
      /\ DeleteAlone(n) /\ SecretOwned(n)
      /\ pc \in [Requests -> PCs] /\ Back(r) \in {"idle", "loop"}
  BY DeleteMoves DEF IInv, SInv, FInv, TInv, TypeOK, Requests, Back
<1>1. InCreation(n)' <=> InCreation(n) BY <1>0 DEF InCreation
<1>2. secret[n] # None => secret[n] \in Creators BY <1>0, Holders
<1>3. CASE arg[r] # n
  <2>1. secret'[n] = secret[n] /\ svc'[n] = svc[n] /\ pod'[n] = pod[n]
    BY <1>0, <1>3, OtherNames
  <2>2. DeleteAlone(n)' BY <1>0, <1>1, <1>3, <2>1 DEF DeleteAlone, Live
  <2>3. SecretOwned(n)' BY <1>0, <1>2, <2>1 DEF SecretOwned, Live
  <2> QED BY <2>2, <2>3
<1>4. CASE arg[r] = n /\ DeleteGet(r)
  <2>0. UNCHANGED objs /\ pc'[r] \in {"idle", "loop", "dsvc"}
    BY <1>0, <1>4 DEF DeleteGet, Goto
  <2>1. SecretOwned(n)' BY <1>0, <1>2, <2>0 DEF SecretOwned, Live, objs
  <2>2. ASSUME pc'[r] = "dsvc" PROVE Live(n) /\ ~InCreation(n)
    <3>1. pod[n] # None /\ ~InCreation(n) /\ ~InDeletion(n)
      BY <1>0, <1>4, <2>2 DEF DeleteGet, MayDelete, Calm, Goto
    <3>2. Live(n) BY <1>0, <3>1 DEF Sound, TerminatingWaited, InDeletion, Deleting
    <3> QED BY <3>1, <3>2
  <2>3. DeleteAlone(n)'
    BY <1>0, <1>1, <2>0, <2>2 DEF DeleteAlone, Live, objs
  <2> QED BY <2>1, <2>3
<1>5. CASE arg[r] = n /\ DeleteService(r)
  <2>0. pc[r] = "dsvc" /\ pc'[r] = "dsecret" /\ secret' = secret /\ pod' = pod
    BY <1>0, <1>5 DEF DeleteService, Goto
  <2>1. SecretOwned(n)' BY <1>0, <1>2, <2>0 DEF SecretOwned, Live
  <2>2. DeleteAlone(n)' BY <1>0, <1>1, <1>5, <2>0 DEF DeleteAlone, Live
  <2> QED BY <2>1, <2>2
<1>6. CASE arg[r] = n /\ DeleteSecret(r)
  <2>0. pc[r] = "dsecret" /\ pc'[r] = "dpod" /\ pod' = pod /\ secret'[n] = None
    BY <1>0, <1>6 DEF DeleteSecret, Goto, Calm, Fault, TypeOK
  <2>1. SecretOwned(n)' BY <2>0 DEF SecretOwned
  <2>2. DeleteAlone(n)' BY <1>0, <1>1, <1>6, <2>0 DEF DeleteAlone, Live
  <2> QED BY <2>1, <2>2
<1>7. CASE arg[r] = n /\ DeletePod(r)
  <2>0. pc[r] = "dpod" /\ pc'[r] = "dwait" /\ secret' = secret
    BY <1>0, <1>7 DEF DeletePod, Goto, Calm, Fault
  <2>1. secret[n] = None BY <1>0, <1>7, <2>0 DEF DeleteAlone
  <2>2. SecretOwned(n)' BY <2>0, <2>1 DEF SecretOwned
  <2>3. \A q \in Requests : arg[q] = n => pc'[q] \notin {"dsvc", "dsecret", "dpod"}
    BY <1>0, <1>7, <2>0 DEF OneDelete, Deleting
  <2>4. DeleteAlone(n)' BY <1>0, <2>3 DEF DeleteAlone
  <2> QED BY <2>2, <2>4
<1>8. CASE arg[r] = n /\ DeleteWait(r)
  <2>0. UNCHANGED objs /\ pc'[r] \in {"idle", "loop"}
    BY <1>0, <1>8 DEF DeleteWait, Goto
  <2>1. SecretOwned(n)' BY <1>0, <1>2, <2>0 DEF SecretOwned, Live, objs
  <2>2. DeleteAlone(n)' BY <1>0, <1>1, <2>0 DEF DeleteAlone, Live, objs
  <2> QED BY <2>1, <2>2
<1> QED BY <1>3, <1>4, <1>5, <1>6, <1>7, <1>8 DEF DeleteStep

LEMMA NextIInv == Calm /\ ~Fault("evict") /\ IInv /\ [Next]_vars => IInv'
<1> SUFFICES ASSUME Calm, ~Fault("evict"), IInv, [Next]_vars, NEW n \in Names
             PROVE  DeleteAlone(n)' /\ SecretOwned(n)'
  BY NextSInv DEF IInv
<1>0. /\ FInv /\ TInv /\ TypeOK /\ DeleteAlone(n) /\ SecretOwned(n)
      /\ Creators \subseteq Requests
  BY DEF IInv, SInv, FInv, TInv, Requests
<1>1. secret[n] # None =>
        secret[n] \in Creators /\ pc[secret[n]] \in Holding \cup Served \cup {"gone"}
  BY <1>0, Holders
<1>2. ASSUME NEW r \in Creators, NEW m \in Names, CreateCheck(r, m)
      PROVE  DeleteAlone(n)' /\ SecretOwned(n)'
  <2>1. /\ UNCHANGED objs /\ pc[r] = "idle" /\ arg'[r] = m
        /\ pc'[r] = IF pod[m] = None THEN "secret" ELSE "refused"
        /\ \A q \in Requests : q # r => pc'[q] = pc[q] /\ arg'[q] = arg[q]
    BY <1>0, <1>2 DEF CreateCheck, Goto, TypeOK
  <2>2. SecretOwned(n)'
    BY <1>0, <1>1, <2>1 DEF SecretOwned, Live, objs, Holding, Served
  <2>3. Live(n) /\ ~InCreation(n) => ~InCreation(n)'
    BY <1>0, <2>1 DEF InCreation, Live, Creating
  <2>4. DeleteAlone(n)' BY <1>0, <2>1, <2>3 DEF DeleteAlone, Live, objs
  <2> QED BY <2>2, <2>4
<1>3. ASSUME NEW r \in Requests \ Creators, CallerStep(r)
      PROVE  DeleteAlone(n)' /\ SecretOwned(n)'
  <2>1. /\ UNCHANGED objs /\ pc'[r] \in {"idle", "loop", "get"}
        /\ \A q \in Requests : q # r => pc'[q] = pc[q] /\ arg'[q] = arg[q]
    BY <1>0, <1>3, CallerMoves
  <2>2. InCreation(n)' <=> InCreation(n) BY <1>0, <1>3, <2>1 DEF InCreation
  <2>3. SecretOwned(n)' BY <1>0, <1>1, <1>3, <2>1 DEF SecretOwned, Live, objs
  <2>4. DeleteAlone(n)' BY <1>0, <2>1, <2>2 DEF DeleteAlone, Live, objs
  <2> QED BY <2>3, <2>4
<1>4. ASSUME NEW r \in Requests, Abandon(r) PROVE FALSE
  BY <1>4 DEF Abandon, Calm, Fault
<1>5. ASSUME NEW m \in Names, ClusterStep(m) PROVE DeleteAlone(n)' /\ SecretOwned(n)'
  <2>1. UNCHANGED <<secret, svc, pc, arg>> BY <1>0, <1>5, ClusterMoves
  <2>2. Live(n) => Live(n)' /\ pod'[n].token = pod[n].token
    BY <1>0, <1>5, ClusterMoves DEF Live
  <2>3. InCreation(n)' <=> InCreation(n) BY <2>1 DEF InCreation
  <2>4. DeleteAlone(n)' BY <1>0, <2>1, <2>2, <2>3 DEF DeleteAlone
  <2>5. SecretOwned(n)' BY <1>0, <2>1, <2>2 DEF SecretOwned
  <2> QED BY <2>4, <2>5
<1>6. CASE UNCHANGED vars
  BY <1>0, <1>6 DEF vars, objs, DeleteAlone, SecretOwned, InCreation, Live
<1> QED BY <1>2, <1>3, <1>4, <1>5, <1>6, NextCases, CreatorLeavesAlone, DeleteLeavesAlone

LEMMA InitIInv == Init => IInv
BY InitSInv DEF Init, IInv, DeleteAlone, SecretOwned

\* Unless a pod is evicted, a name that no request works on is free or has a Pod
\* to delete (Delete's "not found" means that nothing is left of the sandbox).
THEOREM NoOrphansCalm ==
  ASSUME Calm, "evict" \notin Faults
  PROVE  Spec => []NoOrphans
<1>1. ~Fault("evict") BY DEF Fault
<1>2. IInv => NoOrphans
  <2> SUFFICES ASSUME IInv, NEW n \in Names, pod[n] = None,
                      ~InCreation(n), ~InDeletion(n)
               PROVE  secret[n] = None /\ ~svc[n]
    BY DEF NoOrphans
  <2>1. secret[n] # None => secret[n] \in Creators /\ arg[secret[n]] = n
    BY Holders DEF IInv, SInv
  <2>2. secret[n] = None BY <2>1 DEF IInv, SecretOwned, InCreation, Creating, Live
  <2> QED BY <2>2 DEF IInv, SInv, Sound, ServiceOwned
<1> QED BY InitIInv, NextIInv, <1>1, <1>2, PTL DEF Spec

-----------------------------------------------------------------------------
(* Under the same discipline the sandbox RPCs are atomic: every API call is *)
(* a step of SandboxNames, or invisible in it.                             *)

Denied == {"refused", "failed"}

\* The holders change only with a Service, or with the Secret behind one.
LEMMA HoldersKept ==
  ASSUME \A n \in Names : svc'[n] = svc[n] /\ (svc[n] => secret'[n] = secret[n])
  PROVE  UNCHANGED Holder
BY DEF Holder

\* An answer is given once: what stays among the unanswered, the granted or the
\* denied is the same to a caller.
LEMMA AnswersKept ==
  ASSUME \A c \in Creators :
           /\ pc'[c] \in Served <=> pc[c] \in Served
           /\ pc'[c] \in Denied <=> pc[c] \in Denied
  PROVE  UNCHANGED Answer
BY DEF Answer, Served, Denied

\* A create that has not answered denies.
LEMMA DenySteps ==
  ASSUME NEW r \in Creators, UNCHANGED Holder,
         pc[r] \notin Served \cup Denied, pc'[r] \in Denied,
         \A c \in Creators : c # r => pc'[c] = pc[c]
  PROVE  Registry!Next
<1>1. Answer[r] = None BY DEF Answer, Served, Denied
<1>2. Answer' = [Answer EXCEPT ![r] = "denied"]
  <2>1. Answer'[r] = "denied" BY DEF Answer, Denied
  <2>2. \A c \in Creators : c # r => Answer'[c] = Answer[c] BY DEF Answer
  <2> QED BY <2>1, <2>2 DEF Answer
<1>3. Registry!Deny(r) BY <1>1, <1>2 DEF Registry!Deny, Registry!Answered
<1> QED BY <1>3 DEF Registry!Next

\* One API call of a create: the Service is what takes the name, and every
\* refusal leaves the holders alone.
LEMMA CreatorAtomic ==
  ASSUME Calm, SInv, NEW r \in Creators,
         CreatorStep(r) \/ \E n \in Names : CreateCheck(r, n)
  PROVE  [Registry!Next]_<<Holder, Answer>>
<1>0. /\ TypeOK /\ r \in Requests /\ Creators \subseteq Requests
      /\ pc[r] \in Creating => arg[r] \in Names
  BY DEF SInv, FInv, PcOK, Requests, Creating
\* A create that has its Secret and no Service yet: the name is not held.
<1>s. ASSUME pc[r] \in Holding \ {"wait"}
      PROVE  /\ arg[r] \in Names /\ secret[arg[r]] = r /\ ~svc[arg[r]]
             /\ pc[r] # "undoPod"
  BY <1>0, <1>s DEF SInv, Sound, CreateOwns, ServiceOwned, Holding, Served, Creating
<1>1. \A c \in Creators : c # r => pc'[c] = pc[c]
  BY <1>0 DEF TypeOK, CreatorStep, CreateCheck, CreateSecret, CreatePod, CreateService,
     WaitReady, UndoPod, UndoSecret, Goto
\* What a step that takes no Service comes to, by where it leaves the create.
<1>2. ASSUME UNCHANGED Holder, pc[r] \notin Served \cup Denied,
             pc'[r] \in Denied \/ pc'[r] \notin Served \cup Denied
      PROVE  [Registry!Next]_<<Holder, Answer>>
  <2>1. CASE pc'[r] \in Denied BY <1>1, <1>2, <2>1, DenySteps
  <2>2. CASE pc'[r] \notin Served \cup Denied
    <3>1. UNCHANGED Answer BY <1>1, <1>2, <2>2, AnswersKept
    <3> QED BY <1>2, <3>1
  <2> QED BY <1>2, <2>1, <2>2
<1>3. ASSUME NEW n \in Names, CreateCheck(r, n)
      PROVE  [Registry!Next]_<<Holder, Answer>>
  <2>1. UNCHANGED objs /\ pc[r] = "idle" /\ pc'[r] \in {"secret", "refused"}
    BY <1>0, <1>3 DEF CreateCheck, Goto, TypeOK
  <2>2. UNCHANGED Holder BY <2>1, HoldersKept DEF objs
  <2> QED BY <1>2, <2>1, <2>2 DEF Served, Denied
<1>4. CASE CreateSecret(r)
  <2>1. pc[r] = "secret" /\ UNCHANGED <<pod, svc>> /\ pc'[r] \in {"pod", "refused", "failed"}
    BY <1>0, <1>4 DEF CreateSecret, Goto, TypeOK
  <2>2. \A n \in Names : n # arg[r] => secret'[n] = secret[n]
    BY <1>0, <1>4 DEF CreateSecret, TypeOK
  <2>3. svc[arg[r]] => secret' = secret
    <3>1. ASSUME secret[arg[r]] = None PROVE ~svc[arg[r]]
      BY <1>0, <2>1, <3>1 DEF SInv, Sound, ServiceOwned, Creating
    <3> QED BY <1>4, <3>1 DEF CreateSecret
  <2>4. UNCHANGED Holder BY <2>1, <2>2, <2>3, HoldersKept
  <2> QED BY <1>2, <2>1, <2>4 DEF Served, Denied
<1>5. CASE CreatePod(r)
  <2>1. pc[r] = "pod" /\ UNCHANGED <<secret, svc>> /\ pc'[r] \in {"svc", "undoSecret"}
    BY <1>0, <1>5 DEF CreatePod, Goto, TypeOK
  <2>2. UNCHANGED Holder BY <2>1, HoldersKept
  <2> QED BY <1>2, <2>1, <2>2 DEF Served, Denied
<1>6. CASE CreateService(r)
  <2>1. pc[r] = "svc" /\ arg[r] \in Names /\ UNCHANGED <<secret, pod>>
    BY <1>0, <1>6 DEF CreateService, Creating
  <2>2. PICK n \in Names : n = arg[r] BY <2>1
  <2>3. ~svc[n] BY <1>s, <2>1, <2>2 DEF Holding
  <2>4. secret[n] = r BY <1>s, <2>1, <2>2 DEF Holding
  <2>5. svc' = [svc EXCEPT ![n] = TRUE] /\ pc'[r] = "wait"
    BY <1>0, <1>6, <2>2, <2>3 DEF CreateService, Goto, TypeOK, Calm, Fault
  <2>6. Holder[n] = None /\ Holder' = [Holder EXCEPT ![n] = r]
    <3>1. \A m \in Names : svc'[m] = IF m = n THEN TRUE ELSE svc[m]
      BY <1>0, <2>5 DEF TypeOK
    <3>2. Holder'[n] = r /\ \A m \in Names : m # n => Holder'[m] = Holder[m]
      BY <2>1, <2>4, <3>1 DEF Holder
    <3> QED BY <2>3, <3>2 DEF Holder
  <2>7. Answer[r] = None /\ Answer' = [Answer EXCEPT ![r] = "granted"]
    <3>1. Answer'[r] = "granted" BY <2>5 DEF Answer
    <3>2. \A c \in Creators : c # r => Answer'[c] = Answer[c] BY <1>1 DEF Answer
    <3> QED BY <2>1, <3>1, <3>2 DEF Answer
  <2>8. Registry!Grant(r, n)
    BY <2>6, <2>7 DEF Registry!Grant, Registry!Answered
  <2> QED BY <2>8 DEF Registry!Next
<1>7. CASE WaitReady(r)
  <2>1. UNCHANGED objs /\ pc[r] \in Served /\ pc'[r] \in Served
    BY <1>0, <1>7 DEF WaitReady, Goto, Served, TypeOK
  <2>2. UNCHANGED Holder BY <2>1, HoldersKept DEF objs
  <2>3. UNCHANGED Answer BY <1>1, <2>1, AnswersKept DEF Served, Denied
  <2> QED BY <2>2, <2>3
<1>8. CASE UndoPod(r) BY <1>8, <1>s DEF UndoPod, Holding
<1>9. CASE UndoSecret(r)
  <2>1. pc[r] = "undoSecret" /\ UNCHANGED svc /\ pc'[r] = "failed" /\ arg[r] \in Names
    BY <1>0, <1>9 DEF UndoSecret, Goto, TypeOK, Creating
  <2>3. ~svc[arg[r]] BY <1>s, <2>1 DEF Holding
  <2>4. \A n \in Names : n # arg[r] => secret'[n] = secret[n]
    BY <1>0, <1>9 DEF UndoSecret, TypeOK
  <2>5. UNCHANGED Holder BY <2>1, <2>3, <2>4, HoldersKept
  <2> QED BY <1>2, <2>1, <2>5 DEF Served, Denied
<1> QED BY <1>3, <1>4, <1>5, <1>6, <1>7, <1>8, <1>9 DEF CreatorStep

\* One API call of a Delete: taking the Service away is what frees the name.
LEMMA DeleteAtomic ==
  ASSUME SInv, NEW r \in Requests \ Creators, DeleteStep(r)
  PROVE  [Registry!Next]_<<Holder, Answer>>
<1>0. TInv /\ TypeOK /\ Creators \subseteq Requests
  BY DEF SInv, FInv, TInv, Requests
<1>1. \A c \in Creators : pc'[c] = pc[c] BY <1>0, DeleteMoves
<1>2. UNCHANGED Answer BY <1>1, AnswersKept
<1>3. CASE DeleteService(r)
  <2>1. PICK n \in Names : n = arg[r] BY <1>3 DEF DeleteService, SInv, FInv, PcOK
  <2>2. CASE svc[n] /\ secret[n] # None /\ ~svc'[n]
    <3>1. UNCHANGED secret /\ \A m \in Names : m # n => svc'[m] = svc[m]
      BY <1>0, <1>3, <2>1 DEF DeleteService, TypeOK
    <3>2. Holder[n] # None /\ Holder' = [Holder EXCEPT ![n] = None]
      BY <2>2, <3>1 DEF Holder
    <3>3. Registry!Release(n) BY <1>2, <3>2 DEF Registry!Release
    <3> QED BY <3>3 DEF Registry!Next
  <2>3. CASE ~(svc[n] /\ secret[n] # None /\ ~svc'[n])
    <3>1. UNCHANGED secret /\ svc'[n] \in {svc[n], FALSE}
          /\ \A m \in Names : m # n => svc'[m] = svc[m]
      BY <1>0, <1>3, <2>1 DEF DeleteService, TypeOK
    <3>2. \A m \in Names : Holder'[m] = Holder[m] BY <2>3, <3>1 DEF Holder
    <3>3. UNCHANGED Holder BY <3>2 DEF Holder
    <3> QED BY <1>2, <3>3
  <2> QED BY <2>2, <2>3
<1>4. CASE DeleteSecret(r)
  <2>1. pc[r] = "dsecret" /\ UNCHANGED svc BY <1>4 DEF DeleteSecret
  <2>2. ~svc[arg[r]] BY <2>1 DEF SInv, Sound, DeleteOwns, FInv, PcOK
  <2>3. \A n \in Names : n # arg[r] => secret'[n] = secret[n]
    BY <1>0, <1>4 DEF DeleteSecret, TypeOK
  <2>4. UNCHANGED Holder BY <2>1, <2>2, <2>3, HoldersKept
  <2> QED BY <1>2, <2>4
<1>5. CASE DeleteGet(r) \/ DeletePod(r) \/ DeleteWait(r)
  <2>1. UNCHANGED <<secret, svc>> BY <1>5 DEF DeleteGet, DeletePod, DeleteWait, objs
  <2>2. UNCHANGED Holder BY <2>1, HoldersKept
  <2> QED BY <1>2, <2>2
<1> QED BY <1>3, <1>4, <1>5 DEF DeleteStep

LEMMA NextAtomic == Calm /\ SInv /\ [Next]_vars => [Registry!Next]_<<Holder, Answer>>
<1> SUFFICES ASSUME Calm, SInv, [Next]_vars PROVE [Registry!Next]_<<Holder, Answer>>
  OBVIOUS
<1>0. TInv /\ Creators \subseteq Requests BY DEF SInv, FInv, TInv, Requests
<1>1. ASSUME UNCHANGED <<secret, svc>>, \A c \in Creators : pc'[c] = pc[c]
      PROVE  [Registry!Next]_<<Holder, Answer>>
  BY <1>1, HoldersKept, AnswersKept
<1>2. ASSUME NEW r \in Requests \ Creators, CallerStep(r)
      PROVE  [Registry!Next]_<<Holder, Answer>>
  BY <1>0, <1>1, <1>2, CallerMoves DEF objs
<1>3. ASSUME NEW r \in Requests, Abandon(r) PROVE FALSE
  BY <1>3 DEF Abandon, Calm, Fault
<1>4. ASSUME NEW n \in Names, ClusterStep(n) PROVE [Registry!Next]_<<Holder, Answer>>
  BY <1>0, <1>1, <1>4, ClusterMoves
<1>5. CASE UNCHANGED vars BY <1>1, <1>5 DEF vars, objs
<1> QED BY <1>2, <1>3, <1>4, <1>5, NextCases, CreatorAtomic, DeleteAtomic

\* Create and Delete, several API calls each, are atomic to callers who delete
\* a name alone: a create that succeeds took a free name, one that fails took
\* nothing, and only a delete frees a name (k8s.go Create, Delete).
THEOREM NamesKeptCalm == ASSUME Calm PROVE Spec => NamesKept
<1>1. Init => Registry!Init
  <2> SUFFICES ASSUME Init PROVE Registry!Init
    OBVIOUS
  <2>1. Holder = [n \in Names |-> None] BY DEF Init, Holder
  <2>2. \A c \in Creators : pc[c] = "idle" BY DEF Init, Requests
  <2>3. Answer = [c \in Creators |-> None] BY <2>2 DEF Answer
  <2> QED BY <2>1, <2>3 DEF Registry!Init
<1>2. SInv /\ [Next]_vars => [Registry!Next]_<<Holder, Answer>> BY NextAtomic
<1> QED BY Inductive, <1>1, <1>2, PTL DEF Spec, NamesKept, Registry!Spec

-----------------------------------------------------------------------------
(* The token of a sandbox, when pods get lost and deletes stop halfway.    *)

\* A create whose Secret was deleted, or replaced, behind its back.
Robbed(c, n) == arg[c] = n /\ pc[c] \in Holding /\ secret[n] # c

\* The pod of one create, the Secret of another that has had a pod too.
Crossed(n) ==
  /\ Live(n) /\ secret[n] \notin {None, pod[n].token}
  /\ pc[secret[n]] \notin {"pod", "undoSecret"}

NoneGone(n) == \A c \in Creators : arg[c] = n => pc[c] # "gone"

\* A delete robs only once it has deleted the Service; from then on nobody else
\* deletes that, so that of two creates only one gets past the Service.
DeleteQuiet(n) ==
  \A r \in Requests : arg[r] = n /\ pc[r] \in {"dsvc", "dsecret"} =>
    ~Crossed(n) /\ \A c \in Creators : ~Robbed(c, n)

RobberServed(n) ==
  \A c \in Creators :
    Robbed(c, n) /\ secret[n] # None /\ pc[secret[n]] \in Served => svc[n]

OneServed(n) ==
  Crossed(n) =>
    /\ pc[pod[n].token] \in Served => svc[n]
    /\ pc[pod[n].token] \notin Served \/ pc[secret[n]] \notin Served

TokenKept(n) == DeleteQuiet(n) /\ RobberServed(n) /\ OneServed(n)

KInv == FInv /\ OneDelete /\ \A n \in Names : NoneGone(n) => TokenKept(n)

\* A name whose Secret and Service stay, and whose creates stay where they are,
\* but for those that begin.
LEMMA TokenElsewhere ==
  ASSUME FInv, NEW n \in Names, NoneGone(n) => TokenKept(n), NoneGone(n)',
         secret'[n] = secret[n], svc'[n] = svc[n],
         Live(n)' => Live(n) /\ pod'[n].token = pod[n].token,
         \A c \in Creators :
           arg[c] = n /\ pc[c] \in Holding \cup Served \cup {"gone"} =>
             pc'[c] = pc[c] /\ arg'[c] = n,
         \A c \in Creators :
           arg'[c] = n /\ pc'[c] \in Holding => arg[c] = n /\ pc[c] = pc'[c],
         \A r \in Requests :
           arg'[r] = n /\ pc'[r] \in {"dsvc", "dsecret"} =>
             arg[r] = n /\ pc[r] \in {"dsvc", "dsecret"}
  PROVE  TokenKept(n)'
<1>1. NoneGone(n) BY DEF NoneGone
<1>2. \A c \in Creators : Robbed(c, n)' => Robbed(c, n) BY DEF Robbed
<1>3. secret[n] # None => secret[n] \in Creators /\ pc'[secret[n]] = pc[secret[n]]
  BY Holders
<1>4. Live(n)' => pod[n].token \in Creators /\ pc'[pod[n].token] = pc[pod[n].token]
  BY Holders DEF Holding
<1>5. Crossed(n)' => Crossed(n) BY <1>3 DEF Crossed
<1>6. \A r \in Requests : arg'[r] = n /\ pc'[r] \in {"dsvc", "dsecret"} =>
        ~Crossed(n)' /\ \A c \in Creators : ~Robbed(c, n)'
  BY <1>1, <1>2, <1>5 DEF TokenKept, DeleteQuiet
<1>7. \A c \in Creators :
        Robbed(c, n)' /\ secret'[n] # None /\ pc'[secret'[n]] \in Served => svc'[n]
  BY <1>1, <1>2, <1>3 DEF TokenKept, RobberServed
<1>8. Crossed(n)' =>
        /\ pc'[pod'[n].token] \in Served => svc'[n]
        /\ pc'[pod'[n].token] \notin Served \/ pc'[secret'[n]] \notin Served
  BY <1>1, <1>3, <1>4, <1>5 DEF TokenKept, OneServed, Crossed
<1> QED BY <1>6, <1>7, <1>8 DEF TokenKept, DeleteQuiet, RobberServed, OneServed

\* The create r at its own name: the other requests stay.
LEMMA CreatorToken ==
  ASSUME ~Fault("drop"), KInv, FInv', NEW r \in Creators, CreatorStep(r),
         NEW n \in Names, arg[r] = n, NoneGone(n)'
  PROVE  TokenKept(n)'
<1>0. /\ TypeOK /\ FInv /\ TInv /\ r \in Requests /\ arg' = arg /\ pc[r] \in Creating
      /\ \A q \in Requests : q # r => pc'[q] = pc[q]
      /\ pc' \in [Requests -> PCs] /\ pc \in [Requests -> PCs]
      /\ \A c \in Creators : c \in Requests
  BY CreatorFrame DEF KInv, FInv, TInv, TypeOK, Requests
<1>1. NoneGone(n) /\ TokenKept(n)
  <2>1. pc[r] # "gone" BY <1>0 DEF Creating
  <2> QED BY <1>0, <2>1 DEF NoneGone, KInv
<1>2. /\ secret[n] # None =>
            /\ secret[n] \in Creators /\ arg[secret[n]] = n
            /\ pc[secret[n]] \in Holding \cup Served
      /\ Live(n) =>
            /\ pod[n].token \in Creators /\ arg[pod[n].token] = n
            /\ pc[pod[n].token] \in {"svc", "undoPod"} \cup Served
  BY <1>0, <1>1, Holders DEF NoneGone
<1>3. \A q \in Requests : arg'[q] = n /\ pc'[q] \in {"dsvc", "dsecret"} =>
        arg[q] = n /\ pc[q] \in {"dsvc", "dsecret"}
  <2>1. pc'[r] \notin Deleting
    BY DEF FInv, PcOK, Creating, Created, Deleting
  <2> QED BY <1>0, <2>1 DEF Deleting
<1>4. ASSUME ~Crossed(n) => ~Crossed(n)', \A c \in Creators : Robbed(c, n)' => Robbed(c, n)
      PROVE  DeleteQuiet(n)'
  BY <1>1, <1>3, <1>4 DEF TokenKept, DeleteQuiet
<1>5. ASSUME secret' = secret, svc' = svc,
             \A c \in Creators : Robbed(c, n)' => Robbed(c, n),
             secret[n] # None /\ pc'[secret[n]] \in Served => pc[secret[n]] \in Served,
             Crossed(n)' =>
               /\ Crossed(n) /\ pod'[n].token = pod[n].token
               /\ pc'[pod[n].token] \in Served => pc[pod[n].token] \in Served
      PROVE  TokenKept(n)'
  <2>1. DeleteQuiet(n)' BY <1>4, <1>5
  <2>2. RobberServed(n)' BY <1>1, <1>5 DEF TokenKept, RobberServed
  <2>3. Crossed(n) => secret[n] # None BY DEF Crossed
  <2>4. OneServed(n)' BY <1>1, <1>5, <2>3 DEF TokenKept, OneServed
  <2> QED BY <2>1, <2>2, <2>4 DEF TokenKept
<1>6. CASE CreateSecret(r)
  <2>0. pc[r] = "secret" /\ pod' = pod /\ svc' = svc BY <1>6 DEF CreateSecret
  <2>1. CASE secret' = secret /\ pc'[r] \in {"refused", "failed"}
    <3>1. \A c \in Creators : Robbed(c, n)' => Robbed(c, n)
      BY <1>0, <2>1 DEF Robbed, Holding
    <3>2. secret[n] # None => pc'[secret[n]] = pc[secret[n]]
      BY <1>0, <1>2, <2>0 DEF Holding, Served
    <3>3. Live(n) => pc'[pod[n].token] = pc[pod[n].token]
      BY <1>0, <1>2, <2>0 DEF Served
    <3>4. Crossed(n)' => Crossed(n) /\ Live(n)
      BY <2>0, <2>1, <3>2 DEF Crossed, Live
    <3> QED BY <1>5, <2>0, <2>1, <3>1, <3>2, <3>3, <3>4
  <2>2. CASE secret[n] = None /\ secret' = [secret EXCEPT ![n] = r] /\ pc'[r] = "pod"
    <3>1. secret'[n] = r BY <2>2 DEF TypeOK, FInv, KInv
    <3>2. \A c \in Creators : Robbed(c, n)' => Robbed(c, n)
      BY <1>0, <2>2, <3>1, NoneAssumption DEF Robbed
    <3>3. ~Crossed(n)' /\ pc'[secret'[n]] \notin Served
      BY <2>2, <3>1 DEF Crossed, Served
    <3> QED BY <1>4, <3>2, <3>3 DEF TokenKept, RobberServed, OneServed
  <2> QED BY <1>0, <1>6, <2>1, <2>2 DEF CreateSecret, Goto
<1>7. CASE CreatePod(r)
  <2>0. pc[r] = "pod" /\ secret' = secret /\ svc' = svc BY <1>7 DEF CreatePod
  <2>00. pc'[r] \in {"svc", "undoSecret"} BY <1>0, <1>7 DEF CreatePod, Goto
  <2>1. \A c \in Creators : Robbed(c, n)' => Robbed(c, n)
    BY <1>0, <2>0 DEF Robbed, Holding
  <2>2. secret[n] # None /\ pc'[secret[n]] \in Served => pc[secret[n]] \in Served
    BY <1>0, <1>2, <2>00 DEF Served
  <2>3. CASE pod' = pod /\ pc'[r] = "undoSecret"
    <3>1. Live(n) => pc'[pod[n].token] = pc[pod[n].token]
      BY <1>0, <1>2, <2>0 DEF Served
    <3>2. Crossed(n)' => Live(n) /\ secret[n] \notin {None, pod[n].token}
      BY <2>0, <2>3 DEF Crossed, Live
    <3>3. ASSUME Crossed(n)' PROVE pc[secret[n]] \notin {"pod", "undoSecret"}
      <4>1. pc'[secret[n]] \notin {"pod", "undoSecret"} BY <2>0, <3>3 DEF Crossed
      <4>2. secret[n] # r BY <2>3, <4>1
      <4> QED BY <1>0, <1>2, <3>2, <3>3, <4>1, <4>2
    <3>4. Crossed(n)' => Crossed(n) BY <3>2, <3>3 DEF Crossed
    <3> QED BY <1>5, <2>0, <2>1, <2>2, <2>3, <3>1, <3>2, <3>4
  <2>4. CASE pod[n] = None /\ pod' = [pod EXCEPT ![n] = NewPod(r)] /\ pc'[r] = "svc"
    <3>1. pod'[n].token = r BY <1>0, <2>4 DEF NewPod, TypeOK
    <3>2. pc'[pod'[n].token] \notin Served BY <2>4, <3>1 DEF Served
    <3>3. RobberServed(n)' BY <1>1, <2>0, <2>1, <2>2 DEF TokenKept, RobberServed
    <3>4. Crossed(n)' => Robbed(r, n)
      BY <2>0, <3>1 DEF Crossed, Robbed, Holding
    <3>5. DeleteQuiet(n)' BY <1>1, <1>3, <2>1, <3>4 DEF TokenKept, DeleteQuiet
    <3> QED BY <3>2, <3>3, <3>5 DEF TokenKept, OneServed
  <2> QED BY <1>0, <1>7, <2>3, <2>4 DEF CreatePod, Goto
<1>8. CASE CreateService(r)
  <2>0. pc[r] = "svc" /\ secret' = secret /\ pod' = pod BY <1>8 DEF CreateService
  <2>1. \A c \in Creators : Robbed(c, n)' => Robbed(c, n)
    BY <1>0, <2>0 DEF Robbed, Holding
  <2>2. pc'[r] \in {"wait", "undoPod"} BY <1>0, <1>8 DEF CreateService, Goto
  <2>3. ASSUME Crossed(n)' PROVE Crossed(n)
    <3>1. Live(n) /\ secret[n] \notin {None, pod[n].token} BY <2>0, <2>3 DEF Crossed, Live
    <3>2. pc'[secret[n]] \notin {"pod", "undoSecret"} BY <2>0, <2>3 DEF Crossed
    <3>3. pc[secret[n]] \notin {"pod", "undoSecret"}
      BY <1>0, <1>2, <2>0, <3>1, <3>2
    <3> QED BY <3>1, <3>3 DEF Crossed
  <2>4. CASE svc' = svc /\ pc'[r] = "undoPod"
    <3>1. secret[n] # None /\ pc'[secret[n]] \in Served => pc[secret[n]] \in Served
      BY <1>0, <1>2, <2>4 DEF Served
    <3>2. Live(n) /\ pc'[pod[n].token] \in Served => pc[pod[n].token] \in Served
      BY <1>0, <1>2, <2>4 DEF Served
    <3> QED BY <1>5, <2>0, <2>1, <2>3, <2>4, <3>1, <3>2 DEF Crossed
  <2>5. CASE ~svc[n] /\ svc' = [svc EXCEPT ![n] = TRUE] /\ pc'[r] = "wait"
    <3>1. svc'[n] BY <1>0, <2>5 DEF TypeOK
    <3>2. DeleteQuiet(n)' BY <1>4, <2>1, <2>3
    <3>3. ASSUME Crossed(n)
          PROVE  pc'[pod[n].token] \notin Served \/ pc'[secret[n]] \notin Served
      <4>0. Live(n) /\ secret[n] # None /\ secret[n] # pod[n].token
        BY <3>3 DEF Crossed
      <4>1. pc[pod[n].token] \notin Served BY <1>1, <2>5, <3>3 DEF TokenKept, OneServed
      <4>2. pod[n].token # r => pc'[pod[n].token] \notin Served
        BY <1>0, <1>2, <4>0, <4>1
      <4>3. ASSUME pod[n].token = r PROVE pc'[secret[n]] \notin Served
        <5>1. Robbed(r, n) BY <2>0, <4>0, <4>3 DEF Robbed, Holding
        <5>2. pc[secret[n]] \notin Served
          BY <1>1, <2>5, <4>0, <5>1 DEF TokenKept, RobberServed
        <5> QED BY <1>0, <1>2, <4>0, <4>3, <5>2
      <4> QED BY <4>2, <4>3
    <3> QED BY <2>0, <2>3, <3>1, <3>2, <3>3 DEF TokenKept, RobberServed, OneServed
  <2> QED BY <1>0, <1>8, <2>4, <2>5 DEF CreateService, Goto
<1>9. CASE WaitReady(r)
  <2>0. pc[r] = "wait" /\ UNCHANGED objs /\ pc'[r] \in {"ok", "unready"}
    BY <1>0, <1>9 DEF WaitReady, Goto
  <2>1. \A c \in Creators : Robbed(c, n)' => Robbed(c, n)
    BY <1>0, <2>0 DEF Robbed, Holding, objs
  <2>2. \A c \in Creators : pc'[c] \in Served <=> pc[c] \in Served
    BY <1>0, <2>0 DEF Served
  <2>3. ASSUME Crossed(n)' PROVE Crossed(n)
    <3>1. Live(n) /\ secret[n] \notin {None, pod[n].token}
      BY <2>0, <2>3 DEF Crossed, Live, objs
    <3>2. pc'[secret[n]] \notin {"pod", "undoSecret"} BY <2>0, <2>3 DEF Crossed, objs
    <3>3. pc[secret[n]] \notin {"pod", "undoSecret"}
      BY <1>0, <1>2, <2>0, <3>1, <3>2
    <3> QED BY <3>1, <3>3 DEF Crossed
  <2>4. Crossed(n) => Live(n) BY DEF Crossed
  <2> QED BY <1>2, <1>5, <2>0, <2>1, <2>2, <2>3, <2>4 DEF objs
<1>10. CASE UndoPod(r)
  <2>0. pc[r] = "undoPod" /\ secret' = secret /\ svc' = svc /\ pc'[r] = "undoSecret"
    BY <1>0, <1>10 DEF UndoPod, Goto
  <2>1. \A c \in Creators : Robbed(c, n)' => Robbed(c, n)
    BY <1>0, <2>0 DEF Robbed, Holding
  <2>2. ~Crossed(n)'
    BY <1>0, <1>10, TerminateTyped DEF UndoPod, Crossed
  <2>3. secret[n] # None /\ pc'[secret[n]] \in Served => pc[secret[n]] \in Served
    BY <1>0, <1>2, <2>0 DEF Served
  <2> QED BY <1>5, <2>0, <2>1, <2>2, <2>3
<1>11. CASE UndoSecret(r)
  <2>0. pc[r] = "undoSecret" /\ pc'[r] = "failed" /\ secret'[n] = None
    BY <1>0, <1>11 DEF UndoSecret, Goto, TypeOK
  <2>1. ~Crossed(n)' BY <2>0 DEF Crossed
  <2>2. ASSUME NEW q \in Requests, arg[q] = n, pc[q] \in {"dsvc", "dsecret"},
               NEW c \in Creators
        PROVE  ~Robbed(c, n)'
    <3>1. ~Robbed(r, n) /\ ~Robbed(c, n) BY <1>1, <2>2 DEF TokenKept, DeleteQuiet
    <3>2. secret[n] = r BY <2>0, <3>1 DEF Robbed, Holding
    <3> QED BY <1>0, <2>0, <3>1, <3>2 DEF Robbed, Holding
  <2>3. DeleteQuiet(n)' BY <1>3, <2>1, <2>2 DEF DeleteQuiet
  <2> QED BY <2>0, <2>1, <2>3 DEF TokenKept, RobberServed, OneServed
<1> QED BY <1>6, <1>7, <1>8, <1>9, <1>10, <1>11 DEF CreatorStep

LEMMA DeleteToken ==
  ASSUME Exclusive, ~Fault("drop"), KInv, NEW r \in Requests \ Creators, DeleteStep(r),
         NEW n \in Names, NoneGone(n)'
  PROVE  TokenKept(n)'
<1>0. /\ TInv /\ FInv /\ TypeOK /\ UNCHANGED arg
      /\ \A q \in Requests \ {r} : pc'[q] = pc[q]
      /\ \A c \in Creators : c \in Requests /\ c # r
      /\ \A m \in Names : Live(m)' => Live(m) /\ pod'[m].token = pod[m].token
      /\ r \in Requests /\ pc[r] \in {"get"} \cup Deleting /\ arg[r] \in Names
  BY DeleteMoves DEF KInv, FInv, TInv, PcOK, Requests, DeleteStep, DeleteGet, DeleteService,
     DeleteSecret, DeletePod, DeleteWait, Deleting
<1>1. NoneGone(n) /\ TokenKept(n)
  BY <1>0 DEF NoneGone, KInv
<1>2. CASE secret'[n] = secret[n] /\ svc'[n] = svc[n]
           /\ (arg[r] = n /\ pc'[r] \in {"dsvc", "dsecret"} => pc[r] \in {"dsvc", "dsecret"})
  BY <1>0, <1>1, <1>2, TokenElsewhere
<1>3. CASE arg[r] = n /\ DeleteGet(r) /\ pc'[r] = "dsvc"
  <2>1. UNCHANGED objs /\ MayDelete(n) /\ ~InCreation(n)
    BY <1>0, <1>3 DEF DeleteGet, MayDelete, Goto, Back, TypeOK
  <2>2. \A c \in Creators : ~Robbed(c, n) /\ ~Robbed(c, n)'
    BY <1>0, <2>1 DEF Robbed, InCreation, Holding, Creating, objs
  <2>3. ~Crossed(n)
    <3>1. SUFFICES ASSUME Crossed(n) PROVE FALSE
      OBVIOUS
    <3>2. secret[n] # None /\ Live(n) BY <3>1 DEF Crossed
    <3>3. pc[secret[n]] \in Served /\ pc[pod[n].token] \in Served
      BY <1>0, <1>1, <2>1, <3>2, Holders
         DEF NoneGone, InCreation, Creating, Holding, Served
    <3> QED BY <1>1, <3>1, <3>3 DEF TokenKept, OneServed
  <2>4. ~Crossed(n)'
    BY <1>0, <2>1, <2>3, Holders DEF Crossed, Live, objs
  <2> QED BY <2>2, <2>4 DEF TokenKept, DeleteQuiet, RobberServed, OneServed
<1>4. CASE arg[r] = n /\ DeleteService(r)
  <2>1. UNCHANGED <<secret, pod>> /\ pc[r] = "dsvc" BY <1>4 DEF DeleteService
  <2>2. ~Crossed(n) /\ \A c \in Creators : ~Robbed(c, n)
    BY <1>0, <1>1, <1>4, <2>1 DEF TokenKept, DeleteQuiet
  <2>3. \A c \in Creators : ~Robbed(c, n)'
    BY <1>0, <2>1, <2>2 DEF Robbed
  <2>4. ~Crossed(n)'
    BY <1>0, <2>1, <2>2, Holders DEF Crossed, Live
  <2> QED BY <2>3, <2>4 DEF TokenKept, DeleteQuiet, RobberServed, OneServed
<1>5. CASE arg[r] = n /\ DeleteSecret(r)
  <2>1. pc[r] = "dsecret" /\ pc'[r] = "dpod" /\ secret'[n] = None
    BY <1>0, <1>5 DEF DeleteSecret, Goto, Fault, TypeOK
  <2>2. \A q \in Requests : arg'[q] = n => pc'[q] \notin {"dsvc", "dsecret"}
    BY <1>0, <1>5, <2>1 DEF KInv, OneDelete, Deleting
  <2> QED BY <2>1, <2>2 DEF TokenKept, DeleteQuiet, RobberServed, OneServed, Crossed
<1>6. arg[r] # n \/ DeletePod(r) \/ DeleteWait(r) \/ (DeleteGet(r) /\ pc'[r] # "dsvc")
      => /\ secret'[n] = secret[n] /\ svc'[n] = svc[n]
         /\ arg[r] = n => pc'[r] \notin {"dsvc", "dsecret"}
  BY <1>0 DEF DeleteStep, DeleteGet, DeleteService, DeleteSecret, DeletePod, DeleteWait,
     Goto, Back, TypeOK, objs
<1> QED BY <1>2, <1>3, <1>4, <1>5, <1>6 DEF DeleteStep

LEMMA NextKInv == Exclusive /\ ~Fault("drop") /\ KInv /\ [Next]_vars => KInv'
<1> SUFFICES ASSUME Exclusive, ~Fault("drop"), KInv, [Next]_vars,
                    NEW n \in Names, NoneGone(n)'
             PROVE  TokenKept(n)'
  BY NextFInv, OneDeleteNext DEF KInv, FInv, TInv
<1>0. TInv /\ FInv /\ FInv' /\ Creators \subseteq Requests /\ TypeOK
      /\ (NoneGone(n) => TokenKept(n))
  BY NextFInv DEF KInv, FInv, TInv, Requests
<1>1. ASSUME NEW r \in Creators, CreatorStep(r) PROVE TokenKept(n)'
  <2>1. CASE arg[r] = n BY <1>0, <1>1, <2>1, CreatorToken
  <2>2. CASE arg[r] # n
    <3>1. /\ UNCHANGED arg /\ arg[r] \in Names
          /\ \A q \in Requests \ {r} : pc'[q] = pc[q]
      BY <1>0, <1>1 DEF TInv, TypeOK, PcOK, Requests, CreatorStep, CreateSecret, CreatePod,
         CreateService, WaitReady, UndoPod, UndoSecret, Goto
    <3>2. secret'[n] = secret[n] /\ svc'[n] = svc[n]
      BY <1>0, <1>1, <2>2, <3>1 DEF TypeOK, CreatorStep, CreateSecret, CreatePod,
         CreateService, WaitReady, UndoPod, UndoSecret, objs
    <3>3. Live(n)' => Live(n) /\ pod'[n].token = pod[n].token
      BY <1>0, <1>1, <2>2, <3>1 DEF TypeOK, CreatorStep, CreateSecret, CreatePod,
         CreateService, WaitReady, UndoPod, UndoSecret, Terminate, Live, objs
    <3> QED BY <1>0, <2>2, <3>1, <3>2, <3>3, TokenElsewhere
  <2> QED BY <2>1, <2>2
<1>2. ASSUME NEW r \in Creators, NEW m \in Names, CreateCheck(r, m) PROVE TokenKept(n)'
  <2>1. /\ UNCHANGED objs /\ pc[r] = "idle" /\ pc'[r] \in {"secret", "refused"}
        /\ \A q \in Requests \ {r} : pc'[q] = pc[q] /\ arg'[q] = arg[q]
    BY <1>0, <1>2 DEF CreateCheck, Goto, TypeOK
  <2> QED BY <1>0, <2>1, TokenElsewhere DEF objs, Live, Holding, Served
<1>3. ASSUME NEW r \in Requests \ Creators, DeleteStep(r) PROVE TokenKept(n)'
  BY <1>3, DeleteToken
<1>4. ASSUME NEW r \in Requests \ Creators, CallerStep(r) PROVE TokenKept(n)'
  <2>1. /\ UNCHANGED objs /\ pc'[r] \notin {"dsvc", "dsecret"}
        /\ \A q \in Requests \ {r} : pc'[q] = pc[q] /\ arg'[q] = arg[q]
    BY <1>0, <1>4, CallerMoves
  <2> QED BY <1>0, <2>1, TokenElsewhere DEF objs, Live
<1>5. ASSUME NEW r \in Requests, Abandon(r) PROVE TokenKept(n)'
  <2>1. /\ UNCHANGED <<objs, arg>> /\ pc'[r] \in {"gone", "idle"}
        /\ (r \in Creators => pc'[r] = "gone")
        /\ \A q \in Requests \ {r} : pc'[q] = pc[q]
    BY <1>0, <1>5, AbandonMoves
  <2>2. r \in Creators => arg[r] # n BY <2>1 DEF NoneGone
  <2> QED BY <1>0, <2>1, <2>2, TokenElsewhere DEF objs, Live, Holding
<1>6. ASSUME NEW m \in Names, ClusterStep(m) PROVE TokenKept(n)'
  <2>1. UNCHANGED <<secret, svc, pc, arg>> BY <1>0, <1>6, ClusterMoves
  <2>2. Live(n)' => Live(n) /\ pod'[n].token = pod[n].token
    BY <1>0, <1>6, ClusterMoves DEF Live
  <2> QED BY <1>0, <2>1, <2>2, TokenElsewhere
<1>7. CASE UNCHANGED vars
  BY <1>0, <1>7, TokenElsewhere DEF vars, objs, Live
<1> QED BY <1>1, <1>2, <1>3, <1>4, <1>5, <1>6, <1>7, NextCases

LEMMA InitKInv == Init => KInv
<1> SUFFICES ASSUME Init PROVE OneDelete /\ \A n \in Names : TokenKept(n)
  BY InitFInv DEF KInv
<1>1. Creators \subseteq Requests BY DEF Requests
<1>2. OneDelete BY DEF Init, OneDelete, Deleting
<1>3. \A n \in Names : TokenKept(n)
  BY <1>1 DEF Init, TokenKept, DeleteQuiet, RobberServed, OneServed, Robbed, Crossed, Holding,
     Live
<1> QED BY <1>2, <1>3

\* Deletes that stop at any call, evictions and slow pods included, a settled
\* sandbox whose creates were answered has no token but its own (k8s.go Resolve).
THEOREM TokensAgreeAlways ==
  ASSUME Exclusive, "drop" \notin Faults
  PROVE  Spec => []TokensAgree
<1>1. ~Fault("drop") BY DEF Fault
<1>2. KInv => TokensAgree
  <2> SUFFICES ASSUME KInv, NEW n \in Names, Live(n), ~InDeletion(n), ~InCreation(n),
                      \A c \in Creators : arg[c] = n => pc[c] # "gone",
                      secret[n] \notin {pod[n].token, None}
               PROVE  FALSE
    BY DEF TokensAgree
  <2>1. NoneGone(n) /\ TokenKept(n) BY DEF KInv, NoneGone
  <2>2. pc[secret[n]] \in Served /\ pc[pod[n].token] \in Served
    BY Holders DEF KInv, InCreation, Creating, Holding, Served
  <2>3. Crossed(n) BY <2>2 DEF Crossed, Served
  <2> QED BY <2>1, <2>2, <2>3 DEF TokenKept, OneServed
<1> QED BY InitKInv, NextKInv, <1>1, <1>2, PTL DEF Spec
=============================================================================

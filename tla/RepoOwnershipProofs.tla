------------------------- MODULE RepoOwnershipProofs -------------------------
(* Proofs about RepoOwnership: who owns a repository, and when nobody does, *)
(* for any tenants, requests and repositories, and any number of faults.    *)
EXTENDS RepoOwnership, TLAPS

-----------------------------------------------------------------------------
(* Which call takes which steps, with what arguments.                      *)

ClaimSteps  == {"make", "post", "protect", "row"}
EnsureSteps == ClaimSteps \cup {"exists", "owned", "orgRow", "probe", "create"}
ImportSteps == {"impPost", "push", "default", "row", "cleanup"}
RemoveSteps == {"sessions", "cascade", "sandboxes", "session", "services", "gitRepo", "dropRow"}

OnBranch == {"ensure", "ensureRepo", "import", "fork", "branch", "delSession"}
OnFree   == {"free", "delFree"}
Between  == {"list", "next"}

MayBeAt(op, pc) ==
  /\ op = None => pc = "idle"
  /\ op = "ensure" => pc \in EnsureSteps
  /\ op = "reconcile" => pc \in EnsureSteps \cup Between
  /\ op = "ensureRepo" => pc \in ClaimSteps \cup {"probe", "create"}
  /\ op = "createOrg" => pc \in {"org", "orgAdd"}
  /\ op = "import" => pc \in ImportSteps \cup
                          {"org", "orgAdd", "impExists", "impProtect", "probe", "create"}
  /\ op = "fork" => pc \in {"mayFork", "parent", "fork"}
  /\ op = "branch" => pc \in {"visible", "branch"}
  /\ op = "delSession" => pc \in {"mayDelete", "sandboxes", "session", "gitBranch"}
  /\ op = "delRepo" => pc \in RemoveSteps \cup {"mayRemove"}
  /\ op = "free" => pc \in {"freeRow", "create"}
  /\ op = "delFree" => pc \in {"freeRole", "sandboxes", "session"}

ShapeArgs(c) ==
  /\ c.op = None => c.r = None
  /\ c.op # None => c.t \in Tenants
  /\ c.op \in OnBranch => c.r \in Repos /\ c.b \in Branches
  /\ c.op = "delRepo" =>
       /\ c.r \in Repos /\ c.todo \subseteq {c.r} \X Branches
       /\ c.pc \in {"sandboxes", "session"} => c.b \in Branches
  /\ c.op = "reconcile" => IF c.pc \in Between THEN c.r = None
                                               ELSE c.r \in Repos /\ c.b \in Branches
  /\ c.op \in OnFree => c.r = None /\ c.b \in FreeNames
  /\ c.op = "createOrg" => c.r = None

Shape(c) == MayBeAt(c.op, c.pc) /\ ShapeArgs(c)

TInv == TypeOK /\ \A p \in Callers : Shape(req[p])

\* What a step does to its own request: it goes on, or it ends (and so does, for
\* the reconciler, its work on the branch).
OthersSame(p) == \A q \in Callers \ {p} : req'[q] = req[q]

Moves(p, step) ==
  /\ OthersSame(p) /\ req' \in [Callers -> Calls]
  /\ req'[p].op = req[p].op /\ req'[p].t = req[p].t /\ req'[p].r = req[p].r
  /\ req'[p].b = req[p].b /\ req'[p].todo = req[p].todo /\ req'[p].pc = step

Leaves(p) ==
  /\ OthersSame(p) /\ req' \in [Callers -> Calls]
  /\ req'[p].r = None /\ Shape(req'[p])

LEMMA GotoMoves ==
  ASSUME TypeOK, NEW p \in Callers, NEW step \in PCs, Goto(p, step)
  PROVE  Moves(p, step)
BY DEF TypeOK, Goto, Moves, OthersSame, Calls

LEMMA OpsAre ==
  Ops = {"ensure", "ensureRepo", "createOrg", "import", "fork", "branch",
         "delSession", "delRepo", "free", "delFree", "reconcile"}
BY DEF Ops, FirstStep

LEMMA IdleTyped == Idle \in Calls /\ Shape(Idle)
<1>1. Idle \in Calls
  BY DEF Idle, Calls, PCs
<1>2. Shape(Idle)
  BY NoneAssumption, OpsAre DEF Idle, Shape, MayBeAt, ShapeArgs, OnBranch, OnFree
<1>. QED
  BY <1>1, <1>2

LEMMA IdleLeaves ==
  ASSUME TypeOK, NEW p \in Callers, req' = [req EXCEPT ![p] = Idle]
  PROVE  Leaves(p)
<1>1. req'[p] = Idle
  BY DEF TypeOK
<1>2. OthersSame(p) /\ req' \in [Callers -> Calls]
  BY IdleTyped DEF TypeOK, OthersSame
<1>3. req'[p].r = None
  BY <1>1 DEF Idle
<1>. QED
  BY <1>1, <1>2, <1>3, IdleTyped DEF Leaves

LEMMA ReturnLeaves ==
  ASSUME TypeOK, NEW p \in Callers, Shape(req[p]), Return(p)
  PROVE  Leaves(p)
<1>1. CASE req[p].op = "reconcile"
  <2>. DEFINE next == [req[p] EXCEPT !.pc = "next", !.r = None, !.b = None]
  <2>1. req' = [req EXCEPT ![p] = next]
    BY <1>1 DEF Return
  <2>2. /\ next \in Calls
        /\ next.op = "reconcile" /\ next.t = req[p].t
        /\ next.pc = "next" /\ next.r = None
    BY <1>1 DEF TypeOK, Calls, PCs
  <2>. HIDE DEF next
  <2>3. OthersSame(p) /\ req' \in [Callers -> Calls] /\ req'[p] = next
    BY <2>1, <2>2 DEF TypeOK, OthersSame
  <2>4. Shape(next)
    BY <1>1, <2>2, NoneAssumption, OpsAre
    DEF Shape, MayBeAt, ShapeArgs, Between, OnBranch, OnFree
  <2>. QED
    BY <2>2, <2>3, <2>4 DEF Leaves
<1>2. CASE req[p].op # "reconcile"
  BY <1>2, IdleLeaves DEF Return
<1>. QED
  BY <1>1, <1>2

\* Either way it keeps its shape, and works on nothing new.
Proceeds(p) ==
  /\ OthersSame(p) /\ req' \in [Callers -> Calls] /\ Shape(req'[p])
  /\ \/ req'[p].r = None
     \/ req'[p].op = req[p].op /\ req'[p].t = req[p].t /\ req'[p].r = req[p].r

LEMMA LeavesProceeds ==
  ASSUME TInv, NEW p \in Callers, Return(p) \/ req' = [req EXCEPT ![p] = Idle]
  PROVE  Leaves(p) /\ Proceeds(p)
BY ReturnLeaves, IdleLeaves DEF TInv, Leaves, Proceeds

LEMMA Went ==
  ASSUME TInv, NEW p \in Callers, NEW step \in PCs \ (Between \cup {"sandboxes"}),
         Goto(p, step), req[p].pc \notin Between, MayBeAt(req[p].op, step),
         step = "session" => At(p, "sandboxes")
  PROVE  Moves(p, step) /\ Proceeds(p)
<1>1. Moves(p, step)
  BY GotoMoves DEF TInv
<1>2. MayBeAt(req'[p].op, req'[p].pc)
  BY <1>1 DEF Moves
<1>3. ShapeArgs(req'[p])
  BY <1>1 DEF Moves, ShapeArgs, Shape, TInv, At
<1>. QED
  BY <1>1, <1>2, <1>3 DEF Proceeds, Moves, Shape

\* The flow chart.
LEMMA Flow ==
  ASSUME NEW op \in Ops \cup {None}
  PROVE  /\ MayBeAt(op, "exists") => MayBeAt(op, "owned") /\ MayBeAt(op, "make")
         /\ MayBeAt(op, "owned") => MayBeAt(op, "probe")
         /\ MayBeAt(op, "make") => MayBeAt(op, "protect") /\ MayBeAt(op, "post")
         /\ MayBeAt(op, "post") => MayBeAt(op, "protect")
         /\ MayBeAt(op, "protect") => MayBeAt(op, "row")
         /\ MayBeAt(op, "row") /\ op = "ensureRepo" => MayBeAt(op, "probe")
         /\ MayBeAt(op, "row") /\ op = "import" => MayBeAt(op, "impProtect")
         /\ MayBeAt(op, "row") /\ op \notin {"import", "ensureRepo"} => MayBeAt(op, "orgRow")
         /\ MayBeAt(op, "orgRow") => MayBeAt(op, "probe")
         /\ MayBeAt(op, "org") => MayBeAt(op, "orgAdd")
         /\ op = "import" => MayBeAt(op, "impExists")
         /\ MayBeAt(op, "probe") => MayBeAt(op, "create")
         /\ MayBeAt(op, "freeRow") => MayBeAt(op, "create")
         /\ MayBeAt(op, "mayFork") => MayBeAt(op, "parent")
         /\ MayBeAt(op, "parent") => MayBeAt(op, "fork")
         /\ MayBeAt(op, "visible") => MayBeAt(op, "branch")
         /\ MayBeAt(op, "impExists") => MayBeAt(op, "impPost")
         /\ MayBeAt(op, "impPost") => MayBeAt(op, "push")
         /\ MayBeAt(op, "push") => MayBeAt(op, "default") /\ MayBeAt(op, "cleanup")
         /\ MayBeAt(op, "default") => MayBeAt(op, "row") /\ MayBeAt(op, "cleanup")
         /\ MayBeAt(op, "impProtect") => MayBeAt(op, "probe")
         /\ MayBeAt(op, "mayDelete") => MayBeAt(op, "sandboxes")
         /\ MayBeAt(op, "freeRole") => MayBeAt(op, "sandboxes")
         /\ MayBeAt(op, "sandboxes") => MayBeAt(op, "session")
         /\ op = "delRepo" => MayBeAt(op, "cascade") /\ MayBeAt(op, "sandboxes")
         /\ op = "delSession" => MayBeAt(op, "gitBranch")
         /\ MayBeAt(op, "mayRemove") => MayBeAt(op, "sessions")
         /\ MayBeAt(op, "sessions") => MayBeAt(op, "cascade")
         /\ MayBeAt(op, "cascade") => MayBeAt(op, "services") /\ op = "delRepo"
         /\ MayBeAt(op, "services") => MayBeAt(op, "gitRepo")
         /\ MayBeAt(op, "gitRepo") => MayBeAt(op, "dropRow")
<1>. USE NoneAssumption, OpsAre
    DEF MayBeAt, EnsureSteps, ClaimSteps, ImportSteps, RemoveSteps, Between
<1>1. CASE op = None
  BY <1>1
<1>2. CASE op = "ensure"
  BY <1>2
<1>3. CASE op = "ensureRepo"
  BY <1>3
<1>4. CASE op = "createOrg"
  BY <1>4
<1>5. CASE op = "import"
  BY <1>5
<1>6. CASE op = "fork"
  BY <1>6
<1>7. CASE op = "branch"
  BY <1>7
<1>8. CASE op = "delSession"
  BY <1>8
<1>9. CASE op = "delRepo"
  BY <1>9
<1>10. CASE op = "free"
  BY <1>10
<1>11. CASE op = "delFree"
  BY <1>11
<1>12. CASE op = "reconcile"
  BY <1>12
<1>. QED
  BY <1>1, <1>2, <1>3, <1>4, <1>5, <1>6, <1>7, <1>8, <1>9, <1>10, <1>11, <1>12, OpsAre

LEMMA NotThere ==
  ASSUME NEW op
  PROVE  /\ MayBeAt(op, "mayDelete") => op \notin {"delRepo", "reconcile"}
         /\ MayBeAt(op, "freeRole") => op \notin {"delRepo", "reconcile"}
BY DEF MayBeAt, EnsureSteps, ClaimSteps, RemoveSteps, Between

LEMMA ClaimProceeds ==
  ASSUME TInv, NEW p \in Callers, Claim(p)
  PROVE  Proceeds(p)
<1>. USE LeavesProceeds, Went DEF At, Between, PCs
<1>0. req[p].op \in Ops \cup {None} /\ MayBeAt(req[p].op, req[p].pc)
  BY DEF TInv, Shape, TypeOK, Calls
<1>1. CASE ClaimCheck(p)
  <2>1. Goto(p, "owned") \/ Goto(p, "make")
    BY <1>1 DEF ClaimCheck
  <2>. QED
    BY <1>0, <1>1, <2>1, Flow DEF ClaimCheck
<1>2. CASE ClaimOwned(p)
  BY <1>0, <1>2, Flow DEF ClaimOwned
<1>3. CASE MakeCheck(p)
  <2>1. Goto(p, "protect") \/ Goto(p, "post")
    BY <1>3 DEF MakeCheck
  <2>. QED
    BY <1>0, <1>3, <2>1, Flow DEF MakeCheck
<1>4. CASE MakePost(p)
  <2>1. Goto(p, "protect") \/ Return(p)
    BY <1>4 DEF MakePost, Post
  <2>. QED
    BY <1>0, <1>4, <2>1, Flow DEF MakePost
<1>5. CASE Protect(p)
  BY <1>0, <1>5, Flow DEF Protect
<1>6. CASE AddRepo(p)
  <2>1. \/ req[p].op = "ensureRepo" /\ Goto(p, "probe")
        \/ req[p].op = "import" /\ Goto(p, "impProtect")
        \/ req[p].op \notin {"import", "ensureRepo"} /\ Goto(p, "orgRow")
    BY <1>6 DEF AddRepo
  <2>. QED
    BY <1>0, <1>6, <2>1, Flow DEF AddRepo
<1>7. CASE AddOrg(p)
  BY <1>0, <1>7, Flow DEF AddOrg
<1>8. CASE OrgCheck(p)
  <2>1. (req[p].op = "import" /\ Goto(p, "impExists")) \/ Goto(p, "orgAdd") \/ Return(p)
    BY <1>8 DEF OrgCheck
  <2>. QED
    BY <1>0, <1>8, <2>1, Flow DEF OrgCheck
<1>9. CASE OrgAdd(p)
  <2>1. (req[p].op = "import" /\ Goto(p, "impExists")) \/ Return(p)
    BY <1>9 DEF OrgAdd
  <2>. QED
    BY <1>0, <1>9, <2>1, Flow DEF OrgAdd
<1>. QED
  BY <1>1, <1>2, <1>3, <1>4, <1>5, <1>6, <1>7, <1>8, <1>9 DEF Claim

LEMMA SessioningProceeds ==
  ASSUME TInv, NEW p \in Callers, Sessioning(p)
  PROVE  Proceeds(p)
<1>. USE LeavesProceeds, Went DEF At, Between, PCs
<1>0. req[p].op \in Ops \cup {None} /\ MayBeAt(req[p].op, req[p].pc)
  BY DEF TInv, Shape, TypeOK, Calls
<1>1. CASE SessionProbe(p)
  BY <1>0, <1>1, Flow DEF SessionProbe
<1>2. CASE CreateSession(p)
  BY <1>0, <1>2, Flow DEF CreateSession
<1>3. CASE FreeRow(p)
  BY <1>0, <1>3, Flow DEF FreeRow
<1>4. CASE MayFork(p)
  BY <1>0, <1>4, Flow DEF MayFork
<1>5. CASE ForkParent(p)
  BY <1>0, <1>5, Flow DEF ForkParent
<1>6. CASE Fork(p)
  BY <1>0, <1>6, Flow DEF Fork
<1>7. CASE BranchVisible(p)
  BY <1>0, <1>7, Flow DEF BranchVisible
<1>8. CASE CreateBranch(p)
  BY <1>0, <1>8, Flow DEF CreateBranch
<1>. QED
  BY <1>1, <1>2, <1>3, <1>4, <1>5, <1>6, <1>7, <1>8 DEF Sessioning

LEMMA ImportProceeds ==
  ASSUME TInv, NEW p \in Callers, Import(p)
  PROVE  Proceeds(p)
<1>. USE LeavesProceeds, Went DEF At, Between, PCs
<1>0. req[p].op \in Ops \cup {None} /\ MayBeAt(req[p].op, req[p].pc)
  BY DEF TInv, Shape, TypeOK, Calls
<1>1. CASE ImportCheck(p)
  BY <1>0, <1>1, Flow DEF ImportCheck
<1>2. CASE ImportPost(p)
  <2>1. Goto(p, "push") \/ Return(p)
    BY <1>2 DEF ImportPost, Post
  <2>. QED
    BY <1>0, <1>2, <2>1, Flow DEF ImportPost
<1>3. CASE ImportPush(p)
  BY <1>0, <1>3, Flow DEF ImportPush
<1>4. CASE ImportDefault(p)
  BY <1>0, <1>4, Flow DEF ImportDefault
<1>5. CASE ImportProtect(p)
  BY <1>0, <1>5, Flow DEF ImportProtect
<1>6. CASE ImportCleanup(p)
  BY <1>0, <1>6, Flow DEF ImportCleanup
<1>. QED
  BY <1>1, <1>2, <1>3, <1>4, <1>5, <1>6 DEF Import

\* A step of the cascade begins: its session is one of the list.
LEMMA CascadeBegins ==
  ASSUME TInv, NEW p \in Callers, At(p, "cascade"), NEW s \in req[p].todo,
         req' = [req EXCEPT ![p].todo = @ \ {s}, ![p].b = s[2], ![p].pc = "sandboxes"]
  PROVE  Proceeds(p)
<1>1. MayBeAt(req[p].op, req[p].pc) /\ req[p].op \in Ops \cup {None} /\ req[p] \in Calls
  BY DEF TInv, Shape, TypeOK, Calls
<1>2. req[p].op = "delRepo" /\ MayBeAt(req[p].op, "sandboxes")
  BY <1>1, Flow DEF At
<1>3. req[p].r \in Repos /\ req[p].todo \subseteq {req[p].r} \X Branches /\ req[p].t \in Tenants
  BY <1>2, NoneAssumption, OpsAre DEF TInv, Shape, ShapeArgs
<1>. DEFINE next == [req[p] EXCEPT !.todo = @ \ {s}, !.b = s[2], !.pc = "sandboxes"]
<1>4. s[2] \in Branches
  BY <1>3
<1>5. req' = [req EXCEPT ![p] = next]
  OBVIOUS
<1>6. /\ next.op = "delRepo" /\ next.t = req[p].t /\ next.r = req[p].r
      /\ next.b = s[2] /\ next.todo = req[p].todo \ {s} /\ next.pc = "sandboxes"
  BY <1>1, <1>2 DEF Calls
<1>7. next \in Calls
  BY <1>1, <1>4 DEF Calls, PCs
<1>. HIDE DEF next
<1>8. Shape(next)
  BY <1>2, <1>3, <1>4, <1>6, NoneAssumption, OpsAre DEF Shape, ShapeArgs, OnBranch, OnFree
<1>9. req'[p] = next /\ OthersSame(p) /\ req' \in [Callers -> Calls]
  BY <1>5, <1>7 DEF OthersSame, TInv, TypeOK
<1>. QED
  BY <1>2, <1>6, <1>8, <1>9 DEF Proceeds

LEMMA ListProceeds ==
  ASSUME TInv, NEW p \in Callers, ListSessions(p)
  PROVE  Proceeds(p)
<1>1. MayBeAt(req[p].op, req[p].pc) /\ req[p].op \in Ops \cup {None} /\ req[p] \in Calls
  BY DEF TInv, Shape, TypeOK, Calls
<1>2. req[p].op = "delRepo" /\ MayBeAt(req[p].op, "cascade")
  BY <1>1, Flow DEF ListSessions, At
<1>3. req[p].r \in Repos /\ req[p].t \in Tenants
  BY <1>2, NoneAssumption, OpsAre DEF TInv, Shape, ShapeArgs
<1>. DEFINE found == {s \in {req[p].r} \X Branches : <<req[p].t, s>> \in sessions}
            next  == [req[p] EXCEPT !.todo = found, !.pc = "cascade"]
<1>4. found \subseteq {req[p].r} \X Branches /\ found \subseteq BranchSessions
  BY <1>3 DEF BranchSessions
<1>5. req' = [req EXCEPT ![p] = next]
  BY DEF ListSessions
<1>. HIDE DEF found
<1>6. /\ next.op = "delRepo" /\ next.t = req[p].t /\ next.r = req[p].r
      /\ next.todo = found /\ next.pc = "cascade"
  BY <1>1, <1>2 DEF Calls
<1>7. next \in Calls
  BY <1>1, <1>4 DEF Calls, PCs
<1>. HIDE DEF next
<1>8. Shape(next)
  BY <1>2, <1>3, <1>4, <1>6, NoneAssumption, OpsAre DEF Shape, ShapeArgs, OnBranch, OnFree
<1>9. req'[p] = next /\ OthersSame(p) /\ req' \in [Callers -> Calls]
  BY <1>5, <1>7 DEF OthersSame, TInv, TypeOK
<1>. QED
  BY <1>2, <1>6, <1>8, <1>9 DEF Proceeds

\* DeleteBranchSession and its like enter the cascade for their one session.
LEMMA MayDeleteProceeds ==
  ASSUME TInv, NEW p \in Callers, MayDelete(p)
  PROVE  Proceeds(p)
<1>0. req[p].op \in Ops \cup {None} /\ MayBeAt(req[p].op, req[p].pc)
  BY DEF TInv, Shape, TypeOK, Calls
<1>1. CASE Return(p)
  BY <1>1, LeavesProceeds
<1>2. CASE Goto(p, "sandboxes")
  <2>1. Moves(p, "sandboxes")
    BY <1>2, GotoMoves DEF TInv, PCs
  <2>2. req[p].pc = "mayDelete" \/ req[p].pc = "freeRole"
    BY DEF MayDelete, At
  <2>3. MayBeAt(req[p].op, "sandboxes") /\ req[p].op \notin {"delRepo", "reconcile"}
    BY <1>0, <2>2, Flow, NotThere
  <2>4. ShapeArgs(req'[p])
    BY <2>1, <2>3 DEF Moves, ShapeArgs, Shape, TInv
  <2>. QED
    BY <2>1, <2>3, <2>4 DEF Proceeds, Moves, Shape
<1>. QED
  BY <1>1, <1>2 DEF MayDelete

LEMMA DeletionProceeds ==
  ASSUME TInv, NEW p \in Callers, Deletion(p)
  PROVE  Proceeds(p)
<1>. USE LeavesProceeds, Went DEF At, Between, PCs
<1>0. req[p].op \in Ops \cup {None} /\ MayBeAt(req[p].op, req[p].pc)
  BY DEF TInv, Shape, TypeOK, Calls
<1>1. CASE MayDelete(p)
  BY <1>1, MayDeleteProceeds
<1>2. CASE CascadeSandboxes(p)
  BY <1>0, <1>2, Flow DEF CascadeSandboxes
<1>3. CASE CascadeSession(p)
  <2>1. \/ req[p].op = "delRepo" /\ Goto(p, "cascade")
        \/ req[p].op = "delSession" /\ Goto(p, "gitBranch")
        \/ Return(p)
    BY <1>3 DEF CascadeSession
  <2>. QED
    BY <1>0, <1>3, <2>1, Flow DEF CascadeSession
<1>4. CASE DeleteGitBranch(p)
  BY <1>0, <1>4, Flow DEF DeleteGitBranch
<1>5. CASE MayRemove(p)
  BY <1>0, <1>5, Flow DEF MayRemove
<1>6. CASE ListSessions(p)
  BY <1>6, ListProceeds
<1>7. CASE CascadeNext(p)
  BY <1>0, <1>7, Flow, CascadeBegins DEF CascadeNext
<1>8. CASE DeleteServices(p)
  BY <1>0, <1>8, Flow DEF DeleteServices
<1>9. CASE DeleteGitRepo(p)
  BY <1>0, <1>9, Flow DEF DeleteGitRepo
<1>10. CASE RemoveRepo(p)
  BY <1>0, <1>10, Flow DEF RemoveRepo
<1>. QED
  BY <1>1, <1>2, <1>3, <1>4, <1>5, <1>6, <1>7, <1>8, <1>9, <1>10 DEF Deletion

LEMMA InterruptProceeds ==
  ASSUME TInv, NEW p \in Callers, Interrupt(p)
  PROVE  Proceeds(p)
BY LeavesProceeds DEF Interrupt

LEMMA IgnoredProceeds ==
  ASSUME TInv, NEW p \in Callers, IgnoredError(p)
  PROVE  Proceeds(p)
<1>. USE LeavesProceeds, Went DEF At, Between, PCs
<1>0. /\ req[p].op \in Ops \cup {None} /\ MayBeAt(req[p].op, req[p].pc)
      /\ AfterIgnored(p)
  BY DEF TInv, Shape, TypeOK, Calls, IgnoredError
<1>1. CASE At(p, "orgRow") \/ At(p, "impProtect")
  BY <1>0, <1>1, Flow DEF AfterIgnored
<1>2. CASE At(p, "sandboxes")
  BY <1>0, <1>2, Flow DEF AfterIgnored
<1>3. CASE At(p, "session")
  <2>1. \/ req[p].op = "delRepo" /\ Goto(p, "cascade")
        \/ req[p].op = "delSession" /\ Goto(p, "gitBranch")
        \/ Return(p)
    BY <1>0, <1>3 DEF AfterIgnored
  <2>. QED
    BY <1>0, <1>3, <2>1, Flow
<1>4. CASE At(p, "sessions")
  BY <1>0, <1>4, Flow DEF AfterIgnored
<1>5. CASE At(p, "services")
  BY <1>0, <1>5, Flow DEF AfterIgnored
<1>. QED
  BY <1>1, <1>2, <1>3, <1>4, <1>5 DEF IgnoredError

\* A request past the check that its tenant owns the repository.
Admitted == {"orgRow", "impProtect", "probe", "create", "parent", "fork"}

\* A request that begins, or begins with its next branch: on what, and how.
Begins(p, c) ==
  /\ req' = [req EXCEPT ![p] = c] /\ c \in Calls /\ Shape(c)
  /\ Begin(p, c.op, c.t, c.r)
  /\ req[p].r = None /\ c.pc \notin Admitted
  /\ \/ c.pc \notin ClaimSteps \cup ImportSteps \cup RemoveSteps
     \/ c.op = "ensureRepo" /\ c.pc = "make"

Sensible(op, r, b) ==
  \/ op \in {"ensure", "branch", "delSession"} /\ r \in Repos /\ b \in Branches
  \/ op \in {"ensureRepo", "import"} /\ r \in Repos /\ b = Main
  \/ op = "fork" /\ r \in Repos /\ b \in Branches
  \/ op = "delRepo" /\ r \in Repos /\ b = None
  \/ op = "createOrg" /\ r = None /\ b = None
  \/ op \in {"free", "delFree"} /\ r = None /\ b \in FreeNames

LEMMA ReceiveBegins ==
  ASSUME TInv, NEW p \in Callers, NEW t \in Tenants, NEW op, NEW r, NEW b,
         Sensible(op, r, b), Receive(p, op, t, r, b)
  PROVE  \E c : Begins(p, c)
<1>. USE DEF Sensible
<1>. DEFINE c == [op |-> op, t |-> t, r |-> r, b |-> b, pc |-> FirstStep[op], todo |-> {}]
<1>1. op \in Ops /\ r \in Repos \cup {None} /\ b \in Branches \cup FreeNames \cup {None}
  BY OpsAre, NamesAssumption
<1>2. FirstStep[op] \in PCs /\ MayBeAt(op, FirstStep[op])
  BY NoneAssumption, OpsAre DEF FirstStep, PCs, MayBeAt, EnsureSteps, ClaimSteps
<1>3. c \in Calls
  BY <1>1, <1>2 DEF Calls
<1>4. ShapeArgs(c)
  BY <1>2, NamesAssumption, NoneAssumption, OpsAre DEF ShapeArgs, OnBranch, OnFree, FirstStep
<1>5. req[p].r = None
  BY NoneAssumption, OpsAre DEF Receive, At, TInv, Shape, MayBeAt, ShapeArgs, Callers,
    TypeOK, Calls, EnsureSteps, ClaimSteps, ImportSteps, RemoveSteps, Between
<1>6. /\ c.pc \notin Admitted
      /\ \/ c.pc \notin ClaimSteps \cup ImportSteps \cup RemoveSteps
         \/ c.op = "ensureRepo" /\ c.pc = "make"
  BY DEF FirstStep, ClaimSteps, ImportSteps, RemoveSteps, Admitted
<1>. QED
  BY <1>2, <1>3, <1>4, <1>5, <1>6 DEF Begins, Receive, Shape

LEMMA ReceiveCallBegins ==
  ASSUME TInv, NEW p \in Requests, ReceiveCall(p)
  PROVE  \E c : Begins(p, c)
<1>1. \E t \in Tenants : \E op, r, b : Sensible(op, r, b) /\ Receive(p, op, t, r, b)
  <2>. PICK t \in Tenants :
        \/ \E r \in Repos, b \in Branches, op \in {"ensure", "branch", "delSession"} :
              Receive(p, op, t, r, b)
        \/ \E r \in Repos, op \in {"ensureRepo", "import"} : Receive(p, op, t, r, Main)
        \/ \E r \in Repos, b \in Branches \ {Main} : Receive(p, "fork", t, r, b)
        \/ \E r \in Repos : Receive(p, "delRepo", t, r, None)
        \/ Receive(p, "createOrg", t, None, None)
        \/ \E f \in FreeNames, op \in {"free", "delFree"} : Receive(p, op, t, None, f)
    BY DEF ReceiveCall
  <2>. QED
    BY Zenon DEF Sensible
<1>. QED
  BY <1>1, ReceiveBegins DEF Callers

LEMMA ReconcileStartProceeds ==
  ASSUME TInv, NEW p \in Callers, ReconcileStart(p)
  PROVE  Proceeds(p)
<1>. PICK t \in Tenants :
       req' = [req EXCEPT ![p] = [Idle EXCEPT !.op = "reconcile", !.t = t, !.pc = "list"]]
  BY DEF ReconcileStart
<1>. DEFINE next == [Idle EXCEPT !.op = "reconcile", !.t = t, !.pc = "list"]
<1>1. next.op = "reconcile" /\ next.t = t /\ next.r = None /\ next.pc = "list"
  BY DEF Idle
<1>2. next \in Calls
  BY OpsAre DEF Idle, Calls, PCs
<1>. HIDE DEF next
<1>3. Shape(next)
  BY <1>1, OpsAre, NoneAssumption
  DEF Shape, ShapeArgs, MayBeAt, OnBranch, OnFree, Between
<1>4. req'[p] = next /\ OthersSame(p) /\ req' \in [Callers -> Calls]
  BY <1>2 DEF OthersSame, TInv, TypeOK, next
<1>. QED
  BY <1>1, <1>3, <1>4 DEF Proceeds

LEMMA ReconcileListProceeds ==
  ASSUME TInv, NEW p \in Callers, ReconcileList(p)
  PROVE  Proceeds(p)
<1>1. MayBeAt(req[p].op, req[p].pc) /\ req[p].op \in Ops \cup {None} /\ req[p] \in Calls
  BY DEF TInv, Shape, TypeOK, Calls
<1>2. req[p].op = "reconcile"
  BY <1>1, OpsAre DEF ReconcileList, At, MayBeAt, EnsureSteps, ClaimSteps, ImportSteps,
    RemoveSteps
<1>3. req[p].r = None /\ req[p].t \in Tenants
  BY <1>2, NoneAssumption, OpsAre DEF ReconcileList, At, Between, TInv, Shape, ShapeArgs
<1>. DEFINE found == {x \in branches : <<req[p].t, x[1]>> \in owners}
            next  == [req[p] EXCEPT !.todo = found, !.pc = "next"]
<1>4. found \subseteq BranchSessions
  BY DEF BranchSessions, TInv, TypeOK
<1>5. req' = [req EXCEPT ![p] = next]
  BY DEF ReconcileList
<1>. HIDE DEF found
<1>6. /\ next.op = "reconcile" /\ next.t = req[p].t /\ next.r = None /\ next.pc = "next"
  BY <1>1, <1>2, <1>3 DEF Calls
<1>7. next \in Calls
  BY <1>1, <1>4 DEF Calls, PCs
<1>. HIDE DEF next
<1>8. Shape(next)
  BY <1>3, <1>6, NoneAssumption, OpsAre
  DEF Shape, ShapeArgs, MayBeAt, OnBranch, OnFree, Between
<1>9. req'[p] = next /\ OthersSame(p) /\ req' \in [Callers -> Calls]
  BY <1>5, <1>7 DEF OthersSame, TInv, TypeOK
<1>. QED
  BY <1>6, <1>8, <1>9 DEF Proceeds

LEMMA ReconcileNextBegins ==
  ASSUME TInv, NEW p \in Callers, ReconcileNext(p)
  PROVE  (Proceeds(p) /\ UNCHANGED past) \/ \E c : Begins(p, c)
<1>1. MayBeAt(req[p].op, req[p].pc) /\ req[p].op \in Ops \cup {None} /\ req[p] \in Calls
  BY DEF TInv, Shape, TypeOK, Calls
<1>2. req[p].op = "reconcile"
  BY <1>1, OpsAre DEF ReconcileNext, At, MayBeAt, EnsureSteps, ClaimSteps, ImportSteps,
    RemoveSteps
<1>3. req[p].r = None /\ req[p].t \in Tenants
  BY <1>2, NoneAssumption, OpsAre DEF ReconcileNext, At, Between, TInv, Shape, ShapeArgs
<1>4. CASE req' = [req EXCEPT ![p] = Idle] /\ UNCHANGED past
  BY <1>4, LeavesProceeds
<1>5. ASSUME NEW x \in req[p].todo,
             req' = [req EXCEPT ![p].todo = @ \ {x}, ![p].r = x[1], ![p].b = x[2],
                                ![p].pc = "exists"],
             Begin(p, "reconcile", req[p].t, x[1])
      PROVE  \E c : Begins(p, c)
  <2>. DEFINE c == [req[p] EXCEPT !.todo = @ \ {x}, !.r = x[1], !.b = x[2], !.pc = "exists"]
  <2>1. x[1] \in Repos /\ x[2] \in Branches
    BY <1>1 DEF Calls, BranchSessions
  <2>2. req' = [req EXCEPT ![p] = c]
    BY <1>5
  <2>3. /\ c.op = "reconcile" /\ c.t = req[p].t /\ c.r = x[1] /\ c.b = x[2] /\ c.pc = "exists"
    BY <1>1, <1>2 DEF Calls
  <2>4. c \in Calls
    BY <1>1, <2>1 DEF Calls, PCs
  <2>. HIDE DEF c
  <2>5. Shape(c)
    BY <1>3, <2>1, <2>3, NoneAssumption, OpsAre
    DEF Shape, ShapeArgs, MayBeAt, EnsureSteps, OnBranch, OnFree, Between
  <2>. QED
    BY <1>3, <1>5, <2>2, <2>3, <2>4, <2>5
    DEF Begins, ClaimSteps, ImportSteps, RemoveSteps, Admitted
<1>. QED
  BY <1>4, <1>5 DEF ReconcileNext

\* What a call at a step works on.
OnRepo == ClaimSteps \cup ImportSteps \cup
            {"impExists", "impProtect", "exists", "owned", "orgRow", "probe", "fork", "branch"}

LEMMA Args ==
  ASSUME TInv, NEW p \in Callers
  PROVE  /\ req[p].pc # "idle" => req[p].t \in Tenants
         /\ req[p].pc \in OnRepo => req[p].r \in Repos /\ req[p].b \in Branches
         /\ req[p].pc = "create" => IF req[p].op = "free" THEN req[p].b \in FreeNames
                                      ELSE req[p].r \in Repos /\ req[p].b \in Branches
         /\ req[p].pc = "freeRow" => req[p].b \in FreeNames
         /\ req[p].pc \in {"gitRepo", "dropRow"} => req[p].r \in Repos /\ req[p].op = "delRepo"
<1>. DEFINE c == req[p]
<1>0. MayBeAt(c.op, c.pc) /\ ShapeArgs(c) /\ c.op \in Ops \cup {None}
  BY DEF TInv, Shape, TypeOK, Calls
<1>. HIDE DEF c
<1>. USE <1>0, NoneAssumption, OpsAre
    DEF MayBeAt, ShapeArgs, EnsureSteps, ClaimSteps, ImportSteps, RemoveSteps, Between,
        OnBranch, OnFree, OnRepo
<1>. SUFFICES
       /\ c.pc # "idle" => c.t \in Tenants
       /\ c.pc \in OnRepo => c.r \in Repos /\ c.b \in Branches
       /\ c.pc = "create" => IF c.op = "free" THEN c.b \in FreeNames
                               ELSE c.r \in Repos /\ c.b \in Branches
       /\ c.pc = "freeRow" => c.b \in FreeNames
       /\ c.pc \in {"gitRepo", "dropRow"} => c.r \in Repos /\ c.op = "delRepo"
  BY DEF c
<1>1. CASE c.op = None
  BY <1>1
<1>2. CASE c.op = "ensure"
  BY <1>2
<1>3. CASE c.op = "ensureRepo"
  BY <1>3
<1>4. CASE c.op = "createOrg"
  BY <1>4
<1>5. CASE c.op = "import"
  BY <1>5
<1>6. CASE c.op = "fork"
  BY <1>6
<1>7. CASE c.op = "branch"
  BY <1>7
<1>8. CASE c.op = "delSession"
  BY <1>8
<1>9. CASE c.op = "delRepo"
  BY <1>9
<1>10. CASE c.op = "free"
  BY <1>10
<1>11. CASE c.op = "delFree"
  BY <1>11
<1>12. CASE c.op = "reconcile"
  BY <1>12
<1>. QED
  BY <1>1, <1>2, <1>3, <1>4, <1>5, <1>6, <1>7, <1>8, <1>9, <1>10, <1>11, <1>12

Typed ==
  /\ exists \subseteq Repos /\ protected \subseteq exists
  /\ branches \subseteq exists \X Branches /\ strays \subseteq Repos
  /\ owners \subseteq Tenants \X Repos /\ orgOwners \subseteq Tenants
  /\ freeRows \subseteq Tenants \X FreeNames
  /\ sessions \subseteq Tenants \X AgentSessions
  /\ sandboxes \subseteq Tenants \X AgentSessions
  /\ services \subseteq Repos
  /\ past \in [Repos -> SUBSET Causes]
  /\ budget \in [calls : 0 .. MaxRequests, faults : 0 .. MaxFaults]

LEMMA ClaimTyped ==
  ASSUME TInv, NEW p \in Callers, Claim(p)
  PROVE  Typed'
<1>. USE Args DEF TInv, TypeOK, Typed, At, git, rows, cluster
<1>1. CASE ClaimCheck(p) \/ ClaimOwned(p) \/ MakeCheck(p) \/ OrgCheck(p)
  BY <1>1 DEF ClaimCheck, ClaimOwned, MakeCheck, OrgCheck
<1>2. CASE MakePost(p)
  BY <1>2, NamesAssumption DEF MakePost, Post, OnRepo, ClaimSteps
<1>3. CASE Protect(p)
  BY <1>3 DEF Protect
<1>4. CASE AddRepo(p)
  BY <1>4 DEF AddRepo, Marked, Causes, OnRepo, ClaimSteps
<1>5. CASE AddOrg(p)
  BY <1>5 DEF AddOrg
<1>6. CASE OrgAdd(p)
  BY <1>6 DEF OrgAdd
<1>. QED
  BY <1>1, <1>2, <1>3, <1>4, <1>5, <1>6 DEF Claim

LEMMA NotDelFree ==
  ASSUME TInv, NEW p \in Callers, req[p].pc \in {"branch", "fork"}
  PROVE  req[p].op # "delFree"
BY DEF TInv, Shape, MayBeAt

LEMMA SessioningTyped ==
  ASSUME TInv, NEW p \in Callers, Sessioning(p)
  PROVE  Typed'
<1>. USE Args DEF TInv, TypeOK, Typed, At, git, rows, cluster
<1>1. CASE SessionProbe(p) \/ MayFork(p) \/ ForkParent(p) \/ BranchVisible(p)
  BY <1>1 DEF SessionProbe, MayFork, ForkParent, BranchVisible
<1>2. CASE CreateSession(p)
  BY <1>2 DEF CreateSession, Target, AgentSessions, BranchSessions, MayBeAt, Shape
<1>3. CASE FreeRow(p)
  BY <1>3 DEF FreeRow
<1>4. CASE Fork(p)
  <2>1. req[p].t \in Tenants /\ req[p].r \in Repos /\ req[p].b \in Branches
    BY <1>4 DEF Fork, OnRepo
  <2>2. Target(p) \in AgentSessions
    BY <1>4, <2>1, NotDelFree DEF Fork, Target, AgentSessions, BranchSessions
  <2>. QED
    BY <1>4, <2>1, <2>2 DEF Fork
<1>5. CASE CreateBranch(p)
  <2>1. req[p].r \in Repos /\ req[p].b \in Branches
    BY <1>5 DEF CreateBranch, OnRepo
  <2>2. Target(p) = <<req[p].r, req[p].b>>
    BY <1>5, NotDelFree DEF CreateBranch, Target
  <2>. HIDE DEF Target
  <2>3. branches' \subseteq exists \X Branches
    BY <1>5, <2>1, <2>2 DEF CreateBranch
  <2>. QED
    BY <1>5, <2>3 DEF CreateBranch
<1>. QED
  BY <1>1, <1>2, <1>3, <1>4, <1>5 DEF Sessioning

LEMMA ImportTyped ==
  ASSUME TInv, NEW p \in Callers, Import(p)
  PROVE  Typed'
<1>. USE Args DEF TInv, TypeOK, Typed, At, git, rows, cluster
<1>1. CASE ImportCheck(p) \/ ImportDefault(p)
  BY <1>1 DEF ImportCheck, ImportDefault
<1>2. CASE ImportPost(p)
  BY <1>2 DEF ImportPost, Post, OnRepo, ImportSteps
<1>3. CASE ImportPush(p)
  BY <1>3, NamesAssumption DEF ImportPush
<1>4. CASE ImportProtect(p)
  BY <1>4 DEF ImportProtect
<1>5. CASE ImportCleanup(p)
  BY <1>5 DEF ImportCleanup, RemoveFromForgejo
<1>. QED
  BY <1>1, <1>2, <1>3, <1>4, <1>5 DEF Import

LEMMA DeletionTyped ==
  ASSUME TInv, NEW p \in Callers, Deletion(p)
  PROVE  Typed'
<1>. USE DEF TInv, TypeOK, Typed, git, rows, cluster
<1>1. CASE MayDelete(p) \/ MayRemove(p) \/ ListSessions(p) \/ CascadeNext(p)
  BY <1>1 DEF MayDelete, MayRemove, ListSessions, CascadeNext
<1>2. CASE CascadeSandboxes(p) \/ CascadeSession(p) \/ DeleteServices(p) \/ RemoveRepo(p)
  BY <1>2 DEF CascadeSandboxes, CascadeSession, DeleteServices, RemoveRepo
<1>3. CASE DeleteGitBranch(p)
  BY <1>3 DEF DeleteGitBranch
<1>4. CASE DeleteGitRepo(p)
  BY <1>4 DEF DeleteGitRepo, RemoveFromForgejo
<1>. QED
  BY <1>1, <1>2, <1>3, <1>4 DEF Deletion

LEMMA BeginTyped ==
  ASSUME past \in [Repos -> SUBSET Causes], NEW p, NEW op, NEW t, NEW r \in Repos \cup {None},
         Begin(p, op, t, r)
  PROVE  past' \in [Repos -> SUBSET Causes]
BY DEF Begin, Marked, Causes

LEMMA ProceedsTInv ==
  ASSUME TInv, NEW p \in Callers, Proceeds(p), Typed'
  PROVE  TInv'
<1>1. \A q \in Callers : Shape(req'[q])
  BY DEF TInv, Proceeds, OthersSame
<1>. QED
  BY <1>1 DEF TInv, TypeOK, Typed, Proceeds

LEMMA BeginsTInv ==
  ASSUME TInv, NEW p \in Callers, NEW c, Begins(p, c), Typed'
  PROVE  TInv'
<1>1. req'[p] = c /\ req' \in [Callers -> Calls] /\ \A q \in Callers \ {p} : req'[q] = req[q]
  BY DEF TInv, TypeOK, Begins
<1>2. \A q \in Callers : Shape(req'[q])
  BY <1>1 DEF TInv, Begins
<1>. QED
  BY <1>1, <1>2 DEF TInv, TypeOK, Typed

LEMMA FailTyped ==
  ASSUME TInv, Fail
  PROVE  budget' \in [calls : 0 .. MaxRequests, faults : 0 .. MaxFaults]
BY BoundsAssumption DEF Fail, TInv, TypeOK

LEMMA InterruptTyped ==
  ASSUME TInv, NEW p \in Callers, Interrupt(p) \/ IgnoredError(p)
  PROVE  Typed'
<1>1. past' \in [Repos -> SUBSET Causes]
  <2>1. req[p].r \in Repos \cup {None}
    BY DEF TInv, TypeOK, Calls
  <2>. QED
    BY <2>1 DEF Interrupt, IgnoredError, Marked, Causes, TInv, TypeOK
<1>2. Fail /\ UNCHANGED <<git, rows, sessions, cluster>>
  BY DEF Interrupt, IgnoredError
<1>. QED
  BY <1>1, <1>2, FailTyped DEF Typed, TInv, TypeOK, git, rows, cluster

LEMMA ReceiveTyped ==
  ASSUME TInv, NEW p \in Requests, ReceiveCall(p)
  PROVE  Typed'
<1>1. /\ \E op, t : \E r \in Repos \cup {None} : Begin(p, op, t, r)
      /\ budget.calls < MaxRequests /\ budget' = [budget EXCEPT !.calls = @ + 1]
      /\ UNCHANGED <<git, rows, sessions, cluster>>
  BY DEF ReceiveCall, Receive
<1>2. past' \in [Repos -> SUBSET Causes]
  BY <1>1, BeginTyped DEF TInv, TypeOK
<1>. QED
  BY <1>1, <1>2, BoundsAssumption DEF Typed, TInv, TypeOK, git, rows, cluster

LEMMA ReconcileTyped ==
  ASSUME TInv, NEW p \in Callers, Reconcile(p)
  PROVE  Typed'
<1>1. CASE ReconcileStart(p) \/ ReconcileList(p)
  BY <1>1 DEF ReconcileStart, ReconcileList, Typed, TInv, TypeOK, git, rows, cluster
<1>2. CASE ReconcileNext(p)
  <2>1. \A x \in req[p].todo : x[1] \in Repos
    BY DEF TInv, TypeOK, Calls, BranchSessions
  <2>2. past' \in [Repos -> SUBSET Causes]
    BY <1>2, <2>1, BeginTyped DEF ReconcileNext, TInv, TypeOK
  <2>. QED
    BY <1>2, <2>2 DEF ReconcileNext, Typed, TInv, TypeOK, git, rows, cluster
<1>. QED
  BY <1>1, <1>2 DEF Reconcile

LEMMA AppearsTyped ==
  ASSUME TInv, NEW t \in Tenants, NEW s \in AgentSessions,
         SandboxAppears(t, s) \/ ServiceAppears(t, s)
  PROVE  TInv'
<1>1. s \in BranchSessions => s[1] \in Repos
  BY DEF BranchSessions
<1>2. past' \in [Repos -> SUBSET Causes]
  BY <1>1 DEF SandboxAppears, ServiceAppears, Marked, Causes, TInv, TypeOK
<1>3. TypeOK'
  BY <1>1, <1>2 DEF SandboxAppears, ServiceAppears, TInv, TypeOK, git, rows
<1>. QED
  BY <1>3 DEF SandboxAppears, ServiceAppears, TInv

LEMMA TInvInit == Init => TInv
<1>. SUFFICES ASSUME Init PROVE TInv
  OBVIOUS
<1>1. TypeOK
  BY IdleTyped, BoundsAssumption DEF Init, TypeOK, Causes
<1>2. \A p \in Callers : req[p] = Idle
  BY DEF Init
<1>. QED
  BY <1>1, <1>2, IdleTyped DEF TInv

LEMMA TInvStep == TInv /\ [Next]_vars => TInv'
<1>. SUFFICES ASSUME TInv, [Next]_vars PROVE TInv'
  OBVIOUS
<1>1. ASSUME NEW p \in Requests, ReceiveCall(p) PROVE TInv'
  BY <1>1, ReceiveCallBegins, ReceiveTyped, BeginsTInv DEF Callers
<1>2. ASSUME NEW p \in Callers, Claim(p) \/ Sessioning(p) \/ Import(p) \/ Deletion(p)
      PROVE  TInv'
  BY <1>2, ClaimProceeds, ClaimTyped, SessioningProceeds, SessioningTyped, ImportProceeds,
     ImportTyped, DeletionProceeds, DeletionTyped, ProceedsTInv
<1>3. ASSUME NEW p \in Callers, Reconcile(p) PROVE TInv'
  BY <1>3, ReconcileStartProceeds, ReconcileListProceeds, ReconcileNextBegins,
     ReconcileTyped, ProceedsTInv, BeginsTInv DEF Reconcile
<1>4. ASSUME NEW p \in Callers, Interrupt(p) \/ IgnoredError(p) PROVE TInv'
  BY <1>4, InterruptProceeds, IgnoredProceeds, InterruptTyped, ProceedsTInv
<1>5. ASSUME NEW t \in Tenants, NEW s \in AgentSessions,
             SandboxAppears(t, s) \/ ServiceAppears(t, s)
      PROVE  TInv'
  BY <1>5, AppearsTyped
<1>6. CASE UNCHANGED vars
  <2>1. TypeOK'
    BY <1>6 DEF vars, git, rows, cluster, TInv, TypeOK
  <2>. QED
    BY <1>6, <2>1 DEF TInv, vars
<1>7. BranchSessions \subseteq AgentSessions
  BY DEF AgentSessions
<1>. QED
  BY <1>1, <1>2, <1>3, <1>4, <1>5, <1>6, <1>7 DEF Next, Step

\* The state stays well typed, and every call takes only its own steps.
THEOREM TypeCorrect == Spec => []TypeOK
<1>1. TInv => TypeOK
  BY DEF TInv
<1>. QED
  BY <1>1, TInvInit, TInvStep, PTL DEF Spec

-----------------------------------------------------------------------------
(* Ownership.  First, requests that work on a repository at a time, as     *)
(* long as nothing overlapped, are of one tenant, and who may delete it    *)
(* works alone.                                                            *)

Apart ==
  \A r \in Repos : "overlap" \notin past[r] =>
    \A p, q \in Callers : p # q /\ req[p].r = r /\ req[q].r = r =>
      req[p].t = req[q].t /\ req[p].op \notin Removing /\ req[q].op \notin Removing

Clean(r) == past[r] \cap {"overlap", "foreign", "torn"} = {}

\* Second, what a request in the middle of its work on r may count on.
ClaimOK(p, r) ==
  req[p].op \in {"ensure", "reconcile"} /\ req[p].pc \in ClaimSteps /\ Clean(r)
    => OwnersOf(r) \subseteq {req[p].t}
ImportOK(p, r) ==
  req[p].op = "import" /\ req[p].pc \in ImportSteps /\ Clean(r) => OwnersOf(r) = {}
RemoveOK(p, r) ==
  req[p].op = "delRepo" /\ req[p].pc \in RemoveSteps /\ Clean(r)
    => req[p].t \in OwnersOf(r)
GitOK(p, r) ==
  "overlap" \notin past[r] =>
    /\ At(p, "row") => r \in exists
    /\ At(p, "dropRow") => r \notin exists

CallerOK(p) ==
  \A r \in Repos : req[p].r = r =>
    ClaimOK(p, r) /\ ImportOK(p, r) /\ RemoveOK(p, r) /\ GitOK(p, r)

\* Third, a repository between two requests, or with one at work on it: who is
\* about to remove the row of t, to record an owner, to protect main.
Dropping(p, t, r) == At(p, "dropRow") /\ req[p].r = r /\ req[p].t = t
Recording(p, r) ==
  req[p].r = r /\ req[p].pc \in {"protect", "row", "push", "default", "cleanup"}
Protecting(p, r) ==
  /\ req[p].r = r
  /\ \/ req[p].pc \in {"protect", "push", "default", "cleanup", "impProtect"}
     \/ At(p, "row") /\ req[p].op = "import"

RepoOK(r) ==
  /\ Clean(r) => \A t, u \in OwnersOf(r) : t = u
  /\ Clean(r) /\ r \notin exists
       => \A t \in OwnersOf(r) : \E p \in Callers : Dropping(p, t, r)
  /\ past[r] \cap {"cut", "overlap"} = {} /\ r \in exists /\ OwnersOf(r) = {}
       => \E p \in Callers : Recording(p, r)
  /\ past[r] \cap {"cut", "skipped", "overlap"} = {} /\ r \in exists \ protected
       => \E p \in Callers : Protecting(p, r)

IInv ==
  /\ TInv /\ Apart
  /\ \A p \in Callers : CallerOK(p)
  /\ \A r \in Repos : RepoOK(r)

PastGrows == \A r \in Repos : past[r] \subseteq past'[r]

\* A step that begins nothing keeps the requests apart.
LEMMA ApartKept ==
  ASSUME IInv, TInv', NEW p \in Callers, Proceeds(p), PastGrows
  PROVE  Apart'
<1>. SUFFICES ASSUME NEW r \in Repos, "overlap" \notin past'[r],
                     NEW q \in Callers, NEW z \in Callers, q # z,
                     req'[q].r = r, req'[z].r = r
              PROVE  /\ req'[q].t = req'[z].t
                     /\ req'[q].op \notin Removing /\ req'[z].op \notin Removing
  BY DEF Apart
<1>1. \A x \in {q, z} : /\ req'[x].r = r => req[x].r = r
                        /\ req'[x].t = req[x].t /\ req'[x].op = req[x].op
  BY NamesAssumption DEF Proceeds, OthersSame
<1>2. "overlap" \notin past[r]
  BY DEF PastGrows
<1>. QED
  BY <1>1, <1>2 DEF IInv, Apart

\* What p may do to its repository so that the others can go on as they are.
Harmless(p) ==
  /\ \A r \in Repos : req[p].r # r =>
       /\ OwnersOf(r)' = OwnersOf(r)
       /\ r \in exists' <=> r \in exists
       /\ r \in protected' <=> r \in protected
  /\ \A r \in Repos : req[p].r = r =>
       /\ OwnersOf(r)' \subseteq OwnersOf(r) \cup {req[p].t}
       /\ req[p].op \notin Removing => (r \in exists => r \in exists')

LEMMA OthersKept ==
  ASSUME IInv, NEW p \in Callers, OthersSame(p), PastGrows, Harmless(p),
         NEW q \in Callers \ {p}
  PROVE  CallerOK(q)'
<1>. SUFFICES ASSUME NEW r \in Repos, req[q].r = r
              PROVE  ClaimOK(q, r)' /\ ImportOK(q, r)' /\ RemoveOK(q, r)' /\ GitOK(q, r)'
  BY DEF OthersSame, CallerOK
<1>0. req'[q] = req[q]
  BY DEF OthersSame
<1>1. Clean(r)' => Clean(r)
  BY DEF Clean, PastGrows
<1>2. "overlap" \notin past'[r] => "overlap" \notin past[r]
  BY DEF PastGrows
<1>3. ClaimOK(q, r) /\ ImportOK(q, r) /\ RemoveOK(q, r) /\ GitOK(q, r)
  BY DEF IInv, CallerOK
<1>4. CASE req[p].r # r
  BY <1>0, <1>1, <1>2, <1>3, <1>4
  DEF Harmless, ClaimOK, ImportOK, RemoveOK, GitOK, At
<1>5. CASE req[p].r = r /\ "overlap" \notin past[r]
  <2>1. req[p].t = req[q].t /\ req[p].op \notin Removing /\ req[q].op \notin Removing
    BY <1>5 DEF IInv, Apart
  <2>2. ~At(q, "dropRow")
    BY <2>1, Args DEF IInv, At, Removing
  <2>. QED
    BY <1>0, <1>1, <1>2, <1>3, <1>5, <2>1, <2>2
    DEF Harmless, ClaimOK, ImportOK, RemoveOK, GitOK, At, Removing
<1>6. CASE "overlap" \in past[r]
  BY <1>1, <1>2, <1>6 DEF Clean, ClaimOK, ImportOK, RemoveOK, GitOK
<1>. QED
  BY <1>4, <1>5, <1>6

LEMMA ElsewhereKept ==
  ASSUME IInv, NEW p \in Callers, OthersSame(p), PastGrows, Harmless(p),
         NEW r \in Repos, req[p].r # r
  PROVE  RepoOK(r)'
<1>1. Clean(r)' => Clean(r)
  BY DEF Clean, PastGrows
<1>2. OwnersOf(r)' = OwnersOf(r) /\ (r \in exists' <=> r \in exists)
        /\ (r \in protected' <=> r \in protected)
  BY DEF Harmless
<1>3. RepoOK(r)
  BY DEF IInv
<1>4. \A q \in Callers : \A t : Dropping(q, t, r) => Dropping(q, t, r)'
  BY DEF Dropping, At, OthersSame
<1>5. \A q \in Callers : Recording(q, r) => Recording(q, r)'
  BY DEF Recording, OthersSame
<1>6. \A q \in Callers : Protecting(q, r) => Protecting(q, r)'
  BY DEF Protecting, At, OthersSame
<1>7. past[r] \subseteq past'[r]
  BY DEF PastGrows
<1>. QED
  BY <1>1, <1>2, <1>3, <1>4, <1>5, <1>6, <1>7 DEF RepoOK

\* A step that changes neither a repository nor an owner has to keep what is
\* said of its own request, and what relies on it.
LEMMA QuietKept ==
  ASSUME IInv, TInv', NEW p \in Callers, Proceeds(p), PastGrows,
         UNCHANGED <<exists, protected, owners>>, CallerOK(p)',
         \A r \in Repos : req[p].r = r =>
           /\ At(p, "dropRow") => ~Clean(r)'
           /\ Recording(p, r) => \/ Recording(p, r)' \/ r \notin exists
                                 \/ past'[r] \cap {"cut", "overlap"} # {}
           /\ Protecting(p, r) => \/ Protecting(p, r)' \/ r \notin exists \ protected
                                  \/ past'[r] \cap {"cut", "skipped", "overlap"} # {}
  PROVE  IInv'
<1>1. OthersSame(p)
  BY DEF Proceeds
<1>2. Harmless(p)
  BY DEF Harmless, OwnersOf
<1>3. ASSUME NEW r \in Repos, req[p].r = r PROVE RepoOK(r)'
  <2>1. Clean(r)' => Clean(r)
    BY DEF Clean, PastGrows
  <2>2. OwnersOf(r)' = OwnersOf(r)
    BY DEF OwnersOf
  <2>3. RepoOK(r) /\ past[r] \subseteq past'[r]
    BY DEF IInv, PastGrows
  <2>4. \A q \in Callers \ {p} : \A u : Dropping(q, u, r) => Dropping(q, u, r)'
    BY <1>1 DEF Dropping, At, OthersSame
  <2>5. \A q \in Callers \ {p} : Recording(q, r) => Recording(q, r)'
    BY <1>1 DEF Recording, OthersSame
  <2>6. \A q \in Callers \ {p} : Protecting(q, r) => Protecting(q, r)'
    BY <1>1 DEF Protecting, At, OthersSame
  <2>7. \A u : Dropping(p, u, r) => ~Clean(r)'
    BY <1>3 DEF Dropping
  <2>. QED
    BY <1>3, <2>1, <2>2, <2>3, <2>4, <2>5, <2>6, <2>7 DEF RepoOK
<1>. QED
  BY <1>1, <1>2, <1>3, ApartKept, OthersKept, ElsewhereKept DEF IInv

Owing == {"protect", "row", "impProtect", "cleanup", "dropRow"}

\* So does a step on which nothing relies, and which relies on nothing new.
LEMMA PlainKept ==
  ASSUME IInv, TInv', NEW p \in Callers, Proceeds(p),
         UNCHANGED <<exists, protected, owners, past>>,
         req[p].pc \notin Owing, req'[p].pc \notin {"row", "dropRow"},
         req[p].pc \in {"push", "default"} =>
           req'[p].r = req[p].r /\ req'[p].pc \in {"push", "default", "cleanup"},
         req'[p].pc \in ClaimSteps => req[p].pc \in ClaimSteps,
         req'[p].pc \in ImportSteps => req[p].pc \in ImportSteps,
         req'[p].pc \in RemoveSteps /\ req[p].op = "delRepo" => req[p].pc \in RemoveSteps
  PROVE  IInv'
<1>1. PastGrows
  BY DEF PastGrows
<1>2. CallerOK(p)'
  <2>. SUFFICES ASSUME NEW r \in Repos, req'[p].r = r
                PROVE  ClaimOK(p, r)' /\ ImportOK(p, r)' /\ RemoveOK(p, r)' /\ GitOK(p, r)'
    BY DEF CallerOK
  <2>1. req'[p].op = req[p].op /\ req'[p].t = req[p].t /\ req[p].r = r
    BY NamesAssumption DEF Proceeds
  <2>2. ClaimOK(p, r) /\ ImportOK(p, r) /\ RemoveOK(p, r)
    BY <2>1 DEF IInv, CallerOK
  <2>3. OwnersOf(r)' = OwnersOf(r) /\ (Clean(r)' <=> Clean(r))
    BY DEF OwnersOf, Clean
  <2>. QED
    BY <2>1, <2>2, <2>3 DEF ClaimOK, ImportOK, RemoveOK, GitOK, At
<1>. QED
  BY <1>1, <1>2, QuietKept DEF Recording, Protecting, At, Owing

LEMMA PcAfter ==
  ASSUME TInv, NEW p \in Callers
  PROVE  /\ \A step : Goto(p, step) =>
              req'[p].pc = step /\ req'[p].r = req[p].r /\ req'[p].op = req[p].op
         /\ Return(p) => req'[p].pc \in {"idle", "next"}
<1>1. req[p] \in Calls /\ req \in [Callers -> Calls]
  BY DEF TInv, TypeOK
<1>2. ASSUME NEW step, Goto(p, step)
      PROVE  req'[p].pc = step /\ req'[p].r = req[p].r /\ req'[p].op = req[p].op
  BY <1>1, <1>2 DEF Goto, Calls
<1>3. ASSUME Return(p) PROVE req'[p].pc \in {"idle", "next"}
  <2>. DEFINE next == [req[p] EXCEPT !.pc = "next", !.r = None, !.b = None]
  <2>1. next.pc = "next"
    BY <1>1 DEF Calls
  <2>2. req' = [req EXCEPT ![p] = IF req[p].op = "reconcile" THEN next ELSE Idle]
    BY <1>3 DEF Return
  <2>. HIDE DEF next
  <2>3. req'[p] = IF req[p].op = "reconcile" THEN next ELSE Idle
    BY <1>1, <2>2
  <2>4. Idle.pc = "idle"
    BY DEF Idle
  <2>. QED
    BY <2>1, <2>3, <2>4
<1>. QED
  BY <1>2, <1>3

LEMMA SessioningKept ==
  ASSUME IInv, TInv', NEW p \in Callers, Sessioning(p)
  PROVE  IInv'
<1>1. Proceeds(p)
  BY SessioningProceeds DEF IInv
<1>2. UNCHANGED <<exists, protected, owners, past>>
  BY DEF Sessioning, SessionProbe, CreateSession, FreeRow, MayFork, ForkParent, Fork,
    BranchVisible, CreateBranch, git, rows
<1>3. /\ req[p].pc \in {"probe", "create", "freeRow", "mayFork", "parent", "fork",
                        "visible", "branch"}
      /\ req'[p].pc \in {"create", "parent", "fork", "branch", "idle", "next"}
  BY PcAfter DEF IInv, At, Sessioning, SessionProbe, CreateSession, FreeRow, MayFork,
    ForkParent, Fork, BranchVisible, CreateBranch
<1>. QED
  BY <1>1, <1>2, <1>3, PlainKept DEF Owing, ClaimSteps, ImportSteps, RemoveSteps

\* A repository that is not there, and on which p works alone with its like, has
\* no owner: its row is being removed by a request that would overlap.
LEMMA NoOwnerLeft ==
  ASSUME IInv, NEW p \in Callers, ~At(p, "dropRow"),
         NEW r \in Repos, req[p].r = r, r \notin exists, Clean(r)
  PROVE  OwnersOf(r) = {}
<1>. SUFFICES ASSUME NEW u \in OwnersOf(r) PROVE FALSE
  OBVIOUS
<1>. PICK q \in Callers : Dropping(q, u, r)
  BY DEF IInv, RepoOK
<1>1. q # p /\ req[q].r = r /\ req[q].op = "delRepo"
  BY Args DEF Dropping, At, IInv
<1>2. "overlap" \notin past[r]
  BY DEF Clean
<1>. QED
  BY <1>1, <1>2 DEF IInv, Apart, Removing

\* A step after which p relies on what it has just found out.
LEMMA FoundKept ==
  ASSUME IInv, TInv', NEW p \in Callers, Proceeds(p),
         UNCHANGED <<exists, protected, owners, past>>, CallerOK(p)',
         req[p].pc \notin Owing \cup {"push", "default"}
  PROVE  IInv'
BY QuietKept DEF PastGrows, Recording, Protecting, At, Owing

LEMMA ClaimCheckKept ==
  ASSUME IInv, TInv', NEW p \in Callers, ClaimCheck(p) \/ ImportCheck(p)
  PROVE  IInv'
<1>1. Proceeds(p)
  BY ClaimProceeds, ImportProceeds DEF IInv, Claim, Import
<1>2. UNCHANGED <<exists, protected, owners, past>> /\ req[p].pc \in {"exists", "impExists"}
  BY DEF ClaimCheck, ImportCheck, git, rows, At
<1>3. req'[p].pc \in {"owned", "idle", "next", "make", "impPost"}
  BY PcAfter DEF ClaimCheck, ImportCheck, IInv
<1>4. req'[p].pc \in {"make", "impPost"} => req[p].r \notin exists
  BY PcAfter DEF ClaimCheck, ImportCheck, IInv
<1>5. CallerOK(p)'
  <2>. SUFFICES ASSUME NEW r \in Repos, req'[p].r = r
                PROVE  ClaimOK(p, r)' /\ ImportOK(p, r)' /\ RemoveOK(p, r)' /\ GitOK(p, r)'
    BY DEF CallerOK
  <2>1. req[p].r = r
    BY <1>1, NamesAssumption DEF Proceeds
  <2>2. OwnersOf(r)' = OwnersOf(r) /\ (Clean(r)' <=> Clean(r))
    BY <1>2 DEF OwnersOf, Clean
  <2>3. req'[p].pc \in {"make", "impPost"} /\ Clean(r) => OwnersOf(r) = {}
    BY <1>2, <1>4, <2>1, NoOwnerLeft DEF At
  <2>. QED
    BY <1>3, <2>2, <2>3
    DEF ClaimOK, ImportOK, RemoveOK, GitOK, At, ClaimSteps, ImportSteps, RemoveSteps
<1>. QED
  BY <1>1, <1>2, <1>5, FoundKept DEF Owing

LEMMA MayRemoveKept ==
  ASSUME IInv, TInv', NEW p \in Callers, MayRemove(p)
  PROVE  IInv'
<1>1. Proceeds(p)
  BY DeletionProceeds DEF IInv, Deletion
<1>2. UNCHANGED <<exists, protected, owners, past>> /\ req[p].pc = "mayRemove"
  BY DEF MayRemove, git, rows, At
<1>3. req'[p].pc \in {"sessions", "idle", "next"}
  BY PcAfter DEF MayRemove, IInv
<1>4. req'[p].pc = "sessions" => Owns(p)
  BY PcAfter DEF MayRemove, IInv
<1>5. CallerOK(p)'
  <2>. SUFFICES ASSUME NEW r \in Repos, req'[p].r = r
                PROVE  ClaimOK(p, r)' /\ ImportOK(p, r)' /\ RemoveOK(p, r)' /\ GitOK(p, r)'
    BY DEF CallerOK
  <2>1. req[p].r = r /\ req'[p].t = req[p].t
    BY <1>1, NamesAssumption DEF Proceeds
  <2>2. OwnersOf(r)' = OwnersOf(r)
    BY <1>2 DEF OwnersOf
  <2>3. Owns(p) => req[p].t \in OwnersOf(r)
    BY <2>1 DEF Owns, OwnersOf, IInv, TInv, TypeOK
  <2>. QED
    BY <1>3, <1>4, <2>1, <2>2, <2>3
    DEF ClaimOK, ImportOK, RemoveOK, GitOK, At, ClaimSteps, ImportSteps, RemoveSteps
<1>. QED
  BY <1>1, <1>2, <1>5, FoundKept DEF Owing

LEMMA ClaimPlain ==
  ASSUME IInv, TInv', NEW p \in Callers,
         ClaimOwned(p) \/ MakeCheck(p) \/ AddOrg(p) \/ OrgCheck(p) \/ OrgAdd(p)
  PROVE  IInv'
<1>1. Proceeds(p)
  BY ClaimProceeds DEF IInv, Claim
<1>2. UNCHANGED <<exists, protected, owners, past>>
  BY DEF ClaimOwned, MakeCheck, AddOrg, OrgCheck, OrgAdd, git, rows
<1>3. \/ /\ req[p].pc = "make" /\ req'[p].pc \in {"protect", "post"}
      \/ /\ req[p].pc \in {"owned", "orgRow", "org", "orgAdd"}
         /\ req'[p].pc \in {"probe", "orgAdd", "impExists", "idle", "next"}
  <2>. USE PcAfter DEF IInv, At
  <2>1. CASE ClaimOwned(p) \/ AddOrg(p)
    BY <2>1 DEF ClaimOwned, AddOrg
  <2>2. CASE MakeCheck(p)
    BY <2>2 DEF MakeCheck
  <2>3. CASE OrgCheck(p)
    <3>1. Goto(p, "impExists") \/ Goto(p, "orgAdd") \/ Return(p)
      BY <2>3 DEF OrgCheck
    <3>. QED
      BY <2>3, <3>1 DEF OrgCheck
  <2>4. CASE OrgAdd(p)
    BY <2>4 DEF OrgAdd
  <2>. QED
    BY <2>1, <2>2, <2>3, <2>4
<1>. QED
  BY <1>1, <1>2, <1>3, PlainKept DEF Owing, ClaimSteps, ImportSteps, RemoveSteps

LEMMA DeletionPlain ==
  ASSUME IInv, TInv', NEW p \in Callers,
         \/ MayDelete(p) \/ CascadeSandboxes(p) \/ CascadeSession(p) \/ DeleteGitBranch(p)
         \/ ListSessions(p) \/ CascadeNext(p) \/ DeleteServices(p)
  PROVE  IInv'
<1>1. Proceeds(p)
  BY DeletionProceeds DEF IInv, Deletion
<1>2. UNCHANGED <<exists, protected, owners, past>>
  BY DEF MayDelete, CascadeSandboxes, CascadeSession, DeleteGitBranch, ListSessions,
    CascadeNext, DeleteServices, git, rows
<1>3. \/ /\ req[p].pc \in {"sandboxes", "session", "sessions", "cascade", "services"}
         /\ req'[p].pc \in {"session", "cascade", "sandboxes", "services", "gitRepo",
                            "gitBranch", "idle", "next"}
      \/ /\ req[p].pc \in {"mayDelete", "freeRole", "gitBranch"}
         /\ req'[p].pc \in {"idle", "next"} \/ req[p].op # "delRepo"
         /\ req'[p].pc \in {"sandboxes", "idle", "next"}
  <2>. USE PcAfter DEF IInv, At
  <2>1. CASE MayDelete(p)
    <3>1. req[p].op # "delRepo"
      BY <2>1, NotThere DEF MayDelete, TInv, Shape
    <3>. QED
      BY <2>1, <3>1 DEF MayDelete
  <2>2. CASE CascadeSandboxes(p) \/ DeleteGitBranch(p) \/ DeleteServices(p)
    BY <2>2 DEF CascadeSandboxes, DeleteGitBranch, DeleteServices
  <2>3. CASE CascadeSession(p)
    <3>1. Goto(p, "cascade") \/ Goto(p, "gitBranch") \/ Return(p)
      BY <2>3 DEF CascadeSession
    <3>. QED
      BY <2>3, <3>1 DEF CascadeSession
  <2>4. CASE ListSessions(p)
    BY <2>4 DEF ListSessions, TInv, TypeOK, Calls
  <2>5. CASE CascadeNext(p)
    <3>1. CASE Goto(p, "services")
      BY <2>5, <3>1 DEF CascadeNext
    <3>2. ASSUME NEW s \in req[p].todo,
                 req' = [req EXCEPT ![p].todo = @ \ {s}, ![p].b = s[2], ![p].pc = "sandboxes"]
          PROVE  req'[p].pc = "sandboxes"
      BY <3>2 DEF TInv, TypeOK, Calls
    <3>. QED
      BY <2>5, <3>1, <3>2 DEF CascadeNext
  <2>. QED
    BY <2>1, <2>2, <2>3, <2>4, <2>5
<1>. QED
  BY <1>1, <1>2, <1>3, PlainKept DEF Owing, ClaimSteps, ImportSteps, RemoveSteps

LEMMA ImportPushKept ==
  ASSUME IInv, TInv', NEW p \in Callers, ImportPush(p)
  PROVE  IInv'
<1>1. Proceeds(p)
  BY ImportProceeds DEF IInv, Import
<1>2. UNCHANGED <<exists, protected, owners, past>>
  BY DEF ImportPush, git, rows
<1>3. /\ req[p].pc = "push" /\ req'[p].pc \in {"default", "cleanup"}
      /\ req'[p].r = req[p].r
  BY PcAfter DEF ImportPush, At, IInv
<1>. QED
  BY <1>1, <1>2, <1>3, PlainKept DEF Owing, ClaimSteps, ImportSteps, RemoveSteps

\* A step of a request that works on no repository before it or after it.
LEMMA ReconcilePlain ==
  ASSUME IInv, TInv', NEW p \in Callers, Proceeds(p),
         UNCHANGED <<exists, protected, owners, past>>, req[p].r = None
  PROVE  IInv'
<1>1. \A r \in Repos : req[p].r # r
  BY NamesAssumption
<1>2. CallerOK(p)'
  BY <1>1, NamesAssumption DEF Proceeds, CallerOK
<1>. QED
  BY <1>1, <1>2, QuietKept DEF PastGrows

LEMMA BeginKept ==
  ASSUME IInv, TInv', NEW p \in Callers, NEW c, Begins(p, c),
         UNCHANGED <<exists, protected, owners>>
  PROVE  IInv'
<1>1. req'[p] = c /\ OthersSame(p)
  BY DEF Begins, OthersSame, IInv, TInv, TypeOK
<1>2. PastGrows
  BY DEF Begins, Begin, Marked, PastGrows, IInv, TInv, TypeOK
<1>3. Harmless(p)
  BY DEF Harmless, OwnersOf
<1>4. \A r \in Repos : req[p].r # r
  BY NamesAssumption DEF Begins
<1>5. CallerOK(p)'
  BY <1>1 DEF Begins, CallerOK, ClaimOK, ImportOK, RemoveOK, GitOK, At,
    ClaimSteps, ImportSteps, RemoveSteps
<1>6. Apart'
  <2>. SUFFICES ASSUME NEW r \in Repos, "overlap" \notin past'[r],
                       NEW q \in Callers, NEW z \in Callers, q # z,
                       req'[q].r = r, req'[z].r = r
                PROVE  /\ req'[q].t = req'[z].t
                       /\ req'[q].op \notin Removing /\ req'[z].op \notin Removing
    BY DEF Apart
  <2>1. "overlap" \notin past[r]
    BY <1>2 DEF PastGrows
  <2>2. CASE q # p /\ z # p
    BY <1>1, <2>1, <2>2 DEF IInv, Apart, OthersSame
  <2>3. ASSUME NEW x \in Callers \ {p}, req[x].r = r, c.r = r
        PROVE  req[x].t = c.t /\ {c.op, req[x].op} \cap Removing = {}
    <3>1. r # None
      BY NamesAssumption
    <3>. SUFFICES ASSUME ~(req[x].t = c.t /\ {c.op, req[x].op} \cap Removing = {})
                  PROVE  FALSE
      OBVIOUS
    <3>2. past' = Marked(r, "overlap")
      BY <2>3, <3>1 DEF Begins, Begin
    <3>. QED
      BY <3>2 DEF Marked, IInv, TInv, TypeOK
  <2>. QED
    BY <1>1, <2>2, <2>3 DEF OthersSame
<1>. QED
  BY <1>1, <1>2, <1>3, <1>4, <1>5, <1>6, OthersKept, ElsewhereKept DEF IInv

LEMMA InterruptKept ==
  ASSUME IInv, TInv', NEW p \in Callers, Interrupt(p)
  PROVE  IInv'
<1>1. Proceeds(p) /\ req'[p].r = None
  BY LeavesProceeds DEF Interrupt, Leaves, IInv
<1>2. UNCHANGED <<exists, protected, owners>>
  BY DEF Interrupt, git, rows
<1>3. \A r \in Repos : req[p].r = r =>
        past' = Marked(r, IF At(p, "dropRow") THEN "torn" ELSE "cut")
  BY NamesAssumption DEF Interrupt
<1>4. PastGrows
  BY <1>3 DEF Interrupt, Marked, PastGrows, IInv, TInv, TypeOK
<1>5. CallerOK(p)'
  BY <1>1, NamesAssumption DEF CallerOK
<1>6. ASSUME NEW r \in Repos, req[p].r = r
      PROVE  IF At(p, "dropRow") THEN "torn" \in past'[r] ELSE "cut" \in past'[r]
  BY <1>3, <1>6 DEF Marked, IInv, TInv, TypeOK
<1>. QED
  BY <1>1, <1>2, <1>4, <1>5, <1>6, QuietKept DEF Recording, Protecting, At, Clean

LEMMA IgnoredKept ==
  ASSUME IInv, TInv', NEW p \in Callers, IgnoredError(p)
  PROVE  IInv'
<1>1. Proceeds(p)
  BY IgnoredProceeds DEF IInv
<1>2. UNCHANGED <<exists, protected, owners>> /\ AfterIgnored(p)
  BY DEF IgnoredError, git, rows
<1>3. ASSUME NEW r \in Repos, req[p].r = r
      PROVE  past' = Marked(r, "skipped") /\ "skipped" \in past'[r]
  BY <1>3, NamesAssumption DEF IgnoredError, Marked, IInv, TInv, TypeOK
<1>4. PastGrows
  BY <1>3 DEF IgnoredError, Marked, PastGrows, IInv, TInv, TypeOK
<1>5. /\ req[p].pc \in {"orgRow", "impProtect"} => req'[p].pc = "probe"
      /\ req'[p].pc \in {"probe", "session", "cascade", "gitBranch", "gitRepo", "idle", "next"}
      /\ req[p].pc \in {"orgRow", "impProtect", "sandboxes", "session", "sessions", "services"}
  <2>. USE PcAfter, <1>2 DEF IInv, At
  <2>1. CASE At(p, "orgRow") \/ At(p, "impProtect")
    BY <2>1 DEF AfterIgnored
  <2>2. CASE At(p, "sandboxes") \/ At(p, "sessions") \/ At(p, "services")
    BY <2>2 DEF AfterIgnored
  <2>3. CASE At(p, "session")
    <3>1. Goto(p, "cascade") \/ Goto(p, "gitBranch") \/ Return(p)
      BY <2>3 DEF AfterIgnored
    <3>. QED
      BY <2>3, <3>1
  <2>. QED
    BY <2>1, <2>2, <2>3 DEF IgnoredError
<1>6. CallerOK(p)'
  <2>. SUFFICES ASSUME NEW r \in Repos, req'[p].r = r
                PROVE  ClaimOK(p, r)' /\ ImportOK(p, r)' /\ RemoveOK(p, r)' /\ GitOK(p, r)'
    BY DEF CallerOK
  <2>1. req'[p].op = req[p].op /\ req'[p].t = req[p].t /\ req[p].r = r
    BY <1>1, NamesAssumption DEF Proceeds
  <2>2. RemoveOK(p, r)
    BY <2>1 DEF IInv, CallerOK
  <2>3. OwnersOf(r)' = OwnersOf(r) /\ (Clean(r)' => Clean(r))
    BY <1>2, <1>4 DEF OwnersOf, Clean, PastGrows
  <2>. QED
    BY <1>5, <2>1, <2>2, <2>3
    DEF ClaimOK, ImportOK, RemoveOK, GitOK, At, ClaimSteps, ImportSteps, RemoveSteps
<1>. QED
  BY <1>1, <1>2, <1>3, <1>4, <1>5, <1>6, QuietKept DEF Recording, Protecting, At

\* What the requests have found out and owe stays true when only the history grows.
LEMMA HistoryKept ==
  ASSUME IInv, TInv', UNCHANGED <<exists, protected, owners, req>>, PastGrows
  PROVE  IInv'
<1>1. \A r \in Repos : Clean(r)' => Clean(r)
  BY DEF Clean, PastGrows
<1>2. \A r \in Repos : OwnersOf(r)' = OwnersOf(r)
  BY DEF OwnersOf
<1>3. Apart'
  BY DEF IInv, Apart, PastGrows
<1>4. ASSUME NEW p \in Callers PROVE CallerOK(p)'
  <2>1. CallerOK(p)
    BY DEF IInv
  <2>. QED
    BY <1>1, <1>2, <2>1
    DEF CallerOK, ClaimOK, ImportOK, RemoveOK, GitOK, At, PastGrows
<1>5. ASSUME NEW r \in Repos PROVE RepoOK(r)'
  <2>1. RepoOK(r) /\ past[r] \subseteq past'[r]
    BY DEF IInv, PastGrows
  <2>2. \A q \in Callers : /\ \A u : Dropping(q, u, r)' <=> Dropping(q, u, r)
                           /\ Recording(q, r)' <=> Recording(q, r)
                           /\ Protecting(q, r)' <=> Protecting(q, r)
    BY DEF Dropping, Recording, Protecting, At
  <2>. QED
    BY <1>1, <1>2, <2>1, <2>2 DEF RepoOK
<1>. QED
  BY <1>3, <1>4, <1>5 DEF IInv

LEMMA AppearsKept ==
  ASSUME IInv, TInv', NEW t \in Tenants, NEW s,
         SandboxAppears(t, s) \/ ServiceAppears(t, s), s \in BranchSessions \/ past' = past
  PROVE  IInv'
<1>1. UNCHANGED <<exists, protected, owners, req>>
  BY DEF SandboxAppears, ServiceAppears, git, rows
<1>2. PastGrows
  BY DEF SandboxAppears, ServiceAppears, Marked, PastGrows, IInv, TInv, TypeOK, BranchSessions
<1>. QED
  BY <1>1, <1>2, HistoryKept

\* A step of p that changes its repository.
LEMMA ChangeKept ==
  ASSUME IInv, TInv', NEW p \in Callers, Proceeds(p), PastGrows, Harmless(p), CallerOK(p)',
         \A r \in Repos : req[p].r = r => RepoOK(r)'
  PROVE  IInv'
<1>1. OthersSame(p)
  BY DEF Proceeds
<1>. QED
  BY <1>1, ApartKept, OthersKept, ElsewhereKept DEF IInv

LEMMA CallerIs ==
  ASSUME IInv, NEW p \in Callers, Proceeds(p),
         \A r \in Repos : req[p].r = r /\ req'[p].r = r /\ req'[p].op = req[p].op
                            /\ req'[p].t = req[p].t
           => ClaimOK(p, r)' /\ ImportOK(p, r)' /\ RemoveOK(p, r)' /\ GitOK(p, r)'
  PROVE  CallerOK(p)'
BY NamesAssumption DEF CallerOK, Proceeds

\* The witnesses among the others stay.
LEMMA WitnessesStay ==
  ASSUME NEW p \in Callers, OthersSame(p), NEW q \in Callers \ {p}, NEW r
  PROVE  /\ \A u : Dropping(q, u, r) => Dropping(q, u, r)'
         /\ Recording(q, r) => Recording(q, r)'
         /\ Protecting(q, r) => Protecting(q, r)'
BY DEF OthersSame, Dropping, Recording, Protecting, At

LEMMA PostKept ==
  ASSUME IInv, TInv', NEW p \in Callers, MakePost(p) \/ ImportPost(p)
  PROVE  IInv'
<1>1. Proceeds(p) /\ OthersSame(p)
  BY ClaimProceeds, ImportProceeds DEF IInv, Claim, Import, Proceeds
<1>2. UNCHANGED <<protected, owners, past>> /\ PastGrows
  BY DEF MakePost, ImportPost, Post, rows, PastGrows
<1>3. \/ req[p].pc = "post" /\ req'[p].pc \in {"protect", "idle", "next"}
      \/ req[p].pc = "impPost" /\ req'[p].pc \in {"push", "idle", "next"}
  BY PcAfter DEF MakePost, ImportPost, Post, At, IInv
<1>4. CASE exists' = exists
  BY <1>1, <1>2, <1>3, <1>4, PlainKept DEF Owing, ClaimSteps, ImportSteps, RemoveSteps
<1>5. CASE exists' # exists
  <2>1. /\ exists' = exists \cup {req[p].r} /\ req'[p].r = req[p].r
        /\ req'[p].pc \in {"protect", "push"}
    BY <1>5, PcAfter DEF MakePost, ImportPost, Post, IInv
  <2>2. Harmless(p)
    BY <1>2, <2>1 DEF Harmless, OwnersOf
  <2>3. CallerOK(p)'
    <3>. SUFFICES ASSUME NEW r \in Repos, req[p].r = r, req'[p].op = req[p].op,
                         req'[p].t = req[p].t
                  PROVE  ClaimOK(p, r)' /\ ImportOK(p, r)' /\ RemoveOK(p, r)' /\ GitOK(p, r)'
      BY <1>1, CallerIs
    <3>1. ClaimOK(p, r) /\ ImportOK(p, r)
      BY DEF IInv, CallerOK
    <3>2. OwnersOf(r)' = OwnersOf(r) /\ (Clean(r)' <=> Clean(r))
      BY <1>2 DEF OwnersOf, Clean
    <3>. QED
      BY <1>3, <2>1, <3>1, <3>2
      DEF ClaimOK, ImportOK, RemoveOK, GitOK, At, ClaimSteps, ImportSteps, RemoveSteps
  <2>4. ASSUME NEW r \in Repos, req[p].r = r PROVE RepoOK(r)'
    <3>1. OwnersOf(r)' = OwnersOf(r) /\ (Clean(r)' <=> Clean(r)) /\ RepoOK(r) /\ r \in exists'
      BY <1>2, <2>1, <2>4 DEF OwnersOf, Clean, IInv
    <3>2. Recording(p, r)' /\ Protecting(p, r)'
      BY <2>1, <2>4 DEF Recording, Protecting
    <3>. QED
      BY <3>1, <3>2 DEF RepoOK
  <2>. QED
    BY <1>1, <1>2, <2>2, <2>3, <2>4, ChangeKept
<1>. QED
  BY <1>4, <1>5

LEMMA ProtectKept ==
  ASSUME IInv, TInv', NEW p \in Callers, Protect(p) \/ ImportProtect(p)
  PROVE  IInv'
<1>1. Proceeds(p) /\ OthersSame(p)
  BY ClaimProceeds, ImportProceeds DEF IInv, Claim, Import, Proceeds
<1>2. UNCHANGED <<exists, owners, past>> /\ PastGrows
  BY DEF Protect, ImportProtect, rows, PastGrows
<1>3. \/ req[p].pc = "protect" /\ req'[p].pc = "row" /\ req[p].r \in exists
         /\ req'[p].r = req[p].r
      \/ req[p].pc = "protect" /\ req'[p].pc \in {"idle", "next"} /\ req[p].r \notin exists
      \/ req[p].pc = "impProtect" /\ req'[p].pc = "probe"
  BY PcAfter DEF Protect, ImportProtect, At, IInv
<1>4. protected' = protected \cup ({req[p].r} \cap exists)
  BY DEF Protect, ImportProtect
<1>5. Harmless(p)
  BY <1>2, <1>4 DEF Harmless, OwnersOf
<1>6. CallerOK(p)'
  <2>. SUFFICES ASSUME NEW r \in Repos, req[p].r = r, req'[p].op = req[p].op,
                       req'[p].t = req[p].t
                PROVE  ClaimOK(p, r)' /\ ImportOK(p, r)' /\ RemoveOK(p, r)' /\ GitOK(p, r)'
    BY <1>1, CallerIs
  <2>1. ClaimOK(p, r) /\ ~(req[p].op = "import" /\ req[p].pc = "protect")
    BY DEF IInv, CallerOK, TInv, Shape, MayBeAt, ImportSteps
  <2>2. OwnersOf(r)' = OwnersOf(r) /\ (Clean(r)' <=> Clean(r))
    BY <1>2 DEF OwnersOf, Clean
  <2>. QED
    BY <1>2, <1>3, <2>1, <2>2
    DEF ClaimOK, ImportOK, RemoveOK, GitOK, At, ClaimSteps, ImportSteps, RemoveSteps
<1>7. ASSUME NEW r \in Repos, req[p].r = r PROVE RepoOK(r)'
  <2>1. OwnersOf(r)' = OwnersOf(r) /\ (Clean(r)' <=> Clean(r)) /\ RepoOK(r)
    BY <1>2 DEF OwnersOf, Clean, IInv
  <2>2. r \in exists' => r \in protected'
    BY <1>2, <1>4, <1>7
  <2>3. Recording(p, r) => Recording(p, r)' \/ r \notin exists
    BY <1>3, <1>7 DEF Recording
  <2>4. \A u : ~Dropping(p, u, r)
    BY <1>3 DEF Dropping, At
  <2>. QED
    BY <1>1, <1>2, <2>1, <2>2, <2>3, <2>4, WitnessesStay DEF RepoOK
<1>. QED
  BY <1>1, <1>2, <1>5, <1>6, <1>7, ChangeKept

LEMMA AddRepoKept ==
  ASSUME IInv, TInv', NEW p \in Callers, AddRepo(p)
  PROVE  IInv'
<1>1. Proceeds(p) /\ OthersSame(p)
  BY ClaimProceeds DEF IInv, Claim, Proceeds
<1>2. /\ UNCHANGED <<exists, protected>> /\ req[p].pc = "row"
      /\ req[p].r \in Repos /\ req[p].t \in Tenants
  BY Args DEF AddRepo, git, At, IInv, OnRepo, ClaimSteps
<1>3. /\ req'[p].pc \in {"probe", "impProtect", "orgRow"} /\ req'[p].r = req[p].r
      /\ req[p].op = "import" => req'[p].pc = "impProtect"
  BY PcAfter DEF AddRepo, IInv
<1>4. PastGrows
  BY DEF AddRepo, Marked, PastGrows, IInv, TInv, TypeOK
<1>5. \A r \in Repos : OwnersOf(r)' = IF r = req[p].r THEN OwnersOf(r) \cup {req[p].t}
                                                     ELSE OwnersOf(r)
  BY <1>2 DEF AddRepo, OwnersOf, IInv, TInv, TypeOK
<1>6. Harmless(p)
  BY <1>2, <1>5 DEF Harmless
<1>7. CallerOK(p)'
  BY <1>3 DEF CallerOK, ClaimOK, ImportOK, RemoveOK, GitOK, At, ClaimSteps, ImportSteps,
    RemoveSteps
<1>8. ASSUME NEW r \in Repos, req[p].r = r PROVE RepoOK(r)'
  <2>1. CallerOK(p) /\ RepoOK(r) /\ past[r] \subseteq past'[r]
    BY <1>4 DEF IInv, PastGrows
  <2>2. Clean(r)' => Clean(r) /\ OwnersOf(r) \subseteq {req[p].t}
    <3>. SUFFICES ASSUME Clean(r)' PROVE Clean(r) /\ OwnersOf(r) \subseteq {req[p].t}
      OBVIOUS
    <3>1. Clean(r)
      BY <2>1 DEF Clean
    <3>2. CASE req[p].op = "ensureRepo"
      <4>. SUFFICES ASSUME OwnersOf(r) \ {req[p].t} # {} PROVE FALSE
        BY <3>1
      <4>1. past' = Marked(r, "foreign")
        BY <1>8, <3>2 DEF AddRepo
      <4>. QED
        BY <4>1 DEF Marked, Clean, IInv, TInv, TypeOK
    <3>3. CASE req[p].op \in {"ensure", "reconcile"}
      BY <1>2, <1>8, <2>1, <3>1, <3>3 DEF CallerOK, ClaimOK, ClaimSteps
    <3>4. CASE req[p].op = "import"
      BY <1>2, <1>8, <2>1, <3>1, <3>4 DEF CallerOK, ImportOK, ImportSteps
    <3>5. req[p].op \in {"ensureRepo", "ensure", "reconcile", "import"}
      BY <1>2, OpsAre DEF IInv, TInv, TypeOK, Calls, Shape, MayBeAt, RemoveSteps
    <3>. QED
      BY <3>2, <3>3, <3>4, <3>5
  <2>3. Clean(r)' => r \in exists
    BY <1>2, <1>8, <2>1, <2>2 DEF CallerOK, GitOK, At, Clean
  <2>4. Protecting(p, r) => Protecting(p, r)'
    BY <1>2, <1>3, <1>8 DEF Protecting, At
  <2>. QED
    BY <1>1, <1>2, <1>5, <1>8, <2>1, <2>2, <2>3, <2>4, WitnessesStay DEF RepoOK
<1>. QED
  BY <1>1, <1>4, <1>6, <1>7, <1>8, ChangeKept

LEMMA ImportDefaultKept ==
  ASSUME IInv, TInv', NEW p \in Callers, ImportDefault(p)
  PROVE  IInv'
<1>1. Proceeds(p)
  BY ImportProceeds DEF IInv, Import
<1>2. UNCHANGED <<exists, protected, owners, past>> /\ PastGrows
  BY DEF ImportDefault, git, rows, PastGrows
<1>3. /\ req[p].pc = "default" /\ req'[p].r = req[p].r
      /\ req[p].op = "import" /\ req'[p].op = "import"
      /\ \/ req'[p].pc = "row" /\ req[p].r \in exists
         \/ req'[p].pc = "cleanup"
  BY PcAfter, OpsAre DEF ImportDefault, At, IInv, TInv, TypeOK, Calls, Shape, MayBeAt,
    ClaimSteps, EnsureSteps, RemoveSteps, Between
<1>4. CallerOK(p)'
  <2>. SUFFICES ASSUME NEW r \in Repos, req[p].r = r, req'[p].op = req[p].op,
                       req'[p].t = req[p].t
                PROVE  ClaimOK(p, r)' /\ ImportOK(p, r)' /\ RemoveOK(p, r)' /\ GitOK(p, r)'
    BY <1>1, CallerIs
  <2>1. ImportOK(p, r)
    BY DEF IInv, CallerOK
  <2>2. OwnersOf(r)' = OwnersOf(r) /\ (Clean(r)' <=> Clean(r))
    BY <1>2 DEF OwnersOf, Clean
  <2>. QED
    BY <1>2, <1>3, <2>1, <2>2 DEF ClaimOK, ImportOK, RemoveOK, GitOK, At, ImportSteps
<1>. QED
  BY <1>1, <1>2, <1>3, <1>4, QuietKept DEF Recording, Protecting, At

\* The clean-up of an import removes a repository nobody owns, DeleteRepo one
\* whose only owner's row it is about to remove.
LEMMA RemoveKept ==
  ASSUME IInv, TInv', NEW p \in Callers, ImportCleanup(p) \/ DeleteGitRepo(p)
  PROVE  IInv'
<1>1. Proceeds(p) /\ OthersSame(p)
  BY ImportProceeds, DeletionProceeds DEF IInv, Import, Deletion, Proceeds
<1>2. /\ UNCHANGED <<owners, past>> /\ PastGrows
      /\ exists' = exists \ {req[p].r} /\ protected' = protected \ {req[p].r}
  BY DEF ImportCleanup, DeleteGitRepo, RemoveFromForgejo, rows, PastGrows
<1>3. \/ /\ req[p].pc = "cleanup" /\ req[p].op = "import"
         /\ req'[p].pc \in {"idle", "next"}
      \/ /\ req[p].pc = "gitRepo" /\ req[p].op = "delRepo"
         /\ req'[p].pc = "dropRow" /\ req'[p].r = req[p].r
  BY PcAfter, Args, OpsAre DEF ImportCleanup, DeleteGitRepo, At, IInv, TInv, TypeOK, Calls,
    Shape, MayBeAt, ClaimSteps, EnsureSteps, RemoveSteps, Between
<1>4. \A r : OwnersOf(r)' = OwnersOf(r) /\ (Clean(r)' <=> Clean(r))
  BY <1>2 DEF OwnersOf, Clean
<1>5. Harmless(p)
  BY <1>2, <1>3, <1>4 DEF Harmless, Removing
<1>6. CallerOK(p)'
  <2>. SUFFICES ASSUME NEW r \in Repos, req[p].r = r, req'[p].op = req[p].op,
                       req'[p].t = req[p].t
                PROVE  ClaimOK(p, r)' /\ ImportOK(p, r)' /\ RemoveOK(p, r)' /\ GitOK(p, r)'
    BY <1>1, CallerIs
  <2>1. RemoveOK(p, r)
    BY DEF IInv, CallerOK
  <2>. QED
    BY <1>2, <1>3, <1>4, <2>1
    DEF ClaimOK, ImportOK, RemoveOK, GitOK, At, ClaimSteps, ImportSteps, RemoveSteps
<1>7. ASSUME NEW r \in Repos, req[p].r = r PROVE RepoOK(r)'
  <2>1. CallerOK(p) /\ RepoOK(r) /\ r \notin exists'
    BY <1>2, <1>7 DEF IInv
  <2>2. CASE req[p].pc = "cleanup"
    <3>1. Clean(r) => OwnersOf(r) = {}
      BY <1>3, <1>7, <2>1, <2>2 DEF CallerOK, ImportOK, ImportSteps
    <3>. QED
      BY <1>4, <2>1, <3>1 DEF RepoOK
  <2>3. CASE req[p].pc = "gitRepo"
    <3>1. Clean(r) => \A u \in OwnersOf(r) : u = req[p].t
      BY <1>3, <1>7, <2>1, <2>3 DEF CallerOK, RemoveOK, RemoveSteps, RepoOK
    <3>2. req'[p].t = req[p].t
      BY <1>1, <1>3, <1>7, <2>3, NamesAssumption DEF Proceeds
    <3>3. \A u : u = req[p].t => Dropping(p, u, r)'
      BY <1>3, <1>7, <2>3, <3>2 DEF Dropping, At
    <3>4. Clean(r) => \A u \in OwnersOf(r) : Dropping(p, u, r)'
      BY <3>1, <3>3
    <3>5. Clean(r) => \A u, x \in OwnersOf(r) : u = x
      BY <3>1
    <3>. QED
      BY <1>4, <2>1, <3>4, <3>5 DEF RepoOK
  <2>. QED
    BY <1>3, <2>2, <2>3
<1>. QED
  BY <1>1, <1>2, <1>5, <1>6, <1>7, ChangeKept

LEMMA RemoveRepoKept ==
  ASSUME IInv, TInv', NEW p \in Callers, RemoveRepo(p)
  PROVE  IInv'
<1>1. Proceeds(p) /\ OthersSame(p) /\ req'[p].r = None
  BY DeletionProceeds, LeavesProceeds DEF IInv, Deletion, Proceeds, RemoveRepo, Leaves
<1>2. UNCHANGED <<exists, protected, past>> /\ PastGrows /\ req[p].pc = "dropRow"
  BY DEF RemoveRepo, git, At, PastGrows
<1>3. \A r \in Repos : OwnersOf(r)' = IF r = req[p].r THEN OwnersOf(r) \ {req[p].t}
                                                     ELSE OwnersOf(r)
  BY DEF RemoveRepo, OwnersOf
<1>4. Harmless(p)
  BY <1>2, <1>3 DEF Harmless
<1>5. CallerOK(p)'
  BY <1>1, NamesAssumption DEF CallerOK
<1>6. ASSUME NEW r \in Repos, req[p].r = r PROVE RepoOK(r)'
  <2>1. CallerOK(p) /\ RepoOK(r) /\ (Clean(r)' <=> Clean(r))
    BY <1>2 DEF IInv, Clean
  <2>2. "overlap" \notin past[r] => r \notin exists
    BY <1>2, <1>6, <2>1 DEF CallerOK, GitOK, At
  <2>3. ~Recording(p, r) /\ ~Protecting(p, r)
    BY <1>2 DEF Recording, Protecting, At
  <2>. QED
    BY <1>1, <1>2, <1>3, <1>6, <2>1, <2>2, <2>3, WitnessesStay DEF RepoOK, Dropping
<1>. QED
  BY <1>1, <1>2, <1>4, <1>5, <1>6, ChangeKept

LEMMA IInvInit == Init => IInv
<1>. SUFFICES ASSUME Init PROVE IInv
  OBVIOUS
<1>1. TInv
  BY TInvInit
<1>2. \A p \in Callers : req[p].r = None
  BY DEF Init, Idle
<1>3. Apart /\ \A p \in Callers : CallerOK(p)
  BY <1>2, NamesAssumption DEF Apart, CallerOK
<1>4. \A r \in Repos : RepoOK(r)
  BY DEF Init, RepoOK, OwnersOf
<1>. QED
  BY <1>1, <1>3, <1>4 DEF IInv

LEMMA IInvStep == IInv /\ [Next]_vars => IInv'
<1>. SUFFICES ASSUME IInv, [Next]_vars PROVE IInv'
  OBVIOUS
<1>. TInv'
  BY TInvStep DEF IInv
<1>1. ASSUME NEW p \in Requests, ReceiveCall(p) PROVE IInv'
  <2>1. UNCHANGED <<exists, protected, owners>>
    BY <1>1 DEF ReceiveCall, Receive, git, rows
  <2>. QED
    BY <1>1, <2>1, ReceiveCallBegins, BeginKept DEF IInv, Callers
<1>2. ASSUME NEW p \in Callers, Claim(p) PROVE IInv'
  BY <1>2, ClaimCheckKept, ClaimPlain, PostKept, ProtectKept, AddRepoKept DEF Claim
<1>3. ASSUME NEW p \in Callers, Import(p) PROVE IInv'
  BY <1>3, ClaimCheckKept, PostKept, ImportPushKept, ImportDefaultKept, ProtectKept,
     RemoveKept DEF Import
<1>4. ASSUME NEW p \in Callers, Deletion(p) PROVE IInv'
  BY <1>4, MayRemoveKept, DeletionPlain, RemoveKept, RemoveRepoKept DEF Deletion
<1>5. ASSUME NEW p \in Callers, Reconcile(p) PROVE IInv'
  <2>1. UNCHANGED <<exists, protected, owners>>
    BY <1>5 DEF Reconcile, ReconcileStart, ReconcileList, ReconcileNext, git, rows
  <2>2. req[p].r = None
    BY <1>5, NoneAssumption, OpsAre
    DEF Reconcile, ReconcileStart, ReconcileList, ReconcileNext, At, Between, Callers,
      EnsureSteps, ClaimSteps, ImportSteps, RemoveSteps, IInv, TInv, TypeOK, Calls, Shape,
      MayBeAt, ShapeArgs
  <2>3. UNCHANGED past \/ ReconcileNext(p)
    BY <1>5 DEF Reconcile, ReconcileStart, ReconcileList
  <2>. QED
    BY <1>5, <2>1, <2>2, <2>3, ReconcileStartProceeds, ReconcileListProceeds,
       ReconcileNextBegins, ReconcilePlain, BeginKept DEF Reconcile, IInv
<1>6. ASSUME NEW t \in Tenants, NEW s \in AgentSessions,
             SandboxAppears(t, s) \/ (s \in BranchSessions /\ ServiceAppears(t, s))
      PROVE  IInv'
  <2>1. s \in BranchSessions \/ past' = past
    BY <1>6 DEF SandboxAppears
  <2>. QED
    BY <1>6, <2>1, AppearsKept
<1>7. CASE UNCHANGED vars
  <2>1. UNCHANGED <<exists, protected, owners, req, past>>
    BY <1>7 DEF vars, git, rows
  <2>. QED
    BY <2>1, HistoryKept DEF PastGrows
<1>8. BranchSessions \subseteq AgentSessions
  BY DEF AgentSessions
<1>. QED
  BY <1>1, <1>2, <1>3, <1>4, <1>5, <1>6, <1>7, <1>8, SessioningKept, InterruptKept,
     IgnoredKept DEF Next, Step

LEMMA Always == Spec => []IInv
BY IInvInit, IInvStep, PTL DEF Spec

\* A repository has one owner, except in the three cases that OneOwner names.
THEOREM OneOwnerAlways == Spec => []OneOwner
<1>1. IInv => OneOwner
  BY DEF IInv, RepoOK, Clean, OneOwner
<1>. QED
  BY <1>1, Always, PTL

\* Between requests, nobody owns a repository only where one was cut or overlapped.
THEOREM NobodysRepoAlways == Spec => []NobodysRepo
<1>1. IInv => NobodysRepo
  BY DEF IInv, TInv, TypeOK, RepoOK, NobodysRepo, Busy, Recording
<1>. QED
  BY <1>1, Always, PTL

\* Between requests, a row names a repository that exists.
THEOREM RowsHaveReposAlways == Spec => []RowsHaveRepos
<1>1. IInv => RowsHaveRepos
  BY DEF IInv, RepoOK, Clean, RowsHaveRepos, Busy, Dropping
<1>. QED
  BY <1>1, Always, PTL

\* Between requests, an owned repository has a protected main.
THEOREM MainProtectedAlways == Spec => []MainProtected
<1>1. IInv => MainProtected
  BY DEF IInv, TInv, TypeOK, RepoOK, MainProtected, Busy, Protecting
<1>. QED
  BY <1>1, Always, PTL

-----------------------------------------------------------------------------
(* What hangs below a repository, and who takes it away.                   *)

HasSession(t, r, b) == <<t, <<r, b>>>> \in sessions
HasSandbox(t, r, b) == <<t, <<r, b>>>> \in sandboxes

Spared(r) == past[r] \cap {"overlap", "skipped", "late"} = {}

\* Sessions belong to owners, sandboxes to sessions.
BelowOK(r) ==
  Spared(r) =>
    /\ \A t \in Tenants, b \in Branches :
         /\ HasSession(t, r, b) => t \in OwnersOf(r)
         /\ HasSandbox(t, r, b) => HasSession(t, r, b)
    /\ r \in services => OwnersOf(r) # {}

\* A cascade past its sandbox list has no sandbox left; a DeleteRepo has no
\* session left that is not on its list, and at the end no service.
SweepOK(p, r) ==
  LET t == req[p].t
  IN
  /\ At(p, "session") => ~HasSandbox(t, r, req[p].b)
  /\ At(p, "cascade") => \A b \in Branches : HasSession(t, r, b) => <<r, b>> \in req[p].todo
  /\ (At(p, "sandboxes") \/ At(p, "session")) /\ req[p].op = "delRepo" =>
         \A b \in Branches : HasSession(t, r, b) => <<r, b>> \in req[p].todo \/ b = req[p].b
  /\ req[p].pc \in {"services", "gitRepo", "dropRow"} =>
       \A b \in Branches : ~HasSession(t, r, b)
  /\ req[p].pc \in {"gitRepo", "dropRow"} /\ OwnersOf(r) \subseteq {t} => r \notin services

AdmitOK(p, r) == req[p].pc \in Admitted => req[p].t \in OwnersOf(r)

WorkOK(p) ==
  \A r \in Repos : req[p].r = r /\ Spared(r) => AdmitOK(p, r) /\ SweepOK(p, r)

LInv ==
  /\ IInv
  /\ \A p \in Callers : WorkOK(p)
  /\ \A r \in Repos : BelowOK(r)

\* What p may do below its repository so that the others can go on as they are.
Gentle(p) ==
  /\ \A r \in Repos : req[p].r # r =>
       /\ OwnersOf(r)' = OwnersOf(r)
       /\ \A t \in Tenants, b \in Branches :
            /\ HasSession(t, r, b)' <=> HasSession(t, r, b)
            /\ HasSandbox(t, r, b)' <=> HasSandbox(t, r, b)
       /\ r \in services' <=> r \in services
  /\ \A r \in Repos : req[p].r = r /\ req[p].op \notin Removing =>
       /\ OwnersOf(r) \subseteq OwnersOf(r)'
       /\ \A t \in Tenants, b \in Branches : HasSandbox(t, r, b)' => HasSandbox(t, r, b)

LEMMA SparedBefore ==
  ASSUME PastGrows, NEW r \in Repos, Spared(r)' PROVE Spared(r)
BY DEF PastGrows, Spared

\* The tenant and the branch of a request at work below r.
LEMMA BelowArgs ==
  ASSUME TInv, NEW q \in Callers
  PROVE  /\ req[q].pc # "idle" => req[q].t \in Tenants
         /\ req[q].r \in Repos /\ req[q].pc \in {"sandboxes", "session"} =>
              /\ req[q].b \in Branches
              /\ req[q].op \in {"delRepo", "delSession"}
         /\ req[q].pc \in {"sessions", "cascade", "services", "gitRepo", "dropRow"} =>
              req[q].op = "delRepo" /\ req[q].r \in Repos
<1>. DEFINE c == req[q]
<1>0. MayBeAt(c.op, c.pc) /\ ShapeArgs(c) /\ c.op \in Ops \cup {None}
  BY DEF TInv, Shape, TypeOK, Calls
<1>. HIDE DEF c
<1>. USE <1>0, NoneAssumption, NamesAssumption, OpsAre
    DEF MayBeAt, ShapeArgs, EnsureSteps, ClaimSteps, ImportSteps, RemoveSteps, Between,
        OnBranch, OnFree
<1>. SUFFICES
       /\ c.pc # "idle" => c.t \in Tenants
       /\ c.r \in Repos /\ c.pc \in {"sandboxes", "session"} =>
            /\ c.b \in Branches
            /\ c.op \in {"delRepo", "delSession"}
       /\ c.pc \in {"sessions", "cascade", "services", "gitRepo", "dropRow"} =>
            c.op = "delRepo" /\ c.r \in Repos
  BY DEF c
<1>1. CASE c.op \in {None, "ensure", "ensureRepo", "createOrg"}
  BY <1>1
<1>2. CASE c.op \in {"import", "fork", "branch", "free"}
  BY <1>2
<1>3. CASE c.op = "delSession"
  BY <1>3
<1>4. CASE c.op = "delRepo"
  BY <1>4
<1>5. CASE c.op = "delFree"
  BY <1>5
<1>6. CASE c.op = "reconcile"
  BY <1>6
<1>. QED
  BY <1>1, <1>2, <1>3, <1>4, <1>5, <1>6

\* The others keep what they count on.
LEMMA WorkOthers ==
  ASSUME LInv, NEW p \in Callers, OthersSame(p), PastGrows, Gentle(p),
         NEW q \in Callers \ {p}
  PROVE  WorkOK(q)'
<1>. SUFFICES ASSUME NEW r \in Repos, req[q].r = r, Spared(r)'
              PROVE  AdmitOK(q, r)' /\ SweepOK(q, r)'
  BY DEF OthersSame, WorkOK
<1>0. req'[q] = req[q] /\ Spared(r) /\ "overlap" \notin past[r]
  BY SparedBefore DEF OthersSame, Spared
<1>1. AdmitOK(q, r) /\ SweepOK(q, r)
  BY <1>0 DEF LInv, WorkOK
<1>2. /\ req[q].pc # "idle" => req[q].t \in Tenants
      /\ req[q].pc \in {"sandboxes", "session"} =>
           req[q].b \in Branches /\ req[q].op \in {"delRepo", "delSession"}
      /\ req[q].pc \in {"cascade", "services", "gitRepo", "dropRow"} =>
           req[q].op = "delRepo"
  BY BelowArgs DEF LInv, IInv
<1>3. CASE req[p].r # r
  <2>1. AdmitOK(q, r)'
    BY <1>0, <1>1, <1>3 DEF Gentle, AdmitOK
  <2>2. SweepOK(q, r)'
    BY <1>0, <1>1, <1>2, <1>3 DEF Gentle, SweepOK, At
  <2>. QED
    BY <2>1, <2>2
<1>4. CASE req[p].r = r
  <2>1. req[p].op \notin Removing /\ req[q].op # "delRepo"
    BY <1>0, <1>4 DEF LInv, IInv, Apart, Removing
  <2>2. AdmitOK(q, r)'
    BY <1>0, <1>1, <1>4, <2>1 DEF Gentle, AdmitOK
  <2>3. SweepOK(q, r)'
    BY <1>0, <1>1, <1>2, <1>4, <2>1 DEF Gentle, SweepOK, At
  <2>. QED
    BY <2>2, <2>3
<1>. QED
  BY <1>3, <1>4

\* A step of p that leaves other repositories alone.
LEMMA LeftKept ==
  ASSUME LInv, IInv', NEW p \in Callers, OthersSame(p), PastGrows, Gentle(p), WorkOK(p)',
         \A r \in Repos : req[p].r = r /\ Spared(r)' /\ Spared(r) => BelowOK(r)'
  PROVE  LInv'
<1>1. \A q \in Callers : WorkOK(q)'
  BY WorkOthers
<1>2. ASSUME NEW r \in Repos PROVE BelowOK(r)'
  <2>1. CASE req[p].r # r
    <3>1. BelowOK(r)
      BY DEF LInv
    <3>. QED
      BY <2>1, <3>1, SparedBefore DEF BelowOK, Gentle
  <2>2. CASE ~Spared(r)'
    BY <2>2 DEF BelowOK
  <2>. QED
    BY <2>1, <2>2, SparedBefore
<1>. QED
  BY <1>1, <1>2 DEF LInv

below == <<owners, sessions, sandboxes, services>>

\* A step that changes nothing below a repository.
LEMMA LeftQuiet ==
  ASSUME LInv, IInv', NEW p \in Callers, OthersSame(p), PastGrows, UNCHANGED below, WorkOK(p)'
  PROVE  LInv'
<1>1. Gentle(p)
  BY DEF Gentle, below, OwnersOf, HasSession, HasSandbox
<1>2. \A r \in Repos : BelowOK(r) /\ Spared(r) => BelowOK(r)'
  BY DEF BelowOK, below, OwnersOf, HasSession, HasSandbox
<1>. QED
  BY <1>1, <1>2, LeftKept DEF LInv

SweepSteps == {"session", "cascade", "sandboxes", "services", "gitRepo", "dropRow"}

LEMMA OwnsIs ==
  ASSUME TInv, NEW p \in Callers, NEW r \in Repos, req[p].r = r, req[p].pc # "idle", Owns(p)
  PROVE  req[p].t \in OwnersOf(r)
BY Args DEF Owns, OwnersOf

\* Nor one that begins nothing in the cascade, and admits its request only after
\* the check.
LEMMA LeftPlain ==
  ASSUME LInv, IInv', NEW p \in Callers, Proceeds(p), PastGrows, UNCHANGED below,
         req'[p].r \in Repos /\ req'[p].pc \in Admitted =>
           req[p].pc \in Admitted \/ (Owns(p) /\ req[p].pc # "idle"),
         req'[p].r \in Repos => req'[p].pc \notin SweepSteps
  PROVE  LInv'
<1>1. WorkOK(p)'
  <2>. SUFFICES ASSUME NEW r \in Repos, req'[p].r = r, Spared(r)'
                PROVE  AdmitOK(p, r)' /\ SweepOK(p, r)'
    BY DEF WorkOK
  <2>1. req[p].r = r /\ req'[p].t = req[p].t /\ Spared(r)
    BY NamesAssumption, SparedBefore DEF Proceeds
  <2>2. OwnersOf(r)' = OwnersOf(r)
    BY DEF OwnersOf, below
  <2>3. req'[p].pc \in Admitted => req[p].t \in OwnersOf(r)
    BY <2>1, OwnsIs DEF LInv, IInv, WorkOK, AdmitOK
  <2>4. AdmitOK(p, r)'
    BY <2>1, <2>2, <2>3 DEF AdmitOK
  <2>5. SweepOK(p, r)'
    BY DEF SweepOK, SweepSteps, At
  <2>. QED
    BY <2>4, <2>5
<1>2. OthersSame(p)
  BY DEF Proceeds
<1>. QED
  BY <1>1, <1>2, LeftQuiet

\* A request that leaves its repository counts on nothing.
LEMMA WorkEnds ==
  ASSUME NEW p \in Callers, req'[p].r = None
  PROVE  WorkOK(p)'
BY NamesAssumption DEF WorkOK

LEMMA ClaimLeft ==
  ASSUME LInv, IInv', NEW p \in Callers, Claim(p), ~AddRepo(p)
  PROVE  LInv'
<1>1. Proceeds(p)
  BY ClaimProceeds DEF LInv, IInv
<1>2. UNCHANGED below /\ PastGrows
  BY DEF Claim, ClaimCheck, ClaimOwned, MakeCheck, MakePost, Post, Protect, AddOrg, OrgCheck,
    OrgAdd, below, rows, cluster, PastGrows
<1>3. req'[p].pc \notin SweepSteps
  BY PcAfter DEF LInv, IInv, Claim, ClaimCheck, ClaimOwned, MakeCheck, MakePost, Post, Protect,
    AddOrg, OrgCheck, OrgAdd, SweepSteps
<1>4. req'[p].pc \in Admitted =>
        req[p].pc \in Admitted \/ (Owns(p) /\ req[p].pc # "idle")
  BY PcAfter DEF LInv, IInv, Claim, ClaimCheck, ClaimOwned, MakeCheck, MakePost, Post, Protect,
    AddOrg, OrgCheck, OrgAdd, Admitted, At
<1>. QED
  BY <1>1, <1>2, <1>3, <1>4, LeftPlain

LEMMA ImportLeft ==
  ASSUME LInv, IInv', NEW p \in Callers, Import(p)
  PROVE  LInv'
<1>1. Proceeds(p)
  BY ImportProceeds DEF LInv, IInv
<1>2. UNCHANGED below /\ PastGrows
  BY DEF Import, ImportCheck, ImportPost, Post, ImportPush, ImportDefault, ImportProtect,
    ImportCleanup, below, rows, cluster, PastGrows
<1>3. req'[p].pc \notin SweepSteps
  BY PcAfter DEF LInv, IInv, Import, ImportCheck, ImportPost, Post, ImportPush, ImportDefault,
    ImportProtect, ImportCleanup, SweepSteps
<1>4. req'[p].pc \in Admitted => req[p].pc \in Admitted
  BY PcAfter DEF LInv, IInv, Import, ImportCheck, ImportPost, Post, ImportPush, ImportDefault,
    ImportProtect, ImportCleanup, Admitted, At
<1>. QED
  BY <1>1, <1>2, <1>3, <1>4, LeftPlain

LEMMA SessioningLeft ==
  ASSUME LInv, IInv', NEW p \in Callers, Sessioning(p), ~CreateSession(p), ~Fork(p)
  PROVE  LInv'
<1>1. Proceeds(p)
  BY SessioningProceeds DEF LInv, IInv
<1>2. UNCHANGED below /\ PastGrows
  BY DEF Sessioning, SessionProbe, FreeRow, MayFork, ForkParent, BranchVisible, CreateBranch,
    below, rows, cluster, PastGrows
<1>3. req'[p].pc \notin SweepSteps
  BY PcAfter DEF LInv, IInv, Sessioning, SessionProbe, FreeRow, MayFork, ForkParent,
    BranchVisible, CreateBranch, SweepSteps
<1>4. \/ req'[p].pc \in Admitted =>
            req[p].pc \in Admitted \/ (Owns(p) /\ req[p].pc # "idle")
      \/ req[p].pc = "freeRow"
  BY PcAfter DEF LInv, IInv, Sessioning, SessionProbe, FreeRow, MayFork, ForkParent,
    BranchVisible, CreateBranch, Admitted, At
<1>5. req[p].pc = "freeRow" => req'[p].r \notin Repos
  <2>1. req[p].pc = "freeRow" => req[p].r = None
    BY NoneAssumption, OpsAre DEF LInv, IInv, TInv, TypeOK, Calls, Shape, ShapeArgs, MayBeAt,
      OnFree, EnsureSteps, ClaimSteps, ImportSteps, RemoveSteps, Between
  <2>. QED
    BY <1>1, <2>1, NamesAssumption DEF Proceeds
<1>. QED
  BY <1>1, <1>2, <1>3, <1>4, <1>5, LeftPlain

LEMMA AddRepoLeft ==
  ASSUME LInv, IInv', NEW p \in Callers, AddRepo(p)
  PROVE  LInv'
<1>1. Proceeds(p) /\ OthersSame(p)
  BY ClaimProceeds DEF LInv, IInv, Claim, Proceeds
<1>2. /\ UNCHANGED <<sessions, sandboxes, services>>
      /\ owners' = owners \cup {<<req[p].t, req[p].r>>}
  BY DEF AddRepo, cluster
<1>3. PastGrows
  BY DEF AddRepo, Marked, PastGrows, LInv, IInv, TInv, TypeOK
<1>4. req[p].r \in Repos /\ req[p].t \in Tenants
  BY Args DEF AddRepo, At, OnRepo, ClaimSteps, LInv, IInv
<1>5. req'[p].pc \in {"probe", "impProtect", "orgRow"}
  <2>1. Goto(p, "probe") \/ Goto(p, "impProtect") \/ Goto(p, "orgRow")
    BY DEF AddRepo
  <2>. QED
    BY <2>1, PcAfter DEF LInv, IInv
<1>6. /\ \A r \in Repos : OwnersOf(r) \subseteq OwnersOf(r)'
      /\ \A r \in Repos : r # req[p].r => OwnersOf(r)' = OwnersOf(r)
      /\ \A r \in Repos : r = req[p].r => req[p].t \in OwnersOf(r)'
  BY <1>2, <1>4 DEF OwnersOf
<1>7. Gentle(p)
  BY <1>2, <1>6 DEF Gentle, HasSession, HasSandbox
<1>8. WorkOK(p)'
  <2>. SUFFICES ASSUME NEW r \in Repos, req'[p].r = r
                PROVE  AdmitOK(p, r)' /\ SweepOK(p, r)'
    BY DEF WorkOK
  <2>1. req[p].r = r /\ req'[p].t = req[p].t
    BY <1>1, NamesAssumption DEF Proceeds
  <2>. QED
    BY <1>5, <1>6, <2>1 DEF AdmitOK, OwnersOf, SweepOK, At
<1>9. ASSUME NEW r \in Repos, Spared(r), Spared(r)' PROVE BelowOK(r)'
  <2>1. BelowOK(r)
    BY DEF LInv
  <2>. QED
    BY <1>2, <1>6, <1>9, <2>1 DEF BelowOK, HasSession, HasSandbox
<1>. QED
  BY <1>1, <1>3, <1>7, <1>8, <1>9, LeftKept

\* A session that is made or deleted is one of the request's repository, or free.
LEMMA TargetIs ==
  ASSUME TInv, NEW p \in Callers, req[p].pc \in {"create", "fork", "sandboxes", "session"}
  PROVE  \/ /\ req[p].op \notin OnFree /\ req[p].r \in Repos /\ req[p].b \in Branches
            /\ Target(p) = <<req[p].r, req[p].b>>
         \/ /\ req[p].op = "free" /\ req[p].r = None /\ req[p].b \in FreeNames
            /\ req[p].pc = "create"
         \/ /\ req[p].op = "delFree" /\ req[p].r = None /\ req[p].b \in FreeNames
            /\ Target(p) = req[p].b
<1>1. MayBeAt(req[p].op, req[p].pc) /\ ShapeArgs(req[p]) /\ req[p].op \in Ops \cup {None}
  BY DEF TInv, Shape, TypeOK, Calls
<1>2. CASE req[p].op \in OnFree
  BY <1>1, <1>2 DEF ShapeArgs, MayBeAt, OnFree, Target
<1>3. CASE req[p].op \notin OnFree
  <2>1. req[p].r \in Repos /\ req[p].b \in Branches
    BY <1>1, <1>3, Args, BelowArgs, NoneAssumption, OpsAre
    DEF MayBeAt, ShapeArgs, OnFree, OnBranch, OnRepo, EnsureSteps, ClaimSteps, ImportSteps,
      RemoveSteps, Between
  <2>. QED
    BY <1>3, <2>1 DEF Target, OnFree
<1>. QED
  BY <1>2, <1>3

LEMMA SamePair ==
  ASSUME NEW a, NEW b, NEW c, NEW d, <<a, b>> = <<c, d>>
  PROVE  a = c /\ b = d
OBVIOUS

LEMMA FreeIsNot ==
  ASSUME NEW f \in FreeNames, NEW r \in Repos, NEW b \in Branches
  PROVE  f # <<r, b>>
BY NamesAssumption

\* Sessions are made for owners.
LEMMA NewSessionLeft ==
  ASSUME LInv, IInv', NEW p \in Callers, CreateSession(p) \/ Fork(p)
  PROVE  LInv'
<1>0. TInv
  BY DEF LInv, IInv
<1>1. Leaves(p) /\ OthersSame(p) /\ req'[p].r = None
  BY <1>0, LeavesProceeds DEF CreateSession, Fork, Leaves
<1>2. UNCHANGED <<owners, sandboxes, services, past>> /\ PastGrows
  BY DEF CreateSession, Fork, rows, cluster, PastGrows
<1>3. req[p].pc \in {"create", "fork"} /\ req[p].pc \in Admitted
  BY DEF CreateSession, Fork, At, Admitted
<1>4. ASSUME NEW t \in Tenants, NEW r \in Repos, NEW b \in Branches
      PROVE  /\ HasSession(t, r, b) => HasSession(t, r, b)'
             /\ HasSession(t, r, b)' =>
                  HasSession(t, r, b) \/ (t = req[p].t /\ r = req[p].r)
  <2>. DEFINE x == <<t, <<r, b>>>>
  <2>0. req[p].op # "delFree"
    BY <1>0, <1>3, NotDelFree DEF TInv, Shape, MayBeAt
  <2>1. PICK y : /\ sessions' = sessions \/ sessions' = sessions \cup {y}
                 /\ x = y => t = req[p].t /\ r = req[p].r
    <3>1. CASE req[p].op = "free"
      <4>1. CreateSession(p)
        BY <1>0, <3>1 DEF Fork, At, TInv, Shape, MayBeAt
      <4>2. sessions' = sessions \cup {<<req[p].t, req[p].b>>}
        BY <3>1, <4>1 DEF CreateSession
      <4>3. x # <<req[p].t, req[p].b>>
        BY <1>0, <1>3, <3>1, TargetIs, FreeIsNot, SamePair DEF OnFree
      <4>. QED
        BY <4>2, <4>3
    <3>2. CASE req[p].op # "free"
      <4>1. Target(p) = <<req[p].r, req[p].b>>
        BY <1>0, <1>3, <2>0, <3>2, TargetIs
      <4>. DEFINE y == <<req[p].t, <<req[p].r, req[p].b>>>>
      <4>2. sessions' = sessions \/ sessions' = sessions \cup {y}
        BY <3>2, <4>1 DEF CreateSession, Fork
      <4>3. x = y => t = req[p].t /\ r = req[p].r
        OBVIOUS
      <4>. QED
        BY <4>2, <4>3
    <3>. QED
      BY <3>1, <3>2
  <2>2. (x \in sessions => x \in sessions') /\ (x \in sessions' => x \in sessions \/ x = y)
    BY <2>1
  <2>. QED
    BY <2>1, <2>2 DEF HasSession
<1>5. Gentle(p)
  BY <1>2, <1>4 DEF Gentle, OwnersOf, HasSandbox
<1>6. ASSUME NEW r \in Repos, req[p].r = r, Spared(r) PROVE BelowOK(r)'
  <2>1. BelowOK(r) /\ req[p].t \in OwnersOf(r)
    BY <1>3, <1>6 DEF LInv, WorkOK, AdmitOK
  <2>. QED
    BY <1>2, <1>4, <1>6, <2>1 DEF BelowOK, OwnersOf, HasSandbox
<1>. QED
  BY <1>1, <1>2, <1>5, <1>6, WorkEnds, LeftKept

\* The steps of a deletion before and between its calls.
LEMMA MayDeleteLeft ==
  ASSUME LInv, IInv', NEW p \in Callers, MayDelete(p) \/ MayRemove(p) \/ DeleteGitBranch(p)
  PROVE  LInv'
<1>0. TInv
  BY DEF LInv, IInv
<1>1. Proceeds(p) /\ OthersSame(p)
  BY <1>0, DeletionProceeds DEF Deletion, Proceeds
<1>2. UNCHANGED below /\ PastGrows
  BY DEF MayDelete, MayRemove, DeleteGitBranch, below, rows, cluster, PastGrows
<1>3. /\ req'[p].pc \in {"sandboxes", "sessions", "idle", "next"}
      /\ req'[p].pc = "sandboxes" => req[p].pc \in {"mayDelete", "freeRole"}
  BY <1>0, PcAfter DEF MayDelete, MayRemove, DeleteGitBranch, At
<1>4. req'[p].pc = "sandboxes" /\ req'[p].r # None => req'[p].op # "delRepo"
  BY <1>0, <1>1, <1>3, NotThere DEF Proceeds, TInv, Shape
<1>5. WorkOK(p)'
  <2>. SUFFICES ASSUME NEW r \in Repos, req'[p].r = r
                PROVE  AdmitOK(p, r)' /\ SweepOK(p, r)'
    BY DEF WorkOK
  <2>1. req'[p].op # "delRepo" \/ req'[p].pc # "sandboxes"
    BY <1>4, NamesAssumption
  <2>. QED
    BY <1>3, <2>1 DEF AdmitOK, Admitted, SweepOK, At
<1>. QED
  BY <1>1, <1>2, <1>5, LeftQuiet

LEMMA ListLeft ==
  ASSUME LInv, IInv', NEW p \in Callers, ListSessions(p)
  PROVE  LInv'
<1>0. TInv
  BY DEF LInv, IInv
<1>1. Proceeds(p) /\ OthersSame(p)
  BY <1>0, DeletionProceeds DEF Deletion, Proceeds
<1>2. UNCHANGED below /\ PastGrows
  BY DEF ListSessions, below, rows, cluster, PastGrows
<1>3. /\ req'[p].pc = "cascade" /\ req'[p].r = req[p].r /\ req'[p].t = req[p].t
      /\ req'[p].todo = {s \in {req[p].r} \X Branches : <<req[p].t, s>> \in sessions}
  BY <1>0 DEF ListSessions, TInv, TypeOK, Calls
<1>4. ASSUME NEW r \in Repos, req'[p].r = r PROVE AdmitOK(p, r)' /\ SweepOK(p, r)'
  <2>1. \A b \in Branches : HasSession(req[p].t, r, b) => <<r, b>> \in req'[p].todo
    BY <1>3, <1>4 DEF HasSession
  <2>2. \A b \in Branches : <<req'[p].t, <<r, b>>>> \in sessions' => <<r, b>> \in req'[p].todo
    BY <1>2, <1>3, <2>1 DEF HasSession, below
  <2>. QED
    BY <1>3, <2>2 DEF AdmitOK, Admitted, SweepOK, At, HasSession
<1>5. WorkOK(p)'
  BY <1>4 DEF WorkOK
<1>. QED
  BY <1>1, <1>2, <1>5, LeftQuiet

LEMMA CascadeNextLeft ==
  ASSUME LInv, IInv', NEW p \in Callers, CascadeNext(p)
  PROVE  LInv'
<1>0. TInv
  BY DEF LInv, IInv
<1>1. Proceeds(p) /\ OthersSame(p)
  BY <1>0, DeletionProceeds DEF Deletion, Proceeds
<1>2. UNCHANGED below /\ PastGrows /\ UNCHANGED past
  BY DEF CascadeNext, below, rows, cluster, PastGrows
<1>3. ASSUME NEW r \in Repos, req'[p].r = r, Spared(r)' PROVE AdmitOK(p, r)' /\ SweepOK(p, r)'
  <2>1. req[p].r = r /\ req'[p].t = req[p].t /\ Spared(r)
    BY <1>1, <1>2, <1>3, NamesAssumption DEF Proceeds, Spared
  <2>2. \A b \in Branches : HasSession(req[p].t, r, b) => <<r, b>> \in req[p].todo
    BY <2>1 DEF LInv, WorkOK, SweepOK, CascadeNext, At
  <2>3. \A b \in Branches : <<req'[p].t, <<r, b>>>> \in sessions' => HasSession(req[p].t, r, b)
    BY <1>2, <2>1 DEF HasSession, below
  <2>4. CASE req[p].todo = {} /\ Goto(p, "services")
    <3>1. req'[p].pc = "services"
      BY <1>0, <2>4, PcAfter
    <3>. QED
      BY <2>2, <2>3, <2>4, <3>1 DEF AdmitOK, Admitted, SweepOK, At, HasSession
  <2>5. ASSUME NEW s \in req[p].todo,
               req' = [req EXCEPT ![p].todo = @ \ {s}, ![p].b = s[2], ![p].pc = "sandboxes"]
        PROVE  AdmitOK(p, r)' /\ SweepOK(p, r)'
    <3>1. req'[p].pc = "sandboxes" /\ req'[p].b = s[2] /\ req'[p].todo = req[p].todo \ {s}
      BY <1>0, <2>5 DEF TInv, TypeOK, Calls
    <3>2. \A b \in Branches : <<r, b>> = s => b = s[2]
      OBVIOUS
    <3>3. \A b \in Branches : <<req'[p].t, <<r, b>>>> \in sessions' =>
            <<r, b>> \in req'[p].todo \/ b = req'[p].b
      BY <2>2, <2>3, <3>1, <3>2
    <3>. QED
      BY <3>1, <3>3 DEF AdmitOK, Admitted, SweepOK, At, HasSession
  <2>. QED
    BY <2>4, <2>5 DEF CascadeNext
<1>4. WorkOK(p)'
  BY <1>3 DEF WorkOK
<1>. QED
  BY <1>1, <1>2, <1>4, LeftQuiet

\* The sandboxes of a session go.
LEMMA CascadeSandboxesLeft ==
  ASSUME LInv, IInv', NEW p \in Callers, CascadeSandboxes(p)
  PROVE  LInv'
<1>0. TInv
  BY DEF LInv, IInv
<1>1. Proceeds(p) /\ OthersSame(p)
  BY <1>0, DeletionProceeds DEF Deletion, Proceeds
<1>2. /\ UNCHANGED <<owners, sessions, services, past>> /\ PastGrows
      /\ sandboxes' = sandboxes \ {<<req[p].t, Target(p)>>}
  BY DEF CascadeSandboxes, rows, PastGrows
<1>3. Moves(p, "session")
  BY <1>0, GotoMoves DEF CascadeSandboxes, TInv, PCs
<1>4. ASSUME NEW t \in Tenants, NEW r \in Repos, NEW b \in Branches
      PROVE  /\ HasSandbox(t, r, b)' => HasSandbox(t, r, b)
             /\ HasSandbox(t, r, b) => HasSandbox(t, r, b)' \/ req[p].r = r
             /\ HasSandbox(t, r, b)' => ~(req[p].r = r /\ req[p].t = t /\ req[p].b = b)
  <2>. DEFINE x == <<t, <<r, b>>>>
              y == <<req[p].t, Target(p)>>
  <2>1. x = y => req[p].r = r
    BY <1>0, SamePair, TargetIs, FreeIsNot DEF CascadeSandboxes, At
  <2>2. req[p].r = r /\ req[p].t = t /\ req[p].b = b => x = y
    BY <1>0, TargetIs, NamesAssumption DEF CascadeSandboxes, At
  <2>. HIDE DEF x, y
  <2>3. /\ x \in sandboxes' => x \in sandboxes /\ x # y
        /\ x \in sandboxes => x \in sandboxes' \/ x = y
    BY <1>2 DEF y
  <2>. QED
    BY <2>1, <2>2, <2>3 DEF HasSandbox, x
<1>5. Gentle(p)
  BY <1>2, <1>4 DEF Gentle, OwnersOf, HasSession
<1>6. ASSUME NEW r \in Repos, req[p].r = r, Spared(r) PROVE AdmitOK(p, r)' /\ SweepOK(p, r)'
  <2>1. SweepOK(p, r) /\ At(p, "sandboxes")
    BY <1>6 DEF LInv, WorkOK, CascadeSandboxes
  <2>2. req[p].t \in Tenants /\ req[p].b \in Branches
    BY <1>0, <1>6, <2>1, BelowArgs DEF At
  <2>3. ~HasSandbox(req[p].t, r, req[p].b)'
    <3>. DEFINE x == <<req[p].t, <<r, req[p].b>>>>
    <3>1. Target(p) = <<r, req[p].b>>
      BY <1>0, <1>6, <2>1, TargetIs, NamesAssumption DEF At
    <3>2. x \notin sandboxes'
      BY <1>2, <3>1
    <3>. QED
      BY <1>3, <3>2 DEF HasSandbox, Moves
  <2>4. req[p].op = "delRepo" => \A b \in Branches : HasSession(req[p].t, r, b) =>
          <<r, b>> \in req[p].todo \/ b = req[p].b
    BY <2>1 DEF SweepOK
  <2>5. /\ req'[p].t = req[p].t /\ req'[p].b = req[p].b /\ req'[p].op = req[p].op
        /\ req'[p].todo = req[p].todo /\ req'[p].pc = "session"
    BY <1>3 DEF Moves
  <2>6. AdmitOK(p, r)'
    BY <2>5 DEF AdmitOK, Admitted
  <2>7. SweepOK(p, r)'
    BY <1>2, <2>3, <2>4, <2>5 DEF SweepOK, At, HasSandbox, HasSession
  <2>. QED
    BY <2>6, <2>7
<1>7. WorkOK(p)'
  BY <1>2, <1>3, <1>6 DEF WorkOK, Moves, Spared
<1>8. \A r \in Repos : BelowOK(r) /\ Spared(r) => BelowOK(r)'
  BY <1>2, <1>4 DEF BelowOK, OwnersOf, HasSession
<1>. QED
  BY <1>1, <1>2, <1>5, <1>7, <1>8, LeftKept DEF LInv

\* The session goes: it has no sandbox.
LEMMA CascadeSessionLeft ==
  ASSUME LInv, IInv', NEW p \in Callers, CascadeSession(p)
  PROVE  LInv'
<1>0. TInv
  BY DEF LInv, IInv
<1>1. Proceeds(p) /\ OthersSame(p)
  BY <1>0, DeletionProceeds DEF Deletion, Proceeds
<1>2. /\ UNCHANGED <<owners, sandboxes, services, past>> /\ PastGrows /\ At(p, "session")
      /\ sessions' = sessions \ {<<req[p].t, Target(p)>>}
  BY DEF CascadeSession, cluster, PastGrows
<1>3. \/ req[p].op = "delRepo" /\ Moves(p, "cascade")
      \/ Moves(p, "gitBranch")
      \/ req'[p].r = None
  <2>1. \/ req[p].op = "delRepo" /\ Goto(p, "cascade")
        \/ Goto(p, "gitBranch")
        \/ Return(p)
    BY DEF CascadeSession
  <2>. QED
    BY <1>0, <2>1, GotoMoves, LeavesProceeds DEF TInv, PCs, Leaves
<1>4. ASSUME NEW t \in Tenants, NEW r \in Repos, NEW b \in Branches
      PROVE  /\ HasSession(t, r, b)' => HasSession(t, r, b)
             /\ HasSession(t, r, b) =>
                  HasSession(t, r, b)' \/ (req[p].r = r /\ req[p].t = t /\ req[p].b = b)
             /\ HasSession(t, r, b)' => ~(req[p].r = r /\ req[p].t = t /\ req[p].b = b)
  <2>. DEFINE x == <<t, <<r, b>>>>
              y == <<req[p].t, Target(p)>>
  <2>1. x = y => req[p].r = r /\ req[p].t = t /\ req[p].b = b
    BY <1>0, <1>2, SamePair, TargetIs, FreeIsNot DEF At
  <2>2. req[p].r = r /\ req[p].t = t /\ req[p].b = b => x = y
    BY <1>0, <1>2, TargetIs, NamesAssumption DEF At
  <2>. HIDE DEF x, y
  <2>3. /\ x \in sessions' => x \in sessions /\ x # y
        /\ x \in sessions => x \in sessions' \/ x = y
    BY <1>2 DEF y
  <2>. QED
    BY <2>1, <2>2, <2>3 DEF HasSession, x
<1>5. Gentle(p)
  BY <1>2, <1>4 DEF Gentle, OwnersOf, HasSandbox
<1>6. ASSUME NEW r \in Repos, req[p].r = r, Spared(r), req'[p].r = r
      PROVE  AdmitOK(p, r)' /\ SweepOK(p, r)'
  <2>1. SweepOK(p, r) /\ req[p].t \in Tenants /\ req[p].b \in Branches
    BY <1>0, <1>2, <1>6, BelowArgs DEF LInv, WorkOK, At
  <2>2. CASE Moves(p, "gitBranch")
    BY <2>2 DEF Moves, AdmitOK, Admitted, SweepOK, At
  <2>3. CASE req[p].op = "delRepo" /\ Moves(p, "cascade")
    <3>1. \A b \in Branches : HasSession(req[p].t, r, b) =>
            <<r, b>> \in req[p].todo \/ b = req[p].b
      BY <1>2, <2>1, <2>3 DEF SweepOK
    <3>2. \A b \in Branches : <<req'[p].t, <<r, b>>>> \in sessions' => <<r, b>> \in req'[p].todo
      BY <1>4, <1>6, <2>1, <2>3, <3>1 DEF Moves, HasSession
    <3>. QED
      BY <2>3, <3>2 DEF Moves, AdmitOK, Admitted, SweepOK, At, HasSession
  <2>. QED
    BY <1>3, <1>6, <2>2, <2>3, NamesAssumption
<1>7. WorkOK(p)'
  BY <1>1, <1>2, <1>6, NamesAssumption DEF WorkOK, Proceeds, Spared
<1>8. ASSUME NEW r \in Repos, req[p].r = r, Spared(r) PROVE BelowOK(r)'
  <2>1. BelowOK(r) /\ SweepOK(p, r)
    BY <1>8 DEF LInv, WorkOK
  <2>2. ~HasSandbox(req[p].t, r, req[p].b)
    BY <1>2, <2>1 DEF SweepOK
  <2>. QED
    BY <1>2, <1>4, <1>8, <2>1, <2>2 DEF BelowOK, OwnersOf, HasSandbox
<1>. QED
  BY <1>1, <1>2, <1>5, <1>7, <1>8, LeftKept

\* The end of DeleteRepo.
LEMMA DeleteServicesLeft ==
  ASSUME LInv, IInv', NEW p \in Callers, DeleteServices(p)
  PROVE  LInv'
<1>0. TInv
  BY DEF LInv, IInv
<1>1. Moves(p, "gitRepo") /\ OthersSame(p)
  BY <1>0, GotoMoves DEF DeleteServices, TInv, PCs, Moves
<1>2. /\ UNCHANGED <<owners, sessions, sandboxes, past>> /\ PastGrows /\ At(p, "services")
      /\ services' = services \ {req[p].r}
  BY DEF DeleteServices, rows, PastGrows
<1>3. Gentle(p)
  BY <1>2 DEF Gentle, OwnersOf, HasSession, HasSandbox
<1>4. ASSUME NEW r \in Repos, req[p].r = r, Spared(r) PROVE AdmitOK(p, r)' /\ SweepOK(p, r)'
  <2>1. \A b \in Branches : ~HasSession(req[p].t, r, b)
    BY <1>2, <1>4 DEF LInv, WorkOK, SweepOK, At
  <2>. QED
    BY <1>1, <1>2, <1>4, <2>1 DEF Moves, AdmitOK, Admitted, SweepOK, At, HasSession
<1>5. WorkOK(p)'
  BY <1>1, <1>2, <1>4 DEF WorkOK, Moves, Spared
<1>6. \A r \in Repos : BelowOK(r) /\ Spared(r) => BelowOK(r)'
  BY <1>2 DEF BelowOK, OwnersOf, HasSession, HasSandbox
<1>. QED
  BY <1>1, <1>2, <1>3, <1>5, <1>6, LeftKept DEF LInv

LEMMA DeleteGitRepoLeft ==
  ASSUME LInv, IInv', NEW p \in Callers, DeleteGitRepo(p)
  PROVE  LInv'
<1>0. TInv
  BY DEF LInv, IInv
<1>1. Moves(p, "dropRow") /\ OthersSame(p)
  BY <1>0, GotoMoves DEF DeleteGitRepo, TInv, PCs, Moves
<1>2. UNCHANGED <<below, past>> /\ PastGrows /\ At(p, "gitRepo")
  BY DEF DeleteGitRepo, below, rows, cluster, PastGrows
<1>3. ASSUME NEW r \in Repos, req[p].r = r, Spared(r) PROVE AdmitOK(p, r)' /\ SweepOK(p, r)'
  <2>1. SweepOK(p, r)
    BY <1>3 DEF LInv, WorkOK
  <2>. QED
    BY <1>1, <1>2, <2>1
    DEF Moves, AdmitOK, Admitted, SweepOK, At, HasSession, HasSandbox, below, OwnersOf
<1>4. WorkOK(p)'
  BY <1>1, <1>2, <1>3 DEF WorkOK, Moves, Spared
<1>. QED
  BY <1>1, <1>2, <1>4, LeftQuiet

LEMMA RemoveRepoLeft ==
  ASSUME LInv, IInv', NEW p \in Callers, RemoveRepo(p)
  PROVE  LInv'
<1>0. TInv
  BY DEF LInv, IInv
<1>1. req'[p].r = None /\ OthersSame(p)
  BY <1>0, LeavesProceeds DEF RemoveRepo, Leaves
<1>2. /\ UNCHANGED <<sessions, sandboxes, services, past>> /\ PastGrows /\ At(p, "dropRow")
      /\ owners' = owners \ {<<req[p].t, req[p].r>>}
  BY DEF RemoveRepo, cluster, PastGrows
<1>3. req[p].op = "delRepo"
  BY <1>0, <1>2, BelowArgs DEF At
<1>4. ASSUME NEW r \in Repos
      PROVE  OwnersOf(r)' = IF req[p].r = r THEN OwnersOf(r) \ {req[p].t} ELSE OwnersOf(r)
  BY <1>2 DEF OwnersOf
<1>5. Gentle(p)
  BY <1>2, <1>3, <1>4 DEF Gentle, HasSession, HasSandbox, Removing
<1>6. ASSUME NEW r \in Repos, req[p].r = r, Spared(r) PROVE BelowOK(r)'
  <2>1. BelowOK(r) /\ SweepOK(p, r)
    BY <1>6 DEF LInv, WorkOK
  <2>2. \A b \in Branches : ~HasSession(req[p].t, r, b)
    BY <1>2, <2>1 DEF SweepOK, At
  <2>3. r \in services => OwnersOf(r) \ {req[p].t} # {}
    BY <1>2, <2>1 DEF SweepOK, At
  <2>. QED
    BY <1>2, <1>4, <1>6, <2>1, <2>2, <2>3 DEF BelowOK, HasSession, HasSandbox
<1>. QED
  BY <1>1, <1>2, <1>5, <1>6, WorkEnds, LeftKept

LEMMA DeletionLeft ==
  ASSUME LInv, IInv', NEW p \in Callers, Deletion(p)
  PROVE  LInv'
BY MayDeleteLeft, CascadeSandboxesLeft, CascadeSessionLeft, ListLeft, CascadeNextLeft,
   DeleteServicesLeft, DeleteGitRepoLeft, RemoveRepoLeft DEF Deletion

LEMMA BeginLeft ==
  ASSUME LInv, IInv', NEW p \in Callers, NEW c, Begins(p, c), UNCHANGED below
  PROVE  LInv'
<1>1. req'[p] = c /\ OthersSame(p)
  BY DEF Begins, OthersSame, LInv, IInv, TInv, TypeOK
<1>2. PastGrows
  BY DEF Begins, Begin, Marked, PastGrows, LInv, IInv, TInv, TypeOK
<1>3. c.pc \notin Admitted \cup SweepSteps
  BY DEF Begins, ClaimSteps, ImportSteps, RemoveSteps, SweepSteps
<1>4. WorkOK(p)'
  BY <1>1, <1>3 DEF WorkOK, AdmitOK, SweepOK, SweepSteps, At
<1>. QED
  BY <1>1, <1>2, <1>4, LeftQuiet

LEMMA ReconcileLeft ==
  ASSUME LInv, IInv', NEW p \in Callers, Reconcile(p)
  PROVE  LInv'
<1>0. TInv
  BY DEF LInv, IInv
<1>1. UNCHANGED below
  BY DEF Reconcile, ReconcileStart, ReconcileList, ReconcileNext, below, rows, cluster
<1>2. req[p].r = None
  BY <1>0, NoneAssumption, OpsAre
  DEF Reconcile, ReconcileStart, ReconcileList, ReconcileNext, At, Between, Callers,
    EnsureSteps, ClaimSteps, ImportSteps, RemoveSteps, TInv, TypeOK, Calls, Shape,
    MayBeAt, ShapeArgs
<1>3. UNCHANGED past \/ ReconcileNext(p)
  BY DEF Reconcile, ReconcileStart, ReconcileList
<1>4. (Proceeds(p) /\ UNCHANGED past) \/ \E c : Begins(p, c)
  BY <1>0, <1>3, ReconcileStartProceeds, ReconcileListProceeds, ReconcileNextBegins
  DEF Reconcile
<1>5. CASE Proceeds(p) /\ UNCHANGED past
  <2>1. OthersSame(p) /\ PastGrows /\ req'[p].r = None
    BY <1>2, <1>5 DEF Proceeds, PastGrows
  <2>. QED
    BY <1>1, <2>1, WorkEnds, LeftQuiet
<1>. QED
  BY <1>1, <1>4, <1>5, BeginLeft

\* A cut request counts on nothing any more, and an ignored error spoils r.
LEMMA InterruptLeft ==
  ASSUME LInv, IInv', NEW p \in Callers, Interrupt(p)
  PROVE  LInv'
<1>1. req'[p].r = None /\ OthersSame(p)
  BY LeavesProceeds DEF Interrupt, Leaves, LInv, IInv
<1>2. UNCHANGED below
  BY DEF Interrupt, below, rows, cluster
<1>3. PastGrows
  BY DEF Interrupt, Marked, PastGrows, LInv, IInv, TInv, TypeOK
<1>. QED
  BY <1>1, <1>2, <1>3, WorkEnds, LeftQuiet

LEMMA IgnoredLeft ==
  ASSUME LInv, IInv', NEW p \in Callers, IgnoredError(p)
  PROVE  LInv'
<1>1. Proceeds(p) /\ OthersSame(p)
  BY IgnoredProceeds DEF Proceeds, LInv, IInv
<1>2. UNCHANGED below
  BY DEF IgnoredError, below, rows, cluster
<1>3. ASSUME NEW r \in Repos, req[p].r = r PROVE "skipped" \in past'[r]
  BY <1>3, NamesAssumption DEF IgnoredError, Marked, LInv, IInv, TInv, TypeOK
<1>4. PastGrows
  BY DEF IgnoredError, Marked, PastGrows, LInv, IInv, TInv, TypeOK
<1>5. WorkOK(p)'
  BY <1>1, <1>3, NamesAssumption DEF WorkOK, Proceeds, Spared
<1>. QED
  BY <1>1, <1>2, <1>4, <1>5, LeftQuiet

\* A sandbox that appears has its session, and no cascade is past its list; a
\* service has the session's owner, and DeleteRepo is not past the sessions.
LEMMA SandboxLeft ==
  ASSUME LInv, IInv', NEW t \in Tenants, NEW s \in AgentSessions, SandboxAppears(t, s)
  PROVE  LInv'
<1>1. /\ UNCHANGED <<owners, sessions, services, req>>
      /\ <<t, s>> \in sessions /\ sandboxes' = sandboxes \cup {<<t, s>>}
  BY DEF SandboxAppears, rows
<1>2. PastGrows
  BY DEF SandboxAppears, Marked, PastGrows, LInv, IInv, TInv, TypeOK, BranchSessions
<1>3. ASSUME NEW u \in Tenants, NEW r \in Repos, NEW b \in Branches
      PROVE  HasSandbox(u, r, b)' => HasSandbox(u, r, b) \/ (u = t /\ s = <<r, b>>)
  BY <1>1 DEF HasSandbox
<1>4. ASSUME NEW r \in Repos PROVE BelowOK(r)'
  <2>1. BelowOK(r)
    BY DEF LInv
  <2>. QED
    BY <1>1, <1>2, <1>3, <2>1, SparedBefore DEF BelowOK, OwnersOf, HasSession
<1>5. ASSUME NEW q \in Callers, NEW r \in Repos, req[q].r = r, Spared(r)'
      PROVE  AdmitOK(q, r)' /\ SweepOK(q, r)'
  <2>1. AdmitOK(q, r) /\ SweepOK(q, r)
    BY <1>2, <1>5, SparedBefore DEF LInv, WorkOK
  <2>2. ASSUME At(q, "session") PROVE ~HasSandbox(req[q].t, r, req[q].b)'
    <3>1. /\ req[q].t \in Tenants /\ req[q].b \in Branches
          /\ Target(q) = <<r, req[q].b>>
      BY <1>5, <2>2, BelowArgs, TargetIs, NamesAssumption DEF At, LInv, IInv
    <3>2. ~(req[q].t = t /\ s = <<r, req[q].b>>)
      <4>. SUFFICES ASSUME req[q].t = t, s = <<r, req[q].b>> PROVE FALSE
        OBVIOUS
      <4>1. Passed(t, s)
        BY <2>2, <3>1 DEF Passed
      <4>2. s \in BranchSessions /\ s[1] = r
        BY <3>1 DEF BranchSessions
      <4>3. "late" \in past'[r]
        BY <4>1, <4>2 DEF SandboxAppears, Marked, LInv, IInv, TInv, TypeOK
      <4>. QED
        BY <1>5, <4>3 DEF Spared
    <3>3. ~HasSandbox(req[q].t, r, req[q].b)
      BY <2>1, <2>2 DEF SweepOK
    <3>. QED
      BY <1>1, <1>3, <3>1, <3>2, <3>3 DEF HasSandbox
  <2>3. AdmitOK(q, r)'
    BY <1>1, <2>1 DEF AdmitOK, OwnersOf
  <2>4. SweepOK(q, r)'
    BY <1>1, <2>1, <2>2 DEF SweepOK, At, HasSession, HasSandbox, OwnersOf
  <2>. QED
    BY <2>3, <2>4
<1>. QED
  BY <1>1, <1>4, <1>5 DEF LInv, WorkOK

LEMMA ServiceLeft ==
  ASSUME LInv, IInv', NEW t \in Tenants, NEW s \in BranchSessions, ServiceAppears(t, s)
  PROVE  LInv'
<1>1. /\ UNCHANGED <<owners, sessions, sandboxes, req, past>>
      /\ <<t, s>> \in sessions /\ services' = services \cup {s[1]}
  BY DEF ServiceAppears, rows
<1>2. PICK r0 \in Repos, b0 \in Branches : s = <<r0, b0>>
  BY DEF BranchSessions
<1>3. HasSession(t, r0, b0) /\ s[1] = r0
  BY <1>1, <1>2 DEF HasSession
<1>4. Spared(r0) => t \in OwnersOf(r0)
  BY <1>3 DEF LInv, BelowOK
<1>5. ASSUME NEW r \in Repos PROVE BelowOK(r)'
  <2>1. BelowOK(r)
    BY DEF LInv
  <2>. QED
    BY <1>1, <1>3, <1>4, <2>1 DEF BelowOK, OwnersOf, HasSession, HasSandbox, Spared
<1>6. ASSUME NEW q \in Callers, NEW r \in Repos, req[q].r = r, Spared(r)
      PROVE  AdmitOK(q, r)' /\ SweepOK(q, r)'
  <2>1. AdmitOK(q, r) /\ SweepOK(q, r)
    BY <1>6 DEF LInv, WorkOK
  <2>2. req[q].pc \in {"gitRepo", "dropRow"} /\ OwnersOf(r) \subseteq {req[q].t} =>
          r \notin services'
    <3>. SUFFICES ASSUME req[q].pc \in {"gitRepo", "dropRow"}, OwnersOf(r) \subseteq {req[q].t},
                         r \in services'
                  PROVE  FALSE
      OBVIOUS
    <3>1. r = r0
      BY <1>1, <1>3, <2>1 DEF SweepOK
    <3>2. req[q].t = t
      BY <1>4, <1>6, <3>1
    <3>. QED
      BY <1>3, <2>1, <3>1, <3>2 DEF SweepOK
  <2>. QED
    BY <1>1, <2>1, <2>2 DEF AdmitOK, SweepOK, At, HasSession, HasSandbox, OwnersOf
<1>. QED
  BY <1>1, <1>5, <1>6 DEF LInv, WorkOK, Spared

LEMMA LInvInit == Init => LInv
<1>. SUFFICES ASSUME Init PROVE LInv
  OBVIOUS
<1>1. \A p \in Callers : req[p].r = None
  BY DEF Init, Idle
<1>2. \A p \in Callers : WorkOK(p)
  BY <1>1, NamesAssumption DEF WorkOK
<1>3. \A r \in Repos : BelowOK(r)
  BY DEF Init, BelowOK, HasSession, HasSandbox
<1>. QED
  BY <1>2, <1>3, IInvInit DEF LInv

LEMMA LInvStep == LInv /\ [Next]_vars => LInv'
<1>. SUFFICES ASSUME LInv, [Next]_vars PROVE LInv'
  OBVIOUS
<1>. IInv /\ IInv'
  BY IInvStep DEF LInv
<1>1. ASSUME NEW p \in Requests, ReceiveCall(p) PROVE LInv'
  <2>1. UNCHANGED below
    BY <1>1 DEF ReceiveCall, Receive, below, rows, cluster
  <2>. QED
    BY <1>1, <2>1, ReceiveCallBegins, BeginLeft DEF IInv, Callers
<1>2. ASSUME NEW p \in Callers, Step(p) PROVE LInv'
  BY <1>2, ClaimLeft, AddRepoLeft, ImportLeft, SessioningLeft, NewSessionLeft,
     DeletionLeft, ReconcileLeft DEF Step
<1>3. CASE UNCHANGED vars
  <2>1. UNCHANGED <<below, req, past>>
    BY <1>3 DEF vars, below, rows, cluster
  <2>. QED
    BY <2>1 DEF LInv, WorkOK, AdmitOK, SweepOK, BelowOK, Spared, HasSession, HasSandbox,
      OwnersOf, At, below
<1>. QED
  BY <1>1, <1>2, <1>3, InterruptLeft, IgnoredLeft, SandboxLeft, ServiceLeft DEF Next

\* DeleteRepo takes everything below its repository with it: at no moment has a
\* tenant that does not own the repository a session or a sandbox of it.
THEOREM NothingLeftAlways == Spec => []NothingLeft
<1>1. LInv => NothingLeft
  BY DEF LInv, BelowOK, Spared, HasSession, HasSandbox, NothingLeft
<1>. QED
  BY <1>1, LInvInit, LInvStep, PTL DEF Spec
=============================================================================

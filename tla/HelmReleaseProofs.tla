--------------------------- MODULE HelmReleaseProofs ---------------------------
(* Proofs about HelmRelease, for any callers, charts, objects and bounds.   *)
EXTENDS HelmRelease, FiniteSetTheorems, WellFoundedInduction, TLAPS

-----------------------------------------------------------------------------
(* Types, whoever runs at once and whatever fails.                         *)

Reading == {"migrate", "migrateHead", "migrateList", "migratePrune", "load"}

\* What a request knows of its own work, by the call it makes next.
AskedBy(r) ==
  /\ (pc[r] = "idle" => op[r] = NoOp)
  /\ (op[r].kind = "deploy" => op[r].chart # None)
  /\ (pc[r] \in Reading => cur[r].rev # 0)
  /\ (pc[r] \in {"migrate", "migratePrune", "prune"} => left[r] \subseteq Revisions)
  /\ (pc[r] \in {"apply", "objects"} => left[r] \subseteq Objects)
  /\ (pc[r] \in {"apply", "revision", "head"} => op[r].chart # None)
  /\ (pc[r] \in {"head", "pruneList", "prune"} => New(r) \in Revisions)

Asked == \A r \in Requests : AskedBy(r)

TInv == TypeOK /\ Asked

\* A step of one request leaves the others where they are.
Others(r) ==
  \A q \in Requests \ {r} :
    pc'[q] = pc[q] /\ op'[q] = op[q] /\ cur'[q] = cur[q] /\ left'[q] = left[q]

Step(r) ==
  \/ Begin(r) \/ Get(r) \/ ApplyObject(r) \/ RecordRevision(r)
  \/ Uninstall(r) \/ Abandon(r)

LEMMA Constants ==
  /\ NoHistory \in Histories
  /\ NoRelease \in Releases
  /\ NoOp \in Ops
  /\ Revisions \subseteq Nat \ {0}
<1>1. MaxRevision \in Nat
  BY BoundsAssumption
<1>. QED
  BY <1>1 DEF NoHistory, NoRelease, NoOp, Histories, Releases, Ops, Kinds, Revisions

\* The other requests keep what they know; the step has to show its own.
LEMMA Frame ==
  ASSUME TInv, NEW r \in Requests, Others(r), TypeOK', AskedBy(r)'
  PROVE  TInv'
<1>1. ASSUME NEW q \in Requests, q # r PROVE AskedBy(q)'
  BY <1>1 DEF TInv, Asked, AskedBy, Others, New
<1>. QED
  BY <1>1 DEF TInv, Asked

LEMMA ReturnTyped ==
  ASSUME TInv, NEW r \in Requests, Return(r),
         head' \in Heads \cup {None}, body' \in Histories,
         live' \in [Objects -> Charts \cup {None}]
  PROVE  TInv' /\ Others(r)
<1>1. TypeOK' /\ Others(r)
  BY Constants DEF TInv, TypeOK, Return, Goto, Others, PCs
<1>2. AskedBy(r)'
  BY DEF TInv, TypeOK, Return, Goto, AskedBy, NoOp, Reading
<1>. QED
  BY <1>1, <1>2, Frame

\* What a release embeds or stores, revision by revision.
LEMMA HistoriesTyped ==
  /\ \A h \in Histories, n \in Revisions, c \in Charts \cup {None} :
       [h EXCEPT ![n] = c] \in Histories
  /\ \A h \in Histories, n \in Revisions : h[n] \in Charts \cup {None}
  /\ \A h \in Histories : Stored(h) \subseteq Revisions
  /\ \A n \in Revisions, h \in Histories :
       /\ [rev |-> n, old |-> h] \in Heads
       /\ [rev |-> n, hist |-> h] \in Releases
<1>. QED
  BY DEF Histories, Stored, Heads, Releases

-----------------------------------------------------------------------------
LEMMA TypedBegin ==
  ASSUME TInv, NEW r \in Requests, Begin(r)
  PROVE  TInv' /\ Others(r)
<1>1. TypeOK' /\ Others(r)
  BY DEF TInv, TypeOK, Begin, Goto, Others, PCs, store
<1>2. AskedBy(r)'
  BY DEF TInv, TypeOK, Begin, Goto, AskedBy, Ops, Reading
<1>. QED
  BY <1>1, <1>2, Frame

LEMMA TypedGetNothing ==
  ASSUME TInv, NEW r \in Requests, GetNothing(r)
  PROVE  TInv' /\ Others(r)
<1>1. CASE Return(r)
  BY <1>1, ReturnTyped DEF TInv, TypeOK, GetNothing, store
<1>2. ASSUME op[r].kind = "deploy"
      PROVE  op[r].chart \in Charts /\ ObjectsOf[op[r].chart] \subseteq Objects
  BY <1>2, ChartsAssumption DEF TInv, TypeOK, Asked, AskedBy, Ops
<1>3. ASSUME op[r].kind = "deploy", op[r].reads = 0, ~Return(r)
      PROVE  TInv' /\ Others(r)
  <2>1. /\ Goto(r, "apply")
        /\ op' = [op EXCEPT ![r].reads = 1]
        /\ left' = [left EXCEPT ![r] = ObjectsOf[op[r].chart]]
        /\ UNCHANGED <<cur, store>>
    BY <1>3 DEF GetNothing
  <2>2. [op[r] EXCEPT !.reads = 1] \in Ops
    BY DEF TInv, TypeOK, Ops
  <2>3. op' = [op EXCEPT ![r] = [op[r] EXCEPT !.reads = 1]]
    BY <2>1
  <2>4. TypeOK' /\ Others(r)
    BY <1>2, <1>3, <2>1, <2>2, <2>3 DEF TInv, TypeOK, Goto, Others, PCs, store
  <2>5. op'[r].chart = op[r].chart /\ op'[r].kind = op[r].kind
    BY <2>2, <2>3 DEF TInv, TypeOK, Ops
  <2>6. AskedBy(r)'
    BY <1>2, <1>3, <2>1, <2>5, NoneAssumption DEF TInv, TypeOK, Goto, AskedBy, Reading
  <2>. QED
    BY <2>4, <2>6, Frame
<1>4. ASSUME op[r].kind = "deploy", op[r].reads # 0, ~Return(r)
      PROVE  TInv' /\ Others(r)
  <2>1. /\ Goto(r, "revision")
        /\ cur' = [cur EXCEPT ![r] = NoRelease]
        /\ UNCHANGED <<op, left, store>>
    BY <1>4 DEF GetNothing
  <2>2. TypeOK' /\ Others(r)
    BY <2>1, Constants DEF TInv, TypeOK, Goto, Others, PCs, store
  <2>3. AskedBy(r)'
    BY <1>2, <1>4, <2>1, NoneAssumption DEF TInv, TypeOK, Goto, AskedBy, Reading
  <2>. QED
    BY <2>2, <2>3, Frame
<1>. QED
  BY <1>1, <1>3, <1>4 DEF GetNothing

LEMMA TypedGetHead ==
  ASSUME TInv, NEW r \in Requests, GetHead(r)
  PROVE  TInv' /\ Others(r)
<1>1. head \in Heads /\ head.rev \in Revisions /\ head.old \in Histories
  BY DEF TInv, TypeOK, GetHead, Heads
<1>2. [rev |-> head.rev, hist |-> head.old] \in Releases /\ Stored(head.old) \subseteq Revisions
  BY <1>1, HistoriesTyped
<1>3. TypeOK' /\ Others(r)
  BY <1>2 DEF TInv, TypeOK, GetHead, Goto, Others, PCs, store
<1>4. AskedBy(r)'
  BY <1>1, <1>2, Constants DEF TInv, TypeOK, Asked, AskedBy, GetHead, Goto, Reading
<1>. QED
  BY <1>3, <1>4, Frame

LEMMA TypedMigrate ==
  ASSUME TInv, NEW r \in Requests, Migrate(r) \/ MigrateHead(r)
  PROVE  TInv' /\ Others(r)
<1>1. /\ pc[r] \in {"migrate", "migrateHead"}
      /\ cur[r].rev \in Revisions /\ cur[r].hist \in Histories
  BY DEF TInv, TypeOK, Asked, AskedBy, Releases, Migrate, MigrateHead, Reading
<1>2. body' \in Histories
  <2>1. ASSUME Migrate(r) PROVE left[r] \subseteq Revisions
    BY <2>1 DEF TInv, Asked, AskedBy, Migrate
  <2>. QED
    BY <1>1, <2>1, HistoriesTyped DEF TInv, TypeOK, Migrate, MigrateHead
<1>3. head' \in Heads \cup {None}
  <2>1. [rev |-> cur[r].rev, old |-> NoHistory] \in Heads
    BY <1>1, Constants DEF Heads
  <2>. QED
    BY <2>1 DEF TInv, TypeOK, Migrate, MigrateHead
<1>4. /\ pc' = [pc EXCEPT ![r] = pc'[r]]
      /\ pc'[r] \in {"migrate", "migrateHead", "migrateList", "load"}
      /\ left' = [left EXCEPT ![r] = left'[r]] /\ left'[r] \subseteq left[r]
      /\ UNCHANGED <<op, cur, live>>
  BY DEF TInv, TypeOK, Migrate, MigrateHead, LoopTo, Goto
<1>5. TypeOK' /\ Others(r)
  BY <1>2, <1>3, <1>4 DEF TInv, TypeOK, Others, PCs
<1>6. pc'[r] = "migrate" => pc[r] = "migrate"
  BY DEF TInv, TypeOK, Migrate, MigrateHead, LoopTo, Goto
<1>7. AskedBy(r)'
  BY <1>1, <1>4, <1>6 DEF TInv, Asked, AskedBy, Reading
<1>. QED
  BY <1>5, <1>7, Frame

LEMMA TypedMigratePrune ==
  ASSUME TInv, NEW r \in Requests, MigrateList(r) \/ MigratePrune(r)
  PROVE  TInv' /\ Others(r)
<1>1. pc[r] \in {"migrateList", "migratePrune"}
  BY DEF MigrateList, MigratePrune
<1>2. body' \in Histories
  <2>1. ASSUME MigratePrune(r) PROVE left[r] \subseteq Revisions
    BY <2>1 DEF TInv, Asked, AskedBy, MigratePrune
  <2>. QED
    BY <2>1, HistoriesTyped DEF TInv, TypeOK, MigrateList, MigratePrune, store
<1>3. Stored(body) \subseteq Revisions
  BY DEF Stored
<1>4. /\ pc' = [pc EXCEPT ![r] = pc'[r]]
      /\ pc'[r] \in {"migratePrune", "load"}
      /\ left' = [left EXCEPT ![r] = left'[r]]
      /\ left'[r] \subseteq left[r] \cup Stored(body)
      /\ UNCHANGED <<op, cur, live, head>>
  BY DEF TInv, TypeOK, MigrateList, MigratePrune, ListPruned, LoopTo, Goto, store
<1>5. TypeOK' /\ Others(r)
  BY <1>2, <1>3, <1>4 DEF TInv, TypeOK, Others, PCs
<1>6. pc'[r] = "migratePrune" => left'[r] \subseteq Revisions
  BY <1>3 DEF TInv, TypeOK, Asked, AskedBy, MigrateList, MigratePrune, ListPruned, LoopTo, Goto
<1>7. AskedBy(r)'
  BY <1>1, <1>4, <1>6 DEF TInv, Asked, AskedBy, Reading
<1>. QED
  BY <1>5, <1>7, Frame

LEMMA TypedLoadFirst ==
  ASSUME TInv, NEW r \in Requests, LoadFirst(r)
  PROVE  TInv' /\ Others(r)
<1>1. CASE Return(r)
  BY <1>1, ReturnTyped DEF TInv, TypeOK, LoadFirst, store
<1>2. ASSUME FirstRead(r), UNCHANGED cur
      PROVE  TInv' /\ Others(r)
  <2>. DEFINE to == IF op[r].to = 0 /\ op[r].kind = "rollback"
                    THEN cur[r].rev - 1 ELSE op[r].to
              new == [kind |-> op[r].kind, chart |-> op[r].chart, reads |-> 1,
                      to |-> IF op[r].kind = "deploy" THEN op[r].to ELSE to]
  <2>1. cur[r].rev \in Revisions /\ pc[r] = "load"
    BY DEF TInv, TypeOK, Asked, AskedBy, Releases, LoadFirst, Reading
  <2>2. to \in Revisions \cup {0}
    BY <2>1, BoundsAssumption DEF TInv, TypeOK, Ops, Revisions
  <2>3. new \in Ops /\ new.kind = op[r].kind /\ new.chart = op[r].chart
    BY <2>2 DEF TInv, TypeOK, Ops
  <2>4. op' = [op EXCEPT ![r] = new]
    BY <1>2, <2>1 DEF TInv, TypeOK, Ops, FirstRead
  <2>5. op[r].kind = "deploy" => op[r].chart \in Charts /\ ObjectsOf[op[r].chart] \subseteq Objects
    BY ChartsAssumption DEF TInv, TypeOK, Asked, AskedBy, Ops
  <2>6. TypeOK' /\ Others(r)
    BY <1>2, <2>3, <2>4, <2>5 DEF TInv, TypeOK, LoadFirst, FirstRead, Goto, Others, PCs, store
  <2>7. AskedBy(r)'
    BY <1>2, <2>3, <2>4, <2>5 DEF TInv, TypeOK, Asked, AskedBy, FirstRead, Goto, Reading
  <2>. QED
    BY <2>6, <2>7, Frame
<1>. QED
  BY <1>1, <1>2 DEF LoadFirst

LEMMA TypedLoad ==
  ASSUME TInv, NEW r \in Requests, LoadDeploy(r) \/ LoadUninstall(r)
  PROVE  TInv' /\ Others(r)
<1>1. /\ pc[r] = "load" /\ op[r].kind \in {"deploy", "uninstall"}
      /\ cur' = [cur EXCEPT ![r].hist = body]
      /\ UNCHANGED <<store, op>>
  BY DEF LoadDeploy, LoadUninstall
<1>2. [cur[r] EXCEPT !.hist = body] \in Releases /\ cur[r].rev \in Revisions
  BY <1>1 DEF TInv, TypeOK, Asked, AskedBy, Releases, Reading
<1>3. cur' = [cur EXCEPT ![r] = [cur[r] EXCEPT !.hist = body]] /\ cur'[r].rev = cur[r].rev
  BY <1>1, <1>2 DEF TInv, TypeOK, Releases
<1>4. \A n \in Stored(body) : ObjectsOf[body[n]] \subseteq Objects
  BY HistoriesTyped, ChartsAssumption DEF TInv, TypeOK, Stored
<1>5. /\ pc' = [pc EXCEPT ![r] = pc'[r]]
      /\ pc'[r] \in {"revision", "objects", "wipeList"}
      /\ left' = [left EXCEPT ![r] = left'[r]]
      /\ pc'[r] = "revision" => op[r].kind = "deploy"
      /\ left'[r] \subseteq left[r] \cup Objects
      /\ pc'[r] = "objects" => left'[r] \subseteq Objects
  BY <1>4 DEF TInv, TypeOK, LoadDeploy, LoadUninstall, Goto
<1>6. TypeOK' /\ Others(r)
  BY <1>1, <1>2, <1>3, <1>5 DEF TInv, TypeOK, Others, PCs, store
<1>7. AskedBy(r)'
  BY <1>1, <1>3, <1>5 DEF TInv, Asked, AskedBy, Reading
<1>. QED
  BY <1>6, <1>7, Frame

LEMMA TypedLoadRollback ==
  ASSUME TInv, NEW r \in Requests, LoadRollback(r)
  PROVE  TInv' /\ Others(r)
<1>1. CASE Return(r)
  BY <1>1, ReturnTyped DEF TInv, TypeOK, LoadRollback, store
<1>2. CASE op[r].to \in Stored(body) /\ ~Return(r)
  <2>. DEFINE chart == body[op[r].to]
  <2>1. chart \in Charts /\ ObjectsOf[chart] \subseteq Objects /\ chart # None
    BY <1>2, HistoriesTyped, ChartsAssumption DEF TInv, TypeOK, Stored
  <2>2. [op[r] EXCEPT !.chart = chart] \in Ops /\ [cur[r] EXCEPT !.hist = body] \in Releases
    BY <2>1 DEF TInv, TypeOK, Ops, Releases
  <2>3. /\ op' = [op EXCEPT ![r] = [op[r] EXCEPT !.chart = chart]]
        /\ cur' = [cur EXCEPT ![r] = [cur[r] EXCEPT !.hist = body]]
        /\ left' = [left EXCEPT ![r] = ObjectsOf[chart]]
        /\ Goto(r, "apply") /\ UNCHANGED store
    BY <1>2 DEF LoadRollback
  <2>4. TypeOK' /\ Others(r)
    BY <2>1, <2>2, <2>3 DEF TInv, TypeOK, Goto, Others, PCs, store
  <2>5. op'[r].chart = chart
    BY <2>2, <2>3 DEF TInv, TypeOK, Ops
  <2>6. AskedBy(r)'
    BY <2>1, <2>3, <2>5 DEF TInv, TypeOK, Goto, AskedBy, Reading
  <2>. QED
    BY <2>4, <2>6, Frame
<1>. QED
  BY <1>1, <1>2 DEF LoadRollback

LEMMA TypedApply ==
  ASSUME TInv, NEW r \in Requests, ApplyObject(r)
  PROVE  TInv' /\ Others(r)
<1>1. pc[r] = "apply" /\ op[r].chart \in Charts
  BY DEF TInv, TypeOK, Asked, AskedBy, Ops, ApplyObject
<1>2. live' \in [Objects -> Charts \cup {None}]
  BY <1>1 DEF TInv, TypeOK, ApplyObject
<1>3. CASE Return(r)
  BY <1>2, <1>3, ReturnTyped DEF TInv, TypeOK, ApplyObject
<1>4. CASE ~Return(r)
  <2>1. /\ pc' = [pc EXCEPT ![r] = pc'[r]] /\ pc'[r] \in {"apply", "get", "revision"}
        /\ left' = [left EXCEPT ![r] = left'[r]] /\ left'[r] \subseteq left[r]
        /\ UNCHANGED <<op, cur, head, body>>
    BY <1>4 DEF TInv, TypeOK, ApplyObject, LoopTo, Goto
  <2>2. TypeOK' /\ Others(r)
    BY <1>2, <2>1 DEF TInv, TypeOK, Others, PCs
  <2>3. AskedBy(r)'
    BY <1>1, <2>1 DEF TInv, Asked, AskedBy, Reading
  <2>. QED
    BY <2>2, <2>3, Frame
<1>. QED
  BY <1>3, <1>4

LEMMA TypedPut ==
  ASSUME TInv, NEW r \in Requests, PutRevision(r) \/ PutHead(r)
  PROVE  TInv' /\ Others(r)
<1>1. /\ pc[r] \in {"revision", "head"} /\ op[r].chart \in Charts
      /\ cur[r].rev \in Nat
  BY Constants DEF TInv, TypeOK, Asked, AskedBy, Ops, Releases, PutRevision, PutHead
<1>2. New(r) \in Revisions
  BY <1>1, BoundsAssumption DEF TInv, Asked, AskedBy, PutRevision, PutHead, New, Revisions
<1>3. body' \in Histories /\ head' \in Heads \cup {None} /\ live' = live
  <2>1. [rev |-> New(r), old |-> NoHistory] \in Heads
    BY <1>2, Constants DEF Heads
  <2>2. body' \in Histories
    BY <1>1, <1>2, HistoriesTyped DEF TInv, TypeOK, PutRevision, PutHead
  <2>. QED
    BY <2>1, <2>2 DEF TInv, TypeOK, PutRevision, PutHead
<1>4. CASE Return(r)
  BY <1>3, <1>4, ReturnTyped DEF TInv, TypeOK
<1>5. CASE ~Return(r)
  <2>1. /\ pc' = [pc EXCEPT ![r] = pc'[r]] /\ pc'[r] \in {"head", "pruneList"}
        /\ UNCHANGED <<op, cur, left>>
    BY <1>5 DEF TInv, TypeOK, PutRevision, PutHead, Goto
  <2>2. TypeOK' /\ Others(r)
    BY <1>3, <2>1 DEF TInv, TypeOK, Others, PCs
  <2>3. AskedBy(r)'
    BY <1>1, <1>2, <2>1 DEF TInv, TypeOK, Asked, AskedBy, Reading, New
  <2>. QED
    BY <2>2, <2>3, Frame
<1>. QED
  BY <1>4, <1>5

LEMMA TypedPrune ==
  ASSUME TInv, NEW r \in Requests, PruneList(r) \/ PruneDelete(r)
  PROVE  TInv' /\ Others(r)
<1>1. /\ pc[r] \in {"pruneList", "prune"}
      /\ New(r) \in Revisions /\ Stored(body) \subseteq Revisions
  BY DEF TInv, Asked, AskedBy, PruneList, PruneDelete, Stored
<1>2. body' \in Histories
  <2>1. ASSUME PruneDelete(r) PROVE left[r] \subseteq Revisions
    BY <2>1 DEF TInv, Asked, AskedBy, PruneDelete
  <2>. QED
    BY <2>1, HistoriesTyped DEF TInv, TypeOK, PruneList, PruneDelete, store
<1>3. UNCHANGED <<head, live>>
  BY DEF PruneList, PruneDelete, store
<1>4. CASE Return(r)
  BY <1>2, <1>3, <1>4, ReturnTyped DEF TInv, TypeOK
<1>5. CASE ~Return(r)
  <2>1. /\ pc' = [pc EXCEPT ![r] = "prune"]
        /\ left' = [left EXCEPT ![r] = left'[r]]
        /\ left'[r] \subseteq Revisions
        /\ UNCHANGED <<op, cur>>
    BY <1>1, <1>5 DEF TInv, TypeOK, Asked, AskedBy, PruneList, PruneDelete, ListPruned, LoopTo, Goto
  <2>2. TypeOK' /\ Others(r)
    BY <1>2, <1>3, <2>1 DEF TInv, TypeOK, Others, PCs
  <2>3. AskedBy(r)'
    BY <1>1, <2>1 DEF TInv, TypeOK, Asked, AskedBy, Reading, New
  <2>. QED
    BY <2>2, <2>3, Frame
<1>. QED
  BY <1>4, <1>5

LEMMA TypedUninstall ==
  ASSUME TInv, NEW r \in Requests, Uninstall(r)
  PROVE  TInv' /\ Others(r)
<1>1. pc[r] \in {"objects", "wipeList", "wipe", "wipeHead"}
  BY DEF Uninstall, UninstallObject, WipeList, Wipe, WipeHead
<1>2. /\ head' \in Heads \cup {None}
      /\ live' \in [Objects -> Charts \cup {None}]
  BY DEF TInv, TypeOK, Uninstall, UninstallObject, WipeList, Wipe, WipeHead, store
<1>3. body' \in Histories
  BY DEF TInv, TypeOK, Histories, Uninstall, UninstallObject, WipeList, Wipe, WipeHead, store
<1>4. CASE Return(r)
  BY <1>2, <1>3, <1>4, ReturnTyped
<1>5. CASE ~Return(r)
  <2>1. /\ pc' = [pc EXCEPT ![r] = pc'[r]]
        /\ pc'[r] \in {"objects", "wipeList", "wipe", "wipeHead"}
        /\ pc'[r] = "objects" => pc[r] = "objects" /\ left'[r] \subseteq left[r]
        /\ left' = [left EXCEPT ![r] = left'[r]]
        /\ UNCHANGED <<op, cur>>
    BY <1>5 DEF TInv, TypeOK, Uninstall, UninstallObject, WipeList, Wipe, WipeHead, LoopTo, Goto
  <2>2. left'[r] \subseteq Objects \cup Revisions \cup {Head}
    BY <1>5, ChartsAssumption DEF TInv, TypeOK, Stored,
       Uninstall, UninstallObject, WipeList, Wipe, WipeHead, LoopTo
  <2>3. TypeOK' /\ Others(r)
    BY <1>2, <1>3, <2>1, <2>2 DEF TInv, TypeOK, Others, PCs
  <2>4. AskedBy(r)'
    BY <1>1, <2>1 DEF TInv, TypeOK, Asked, AskedBy, Reading
  <2>. QED
    BY <2>3, <2>4, Frame
<1>. QED
  BY <1>4, <1>5

LEMMA TypedStep ==
  ASSUME TInv, NEW r \in Requests, Step(r)
  PROVE  TInv' /\ Others(r)
<1>1. ASSUME Abandon(r) PROVE TInv' /\ Others(r)
  BY <1>1, ReturnTyped DEF TInv, TypeOK, Abandon, store
<1>. QED
  BY <1>1, TypedBegin, TypedGetNothing, TypedGetHead, TypedMigrate, TypedMigratePrune,
     TypedLoadFirst, TypedLoad, TypedLoadRollback, TypedApply, TypedPut, TypedPrune,
     TypedUninstall
     DEF Step, Get, RecordRevision

LEMMA TypedInit == ASSUME Init PROVE TInv
<1>1. PICK k \in 0 .. MaxLegacy, h \in Histories :
        /\ Stored(h) = 1 .. k
        /\ head = IF k = 0 THEN None ELSE [rev |-> k, old |-> h]
        /\ live = [o \in Objects |-> IF k # 0 /\ o \in ObjectsOf[h[k]] THEN h[k] ELSE None]
  BY DEF Init
<1>2. k # 0 => k \in Revisions /\ h[k] \in Charts \cup {None}
  BY BoundsAssumption, HistoriesTyped DEF Revisions
<1>3. head \in Heads \cup {None} /\ live \in [Objects -> Charts \cup {None}]
  BY <1>1, <1>2, HistoriesTyped
<1>4. TypeOK
  BY <1>3, Constants DEF Init, TypeOK, PCs
<1>5. Asked
  BY DEF Init, Asked, AskedBy, NoOp, Reading
<1>. QED
  BY <1>4, <1>5 DEF TInv

LEMMA TypedStutter == ASSUME TInv, UNCHANGED vars PROVE TInv'
BY DEF TInv, TypeOK, Asked, AskedBy, New, vars, store

\* Type correctness: the records and every request keep their shape, however
\* requests overlap, fail and are abandoned.
THEOREM TypeCorrect == Spec => []TypeOK
<1>1. ASSUME TInv, [Next]_vars PROVE TInv'
  BY <1>1, TypedStep, TypedStutter DEF Next, Step
<1>2. TInv => TypeOK
  BY DEF TInv
<1>. QED
  BY <1>1, <1>2, TypedInit, PTL DEF Spec
-----------------------------------------------------------------------------
(* One request at a time: what a request has read is still what is stored. *)

Alone == \A p, q \in Requests : pc[p] # "idle" /\ pc[q] # "idle" => p = q

Current == IF head = None THEN 0 ELSE head.rev

\* An embedded history ends at the head, and a body that was copied from it is
\* still the same.
Embedded ==
  head # None =>
    \A n \in Revisions : head.old[n] # None =>
      n <= head.rev /\ (body[n] # None => body[n] = head.old[n])

\* What the request has read of the head.
ReadBy(r) ==
  /\ (pc[r] \in {"migrate", "migrateHead"}
        => head # None /\ cur[r].rev = head.rev /\ cur[r].hist = head.old)
  /\ (pc[r] \in {"migrateList", "migratePrune", "load"}
        => head # None /\ cur[r].rev = head.rev)
  /\ (pc[r] \in {"revision", "head"} => cur[r].rev = Current)
  /\ (pc[r] = "apply" /\ op[r].kind # "deploy" => cur[r].rev = Current)

Read == \A r \in Requests : ReadBy(r)

NInv == TInv /\ Alone /\ Embedded /\ Read

\* Whoever makes a step is the only one at work, before and after.
LEMMA AloneStep ==
  ASSUME Exclusive, TInv, Alone, NEW r \in Requests, Step(r)
  PROVE  /\ Alone'
         /\ \A q \in Requests \ {r} : pc[q] = "idle" /\ pc'[q] = "idle"
<1>1. \A q \in Requests \ {r} : pc[q] = "idle"
  <2>1. Begin(r) \/ pc[r] # "idle"
    BY DEF Step, Get, GetNothing, GetHead, Migrate, MigrateHead, MigrateList, MigratePrune,
       LoadFirst, LoadDeploy, LoadRollback, LoadUninstall, ApplyObject, RecordRevision,
       PutRevision, PutHead, PruneList, PruneDelete, Uninstall, UninstallObject, WipeList,
       Wipe, WipeHead, Abandon
  <2>. QED
    BY <2>1 DEF Alone, Begin
<1>2. \A q \in Requests \ {r} : pc'[q] = pc[q]
  BY TypedStep DEF Others
<1>. QED
  BY <1>1, <1>2 DEF Alone

\* Only the one at work has to show what it has read.
LEMMA ReadFrame ==
  ASSUME Exclusive, NInv, NEW r \in Requests, Step(r), Embedded', ReadBy(r)'
  PROVE  NInv'
<1>1. ASSUME NEW q \in Requests, q # r PROVE ReadBy(q)'
  BY <1>1, AloneStep DEF NInv, ReadBy
<1>. QED
  BY <1>1, AloneStep, TypedStep DEF NInv, Read

\* A number that is not written again.
Final(n) ==
  /\ head # None /\ n <= head.rev
  /\ body[n] # None /\ body'[n] # None
  => body'[n] = body[n]

LEMMA NumberStep ==
  ASSUME Exclusive, NInv, NEW r \in Requests, Step(r)
  PROVE  NInv' /\ \A n \in Revisions : Final(n)
<1>. USE DEF ReadBy, Final
<1>0. TypeOK /\ ReadBy(r) /\ TInv' /\ AskedBy(r)
  BY TypedStep DEF NInv, TInv, Read, Asked
<1>1. /\ head \in Heads \cup {None} /\ (head # None => head.rev \in Revisions /\ head.old \in Histories)
      /\ Current \in Nat /\ cur[r].rev \in Nat /\ cur[r].hist \in Histories
  <2>1. head # None => head.rev \in Revisions /\ head.old \in Histories
    BY <1>0 DEF TypeOK, Heads
  <2>2. cur[r].rev \in Revisions \cup {0} /\ cur[r].hist \in Histories
    BY <1>0 DEF TypeOK, Releases
  <2>. QED
    <3>1. \A n \in Revisions \cup {0} : n \in Nat
      BY Constants
    <3>2. Current \in Revisions \cup {0}
      BY <2>1 DEF Current
    <3>. QED
      BY <1>0, <2>1, <2>2, <3>1, <3>2 DEF TypeOK
<1>a. \A n \in Revisions : n \in Nat \ {0}
  BY Constants
<1>2. CASE Begin(r) \/ Abandon(r)
  <2>1. UNCHANGED store /\ pc'[r] \in {"get", "idle"}
    BY <1>0, <1>2 DEF TypeOK, Begin, Abandon, Return, Goto
  <2>2. Embedded' /\ ReadBy(r)'
    BY <2>1 DEF NInv, Embedded, store
  <2>. QED
    BY <2>1, <2>2, ReadFrame DEF store
<1>3. CASE GetNothing(r) \/ GetHead(r)
  <2>1. UNCHANGED store
    BY <1>3 DEF GetNothing, GetHead
  <2>2. Embedded'
    BY <2>1 DEF NInv, Embedded, store
  <2>3. CASE GetHead(r)
    <3>1. ReadBy(r)'
      BY <1>0, <2>1, <2>3 DEF TypeOK, GetHead, Goto, store
    <3>. QED
      BY <2>1, <2>2, <3>1, ReadFrame DEF store
  <2>4. CASE GetNothing(r)
    <3>1. op[r].kind = "deploy" \/ Return(r)
      BY <2>4 DEF GetNothing
    <3>2. ASSUME Return(r) PROVE pc'[r] = "idle"
      BY <1>0, <3>2 DEF TypeOK, Return, Goto
    <3>3. ASSUME ~Return(r), op[r].reads = 0 PROVE pc'[r] = "apply" /\ op'[r].kind = "deploy"
      <4>1. pc' = [pc EXCEPT ![r] = "apply"] /\ op' = [op EXCEPT ![r].reads = 1]
        BY <2>4, <3>1, <3>3 DEF GetNothing, Goto
      <4>. QED
        BY <1>0, <3>1, <3>3, <4>1 DEF TypeOK, Ops
    <3>4. ASSUME ~Return(r), op[r].reads # 0 PROVE pc'[r] = "revision" /\ cur'[r].rev = 0
      BY <1>0, <2>4, <3>1, <3>4 DEF TypeOK, GetNothing, Goto, NoRelease
    <3>5. Current' = 0
      BY <2>1, <2>4 DEF GetNothing, Current, store
    <3>6. ReadBy(r)'
      BY <3>2, <3>3, <3>4, <3>5
    <3>. QED
      BY <2>1, <2>2, <3>6, ReadFrame DEF store
  <2>. QED
    BY <1>3, <2>3, <2>4
<1>4. CASE Migrate(r)
  <2>1. PICK n \in left[r] :
          \/ body' = [body EXCEPT ![n] = cur[r].hist[n]]
          \/ UNCHANGED body
    BY <1>4 DEF Migrate
  <2>2. UNCHANGED <<head, op, cur>> /\ pc[r] = "migrate" /\ pc'[r] \in {"migrate", "migrateHead", "load"}
    BY <1>0, <1>4 DEF TypeOK, Migrate, LoopTo, Goto
  <2>3. n \in Revisions /\ head # None /\ cur[r].hist = head.old
    BY <1>0, <2>2 DEF AskedBy
  <2>4. \A m \in Revisions : body'[m] \in {body[m], head.old[m]}
    BY <1>0, <2>1, <2>3 DEF TypeOK, Histories
  <2>5. Embedded' /\ \A m \in Revisions : Final(m)
    BY <1>1, <2>2, <2>3, <2>4 DEF NInv, Embedded
  <2>6. ReadBy(r)'
    BY <1>0, <2>2
  <2>. QED
    BY <2>5, <2>6, ReadFrame
<1>5. CASE MigrateHead(r)
  <2>1. /\ pc[r] = "migrateHead" /\ pc'[r] \in {"migrateList", "load"}
        /\ UNCHANGED <<body, op, cur>>
        /\ head' \in {head, [rev |-> cur[r].rev, old |-> NoHistory]}
    BY <1>0, <1>5 DEF TypeOK, MigrateHead, Goto
  <2>2. head' # None /\ head'.rev = cur[r].rev
    <3>1. head # None /\ cur[r].rev = head.rev
      BY <1>0, <2>1
    <3>2. [rev |-> cur[r].rev, old |-> NoHistory] \in Heads
      BY <1>1, <3>1, HistoriesTyped, Constants
    <3>. QED
      BY <2>1, <3>1, <3>2, NoneAssumption
  <2>3. Embedded'
    BY <1>1, <2>1, <2>2 DEF NInv, Embedded, NoHistory
  <2>4. ReadBy(r)'
    BY <2>1, <2>2
  <2>. QED
    BY <2>1, <2>3, <2>4, ReadFrame
<1>6. CASE MigrateList(r) \/ MigratePrune(r)
  <2>1. /\ pc[r] \in {"migrateList", "migratePrune"} /\ pc'[r] \in {"migratePrune", "load"}
        /\ UNCHANGED <<head, op, cur>>
    BY <1>0, <1>6 DEF TypeOK, MigrateList, MigratePrune, ListPruned, LoopTo, Goto, store
  <2>2. \A m \in Revisions : body'[m] \in {body[m], None}
    BY <1>0, <1>6 DEF TypeOK, Histories, MigrateList, MigratePrune, store
  <2>3. Embedded' /\ \A m \in Revisions : Final(m)
    BY <2>1, <2>2 DEF NInv, Embedded
  <2>4. ReadBy(r)'
    BY <1>0, <2>1
  <2>. QED
    BY <2>3, <2>4, ReadFrame
<1>7. CASE LoadFirst(r) \/ LoadDeploy(r) \/ LoadRollback(r) \/ LoadUninstall(r)
  <2>1. UNCHANGED store /\ pc[r] = "load"
    BY <1>7 DEF LoadFirst, LoadDeploy, LoadRollback, LoadUninstall
  <2>2. Embedded'
    BY <2>1 DEF NInv, Embedded, store
  <2>3. \/ pc'[r] \in {"idle", "get", "objects", "wipeList"}
        \/ cur'[r].rev = cur[r].rev /\ pc'[r] = "revision"
        \/ cur'[r].rev = cur[r].rev /\ pc'[r] = "apply"
        \/ op'[r].kind = "deploy" /\ pc'[r] = "apply"
    <3>1. CASE LoadFirst(r)
      BY <1>0, <3>1 DEF TypeOK, Ops, LoadFirst, FirstRead, Return, Goto
    <3>2. CASE LoadDeploy(r) \/ LoadUninstall(r)
      BY <1>0, <3>2 DEF TypeOK, Releases, LoadDeploy, LoadUninstall, Goto
    <3>3. CASE LoadRollback(r)
      BY <1>0, <3>3 DEF TypeOK, Releases, LoadRollback, Return, Goto
    <3>. QED
      BY <1>7, <3>1, <3>2, <3>3
  <2>4. ReadBy(r)'
    BY <1>0, <2>1, <2>3 DEF store, Current
  <2>. QED
    BY <2>1, <2>2, <2>4, ReadFrame DEF store
<1>8. CASE ApplyObject(r)
  <2>1. UNCHANGED <<head, body>> /\ pc[r] = "apply"
    BY <1>8 DEF ApplyObject
  <2>2. \/ pc'[r] \in {"get", "idle"}
        \/ UNCHANGED <<op, cur>> /\ pc'[r] = "apply"
        \/ UNCHANGED <<op, cur>> /\ pc'[r] = "revision" /\ op[r].kind # "deploy"
    BY <1>0, <1>8 DEF TypeOK, ApplyObject, Return, LoopTo, Goto
  <2>3. Embedded' /\ ReadBy(r)'
    BY <1>0, <2>1, <2>2 DEF NInv, Embedded, Current
  <2>. QED
    BY <2>1, <2>3, ReadFrame
<1>9. CASE PutRevision(r)
  <2>1. /\ head' = head /\ New(r) = Current + 1
        /\ body' \in {body, [body EXCEPT ![New(r)] = op[r].chart]}
        /\ pc'[r] = "idle" \/ (pc'[r] = "head" /\ UNCHANGED cur)
    BY <1>0, <1>9 DEF TypeOK, PutRevision, Return, Goto, New
  <2>2. \A m \in Revisions : m # Current + 1 => body'[m] = body[m]
    BY <1>0, <2>1 DEF TypeOK, Histories
  <2>3. \A m \in Revisions : head # None /\ m <= head.rev => m # Current + 1
    BY <1>1, <1>a DEF Current
  <2>4. Embedded' /\ \A m \in Revisions : Final(m)
    BY <2>1, <2>2, <2>3 DEF NInv, Embedded
  <2>5. ReadBy(r)'
    BY <1>0, <1>9, <2>1 DEF PutRevision, Current
  <2>. QED
    BY <2>4, <2>5, ReadFrame
<1>10. CASE PutHead(r)
  <2>1. /\ body' = body /\ pc'[r] \in {"idle", "pruneList"}
        /\ head' \in {head, [rev |-> New(r), old |-> NoHistory]}
    BY <1>0, <1>10 DEF TypeOK, PutHead, Return, Goto
  <2>2. Embedded' /\ ReadBy(r)'
    BY <2>1 DEF NInv, Embedded, NoHistory
  <2>. QED
    BY <2>1, <2>2, ReadFrame
<1>11. CASE PruneList(r) \/ PruneDelete(r) \/ Uninstall(r)
  <2>1. head' \in {head, None} /\ pc'[r] \in {"idle", "prune", "objects", "wipeList", "wipe", "wipeHead"}
    BY <1>0, <1>11 DEF TypeOK, PruneList, ListPruned, PruneDelete, Uninstall, UninstallObject,
       WipeList, Wipe, WipeHead, Return, LoopTo, Goto, store
  <2>2. \A m \in Revisions : body'[m] \in {body[m], None}
    BY <1>0, <1>11 DEF TypeOK, Histories, PruneList, PruneDelete, Uninstall, UninstallObject,
       WipeList, Wipe, WipeHead, store
  <2>3. Embedded' /\ ReadBy(r)' /\ \A m \in Revisions : Final(m)
    BY <2>1, <2>2 DEF NInv, Embedded
  <2>. QED
    BY <2>3, ReadFrame
<1>. QED
  BY <1>2, <1>3, <1>4, <1>5, <1>6, <1>7, <1>8, <1>9, <1>10, <1>11
     DEF Step, Get, RecordRevision

LEMMA NumberInit == ASSUME Init PROVE NInv
<1>1. PICK k \in 0 .. MaxLegacy, h \in Histories :
        Stored(h) = 1 .. k /\ head = IF k = 0 THEN None ELSE [rev |-> k, old |-> h]
  BY DEF Init
<1>2. Embedded
  BY <1>1, BoundsAssumption DEF Embedded, Init, Stored, NoHistory, Revisions
<1>3. Alone /\ Read
  BY DEF Init, Alone, Read, ReadBy
<1>. QED
  BY <1>2, <1>3, TypedInit DEF NInv

LEMMA NumberStutter ==
  ASSUME NInv, UNCHANGED vars PROVE NInv' /\ \A n \in Revisions : Final(n)
BY TypedStutter DEF NInv, Alone, Embedded, Read, ReadBy, Current, Final, vars, store

\* A revision number belongs to what it was first deployed with, as long as
\* one request of the release runs at a time: failures, crashes and the
\* migration of an older layout do not write it again.
THEOREM NumbersStay == ASSUME Exclusive PROVE Spec => NumbersAreFinal
<1>1. ASSUME NInv, [Next]_vars PROVE NInv' /\ \A n \in Revisions : Final(n)
  BY <1>1, NumberStep, NumberStutter DEF Next, Step
<1>2. NInv /\ [Next]_vars
        => [\A n \in Revisions :
              /\ head # None /\ n <= head.rev
              /\ body[n] # None /\ body'[n] # None
              => body'[n] = body[n]]_vars
  BY <1>1 DEF Final
<1>. QED
  BY <1>1, <1>2, NumberInit, PTL DEF Spec, NumbersAreFinal
-----------------------------------------------------------------------------
(* What a prune keeps.                                                     *)

\* The newest revision is kept, whether it is in the history or comes next.
LEMMA NewestKept ==
  ASSUME NEW h \in Histories, NEW n \in Revisions, NEW new \in Int, HistoryMax > 0,
         n \in Stored(h) \cup {new}, new <= n, \A m \in Stored(h) : m <= n
  PROVE  n \in Keep(h, new)
<1>0. n \in Int /\ \A m \in Stored(h) : m \in Int
  BY Constants DEF Stored
<1>1. {m \in Stored(h) : m > n} = {}
  <2>1. ASSUME NEW m \in Stored(h) PROVE ~(m > n)
    BY <1>0
  <2>. QED
    BY <2>1
<1>2. Cardinality({m \in Stored(h) : m > n}) = 0
  BY <1>1, FS_EmptySet
<1>3. ~(new > n)
  BY Constants
<1>. QED
  BY <1>2, <1>3, BoundsAssumption DEF Keep

\* Nothing is kept beyond HistoryMax: every kept revision has another number
\* of newer ones, below HistoryMax.
LEMMA KeepBounded ==
  ASSUME NEW h \in Histories, NEW new \in Revisions, HistoryMax > 0
  PROVE  IsFiniteSet(Keep(h, new)) /\ Cardinality(Keep(h, new)) <= HistoryMax
<1>. DEFINE newer(n) == {m \in Stored(h) : m > n}
            extra(n) == IF new > n THEN 1 ELSE 0
            K == Keep(h, new)
            place == [n \in K |-> Cardinality(newer(n)) + extra(n)]
<1>1. IsFiniteSet(Revisions) /\ Revisions \subseteq Int /\ HistoryMax \in Nat
  BY FS_Interval, BoundsAssumption, Constants DEF Revisions
<1>2. Stored(h) \subseteq Revisions /\ K \subseteq Revisions
  BY DEF Stored, Keep
<1>3. \A n : IsFiniteSet(newer(n)) /\ Cardinality(newer(n)) \in Nat
  <2>1. TAKE n
  <2>2. newer(n) \subseteq Revisions
    BY <1>2
  <2>. QED
    BY <1>1, <2>2, FS_Subset, FS_CardinalityType
<1>4. place \in [K -> 0 .. HistoryMax - 1]
  <2>1. SUFFICES ASSUME NEW n \in K
                 PROVE  Cardinality(newer(n)) + extra(n) \in 0 .. HistoryMax - 1
    OBVIOUS
  <2>2. Cardinality(newer(n)) + extra(n) < HistoryMax
    BY DEF Keep
  <2>3. extra(n) \in Nat
    OBVIOUS
  <2>. HIDE DEF newer, extra
  <2>. QED
    BY <1>1, <1>3, <2>2, <2>3
<1>5. ASSUME NEW a \in K, NEW b \in K, a < b
      PROVE  place[a] # place[b]
  <2>0. a \in Int /\ b \in Int /\ new \in Int /\ \A m \in Stored(h) : m \in Int
    BY <1>1, <1>2
  <2>1. newer(b) \subseteq newer(a) /\ extra(b) <= extra(a) /\ extra(a) \in Nat /\ extra(b) \in Nat
    BY <1>5, <2>0
  <2>2. Cardinality(newer(b)) <= Cardinality(newer(a))
    BY <1>3, <2>1, FS_Subset
  <2>3. Cardinality(newer(b)) < Cardinality(newer(a)) \/ extra(b) < extra(a)
    <3>1. CASE b \in Stored(h)
      <4>1. b \in newer(a) /\ b \notin newer(b)
        BY <1>5, <2>0, <3>1
      <4>2. newer(b) # newer(a)
        BY <4>1
      <4>. HIDE DEF newer
      <4>3. Cardinality(newer(b)) # Cardinality(newer(a))
        BY <1>3, <2>1, <4>2, FS_Subset
      <4>. QED
        BY <1>3, <2>2, <4>3
    <3>2. CASE b \notin Stored(h)
      <4>1. b = new
        BY <3>2 DEF Keep
      <4>. QED
        BY <1>5, <2>0, <4>1
    <3>. QED
      BY <3>1, <3>2
  <2>4. place[a] = Cardinality(newer(a)) + extra(a) /\ place[b] = Cardinality(newer(b)) + extra(b)
    OBVIOUS
  <2>. HIDE DEF newer, extra, place
  <2>. QED
    BY <1>3, <2>1, <2>2, <2>3, <2>4
<1>6. \A a, b \in K : place[a] = place[b] => a = b
  <2>1. \A a, b \in K : a < b \/ b < a \/ a = b
    <3>1. \A a \in K : a \in Int
      BY <1>1, <1>2
    <3>. HIDE DEF K
    <3>. QED
      BY <3>1
  <2>. HIDE DEF place, K
  <2>. QED
    BY <1>5, <2>1
<1>7. place \in Injection(K, 0 .. HistoryMax - 1)
  BY <1>4, <1>6 DEF Injection, IsInjective
<1>8. IsFiniteSet(0 .. HistoryMax - 1) /\ Cardinality(0 .. HistoryMax - 1) = HistoryMax
  BY <1>1, FS_Interval
<1>. HIDE DEF place, K
<1>9. IsFiniteSet(K) /\ Cardinality(K) <= HistoryMax
  BY <1>7, <1>8, FS_Injection
<1>. QED
  BY <1>9 DEF K

-----------------------------------------------------------------------------
(* One request at a time, and no uninstall that fails halfway: the bodies  *)
(* are those of the head, and of a revision that is being recorded.        *)

Calm == Exclusive /\ (Faults = {} \/ "uninstall" \notin Operations)

\* The bodies end at the head, or with the revision that comes next.
Below ==
  \/ \E r \in Requests : pc[r] = "wipe"
  \/ \A n \in Stored(body) : n <= Current + 1

\* An embedded history holds the current revision.
EmbedsHead == head # None /\ head.old # NoHistory => head.old[head.rev] # None

UpTo(h, n) == \A m \in Stored(h) : m <= n

\* How far the request has come, and what it may still delete.
DoneBy(r) ==
  /\ (pc[r] # "idle" => op[r].kind \in Operations)
  /\ (pc[r] \in {"objects", "wipeList", "wipe", "wipeHead"} => op[r].kind = "uninstall")
  /\ (pc[r] = "apply" => op[r].reads = 1)
  /\ (pc[r] = "wipe" => Stored(body) \subseteq left[r])
  /\ (pc[r] = "wipeHead" => Stored(body) = {})
  /\ (pc[r] \in {"migrate", "migrateHead", "migrateList"}
        => cur[r].hist[cur[r].rev] # None /\ UpTo(cur[r].hist, cur[r].rev))
  /\ (pc[r] = "migratePrune" => cur[r].rev \notin left[r])
  /\ (pc[r] \in {"revision", "head", "pruneList", "prune"} => UpTo(cur[r].hist, New(r)))
  /\ (pc[r] = "apply" /\ op[r].kind # "deploy" => UpTo(cur[r].hist, New(r)))
  /\ (pc[r] \in {"head", "pruneList", "prune"} => body[New(r)] = op[r].chart)
  /\ (pc[r] \in {"pruneList", "prune"} => head # None /\ head.rev = New(r))
  /\ (pc[r] = "prune" =>
        /\ HistoryMax > 0 /\ New(r) \notin left[r]
        /\ Stored(body) \ left[r] \subseteq Keep(cur[r].hist, New(r)))

Done == \A r \in Requests : DoneBy(r)

BInv == NInv /\ Below /\ EmbedsHead /\ Done

LEMMA DoneFrame ==
  ASSUME Calm, BInv, NEW r \in Requests, Step(r), Below', EmbedsHead', DoneBy(r)'
  PROVE  BInv'
<1>1. Exclusive /\ NInv
  BY DEF Calm, BInv
<1>2. ASSUME NEW q \in Requests, q # r PROVE DoneBy(q)'
  BY <1>1, <1>2, AloneStep DEF NInv, DoneBy
<1>. QED
  BY <1>1, <1>2, NumberStep DEF BInv, Done

\* What every step of BInv starts from.
Base(r) ==
  /\ TypeOK /\ AskedBy(r) /\ ReadBy(r) /\ DoneBy(r) /\ Embedded /\ EmbedsHead
  /\ (pc[r] = "wipe" \/ \A n \in Stored(body) : n <= Current + 1)
  /\ (head # None => head.rev \in Revisions /\ head.old \in Histories)
  /\ Current \in Nat /\ cur[r].rev \in Nat /\ cur[r].hist \in Histories
  /\ \A n \in Revisions : n \in Nat /\ n # 0

LEMMA BaseHolds ==
  ASSUME Calm, BInv, NEW r \in Requests, Step(r) PROVE Base(r)
<1>1. TypeOK /\ AskedBy(r) /\ ReadBy(r) /\ DoneBy(r) /\ Embedded /\ EmbedsHead
  BY DEF BInv, NInv, TInv, Asked, Read, Done
<1>2. pc[r] = "wipe" \/ \A n \in Stored(body) : n <= Current + 1
  BY AloneStep DEF Calm, BInv, NInv, Below
<1>3. head # None => head.rev \in Revisions /\ head.old \in Histories
  BY <1>1 DEF TypeOK, Heads
<1>4. cur[r].rev \in Revisions \cup {0} /\ cur[r].hist \in Histories
  BY <1>1 DEF TypeOK, Releases
<1>5. \A n \in Revisions \cup {0} : n \in Nat
  BY Constants
<1>6. Current \in Revisions \cup {0}
  BY <1>3 DEF Current
<1>7. \A n \in Revisions : n # 0
  BY Constants
<1>. QED
  BY <1>1, <1>2, <1>3, <1>4, <1>5, <1>6, <1>7 DEF Base

LEMMA DoneBeginAbandon ==
  ASSUME Calm, BInv, NEW r \in Requests, Begin(r) \/ Abandon(r) PROVE BInv'
<1>1. Base(r)
  BY BaseHolds DEF Step
<1>. USE <1>1 DEF Base, DoneBy
<1>2. UNCHANGED store /\ (pc'[r] = "idle" \/ (pc'[r] = "get" /\ op'[r].kind \in Operations))
  BY DEF TypeOK, Begin, Abandon, Return, Goto
<1>3. pc[r] # "wipe"
  BY DEF Calm, Begin, Abandon, Fault
<1>4. Below' /\ EmbedsHead' /\ DoneBy(r)'
  BY <1>2, <1>3 DEF Below, EmbedsHead, Stored, Current, store
<1>. QED
  BY <1>4, DoneFrame DEF Step

LEMMA DoneGet ==
  ASSUME Calm, BInv, NEW r \in Requests, GetNothing(r) \/ GetHead(r) PROVE BInv'
<1>1. Base(r)
  BY BaseHolds DEF Step, Get
<1>. USE <1>1 DEF Base, DoneBy
<1>2. UNCHANGED store /\ pc[r] = "get" /\ op[r].kind \in Operations
  BY DEF GetNothing, GetHead
<1>3. Below' /\ EmbedsHead'
  BY <1>2 DEF Below, EmbedsHead, Stored, Current, store
<1>4. CASE GetHead(r)
  <2>1. /\ head # None /\ pc'[r] \in {"load", "migrate"} /\ op' = op
        /\ cur'[r].rev = head.rev /\ cur'[r].hist = head.old
        /\ (pc'[r] = "migrate" => head.old # NoHistory)
    BY <1>4 DEF TypeOK, GetHead, Goto
  <2>2. DoneBy(r)'
    BY <1>2, <2>1 DEF Embedded, EmbedsHead, UpTo, Stored
  <2>. QED
    BY <1>3, <1>4, <2>2, DoneFrame DEF Step, Get
<1>5. CASE GetNothing(r)
  <2>2. ASSUME ~Return(r), op[r].reads = 0
        PROVE  /\ pc'[r] = "apply" /\ op'[r].reads = 1
               /\ op'[r].kind = "deploy" /\ op[r].kind = "deploy"
    <3>1. op[r].kind = "deploy" /\ pc' = [pc EXCEPT ![r] = "apply"] /\ op' = [op EXCEPT ![r].reads = 1]
      BY <1>5, <2>2 DEF GetNothing, Goto
    <3>. QED
      BY <3>1 DEF TypeOK, Ops
  <2>3. ASSUME ~Return(r), op[r].reads # 0
        PROVE  pc'[r] = "revision" /\ op' = op /\ cur'[r].hist = NoHistory
    BY <1>5, <2>3 DEF TypeOK, GetNothing, Goto, NoRelease
  <2>4. \/ pc'[r] = "idle"
        \/ /\ pc'[r] = "apply" /\ op'[r].reads = 1
           /\ op'[r].kind = op[r].kind /\ op[r].kind = "deploy"
        \/ pc'[r] = "revision" /\ op' = op /\ cur'[r].hist = NoHistory
    <3>1. CASE Return(r)
      BY <3>1 DEF TypeOK, Return, Goto
    <3>. QED
      BY <2>2, <2>3, <3>1
  <2>5. Stored(NoHistory) = {}
    BY DEF Stored, NoHistory
  <2>6. DoneBy(r)'
    BY <1>2, <2>4, <2>5 DEF UpTo
  <2>. QED
    BY <1>3, <1>5, <2>6, DoneFrame DEF Step, Get
<1>. QED
  BY <1>4, <1>5

LEMMA DoneMigrate ==
  ASSUME Calm, BInv, NEW r \in Requests, Migrate(r) \/ MigrateHead(r) PROVE BInv'
<1>1. Base(r) /\ TypeOK'
  BY BaseHolds, TypedStep DEF Step, Get, BInv, NInv, TInv
<1>. USE <1>1 DEF Base, DoneBy
<1>2. /\ pc[r] \in {"migrate", "migrateHead"} /\ UNCHANGED <<op, cur>>
      /\ pc'[r] \in {"migrate", "migrateHead", "migrateList", "load"}
  BY DEF TypeOK, Migrate, MigrateHead, LoopTo, Goto
<1>3. head # None /\ cur[r].rev = head.rev /\ cur[r].hist = head.old
  BY <1>2 DEF ReadBy
<1>4. DoneBy(r)'
  BY <1>2
<1>5. Below'
  <2>1. CASE MigrateHead(r)
    <3>1. head' \in {head, [rev |-> cur[r].rev, old |-> NoHistory]} /\ body' = body
      BY <2>1 DEF MigrateHead
    <3>2. [rev |-> cur[r].rev, old |-> NoHistory] # None
      <4>1. cur[r].rev \in Revisions
        BY <1>3
      <4>2. [rev |-> cur[r].rev, old |-> NoHistory] \in Heads
        BY <4>1, HistoriesTyped, Constants
      <4>. QED
        BY <4>2, NoneAssumption
    <3>3. Current' = Current
      BY <1>3, <3>1, <3>2 DEF Current
    <3>. QED
      BY <1>2, <3>1, <3>3 DEF Below, Stored
  <2>2. CASE Migrate(r)
    <3>1. PICK n \in left[r] :
            body' = [body EXCEPT ![n] = cur[r].hist[n]] \/ UNCHANGED body
      BY <2>2 DEF Migrate
    <3>2. \A m \in Revisions : body'[m] \in {body[m], head.old[m]}
      BY <1>3, <3>1 DEF TypeOK, Histories
    <3>3. Current' = Current /\ Current = head.rev
      BY <1>3, <2>2 DEF Migrate, Current
    <3>4. ASSUME NEW m \in Stored(body') PROVE m <= Current + 1
      <4>1. m \in Revisions /\ body'[m] # None
        BY DEF Stored
      <4>2. CASE body[m] # None
        BY <1>2, <4>1, <4>2 DEF Stored
      <4>3. CASE head.old[m] # None
        BY <1>3, <3>3, <4>1, <4>3 DEF Embedded
      <4>. QED
        BY <3>2, <4>1, <4>2, <4>3
    <3>. QED
      BY <3>3, <3>4 DEF Below, Stored
  <2>. QED
    BY <2>1, <2>2
<1>6. EmbedsHead'
  <2>1. head' = head \/ head' = [rev |-> cur[r].rev, old |-> NoHistory]
    BY DEF Migrate, MigrateHead
  <2>. QED
    BY <2>1 DEF EmbedsHead
<1>. QED
  BY <1>4, <1>5, <1>6, DoneFrame DEF Step, Get

LEMMA DoneMigratePrune ==
  ASSUME Calm, BInv, NEW r \in Requests, MigrateList(r) \/ MigratePrune(r) PROVE BInv'
<1>1. Base(r)
  BY BaseHolds DEF Step, Get
<1>. USE <1>1 DEF Base, DoneBy
<1>2. /\ pc[r] \in {"migrateList", "migratePrune"} /\ UNCHANGED <<op, cur, head>>
      /\ pc'[r] \in {"migratePrune", "load"}
  BY DEF TypeOK, MigrateList, MigratePrune, ListPruned, LoopTo, Goto, store
<1>3. \A m \in Revisions : body'[m] \in {body[m], None}
  BY DEF TypeOK, Histories, MigrateList, MigratePrune, store
<1>4. Stored(body') \subseteq Stored(body)
  BY <1>3 DEF Stored
<1>5. Below' /\ EmbedsHead'
  BY <1>2, <1>4 DEF Below, EmbedsHead, Stored, Current
<1>6. pc'[r] = "migratePrune" => cur[r].rev \notin left'[r]
  <2>1. CASE MigratePrune(r)
    BY <2>1 DEF TypeOK, MigratePrune, LoopTo, Goto
  <2>2. CASE MigrateList(r) /\ pc'[r] = "migratePrune"
    <3>1. HistoryMax > 0 /\ left'[r] = Stored(body) \ Keep(cur[r].hist, 0)
      BY <2>2 DEF TypeOK, MigrateList, ListPruned, Goto
    <3>2. head # None /\ cur[r].rev = head.rev /\ cur[r].rev \in Stored(cur[r].hist)
      BY <2>2 DEF MigrateList, ReadBy, Stored
    <3>3. \A m \in Stored(cur[r].hist) : m <= cur[r].rev
      BY <2>2 DEF MigrateList, UpTo
    <3>4. cur[r].rev \in Keep(cur[r].hist, 0)
      BY <3>1, <3>2, <3>3, NewestKept
    <3>. QED
      BY <3>1, <3>4
  <2>. QED
    BY <2>1, <2>2
<1>7. DoneBy(r)'
  BY <1>2, <1>6
<1>. QED
  BY <1>5, <1>7, DoneFrame DEF Step, Get

LEMMA DoneLoad ==
  ASSUME Calm, BInv, NEW r \in Requests,
         LoadFirst(r) \/ LoadDeploy(r) \/ LoadRollback(r) \/ LoadUninstall(r)
  PROVE  BInv'
<1>1. Base(r)
  BY BaseHolds DEF Step, Get
<1>. USE <1>1 DEF Base, DoneBy
<1>2. UNCHANGED store /\ pc[r] = "load" /\ op[r].kind \in Operations
  BY DEF LoadFirst, LoadDeploy, LoadRollback, LoadUninstall
<1>3. Below' /\ EmbedsHead'
  BY <1>2 DEF Below, EmbedsHead, Stored, Current, store
<1>4. cur[r].rev = Current
  BY <1>2 DEF ReadBy, Current
<1>5. UpTo(body, cur[r].rev + 1)
  BY <1>2, <1>4 DEF UpTo
<1>6. \/ pc'[r] = "idle"
      \/ op'[r].kind = op[r].kind /\ pc'[r] = "get"
      \/ op'[r].kind = op[r].kind /\ pc'[r] = "apply" /\ op[r].kind = "deploy" /\ op'[r].reads = 1
      \/ op' = op /\ pc'[r] = "revision" /\ cur'[r].rev = cur[r].rev /\ cur'[r].hist = body
      \/ op'[r].kind = op[r].kind /\ pc'[r] = "apply" /\ op'[r].reads = 1
           /\ cur'[r].rev = cur[r].rev /\ cur'[r].hist = body
      \/ op' = op /\ pc'[r] \in {"objects", "wipeList"} /\ op[r].kind = "uninstall"
  <2>1. CASE LoadFirst(r)
    BY <2>1 DEF TypeOK, Ops, LoadFirst, FirstRead, Return, Goto
  <2>2. CASE LoadDeploy(r) \/ LoadUninstall(r)
    BY <2>2 DEF TypeOK, Releases, LoadDeploy, LoadUninstall, Goto
  <2>3. CASE LoadRollback(r)
    BY <2>3 DEF TypeOK, Ops, Releases, LoadRollback, Return, Goto
  <2>. QED
    BY <2>1, <2>2, <2>3
<1>7. DoneBy(r)'
  BY <1>2, <1>5, <1>6 DEF New
<1>. QED
  BY <1>3, <1>7, DoneFrame DEF Step, Get

LEMMA DoneApply ==
  ASSUME Calm, BInv, NEW r \in Requests, ApplyObject(r) PROVE BInv'
<1>1. Base(r)
  BY BaseHolds DEF Step
<1>. USE <1>1 DEF Base, DoneBy
<1>2. UNCHANGED <<head, body>> /\ pc[r] = "apply"
  BY DEF ApplyObject
<1>3. \/ pc'[r] = "idle"
      \/ /\ UNCHANGED <<op, cur>> /\ pc'[r] \in {"apply", "get", "revision"}
         /\ (pc'[r] = "revision" => op[r].kind # "deploy")
  BY DEF TypeOK, ApplyObject, Return, LoopTo, Goto
<1>4. Below' /\ EmbedsHead'
  BY <1>2 DEF Below, EmbedsHead, Stored, Current
<1>5. DoneBy(r)'
  BY <1>2, <1>3 DEF New
<1>. QED
  BY <1>4, <1>5, DoneFrame DEF Step

LEMMA DonePutRevision ==
  ASSUME Calm, BInv, NEW r \in Requests, PutRevision(r) PROVE BInv'
<1>1. Base(r)
  BY BaseHolds DEF Step, RecordRevision
<1>. USE <1>1 DEF Base, DoneBy
<1>2. /\ pc[r] = "revision" /\ head' = head /\ New(r) \in Revisions /\ New(r) = Current + 1
      /\ body' \in {body, [body EXCEPT ![New(r)] = op[r].chart]}
  BY BoundsAssumption DEF PutRevision, ReadBy, New, Revisions
<1>3. \/ pc'[r] = "idle"
      \/ /\ UNCHANGED <<op, cur>> /\ pc'[r] = "head"
         /\ body' = [body EXCEPT ![New(r)] = op[r].chart]
  BY DEF TypeOK, PutRevision, Return, Goto
<1>4. Stored(body') \subseteq Stored(body) \cup {Current + 1}
  BY <1>2 DEF TypeOK, Histories, Stored
<1>5. Below' /\ EmbedsHead'
  BY <1>2, <1>4 DEF Below, EmbedsHead, Current
<1>6. DoneBy(r)'
  BY <1>2, <1>3 DEF TypeOK, Histories, New
<1>. QED
  BY <1>5, <1>6, DoneFrame DEF Step, RecordRevision

LEMMA DonePutHead ==
  ASSUME Calm, BInv, NEW r \in Requests, PutHead(r) PROVE BInv'
<1>1. Base(r)
  BY BaseHolds DEF Step, RecordRevision
<1>. USE <1>1 DEF Base, DoneBy
<1>2. pc[r] = "head" /\ body' = body /\ New(r) = Current + 1 /\ New(r) \in Revisions
  BY DEF PutHead, ReadBy, AskedBy, New
<1>3. \/ pc'[r] = "idle" /\ head' = head
      \/ /\ pc'[r] = "pruneList" /\ UNCHANGED <<op, cur>>
         /\ head' = [rev |-> New(r), old |-> NoHistory]
  BY DEF TypeOK, PutHead, Return, Goto
<1>4. [rev |-> New(r), old |-> NoHistory] # None
  <2>1. [rev |-> New(r), old |-> NoHistory] \in Heads
    BY <1>2, HistoriesTyped, Constants
  <2>. QED
    BY <2>1, NoneAssumption
<1>5. \A n \in Nat : n <= Current + 1 => n <= Current' + 1
  BY <1>2, <1>3, <1>4 DEF Current
<1>6. Below'
  <2>1. ASSUME NEW n \in Stored(body) PROVE n <= Current' + 1
    <3>1. n <= Current + 1
      BY <1>2
    <3>2. n \in Revisions
      BY DEF Stored
    <3>3. n \in Nat /\ Current \in Nat
      BY <3>2
    <3>. QED
      BY <1>5, <3>1, <3>3
  <2>. QED
    BY <1>2, <2>1 DEF Below, Stored
<1>7. EmbedsHead'
  BY <1>3 DEF EmbedsHead
<1>8. DoneBy(r)'
  BY <1>2, <1>3, <1>4 DEF New
<1>. QED
  BY <1>6, <1>7, <1>8, DoneFrame DEF Step, RecordRevision

LEMMA DonePruneList ==
  ASSUME Calm, BInv, NEW r \in Requests, PruneList(r) PROVE BInv'
<1>1. Base(r)
  BY BaseHolds DEF Step, RecordRevision
<1>. USE <1>1 DEF Base, DoneBy
<1>2. UNCHANGED store /\ pc[r] = "pruneList"
  BY DEF PruneList
<1>3. Below' /\ EmbedsHead'
  BY <1>2 DEF Below, EmbedsHead, Stored, Current, store
<1>4. \/ pc'[r] = "idle"
      \/ /\ pc'[r] = "prune" /\ UNCHANGED <<op, cur>> /\ HistoryMax > 0
         /\ left'[r] = Stored(body) \ Keep(cur[r].hist, New(r))
  BY DEF TypeOK, PruneList, ListPruned, Return, Goto
<1>5. HistoryMax > 0 => New(r) \in Keep(cur[r].hist, New(r))
  <2>1. New(r) \in Revisions /\ New(r) \in Int
    BY <1>2 DEF AskedBy
  <2>2. \A m \in Stored(cur[r].hist) : m <= New(r)
    BY <1>2 DEF UpTo
  <2>. QED
    BY <2>1, <2>2, NewestKept
<1>6. DoneBy(r)'
  BY <1>2, <1>4, <1>5 DEF New, Stored, Keep, store
<1>. QED
  BY <1>3, <1>6, DoneFrame DEF Step, RecordRevision

LEMMA DonePruneDelete ==
  ASSUME Calm, BInv, NEW r \in Requests, PruneDelete(r) PROVE BInv'
<1>1. Base(r)
  BY BaseHolds DEF Step, RecordRevision
<1>. USE <1>1 DEF Base, DoneBy
<1>2. UNCHANGED <<head, live>> /\ pc[r] = "prune"
  BY DEF PruneDelete
<1>3. \/ pc'[r] = "idle" /\ body' = body
      \/ \E n \in left[r] :
           /\ body' = [body EXCEPT ![n] = None]
           /\ \/ pc'[r] = "idle"
              \/ pc'[r] = "prune" /\ left'[r] = left[r] \ {n} /\ UNCHANGED <<op, cur>>
  BY DEF TypeOK, PruneDelete, Return, LoopTo, Goto
<1>4. Stored(body') \subseteq Stored(body)
  BY <1>3 DEF TypeOK, Histories, Stored
<1>5. Below' /\ EmbedsHead'
  BY <1>2, <1>4 DEF Below, EmbedsHead, Stored, Current
<1>6. ASSUME pc'[r] # "idle" PROVE DoneBy(r)'
  <2>1. PICK n \in left[r] :
          /\ body' = [body EXCEPT ![n] = None]
          /\ pc'[r] = "prune" /\ left'[r] = left[r] \ {n} /\ UNCHANGED <<op, cur>>
    BY <1>3, <1>6
  <2>2. n # New(r) /\ body'[New(r)] = body[New(r)]
    BY <1>2, <2>1 DEF TypeOK, Histories
  <2>3. Stored(body') = Stored(body) \ {n}
    BY <2>1 DEF TypeOK, Histories, Stored
  <2>4. New(r)' = New(r) /\ Keep(cur[r].hist, New(r))' = Keep(cur[r].hist, New(r))
    BY <2>1 DEF New, Keep, Stored
  <2>5. Stored(body') \ left'[r] \subseteq Keep(cur[r].hist, New(r))
    BY <1>2, <2>1, <2>3
  <2>. QED
    BY <1>2, <2>1, <2>2, <2>4, <2>5 DEF Stored
<1>7. pc'[r] = "idle" => DoneBy(r)'
  OBVIOUS
<1>. QED
  BY <1>5, <1>6, <1>7, DoneFrame DEF Step, RecordRevision

LEMMA DoneUninstall ==
  ASSUME Calm, BInv, NEW r \in Requests, Uninstall(r) PROVE BInv'
<1>1. Base(r)
  BY BaseHolds DEF Step
<1>. USE <1>1 DEF Base, DoneBy
<1>2. pc[r] \in {"objects", "wipeList", "wipe", "wipeHead"} /\ Faults = {}
  BY DEF Calm, Uninstall, UninstallObject, WipeList, Wipe, WipeHead
<1>3. CASE UninstallObject(r)
  <2>1. UNCHANGED <<head, body, op, cur>> /\ pc'[r] \in {"objects", "wipeList"} /\ pc[r] = "objects"
    BY <1>3 DEF TypeOK, UninstallObject, LoopTo, Goto
  <2>2. Below' /\ EmbedsHead' /\ DoneBy(r)'
    BY <2>1 DEF Below, EmbedsHead, Stored, Current
  <2>. QED
    BY <2>2, DoneFrame DEF Step
<1>4. CASE WipeList(r)
  <2>1. /\ UNCHANGED <<head, body, op, cur>> /\ pc[r] = "wipeList"
        /\ Stored(body) \subseteq left'[r]
        /\ pc'[r] = IF left'[r] = {} THEN "wipeHead" ELSE "wipe"
    BY <1>4 DEF TypeOK, WipeList, Goto, store
  <2>2. Below' /\ EmbedsHead' /\ DoneBy(r)'
    BY <2>1 DEF Below, EmbedsHead, Stored, Current
  <2>. QED
    BY <2>2, DoneFrame DEF Step
<1>5. CASE Wipe(r)
  <2>1. PICK x \in left[r] :
          /\ head' = IF x = Head THEN None ELSE head
          /\ body' = [n \in Revisions |-> IF n = x THEN None ELSE body[n]]
          /\ left'[r] = left[r] \ {x}
          /\ pc'[r] = (IF left[r] = {x} THEN "wipeHead" ELSE "wipe")
          /\ UNCHANGED <<op, cur>>
    BY <1>2, <1>5 DEF TypeOK, Wipe, LoopTo, Goto, Fault
  <2>2. Stored(body') \subseteq Stored(body) \ {x} /\ pc[r] = "wipe"
    BY <1>5, <2>1 DEF Stored, Wipe
  <2>3. Stored(body') \subseteq left'[r]
    BY <2>1, <2>2
  <2>4. pc'[r] = "wipeHead" => Stored(body') = {}
    BY <2>1, <2>3
  <2>5. Below' /\ EmbedsHead' /\ DoneBy(r)'
    BY <2>1, <2>2, <2>3, <2>4 DEF Below, EmbedsHead, Stored
  <2>. QED
    BY <2>5, DoneFrame DEF Step
<1>6. CASE WipeHead(r)
  <2>1. body' = body /\ Stored(body) = {} /\ pc'[r] = "idle" /\ head' = None
    BY <1>2, <1>6 DEF TypeOK, WipeHead, Return, Goto, Fault
  <2>2. Below' /\ EmbedsHead' /\ DoneBy(r)'
    BY <2>1 DEF Below, EmbedsHead, Stored
  <2>. QED
    BY <2>2, DoneFrame DEF Step
<1>. QED
  BY <1>3, <1>4, <1>5, <1>6 DEF Uninstall

LEMMA DoneStep == ASSUME Calm, BInv, NEW r \in Requests, Step(r) PROVE BInv'
BY DoneBeginAbandon, DoneGet, DoneMigrate, DoneMigratePrune, DoneLoad, DoneApply,
   DonePutRevision, DonePutHead, DonePruneList, DonePruneDelete, DoneUninstall
   DEF Step, Get, RecordRevision

LEMMA DoneStutter == ASSUME BInv, UNCHANGED vars PROVE BInv'
<1>1. NInv'
  BY NumberStutter DEF BInv
<1>2. Below' /\ EmbedsHead' /\ Done'
  BY DEF BInv, Below, EmbedsHead, Done, DoneBy, Current, Stored, New, Keep, vars, store
<1>. QED
  BY <1>1, <1>2 DEF BInv

LEMMA DoneInit == ASSUME Init PROVE BInv
<1>1. PICK k \in 0 .. MaxLegacy, h \in Histories :
        Stored(h) = 1 .. k /\ head = IF k = 0 THEN None ELSE [rev |-> k, old |-> h]
  BY DEF Init
<1>2. EmbedsHead
  <2>1. k # 0 => k \in Stored(h)
    BY <1>1
  <2>. QED
    BY <1>1, <2>1 DEF EmbedsHead, Stored
<1>3. Stored(body) = {}
  BY DEF Init, Stored, NoHistory
<1>4. Below /\ Done
  BY <1>3 DEF Init, Below, Done, DoneBy
<1>. QED
  BY <1>2, <1>4, NumberInit DEF BInv

LEMMA DoneNext == ASSUME Calm, BInv, [Next]_vars PROVE BInv'
BY DoneStep, DoneStutter DEF Next, Step

-----------------------------------------------------------------------------
\* An acknowledged deploy or rollback is the current revision, with its chart.
LEMMA AckStep ==
  ASSUME Calm, BInv, [Next]_vars, NEW r \in Requests,
         pc[r] \in {"pruneList", "prune"}, pc'[r] = "idle"
  PROVE  /\ head' # None /\ head'.rev = New(r)
         /\ body'[New(r)] = op[r].chart
<1>1. pc'[r] # pc[r]
  OBVIOUS
<1>2. PICK q \in Requests : Step(q)
  BY <1>1 DEF Next, Step, vars
<1>3. q = r
  BY <1>1, <1>2, TypedStep DEF BInv, NInv, Others
<1>4. Base(r)
  BY <1>2, <1>3, BaseHolds
<1>5. PruneList(r) \/ PruneDelete(r) \/ Abandon(r)
  BY <1>2, <1>3 DEF Step, Get, RecordRevision, Uninstall, Begin, GetNothing, GetHead,
     Migrate, MigrateHead, MigrateList, MigratePrune, LoadFirst, LoadDeploy, LoadRollback,
     LoadUninstall, ApplyObject, PutRevision, PutHead, UninstallObject, WipeList, Wipe, WipeHead
<1>6. head' = head /\ (body' = body \/ \E n \in left[r] : pc[r] = "prune" /\ body' = [body EXCEPT ![n] = None])
  BY <1>5 DEF PruneList, PruneDelete, Abandon, store
<1>. QED
  BY <1>4, <1>6 DEF Base, DoneBy, AskedBy, TypeOK, Histories

\* An acknowledged deploy or rollback is recorded, if requests of the release
\* run one at a time and no uninstall fails halfway (see HelmTwoDeploys and
\* HelmHalfWiped for what happens otherwise).
THEOREM AckedStays == ASSUME Calm PROVE Spec => AckedRecorded
<1>1. BInv /\ [Next]_vars
        => [\A r \in Requests :
              pc[r] \in {"pruneList", "prune"} /\ pc'[r] = "idle" =>
                /\ head' # None /\ head'.rev = New(r)
                /\ body'[New(r)] = op[r].chart]_vars
  BY AckStep
<1>. QED
  BY <1>1, DoneInit, DoneNext, PTL DEF Spec, AckedRecorded

\* A prune that ends has kept what Keep says.
LEMMA PruneStep ==
  ASSUME Calm, BInv, [Next]_vars
  PROVE  /\ \A n \in Revisions :
              /\ body[n] # None /\ body'[n] = None
              /\ \E r \in Requests : pc[r] \in {"prune", "migratePrune"} /\ n \in left[r]
              => head # None /\ n # head.rev
         /\ \A r \in Requests :
              /\ pc[r] = "prune" /\ Cardinality(left[r]) = 1
              /\ pc'[r] = "idle" /\ body' # body
              => Cardinality(Stored(body')) <= HistoryMax
<1>1. ASSUME NEW n \in Revisions, NEW r \in Requests,
             pc[r] \in {"prune", "migratePrune"}, n \in left[r]
      PROVE  head # None /\ n # head.rev
  BY <1>1 DEF BInv, NInv, Read, ReadBy, Done, DoneBy
<1>2. ASSUME NEW r \in Requests, pc[r] = "prune", pc'[r] = "idle", body' # body
      PROVE  Cardinality(Stored(body')) <= HistoryMax
  <2>1. PICK q \in Requests : Step(q)
    BY <1>2 DEF Next, Step, vars
  <2>2. q = r
    BY <1>2, <2>1, TypedStep DEF BInv, NInv, Others
  <2>3. PruneDelete(r)
    BY <1>2, <2>1, <2>2 DEF Step, Get, RecordRevision, Uninstall, Begin, GetNothing, GetHead,
       Migrate, MigrateHead, MigrateList, MigratePrune, LoadFirst, LoadDeploy, LoadRollback,
       LoadUninstall, ApplyObject, PutRevision, PutHead, PruneList, UninstallObject, WipeList,
       Wipe, WipeHead, Abandon, store
  <2>4. Base(r)
    BY <2>1, <2>2, BaseHolds
  <2>5. PICK n \in left[r] : body' = [body EXCEPT ![n] = None] /\ left[r] = {n}
    BY <1>2, <2>3, <2>4 DEF PruneDelete, LoopTo, Goto, Base, TypeOK
  <2>6. Stored(body') \subseteq Stored(body) \ left[r]
    BY <2>4, <2>5 DEF Base, TypeOK, Histories, Stored
  <2>7. /\ HistoryMax > 0 /\ Stored(body) \ left[r] \subseteq Keep(cur[r].hist, New(r))
        /\ cur[r].hist \in Histories /\ New(r) \in Revisions
    BY <1>2, <2>4 DEF Base, DoneBy, AskedBy
  <2>8. /\ IsFiniteSet(Keep(cur[r].hist, New(r)))
        /\ Cardinality(Keep(cur[r].hist, New(r))) <= HistoryMax
    BY <2>7, KeepBounded
  <2>9. Stored(body') \subseteq Keep(cur[r].hist, New(r))
    BY <2>6, <2>7
  <2>10. /\ IsFiniteSet(Stored(body'))
         /\ Cardinality(Stored(body')) <= Cardinality(Keep(cur[r].hist, New(r)))
    BY <2>8, <2>9, FS_Subset
  <2>11. Cardinality(Stored(body')) \in Int /\ Cardinality(Keep(cur[r].hist, New(r))) \in Int
    BY <2>8, <2>10, FS_CardinalityType
  <2>. QED
    BY <2>8, <2>10, <2>11, BoundsAssumption
<1>. QED
  BY <1>1, <1>2

\* Pruning never deletes the current revision, and leaves HistoryMax bodies at
\* most, if requests of the release run one at a time and no uninstall fails
\* halfway (one that does leaves bodies above the next head; see HelmHalfWiped).
THEOREM PruneStaysExact == ASSUME Calm PROVE Spec => PruneExact
<1>1. BInv /\ [Next]_vars
        => [ /\ \A n \in Revisions :
                  /\ body[n] # None /\ body'[n] = None
                  /\ \E r \in Requests : pc[r] \in {"prune", "migratePrune"} /\ n \in left[r]
                  => head # None /\ n # head.rev
             /\ \A r \in Requests :
                  /\ pc[r] = "prune" /\ Cardinality(left[r]) = 1
                  /\ pc'[r] = "idle" /\ body' # body
                  => Cardinality(Stored(body')) <= HistoryMax ]_vars
  BY PruneStep
<1>. QED
  BY <1>1, DoneInit, DoneNext, PTL DEF Spec, PruneExact

-----------------------------------------------------------------------------
(* One request at a time, and nothing fails: the cluster holds what the    *)
(* current revision deployed.                                              *)

Smooth == Exclusive /\ Faults = {}

\* The request has begun to change the cluster, and has not recorded it yet.
Busy(r) ==
  \/ pc[r] \in {"apply", "revision", "head", "objects", "wipeList", "wipe", "wipeHead"}
  \/ op[r].kind = "deploy" /\ op[r].reads = 1 /\ pc[r] \notin {"pruneList", "prune"}

\* What the current revision deployed, wherever it is stored.
CurrentChart == IF body[head.rev] = None THEN head.old[head.rev] ELSE body[head.rev]

InCluster(c, missing) == \A o \in ObjectsOf[c] \ missing : live[o] = c

Settled ==
  head # None /\ (\A r \in Requests : ~Busy(r)) =>
    CurrentChart # None /\ InCluster(CurrentChart, {})

\* What the request has applied, and what it has migrated.
AppliedBy(r) ==
  /\ (pc[r] = "apply" => InCluster(op[r].chart, left[r]))
  /\ (pc[r] \in {"revision", "head"} => InCluster(op[r].chart, {}))
  /\ (op[r].kind = "deploy" /\ op[r].reads = 1 /\ pc[r] \in Reading \cup {"get"}
        => InCluster(op[r].chart, {}))
  /\ (pc[r] = "migrate" => \A n \in Stored(cur[r].hist) \ left[r] : body[n] # None)
  /\ (pc[r] = "migrateHead" => \A n \in Stored(cur[r].hist) : body[n] # None)

Applied == \A r \in Requests : AppliedBy(r)

LInv == BInv /\ Settled /\ Applied

LEMMA LiveFrame ==
  ASSUME Smooth, LInv, NEW r \in Requests, Step(r), Settled', AppliedBy(r)'
  PROVE  LInv'
<1>1. Calm /\ Exclusive /\ TInv /\ Alone
  BY DEF Smooth, Calm, LInv, BInv, NInv
<1>2. ASSUME NEW q \in Requests, q # r PROVE AppliedBy(q)'
  <2>1. pc'[q] = "idle" /\ TInv'
    BY <1>1, <1>2, AloneStep, TypedStep
  <2>2. op'[q] = NoOp
    BY <2>1 DEF TInv, Asked, AskedBy
  <2>. QED
    BY <2>1, <2>2 DEF AppliedBy, NoOp
<1>. QED
  BY <1>1, <1>2, DoneStep DEF LInv, Applied

\* What a step starts from.  The others are idle, so not busy.
Start(r) ==
  /\ Base(r) /\ AppliedBy(r)
  /\ (head # None /\ ~Busy(r) => CurrentChart # None /\ InCluster(CurrentChart, {}))
  /\ TypeOK' /\ AskedBy(r)' /\ DoneBy(r)'

LEMMA Starting ==
  ASSUME Smooth, LInv, NEW r \in Requests, Step(r) PROVE Start(r)
<1>1. Calm /\ Exclusive /\ TInv /\ Alone /\ BInv
  BY DEF Smooth, Calm, LInv, BInv, NInv
<1>2. Base(r)
  BY <1>1, BaseHolds
<1>3. ASSUME NEW q \in Requests, q # r PROVE ~Busy(q)
  <2>1. pc[q] = "idle" /\ op[q] = NoOp
    BY <1>1, <1>3, AloneStep DEF TInv, Asked, AskedBy
  <2>. QED
    BY <2>1 DEF Busy, NoOp
<1>4. head # None /\ ~Busy(r) => CurrentChart # None /\ InCluster(CurrentChart, {})
  BY <1>3 DEF LInv, Settled
<1>5. TypeOK' /\ AskedBy(r)' /\ DoneBy(r)'
  BY <1>1, DoneStep DEF BInv, NInv, TInv, Asked, Done
<1>. QED
  BY <1>2, <1>4, <1>5 DEF Start, LInv, Applied

\* A step that leaves the records' current chart and the cluster alone.
LEMMA SameCurrent ==
  ASSUME Smooth, LInv, NEW r \in Requests, Step(r), UNCHANGED live,
         head' # None => head # None /\ CurrentChart' = CurrentChart,
         ~Busy(r)' => ~Busy(r) \/ head' = None
  PROVE  Settled'
BY Starting DEF Start, Settled, InCluster

LEMMA LiveGet ==
  ASSUME Smooth, LInv, NEW r \in Requests,
         Begin(r) \/ GetNothing(r) \/ GetHead(r)
  PROVE  LInv'
<1>1. Start(r) /\ Step(r)
  BY Starting DEF Step, Get
<1>. USE <1>1 DEF Start, Base, AppliedBy
<1>2. UNCHANGED store /\ CurrentChart' = CurrentChart
  BY DEF Begin, GetNothing, GetHead, CurrentChart, store
<1>3. CASE Begin(r)
  <2>1. pc'[r] = "get" /\ op'[r].reads = 0 /\ pc[r] = "idle"
    BY <1>3 DEF TypeOK, Begin, Goto
  <2>2. op[r] = NoOp
    BY <2>1 DEF AskedBy
  <2>3. ~Busy(r) /\ AppliedBy(r)'
    BY <2>1, <2>2 DEF Busy, NoOp
  <2>. QED
    BY <1>2, <2>3, SameCurrent, LiveFrame DEF store
<1>4. CASE GetHead(r)
  <2>1. /\ pc[r] = "get" /\ pc'[r] \in {"load", "migrate"} /\ op' = op
        /\ cur'[r].hist = head.old /\ left'[r] = Stored(head.old)
    BY <1>4 DEF TypeOK, GetHead, Goto
  <2>2. Busy(r)' = Busy(r)
    BY <2>1 DEF Busy
  <2>3. AppliedBy(r)'
    BY <1>2, <2>1 DEF InCluster, Reading, store
  <2>. QED
    BY <1>2, <2>2, <2>3, SameCurrent, LiveFrame DEF store
<1>5. CASE GetNothing(r)
  <2>1. head = None /\ head' = None /\ pc[r] = "get"
    BY <1>2, <1>5 DEF GetNothing, store
  <2>2. ASSUME Return(r) PROVE pc'[r] = "idle" /\ op'[r] = NoOp
    BY <2>2 DEF TypeOK, Return, Goto
  <2>3. ASSUME ~Return(r), op[r].reads = 0
        PROVE  /\ pc'[r] = "apply" /\ op'[r].chart = op[r].chart
               /\ left'[r] = ObjectsOf[op[r].chart]
    <3>1. /\ pc' = [pc EXCEPT ![r] = "apply"] /\ op' = [op EXCEPT ![r].reads = 1]
          /\ left' = [left EXCEPT ![r] = ObjectsOf[op[r].chart]]
      BY <1>5, <2>3 DEF GetNothing, Goto
    <3>. QED
      BY <3>1 DEF TypeOK, Ops
  <2>4. ASSUME ~Return(r), op[r].reads # 0
        PROVE  pc'[r] = "revision" /\ op' = op /\ op[r].kind = "deploy" /\ op[r].reads = 1
    BY <1>5, <2>4 DEF TypeOK, Ops, GetNothing, Goto
  <2>5. AppliedBy(r)'
    <3>1. CASE Return(r)
      BY <2>2, <3>1 DEF NoOp
    <3>2. CASE ~Return(r) /\ op[r].reads = 0
      BY <2>3, <3>2 DEF InCluster, Reading
    <3>3. CASE ~Return(r) /\ op[r].reads # 0
      BY <1>2, <2>1, <2>4, <3>3 DEF InCluster, Reading, store
    <3>. QED
      BY <3>1, <3>2, <3>3
  <2>6. Settled'
    BY <2>1 DEF Settled
  <2>. QED
    BY <2>5, <2>6, LiveFrame
<1>. QED
  BY <1>3, <1>4, <1>5

LEMMA LiveMigrate ==
  ASSUME Smooth, LInv, NEW r \in Requests, Migrate(r) \/ MigrateHead(r)
  PROVE  LInv'
<1>1. Start(r) /\ Step(r) /\ Faults = {}
  BY Starting DEF Step, Get, Smooth
<1>. USE <1>1 DEF Start, Base, AppliedBy
<1>2. UNCHANGED <<live, op, cur>> /\ pc[r] \in {"migrate", "migrateHead"}
  BY DEF Migrate, MigrateHead
<1>3. head # None /\ cur[r].rev = head.rev /\ cur[r].hist = head.old
  BY <1>2 DEF ReadBy
<1>4. head.rev \in Stored(head.old) /\ head.rev \in Revisions
  BY <1>2, <1>3 DEF DoneBy, Stored
<1>5. CASE Migrate(r)
  <2>1. PICK n \in left[r] :
          /\ body' = [body EXCEPT ![n] = head.old[n]]
          /\ left' = [left EXCEPT ![r] = left[r] \ {n}]
          /\ pc' = [pc EXCEPT ![r] = IF left[r] = {n} THEN "migrateHead" ELSE "migrate"]
    BY <1>3, <1>5 DEF Migrate, Fault, LoopTo, Goto
  <2>2. /\ left'[r] = left[r] \ {n} /\ head' = head /\ pc[r] = "migrate"
        /\ pc'[r] = (IF left[r] = {n} THEN "migrateHead" ELSE "migrate")
    BY <1>5, <2>1 DEF TypeOK, Migrate
  <2>3. \A m \in Revisions : body'[m] = IF m = n THEN head.old[m] ELSE body[m]
    BY <2>1 DEF TypeOK, Histories
  <2>4. CurrentChart' = CurrentChart
    BY <1>3, <1>4, <2>2, <2>3 DEF CurrentChart, Embedded, Stored
  <2>5. \A m \in Stored(head.old) \ left'[r] : body'[m] # None
    BY <1>3, <2>2, <2>3 DEF Stored
  <2>6. AppliedBy(r)'
    BY <1>2, <1>3, <2>2, <2>5 DEF InCluster, Reading
  <2>7. Busy(r)' = Busy(r)
    BY <1>2, <2>2 DEF Busy
  <2>. QED
    BY <1>2, <1>3, <2>4, <2>6, <2>7, SameCurrent, LiveFrame
<1>6. CASE MigrateHead(r)
  <2>1. /\ pc[r] = "migrateHead" /\ pc'[r] = "migrateList" /\ body' = body
        /\ head' = [rev |-> head.rev, old |-> NoHistory]
    BY <1>3, <1>6 DEF TypeOK, MigrateHead, Fault, Goto
  <2>2. body[head.rev] # None
    BY <1>3, <1>4, <2>1
  <2>3. CurrentChart' = CurrentChart
    BY <2>1, <2>2 DEF CurrentChart
  <2>4. AppliedBy(r)' /\ Busy(r)' = Busy(r)
    BY <1>2, <2>1 DEF InCluster, Reading, Busy
  <2>. QED
    BY <1>2, <1>3, <2>3, <2>4, SameCurrent, LiveFrame
<1>. QED
  BY <1>5, <1>6

LEMMA LiveMigratePrune ==
  ASSUME Smooth, LInv, NEW r \in Requests, MigrateList(r) \/ MigratePrune(r)
  PROVE  LInv'
<1>1. Start(r) /\ Step(r)
  BY Starting DEF Step, Get
<1>. USE <1>1 DEF Start, Base, AppliedBy
<1>2. /\ UNCHANGED <<head, live, op, cur>> /\ pc[r] \in {"migrateList", "migratePrune"}
      /\ pc'[r] \in {"migratePrune", "load"}
  BY DEF TypeOK, MigrateList, MigratePrune, ListPruned, LoopTo, Goto, store
<1>3. head # None /\ cur[r].rev = head.rev /\ head.rev \in Revisions
  BY <1>2 DEF ReadBy
<1>4. body'[head.rev] = body[head.rev]
  <2>1. CASE MigrateList(r)
    BY <2>1 DEF MigrateList, store
  <2>2. CASE MigratePrune(r)
    <3>1. head.rev \notin left[r]
      BY <1>3, <2>2 DEF DoneBy, MigratePrune
    <3>. QED
      BY <1>3, <2>2, <3>1 DEF TypeOK, Histories, MigratePrune
  <2>. QED
    BY <2>1, <2>2
<1>5. CurrentChart' = CurrentChart
  BY <1>2, <1>4 DEF CurrentChart
<1>6. AppliedBy(r)' /\ Busy(r)' = Busy(r)
  BY <1>2 DEF InCluster, Reading, Busy
<1>. QED
  BY <1>2, <1>3, <1>5, <1>6, SameCurrent, LiveFrame

LEMMA LiveLoad ==
  ASSUME Smooth, LInv, NEW r \in Requests,
         LoadFirst(r) \/ LoadDeploy(r) \/ LoadRollback(r) \/ LoadUninstall(r)
  PROVE  LInv'
<1>1. Start(r) /\ Step(r)
  BY Starting DEF Step, Get
<1>. USE <1>1 DEF Start, Base, AppliedBy
<1>2. UNCHANGED store /\ pc[r] = "load" /\ head # None
  BY DEF LoadFirst, LoadDeploy, LoadRollback, LoadUninstall, ReadBy
<1>3. CurrentChart' = CurrentChart
  BY <1>2 DEF CurrentChart, store
<1>4. \/ pc'[r] = "idle" /\ op[r].kind # "deploy" /\ op'[r] = NoOp
      \/ pc'[r] = "get" /\ op[r].kind # "deploy" /\ op'[r].kind # "deploy"
      \/ pc'[r] = "apply" /\ left'[r] = ObjectsOf[op'[r].chart]
      \/ pc'[r] = "revision" /\ op' = op /\ op[r].kind = "deploy" /\ op[r].reads = 1
      \/ pc'[r] \in {"objects", "wipeList"}
  <2>1. CASE LoadFirst(r)
    <3>1. CASE op[r].kind = "read"
      BY <2>1, <3>1 DEF TypeOK, LoadFirst, Return, Goto
    <3>2. CASE op[r].kind = "deploy"
      <4>1. pc'[r] = "apply" /\ left'[r] = ObjectsOf[op[r].chart]
        BY <2>1, <3>2 DEF TypeOK, LoadFirst, FirstRead, Goto
      <4>2. op' = [op EXCEPT ![r].reads = 1]
        BY <2>1, <3>2 DEF LoadFirst, FirstRead
      <4>3. op'[r].chart = op[r].chart
        BY <4>2 DEF TypeOK, Ops
      <4>. QED
        BY <4>1, <4>3
    <3>3. CASE op[r].kind \notin {"read", "deploy"}
      BY <2>1, <3>3 DEF TypeOK, Ops, LoadFirst, FirstRead, Goto
    <3>. QED
      BY <3>1, <3>2, <3>3
  <2>2. CASE LoadDeploy(r) \/ LoadUninstall(r)
    BY <2>2 DEF TypeOK, LoadDeploy, LoadUninstall, Goto
  <2>3. CASE LoadRollback(r)
    <3>1. CASE Return(r)
      BY <2>3, <3>1 DEF TypeOK, LoadRollback, Return, Goto
    <3>2. CASE ~Return(r)
      <4>1. /\ op' = [op EXCEPT ![r].chart = body[op[r].to]]
            /\ left' = [left EXCEPT ![r] = ObjectsOf[body[op[r].to]]]
            /\ pc' = [pc EXCEPT ![r] = "apply"]
        BY <2>3, <3>2 DEF LoadRollback, Goto
      <4>2. op'[r].chart = body[op[r].to]
        BY <4>1 DEF TypeOK, Ops
      <4>. QED
        BY <4>1, <4>2 DEF TypeOK
    <3>. QED
      BY <3>1, <3>2
  <2>. QED
    BY <2>1, <2>2, <2>3
<1>5. ~Busy(r)' => ~Busy(r)
  BY <1>2, <1>4 DEF Busy
<1>6. AppliedBy(r)'
  BY <1>2, <1>4 DEF InCluster, Reading, NoOp, store
<1>. QED
  BY <1>2, <1>3, <1>5, <1>6, SameCurrent, LiveFrame DEF store

LEMMA LiveApply ==
  ASSUME Smooth, LInv, NEW r \in Requests, ApplyObject(r)
  PROVE  LInv'
<1>1. Start(r) /\ Step(r) /\ Faults = {}
  BY Starting DEF Step, Smooth
<1>. USE <1>1 DEF Start, Base, AppliedBy
<1>2. PICK o \in left[r] :
        /\ live' = [live EXCEPT ![o] = op[r].chart]
        /\ LoopTo(r, o, "apply", IF op[r].kind = "deploy" THEN "get" ELSE "revision")
  BY DEF ApplyObject, Fault
<1>3. /\ UNCHANGED <<head, body, op, cur>> /\ pc[r] = "apply"
      /\ left'[r] = left[r] \ {o}
      /\ pc'[r] = IF left[r] = {o} THEN (IF op[r].kind = "deploy" THEN "get" ELSE "revision")
                                   ELSE "apply"
  BY <1>2 DEF TypeOK, ApplyObject, LoopTo, Goto, Return, Fault
<1>4. op[r].chart \in Charts /\ ObjectsOf[op[r].chart] \subseteq Objects
  BY <1>3, ChartsAssumption DEF TypeOK, AskedBy, Ops
<1>5. InCluster(op[r].chart, left[r])
  BY <1>3
<1>6. \A p \in ObjectsOf[op[r].chart] \ left'[r] : live'[p] = op[r].chart
  BY <1>2, <1>3, <1>4, <1>5 DEF TypeOK, InCluster
<1>7. AppliedBy(r)'
  BY <1>3, <1>6 DEF InCluster, Reading
<1>8. Busy(r)'
  <2>1. CASE op[r].kind = "deploy"
    <3>1. op[r].reads = 1
      BY <1>3, <2>1 DEF DoneBy
    <3>. QED
      BY <1>3, <2>1, <3>1 DEF Busy
  <2>2. CASE op[r].kind # "deploy"
    BY <1>3, <2>2 DEF Busy
  <2>. QED
    BY <2>1, <2>2
<1>9. Settled'
  BY <1>8 DEF Settled
<1>. QED
  BY <1>7, <1>9, LiveFrame

LEMMA LivePut ==
  ASSUME Smooth, LInv, NEW r \in Requests, PutRevision(r) \/ PutHead(r)
  PROVE  LInv'
<1>1. Start(r) /\ Step(r) /\ Faults = {}
  BY Starting DEF Step, RecordRevision, Smooth
<1>. USE <1>1 DEF Start, Base, AppliedBy
<1>2. /\ UNCHANGED <<live, op, cur>> /\ pc[r] \in {"revision", "head"}
      /\ InCluster(op[r].chart, {}) /\ op[r].chart # None
  BY DEF PutRevision, PutHead, Fault, AskedBy
<1>3. CASE PutRevision(r)
  <2>1. pc'[r] = "head"
    BY <1>3 DEF TypeOK, PutRevision, Fault, Goto
  <2>2. AppliedBy(r)' /\ Busy(r)'
    BY <1>2, <2>1 DEF InCluster, Reading, Busy
  <2>. QED
    BY <2>2, LiveFrame DEF Settled
<1>4. CASE PutHead(r)
  <2>1. pc'[r] = "pruneList" /\ body' = body /\ head' = [rev |-> New(r), old |-> NoHistory]
        /\ body[New(r)] = op[r].chart
    BY <1>4 DEF TypeOK, PutHead, Fault, Goto, DoneBy
  <2>2. CurrentChart' = op[r].chart
    BY <1>2, <2>1 DEF CurrentChart
  <2>3. Settled'
    BY <1>2, <2>2 DEF Settled, InCluster
  <2>4. AppliedBy(r)'
    BY <2>1 DEF Reading
  <2>. QED
    BY <2>3, <2>4, LiveFrame
<1>. QED
  BY <1>3, <1>4

LEMMA LivePrune ==
  ASSUME Smooth, LInv, NEW r \in Requests, PruneList(r) \/ PruneDelete(r)
  PROVE  LInv'
<1>1. Start(r) /\ Step(r)
  BY Starting DEF Step, RecordRevision
<1>. USE <1>1 DEF Start, Base, AppliedBy
<1>2. /\ UNCHANGED <<head, live>> /\ pc[r] \in {"pruneList", "prune"}
      /\ pc'[r] \in {"prune", "idle"}
      /\ pc'[r] = "idle" => op'[r] = NoOp \/ op' = op
  BY DEF TypeOK, PruneList, ListPruned, PruneDelete, Return, LoopTo, Goto, store
<1>3. head # None /\ head.rev = New(r) /\ New(r) \in Revisions
  BY <1>2 DEF DoneBy, AskedBy
<1>4. body'[head.rev] = body[head.rev]
  <2>1. CASE PruneList(r)
    BY <2>1 DEF PruneList, store
  <2>2. CASE PruneDelete(r)
    <3>1. head.rev \notin left[r]
      BY <1>3, <2>2 DEF DoneBy, PruneDelete
    <3>. QED
      BY <1>3, <2>2, <3>1 DEF TypeOK, Histories, PruneDelete
  <2>. QED
    BY <2>1, <2>2
<1>5. CurrentChart' = CurrentChart /\ ~Busy(r)
  BY <1>2, <1>4 DEF CurrentChart, Busy
<1>6. AppliedBy(r)'
  <2>1. pc'[r] \notin {"apply", "revision", "head", "migrate", "migrateHead", "get"} \cup Reading
    BY <1>2 DEF Reading
  <2>. QED
    BY <2>1
<1>. QED
  BY <1>2, <1>3, <1>5, <1>6, SameCurrent, LiveFrame

LEMMA LiveUninstall ==
  ASSUME Smooth, LInv, NEW r \in Requests, Uninstall(r)
  PROVE  LInv'
<1>1. Start(r) /\ Step(r) /\ Faults = {}
  BY Starting DEF Step, Smooth
<1>. USE <1>1 DEF Start, Base, AppliedBy
<1>2. CASE WipeHead(r)
  <2>1. pc'[r] = "idle" /\ op'[r] = NoOp /\ head' = None
    BY <1>2 DEF TypeOK, WipeHead, Return, Goto, Fault
  <2>2. Settled' /\ AppliedBy(r)'
    BY <2>1 DEF Settled, Reading, NoOp
  <2>. QED
    BY <2>2, LiveFrame
<1>3. CASE ~WipeHead(r)
  <2>1. pc'[r] \in {"objects", "wipeList", "wipe", "wipeHead"}
    BY <1>3 DEF TypeOK, Uninstall, UninstallObject, WipeList, Wipe, LoopTo, Goto, Fault
  <2>2. Busy(r)' /\ AppliedBy(r)'
    BY <2>1 DEF Busy, Reading
  <2>. QED
    BY <2>2, LiveFrame DEF Settled
<1>. QED
  BY <1>2, <1>3

LEMMA LiveNext == ASSUME Smooth, LInv, [Next]_vars PROVE LInv'
<1>1. \A r \in Requests : ~Abandon(r)
  BY DEF Smooth, Abandon, Fault
<1>2. ASSUME UNCHANGED vars PROVE LInv'
  <2>1. BInv'
    BY <1>2, DoneStutter DEF LInv
  <2>2. Settled' /\ Applied'
    BY <1>2 DEF LInv, Settled, Applied, AppliedBy, Busy, CurrentChart, InCluster, Stored, vars, store
  <2>. QED
    BY <2>1, <2>2 DEF LInv
<1>. QED
  BY <1>1, <1>2, LiveGet, LiveMigrate, LiveMigratePrune, LiveLoad, LiveApply, LivePut,
     LivePrune, LiveUninstall DEF Next, Get, RecordRevision

LEMMA LiveInit == ASSUME Init PROVE LInv
<1>1. PICK k \in 0 .. MaxLegacy, h \in Histories :
        /\ Stored(h) = 1 .. k
        /\ head = IF k = 0 THEN None ELSE [rev |-> k, old |-> h]
        /\ live = [o \in Objects |-> IF k # 0 /\ o \in ObjectsOf[h[k]] THEN h[k] ELSE None]
  BY DEF Init
<1>2. Settled
  <2>1. SUFFICES ASSUME head # None
                 PROVE  CurrentChart # None /\ InCluster(CurrentChart, {})
    BY DEF Settled
  <2>2. k \in Stored(h) /\ head = [rev |-> k, old |-> h]
    BY <1>1, <2>1
  <2>3. h[k] # None /\ k \in Revisions /\ CurrentChart = h[k]
    BY <2>2 DEF Stored, Init, NoHistory, CurrentChart
  <2>4. h[k] \in Charts
    BY <2>3, HistoriesTyped
  <2>5. ObjectsOf[h[k]] \subseteq Objects
    BY <2>4, ChartsAssumption
  <2>6. k # 0
    BY <2>3, Constants
  <2>. QED
    BY <1>1, <2>3, <2>5, <2>6 DEF InCluster
<1>3. Applied
  BY DEF Init, Applied, AppliedBy, NoOp
<1>. QED
  BY <1>2, <1>3, DoneInit DEF LInv

\* Whenever no request is working on the release, the cluster holds what the
\* current revision deployed: of requests that run one at a time, with nothing
\* failing, none ends before it has applied and recorded the same chart.
THEOREM DeployedStaysLive == ASSUME Smooth PROVE Spec => []DeployedIsLive
<1>1. LInv => DeployedIsLive
  <2>1. SUFFICES ASSUME LInv, head # None, \A r \in Requests : pc[r] = "idle"
                 PROVE  AbsHistory[head.rev] # None
                        /\ \A o \in ObjectsOf[AbsHistory[head.rev]] : live[o] = AbsHistory[head.rev]
    BY DEF DeployedIsLive
  <2>2. \A r \in Requests : ~Busy(r)
    BY <2>1 DEF LInv, BInv, NInv, TInv, Asked, AskedBy, Busy, NoOp
  <2>3. CurrentChart # None /\ InCluster(CurrentChart, {})
    BY <2>1, <2>2 DEF LInv, Settled
  <2>4. AbsCurrent = head.rev /\ head.rev \in Revisions
    BY <2>1 DEF AbsCurrent, Wiping, LInv, BInv, NInv, TInv, TypeOK, Heads
  <2>4a. head.rev \in Int
    <3>1. \A n \in Revisions : n \in Int
      BY Constants
    <3>. QED
      BY <2>4, <3>1
  <2>. DEFINE chart(n) == IF body[n] = None THEN head.old[n] ELSE body[n]
              seen == {n \in Revisions : n <= AbsCurrent /\ chart(n) # None}
  <2>5. head.rev \in seen /\ chart(head.rev) = CurrentChart
    BY <2>3, <2>4, <2>4a DEF CurrentChart
  <2>6. {m \in seen : m > head.rev} = {}
    <3>1. ASSUME NEW m \in Revisions, m <= head.rev PROVE ~(m > head.rev)
      <4>1. m \in Int
        BY Constants
      <4>. QED
        BY <2>4a, <3>1, <4>1
    <3>. QED
      BY <2>4, <3>1
  <2>7. Cardinality({m \in seen : m > head.rev}) = 0
    BY <2>6, FS_EmptySet
  <2>8. HistoryMax <= 0 \/ Cardinality({m \in seen : m > head.rev}) < HistoryMax
    BY <2>7, BoundsAssumption
  <2>9. AbsHistory[head.rev] = CurrentChart
    BY <2>4, <2>5, <2>8 DEF AbsHistory
  <2>. QED
    BY <2>3, <2>9 DEF InCluster
<1>. QED
  BY <1>1, LiveInit, LiveNext, PTL DEF Spec

-----------------------------------------------------------------------------
(* The newest HistoryMax of a set of revisions.                            *)

Newer(S, n) == {m \in S : m > n}

Top(S) ==
  IF HistoryMax <= 0 THEN S ELSE {n \in S : Cardinality(Newer(S, n)) < HistoryMax}

LEMMA NewerFinite ==
  ASSUME NEW S \in SUBSET Revisions, NEW n
  PROVE  IsFiniteSet(Newer(S, n)) /\ Cardinality(Newer(S, n)) \in Nat
<1>1. IsFiniteSet(Revisions)
  BY FS_Interval, BoundsAssumption DEF Revisions
<1>2. Newer(S, n) \subseteq Revisions
  BY DEF Newer
<1>. QED
  BY <1>1, <1>2, FS_Subset, FS_CardinalityType

LEMMA NewerMonotone ==
  ASSUME NEW S \in SUBSET Revisions, NEW T \in SUBSET Revisions, NEW n, NEW m,
         Newer(S, n) \subseteq Newer(T, m)
  PROVE  Cardinality(Newer(S, n)) <= Cardinality(Newer(T, m))
BY NewerFinite, FS_Subset

LEMMA RevisionOrder ==
  \A a, b, c \in Revisions :
    /\ a \in Int
    /\ (a > b /\ b > c => a > c) /\ (a < b <=> b > a) /\ ~(a > a)
    /\ (a > b \/ b > a \/ a = b) /\ ~(a > b /\ b > a)
BY Constants

\* Of two revisions, the newer is kept first.
LEMMA TopUpwards ==
  ASSUME NEW S \in SUBSET Revisions, NEW n \in Top(S)
  PROVE  Newer(S, n) \subseteq Top(S)
<1>1. CASE HistoryMax <= 0
  BY <1>1 DEF Top, Newer
<1>2. CASE ~(HistoryMax <= 0)
  <2>1. SUFFICES ASSUME NEW m \in Newer(S, n) PROVE Cardinality(Newer(S, m)) < HistoryMax
    BY <1>2 DEF Top, Newer
  <2>2. m \in Revisions /\ n \in Revisions /\ m > n
    BY <1>2 DEF Top, Newer
  <2>3. Newer(S, m) \subseteq Newer(S, n)
    BY <2>2, RevisionOrder DEF Newer
  <2>4. Cardinality(Newer(S, n)) < HistoryMax
    BY <1>2 DEF Top
  <2>. QED
    BY <2>3, <2>4, NewerMonotone, NewerFinite, BoundsAssumption
<1>. QED
  BY <1>1, <1>2

\* A set and its newest HistoryMax grow by a next revision alike.
LEMMA TopAdd ==
  ASSUME NEW S \in SUBSET Revisions, NEW x \in Revisions, \A n \in S : n < x
  PROVE  Top(S \cup {x}) = Top(Top(S) \cup {x})
<1>1. CASE HistoryMax <= 0
  BY <1>1 DEF Top
<1>2. CASE ~(HistoryMax <= 0)
  <2>. DEFINE T == Top(S)
              A == S \cup {x}
              B == T \cup {x}
  <2>1. T \subseteq S /\ A \in SUBSET Revisions /\ B \in SUBSET Revisions
    BY <1>2 DEF Top
  <2>2. Newer(A, x) = {} /\ Newer(B, x) = {}
    <3>1. ASSUME NEW n \in A PROVE ~(n > x)
      BY RevisionOrder, <2>1
    <3>. QED
      BY <2>1, <3>1 DEF Newer
  <2>3. x \in Top(A) /\ x \in Top(B)
    <3>1. Cardinality({}) = 0 /\ 0 < HistoryMax
      BY <1>2, FS_EmptySet, BoundsAssumption
    <3>. QED
      BY <1>2, <2>2, <3>1 DEF Top
  <2>4. ASSUME NEW n \in T PROVE n \in Top(A) <=> n \in Top(B)
    <3>1. Newer(S, n) \subseteq T
      BY TopUpwards
    <3>2. Newer(A, n) = Newer(B, n)
      BY <2>1, <3>1 DEF Newer
    <3>. QED
      BY <1>2, <2>1, <3>2 DEF Top
  <2>5. ASSUME NEW n \in S, n \notin T PROVE n \notin Top(A) /\ n \notin Top(B)
    <3>1. n # x /\ n \notin B
      BY <2>5, RevisionOrder
    <3>2. ~(Cardinality(Newer(S, n)) < HistoryMax)
      BY <1>2, <2>5 DEF Top
    <3>3. Newer(S, n) \subseteq Newer(A, n)
      BY DEF Newer
    <3>4. Cardinality(Newer(S, n)) <= Cardinality(Newer(A, n))
      BY <2>1, <3>3, NewerMonotone
    <3>5. ~(Cardinality(Newer(A, n)) < HistoryMax)
      BY <2>1, <3>2, <3>4, NewerFinite, BoundsAssumption
    <3>. QED
      BY <1>2, <3>1, <3>5 DEF Top
  <2>6. Top(A) \subseteq S \cup {x} /\ Top(B) \subseteq S \cup {x}
    BY <1>2, <2>1 DEF Top
  <2>. HIDE DEF T, A, B
  <2>7. Top(A) = Top(B)
    BY <2>3, <2>4, <2>5, <2>6
  <2>. QED
    BY <2>7 DEF T, A, B
<1>. QED
  BY <1>1, <1>2

\* Deleting what is beyond the newest HistoryMax does not change them.
LEMMA TopDelete ==
  ASSUME NEW S \in SUBSET Revisions, NEW n \in S, HistoryMax > 0,
         Cardinality(Newer(S, n)) >= HistoryMax
  PROVE  Top(S \ {n}) = Top(S)
<1>. DEFINE D == S \ {n}
<1>1. D \in SUBSET Revisions /\ n \in Revisions /\ ~(HistoryMax <= 0)
  BY BoundsAssumption
<1>2. n \notin Top(S)
  BY <1>1, NewerFinite, BoundsAssumption DEF Top
<1>3. ASSUME NEW m \in D PROVE m \in Top(D) <=> m \in Top(S)
  <2>1. CASE m > n
    <3>1. Newer(D, m) = Newer(S, m)
      BY <1>1, <2>1, RevisionOrder DEF Newer
    <3>. QED
      BY <1>1, <3>1 DEF Top
  <2>2. CASE ~(m > n)
    <3>1. n > m
      BY <1>1, <2>2, RevisionOrder
    <3>2. Newer(S, n) \subseteq Newer(D, m) /\ Newer(S, n) \subseteq Newer(S, m)
      BY <1>1, <3>1, RevisionOrder DEF Newer
    <3>3. /\ Cardinality(Newer(S, n)) <= Cardinality(Newer(D, m))
          /\ Cardinality(Newer(S, n)) <= Cardinality(Newer(S, m))
      BY <1>1, <3>2, NewerMonotone
    <3>4. ~(Cardinality(Newer(D, m)) < HistoryMax) /\ ~(Cardinality(Newer(S, m)) < HistoryMax)
      BY <1>1, <3>3, NewerFinite, BoundsAssumption
    <3>. QED
      BY <1>1, <3>4 DEF Top
  <2>. QED
    BY <2>1, <2>2
<1>4. Top(D) \subseteq D /\ Top(S) \subseteq S
  BY <1>1 DEF Top
<1>. HIDE DEF D
<1>5. Top(D) \subseteq Top(S)
  BY <1>3, <1>4
<1>6. Top(S) \subseteq Top(D)
  BY <1>2, <1>3, <1>4 DEF D
<1>. QED
  BY <1>5, <1>6 DEF D

\* A set of revisions has a newest one.
LEMMA NewestExists ==
  ASSUME NEW B \in SUBSET Revisions, B # {}
  PROVE  \E x \in B : \A y \in B : ~(y > x)
<1>. DEFINE M == MaxRevision
            T == {M - b : b \in B}
<1>1. \A b \in B : b \in Nat /\ M - b \in Nat
  BY BoundsAssumption DEF Revisions
<1>2. T \subseteq Nat /\ T # {}
  BY <1>1
<1>3. \E x \in T : \A y \in T : ~(<<y, x>> \in OpToRel(<, Nat))
  BY <1>2, NatLessThanWellFounded, WFMin, Zenon
<1>4. PICK x \in T : \A y \in T : ~(y < x)
  BY <1>2, <1>3 DEF OpToRel
<1>5. PICK b \in B : x = M - b
  OBVIOUS
<1>6. ASSUME NEW y \in B PROVE ~(y > b)
  <2>1. M - y \in T /\ ~(M - y < M - b)
    BY <1>4, <1>5
  <2>. QED
    BY <1>1, <2>1, BoundsAssumption
<1>. QED
  BY <1>6

\* What is beyond the newest HistoryMax has that many of them above it.
LEMMA TopMany ==
  ASSUME NEW S \in SUBSET Revisions, NEW n \in S, n \notin Top(S), HistoryMax > 0
  PROVE  Cardinality(Newer(Top(S), n)) >= HistoryMax
<1>. DEFINE B == {m \in S \ Top(S) : ~(n > m)}
<1>1. n \in B /\ B \in SUBSET Revisions
  BY RevisionOrder
<1>2. PICK x \in B : \A y \in B : ~(y > x)
  BY <1>1, NewestExists
<1>3. Newer(S, x) \subseteq Newer(Top(S), n)
  <2>1. SUFFICES ASSUME NEW m \in S, m > x PROVE m \in Top(S) /\ m > n
    BY DEF Newer
  <2>2. m > n
    BY <1>1, <2>1, RevisionOrder
  <2>3. m \notin B
    BY <1>2, <2>1
  <2>. QED
    BY <1>1, <2>2, <2>3, RevisionOrder
<1>4. Top(S) \in SUBSET Revisions /\ x \in S /\ x \notin Top(S)
  BY DEF Top
<1>5. ~(Cardinality(Newer(S, x)) < HistoryMax)
  BY <1>4, BoundsAssumption DEF Top
<1>6. Cardinality(Newer(S, x)) <= Cardinality(Newer(Top(S), n))
  BY <1>3, <1>4, NewerMonotone
<1>. QED
  BY <1>4, <1>5, <1>6, NewerFinite, BoundsAssumption

-----------------------------------------------------------------------------
(* What a request knows of the history, and what it prunes.                *)

\* The bodies end at the head, but for the one that is being recorded.
Tight ==
  \/ \E r \in Requests : pc[r] \in {"head", "wipe"}
  \/ \A n \in Stored(body) : n <= Current

\* An embedded history has every revision.
EmbedsAll ==
  head # None /\ head.old # NoHistory =>
    \A n \in Revisions : n <= head.rev => head.old[n] # None

\* What the request knows of the history, and that what it may still delete is
\* beyond the newest of the rest.
KnownBy(r) ==
  /\ (pc[r] \in {"migrateList", "migratePrune", "load", "pruneList", "prune"}
        => head.old = NoHistory)
  /\ (pc[r] \in {"revision", "head"} => (head # None => head.old = NoHistory))
  /\ (pc[r] = "apply" /\ op[r].kind # "deploy" => (head # None => head.old = NoHistory))
  /\ (pc[r] \in {"migrateList", "revision"} => Stored(body) = Stored(cur[r].hist))
  /\ (pc[r] = "apply" /\ op[r].kind # "deploy" => Stored(body) = Stored(cur[r].hist))
  /\ (pc[r] \in {"head", "pruneList"} => Stored(body) = Stored(cur[r].hist) \cup {New(r)})
  /\ (pc[r] \in {"revision", "head", "pruneList"} => New(r) \notin Stored(cur[r].hist))
  /\ (pc[r] = "apply" /\ op[r].kind # "deploy" => New(r) \notin Stored(cur[r].hist))
  /\ (pc[r] \in {"migratePrune", "prune"} =>
        /\ HistoryMax > 0 /\ left[r] \subseteq Stored(body)
        /\ \A n \in left[r] :
             Cardinality(Newer(Stored(body) \ left[r], n)) >= HistoryMax)

KnownWell == \A r \in Requests : KnownBy(r)

RInv == LInv /\ Tight /\ EmbedsAll /\ KnownWell

\* The facts that every step of RInv starts from.
Known1(r) ==
  /\ Start(r) /\ KnownBy(r) /\ EmbedsAll
  /\ (pc[r] \in {"head", "wipe"} \/ \A n \in Stored(body) : n <= Current)

LEMMA KnownFrame ==
  ASSUME Smooth, RInv, NEW r \in Requests, Step(r), Tight', EmbedsAll', KnownBy(r)'
  PROVE  RInv'
<1>1. Calm /\ Exclusive /\ TInv /\ Alone
  BY DEF Smooth, Calm, RInv, LInv, BInv, NInv
<1>2. ASSUME NEW q \in Requests, q # r PROVE KnownBy(q)'
  <2>1. pc'[q] = "idle"
    BY <1>1, <1>2, AloneStep
  <2>. QED
    BY <2>1 DEF KnownBy
<1>3. LInv'
  BY LiveNext DEF RInv, Next, Step
<1>. QED
  BY <1>2, <1>3 DEF RInv, KnownWell

LEMMA Knowing ==
  ASSUME Smooth, RInv, NEW r \in Requests, Step(r) PROVE Known1(r) /\ Faults = {}
<1>1. Calm /\ Exclusive /\ TInv /\ Alone /\ LInv
  BY DEF Smooth, Calm, RInv, LInv, BInv, NInv
<1>2. Start(r)
  BY <1>1, Starting
<1>3. pc[r] \in {"head", "wipe"} \/ \A n \in Stored(body) : n <= Current
  BY <1>1, AloneStep DEF RInv, Tight
<1>. QED
  BY <1>2, <1>3 DEF Known1, RInv, KnownWell, Smooth

\* While the records stay as they are.
LEMMA SameRecords ==
  ASSUME NEW r \in Requests, Known1(r), UNCHANGED <<head, body>>,
         pc[r] \notin {"head", "wipe"}
  PROVE  Tight' /\ EmbedsAll'
BY DEF Known1, Tight, EmbedsAll, Stored, Current

LEMMA KnownGet ==
  ASSUME Smooth, RInv, NEW r \in Requests,
         Begin(r) \/ GetNothing(r) \/ GetHead(r)
  PROVE  RInv'
<1>1. Known1(r) /\ Step(r)
  BY Knowing DEF Step, Get
<1>. USE <1>1 DEF Known1, Start, Base, KnownBy
<1>2. UNCHANGED store /\ pc[r] \in {"idle", "get"}
  BY DEF Begin, GetNothing, GetHead
<1>3. Tight' /\ EmbedsAll'
  BY <1>2, SameRecords DEF store
<1>4. CASE Begin(r) \/ GetHead(r)
  <2>1. pc'[r] \in {"get", "migrate"} \/ (pc'[r] = "load" /\ head.old = NoHistory)
    BY <1>4 DEF TypeOK, Begin, GetHead, Goto
  <2>2. KnownBy(r)'
    BY <1>2, <2>1 DEF store
  <2>. QED
    BY <1>3, <2>2, KnownFrame
<1>5. CASE GetNothing(r)
  <2>1. head = None /\ \A n \in Stored(body) : n <= 0
    BY <1>2, <1>5 DEF GetNothing, Current
  <2>2. Stored(body) = {}
    <3>1. ASSUME NEW n \in Stored(body) PROVE FALSE
      <4>1. n <= 0 /\ n \in Nat /\ n # 0
        BY <2>1 DEF Stored
      <4>. QED
        BY <4>1
    <3>. QED
      BY <3>1
  <2>3. \/ pc'[r] = "idle"
        \/ pc'[r] = "apply" /\ op'[r].kind = "deploy"
        \/ pc'[r] = "revision" /\ cur'[r].hist = NoHistory
    <3>1. CASE Return(r)
      BY <3>1 DEF TypeOK, Return, Goto
    <3>2. CASE ~Return(r) /\ op[r].reads = 0
      <4>1. /\ op[r].kind = "deploy"
            /\ pc' = [pc EXCEPT ![r] = "apply"] /\ op' = [op EXCEPT ![r].reads = 1]
        BY <1>5, <3>2 DEF GetNothing, Goto
      <4>. QED
        BY <4>1 DEF TypeOK, Ops
    <3>3. CASE ~Return(r) /\ op[r].reads # 0
      BY <1>5, <3>3 DEF TypeOK, GetNothing, Goto, NoRelease
    <3>. QED
      BY <3>1, <3>2, <3>3
  <2>4. Stored(NoHistory) = {}
    BY DEF Stored, NoHistory
  <2>5. head' = None /\ Stored(body') = {}
    BY <1>2, <2>1, <2>2 DEF store
  <2>6. KnownBy(r)'
    BY <2>3, <2>4, <2>5
  <2>. QED
    BY <1>3, <2>6, KnownFrame
<1>. QED
  BY <1>4, <1>5

\* The bodies of a release with an embedded history are among it.
LEMMA BodiesEmbedded ==
  ASSUME NEW r \in Requests, Known1(r), head # None, head.old # NoHistory,
         pc[r] \notin {"head", "wipe"}
  PROVE  Stored(body) \subseteq Stored(head.old)
<1>1. \A n \in Stored(body) : n \in Revisions /\ n <= head.rev
  BY DEF Known1, Stored, Current
<1>. QED
  BY <1>1 DEF Known1, EmbedsAll, Stored

LEMMA KnownMigrate ==
  ASSUME Smooth, RInv, NEW r \in Requests, Migrate(r) \/ MigrateHead(r)
  PROVE  RInv'
<1>1. Known1(r) /\ Step(r) /\ Faults = {}
  BY Knowing DEF Step, Get
<1>. USE <1>1 DEF Known1, Start, Base, KnownBy
<1>2. /\ UNCHANGED <<live, op, cur>> /\ pc[r] \in {"migrate", "migrateHead"}
      /\ head # None /\ cur[r].rev = head.rev /\ cur[r].hist = head.old
  BY DEF Migrate, MigrateHead, ReadBy
<1>3. head.rev \in Stored(head.old) /\ head.old # NoHistory
  BY <1>2 DEF DoneBy, Stored, NoHistory
<1>4. Stored(body) \subseteq Stored(head.old)
  BY <1>2, <1>3, BodiesEmbedded
<1>5. CASE Migrate(r)
  <2>1. PICK n \in left[r] : body' = [body EXCEPT ![n] = head.old[n]]
    BY <1>2, <1>5 DEF Migrate, Fault
  <2>2. head' = head /\ pc'[r] \in {"migrate", "migrateHead"}
    BY <1>5 DEF TypeOK, Migrate, Fault, LoopTo, Goto
  <2>3. Stored(body') \subseteq Stored(head.old)
    BY <1>4, <2>1 DEF TypeOK, Histories, Stored
  <2>4. \A m \in Stored(head.old) : m <= head.rev
    BY <1>2 DEF Embedded, Stored
  <2>5. Tight' /\ EmbedsAll'
    BY <1>2, <2>2, <2>3, <2>4 DEF Tight, EmbedsAll, Current
  <2>6. KnownBy(r)'
    BY <2>2
  <2>. QED
    BY <2>5, <2>6, KnownFrame
<1>6. CASE MigrateHead(r)
  <2>1. /\ body' = body /\ head' = [rev |-> head.rev, old |-> NoHistory]
        /\ pc[r] = "migrateHead" /\ pc'[r] = "migrateList"
    BY <1>2, <1>6 DEF TypeOK, MigrateHead, Fault, Goto
  <2>2. Stored(head.old) \subseteq Stored(body)
    BY <1>2, <2>1 DEF AppliedBy, Stored
  <2>3. \A n \in Stored(head.old) : n <= head.rev
    BY <1>2 DEF Embedded, Stored
  <2>4. head' # None
    <3>1. [rev |-> head.rev, old |-> NoHistory] \in Heads
      BY <1>2, HistoriesTyped, Constants
    <3>. QED
      BY <2>1, <3>1, NoneAssumption
  <2>5. Tight' /\ EmbedsAll'
    BY <1>4, <2>1, <2>3, <2>4 DEF Tight, EmbedsAll, Current, Stored
  <2>6. KnownBy(r)'
    BY <1>2, <1>4, <2>1, <2>2 DEF Stored
  <2>. QED
    BY <2>5, <2>6, KnownFrame
<1>. QED
  BY <1>5, <1>6

\* What pruneHistory keeps of the bodies is the newest HistoryMax of them.
LEMMA KeepIsTop ==
  ASSUME NEW h \in Histories, NEW new \in Int, NEW S \in SUBSET Revisions, HistoryMax > 0,
         \/ new = 0 /\ S = Stored(h)
         \/ new \in Revisions \ Stored(h) /\ S = Stored(h) \cup {new}
  PROVE  S \ Keep(h, new) = S \ Top(S)
<1>. DEFINE old(n) == {m \in Stored(h) : m > n}
            extra(n) == IF new > n THEN 1 ELSE 0
<1>1. Stored(h) \subseteq Revisions /\ ~(HistoryMax <= 0)
  BY BoundsAssumption DEF Stored
<1>2. ASSUME NEW n \in S
      PROVE  Cardinality(Newer(S, n)) = Cardinality(old(n)) + extra(n)
  <2>1. n \in Int /\ n >= 0
    <3>1. n \in Revisions
      OBVIOUS
    <3>. QED
      BY <3>1, Constants
  <2>2. old(n) = Newer(Stored(h), n) /\ IsFiniteSet(old(n)) /\ Cardinality(old(n)) \in Nat
    BY <1>1, NewerFinite DEF Newer
  <2>3. CASE new = 0
    <3>1. extra(n) = 0
      BY <2>1, <2>3
    <3>2. Newer(S, n) = old(n)
      BY <2>3, Constants DEF Newer
    <3>. HIDE DEF old, extra
    <3>. QED
      BY <2>2, <3>1, <3>2
  <2>4. CASE new # 0 /\ new > n
    <3>1. Newer(S, n) = old(n) \cup {new} /\ new \notin old(n) /\ extra(n) = 1
      BY <2>4 DEF Newer
    <3>. HIDE DEF old, extra
    <3>. QED
      BY <2>2, <3>1, FS_AddElement
  <2>5. CASE new # 0 /\ ~(new > n)
    <3>1. Newer(S, n) = old(n) /\ extra(n) = 0
      BY <2>5 DEF Newer
    <3>. HIDE DEF old, extra
    <3>. QED
      BY <2>2, <3>1
  <2>. QED
    BY <2>3, <2>4, <2>5
<1>3. \A n \in S : n \in Keep(h, new) <=> Cardinality(old(n)) + extra(n) < HistoryMax
  BY DEF Keep
<1>4. \A n \in S : n \in Top(S) <=> Cardinality(Newer(S, n)) < HistoryMax
  BY <1>1 DEF Top
<1>. HIDE DEF old, extra
<1>. QED
  BY <1>2, <1>3, <1>4

\* So all that it deletes has HistoryMax newer ones that stay.
LEMMA PrunedBeyond ==
  ASSUME NEW S \in SUBSET Revisions, HistoryMax > 0
  PROVE  \A n \in S \ Top(S) :
           Cardinality(Newer(S \ (S \ Top(S)), n)) >= HistoryMax
<1>1. S \ (S \ Top(S)) = Top(S)
  BY DEF Top
<1>. QED
  BY <1>1, TopMany

LEMMA KnownMigratePrune ==
  ASSUME Smooth, RInv, NEW r \in Requests, MigrateList(r) \/ MigratePrune(r)
  PROVE  RInv'
<1>1. Known1(r) /\ Step(r) /\ Faults = {}
  BY Knowing DEF Step, Get
<1>. USE <1>1 DEF Known1, Start, Base, KnownBy
<1>2. /\ UNCHANGED <<head, live, op, cur>> /\ pc[r] \in {"migrateList", "migratePrune"}
      /\ pc'[r] \in {"migratePrune", "load"} /\ head.old = NoHistory
  BY DEF TypeOK, MigrateList, MigratePrune, ListPruned, LoopTo, Goto, store
<1>3. Stored(body) \subseteq Revisions
  BY DEF Stored
<1>4. CASE MigrateList(r)
  <2>1. UNCHANGED body /\ Stored(body) = Stored(cur[r].hist)
    BY <1>4 DEF MigrateList, store
  <2>2. ASSUME pc'[r] = "migratePrune"
        PROVE  /\ HistoryMax > 0
               /\ left'[r] = Stored(body) \ Top(Stored(body))
    <3>1. HistoryMax > 0 /\ left'[r] = Stored(body) \ Keep(cur[r].hist, 0)
      BY <1>4, <2>2 DEF TypeOK, MigrateList, Fault, ListPruned, Goto
    <3>. QED
      BY <1>3, <2>1, <3>1, KeepIsTop
  <2>3. KnownBy(r)'
    BY <1>2, <1>3, <2>1, <2>2, PrunedBeyond DEF Stored
  <2>. QED
    BY <1>2, <2>1, <2>3, SameRecords, KnownFrame
<1>5. CASE MigratePrune(r)
  <2>1. PICK n \in left[r] :
          /\ body' = [body EXCEPT ![n] = None]
          /\ LoopTo(r, n, "migratePrune", "load")
    BY <1>5 DEF MigratePrune, Fault
  <2>2. left'[r] = left[r] \ {n} /\ pc[r] = "migratePrune"
    BY <1>5, <2>1 DEF TypeOK, LoopTo, MigratePrune
  <2>3. Stored(body') = Stored(body) \ {n}
    BY <2>1 DEF TypeOK, Histories, Stored
  <2>4. Stored(body') \ left'[r] = Stored(body) \ left[r] /\ left'[r] \subseteq Stored(body')
    BY <2>2, <2>3
  <2>5. KnownBy(r)'
    BY <1>2, <2>2, <2>4 DEF Stored
  <2>6. Tight' /\ EmbedsAll'
    BY <1>2, <2>3 DEF Tight, EmbedsAll, Current
  <2>. QED
    BY <2>5, <2>6, KnownFrame
<1>. QED
  BY <1>4, <1>5

LEMMA KnownLoad ==
  ASSUME Smooth, RInv, NEW r \in Requests,
         LoadFirst(r) \/ LoadDeploy(r) \/ LoadRollback(r) \/ LoadUninstall(r)
  PROVE  RInv'
<1>1. Known1(r) /\ Step(r)
  BY Knowing DEF Step, Get
<1>. USE <1>1 DEF Known1, Start, Base, KnownBy
<1>2. UNCHANGED store /\ pc[r] = "load" /\ cur[r].rev = Current /\ head.old = NoHistory
  BY DEF LoadFirst, LoadDeploy, LoadRollback, LoadUninstall, ReadBy, Current
<1>3. cur[r].rev + 1 \notin Stored(body)
  <2>1. \A n \in Stored(body) : n <= Current
    BY <1>2
  <2>. QED
    BY <1>2, <2>1
<1>4. \/ pc'[r] \in {"idle", "get", "objects", "wipeList"}
      \/ pc'[r] = "apply" /\ op'[r].kind = "deploy"
      \/ pc'[r] \in {"apply", "revision"} /\ cur'[r].rev = cur[r].rev /\ cur'[r].hist = body
  <2>1. CASE LoadFirst(r)
    BY <2>1 DEF TypeOK, Ops, LoadFirst, FirstRead, Return, Goto
  <2>2. CASE LoadDeploy(r) \/ LoadUninstall(r)
    BY <2>2 DEF TypeOK, Releases, LoadDeploy, LoadUninstall, Goto
  <2>3. CASE LoadRollback(r)
    BY <2>3 DEF TypeOK, Releases, LoadRollback, Return, Goto
  <2>. QED
    BY <2>1, <2>2, <2>3
<1>5. KnownBy(r)'
  BY <1>2, <1>3, <1>4 DEF store, New
<1>. QED
  BY <1>2, <1>5, SameRecords, KnownFrame DEF store

LEMMA KnownApply ==
  ASSUME Smooth, RInv, NEW r \in Requests, ApplyObject(r)
  PROVE  RInv'
<1>1. Known1(r) /\ Step(r) /\ Faults = {}
  BY Knowing DEF Step
<1>. USE <1>1 DEF Known1, Start, Base, KnownBy
<1>2. UNCHANGED <<head, body, op, cur>> /\ pc[r] = "apply"
  BY DEF ApplyObject, Fault
<1>3. \/ pc'[r] = "get"
      \/ pc'[r] = "apply"
      \/ pc'[r] = "revision" /\ op[r].kind # "deploy"
  BY DEF TypeOK, ApplyObject, LoopTo, Goto, Fault
<1>4. KnownBy(r)'
  BY <1>2, <1>3 DEF New, Stored
<1>. QED
  BY <1>2, <1>4, SameRecords, KnownFrame

LEMMA KnownPut ==
  ASSUME Smooth, RInv, NEW r \in Requests, PutRevision(r) \/ PutHead(r)
  PROVE  RInv'
<1>1. Known1(r) /\ Step(r) /\ Faults = {}
  BY Knowing DEF Step, RecordRevision
<1>. USE <1>1 DEF Known1, Start, Base, KnownBy
<1>2. /\ UNCHANGED <<live, op, cur>> /\ pc[r] \in {"revision", "head"}
      /\ New(r) = Current + 1
  BY DEF PutRevision, PutHead, Fault, ReadBy, New
<1>3. CASE PutRevision(r)
  <2>1. /\ head' = head /\ pc'[r] = "head" /\ pc[r] = "revision"
        /\ body' = [body EXCEPT ![New(r)] = op[r].chart]
    BY <1>3 DEF TypeOK, PutRevision, Fault, Goto
  <2>2. New(r)' = New(r) /\ New(r) \in Revisions /\ op[r].chart # None
    BY <1>2, <2>1 DEF AskedBy, New
  <2>3. Stored(body') = Stored(body) \cup {New(r)}
    BY <2>1, <2>2 DEF TypeOK, Histories, Stored
  <2>4. KnownBy(r)'
    BY <1>2, <2>1, <2>2, <2>3
  <2>5. Tight' /\ EmbedsAll'
    BY <2>1 DEF Tight, EmbedsAll
  <2>. QED
    BY <2>4, <2>5, KnownFrame
<1>4. CASE PutHead(r)
  <2>1. /\ body' = body /\ pc'[r] = "pruneList" /\ pc[r] = "head"
        /\ head' = [rev |-> New(r), old |-> NoHistory]
    BY <1>4 DEF TypeOK, PutHead, Fault, Goto
  <2>2. head' # None /\ New(r)' = New(r) /\ New(r) \in Nat
    <3>1. New(r) \in Revisions
      BY <2>1 DEF AskedBy
    <3>2. [rev |-> New(r), old |-> NoHistory] \in Heads
      BY <3>1, HistoriesTyped, Constants
    <3>. QED
      BY <1>2, <2>1, <3>1, <3>2, NoneAssumption DEF New
  <2>3. \A n \in Stored(body) : n <= New(r)
    BY <2>1, <2>2 DEF DoneBy, UpTo
  <2>4. Tight' /\ EmbedsAll'
    BY <2>1, <2>2, <2>3 DEF Tight, EmbedsAll, Current, Stored
  <2>5. KnownBy(r)'
    BY <1>2, <2>1, <2>2 DEF Stored
  <2>. QED
    BY <2>4, <2>5, KnownFrame
<1>. QED
  BY <1>3, <1>4

LEMMA KnownPrune ==
  ASSUME Smooth, RInv, NEW r \in Requests, PruneList(r) \/ PruneDelete(r)
  PROVE  RInv'
<1>1. Known1(r) /\ Step(r) /\ Faults = {}
  BY Knowing DEF Step, RecordRevision
<1>. USE <1>1 DEF Known1, Start, Base, KnownBy
<1>2. /\ UNCHANGED <<head, live>> /\ pc[r] \in {"pruneList", "prune"} /\ head.old = NoHistory
  BY DEF PruneList, PruneDelete, store
<1>3. Stored(body) \subseteq Revisions
  BY DEF Stored
<1>4. CASE PruneList(r)
  <2>1. UNCHANGED body /\ pc[r] = "pruneList" /\ pc'[r] \in {"idle", "prune"}
    BY <1>4 DEF TypeOK, PruneList, ListPruned, Return, Goto, store
  <2>2. ASSUME pc'[r] = "prune"
        PROVE  /\ HistoryMax > 0
               /\ left'[r] = Stored(body) \ Top(Stored(body))
    <3>1. HistoryMax > 0 /\ left'[r] = Stored(body) \ Keep(cur[r].hist, New(r))
      BY <1>4, <2>2 DEF TypeOK, PruneList, Fault, Return, ListPruned, Goto
    <3>2. /\ New(r) \in Revisions \ Stored(cur[r].hist) /\ New(r) \in Int
          /\ Stored(body) = Stored(cur[r].hist) \cup {New(r)}
      BY <2>1 DEF AskedBy
    <3>. QED
      BY <1>3, <3>1, <3>2, KeepIsTop
  <2>3. KnownBy(r)'
    BY <1>2, <1>3, <2>1, <2>2, PrunedBeyond DEF Stored
  <2>. QED
    BY <1>2, <2>1, <2>3, SameRecords, KnownFrame
<1>5. CASE PruneDelete(r)
  <2>1. PICK n \in left[r] :
          /\ body' = [body EXCEPT ![n] = None]
          /\ \/ left[r] = {n} /\ Return(r)
             \/ left[r] # {n} /\ LoopTo(r, n, "prune", "prune")
    BY <1>5 DEF PruneDelete, Fault
  <2>2. pc[r] = "prune" /\ (pc'[r] = "idle" \/ (pc'[r] = "prune" /\ left'[r] = left[r] \ {n}))
    BY <1>5, <2>1 DEF TypeOK, LoopTo, Return, Goto, PruneDelete
  <2>3. Stored(body') = Stored(body) \ {n}
    BY <2>1 DEF TypeOK, Histories, Stored
  <2>4. left'[r] = left[r] \ {n}
          => Stored(body') \ left'[r] = Stored(body) \ left[r] /\ left'[r] \subseteq Stored(body')
    BY <2>2, <2>3
  <2>5. KnownBy(r)'
    BY <1>2, <2>2, <2>4 DEF Stored
  <2>6. Tight' /\ EmbedsAll'
    BY <1>2, <2>2, <2>3 DEF Tight, EmbedsAll, Current
  <2>. QED
    BY <2>5, <2>6, KnownFrame
<1>. QED
  BY <1>4, <1>5

LEMMA KnownUninstall ==
  ASSUME Smooth, RInv, NEW r \in Requests, Uninstall(r)
  PROVE  RInv'
<1>1. Known1(r) /\ Step(r) /\ Faults = {}
  BY Knowing DEF Step
<1>. USE <1>1 DEF Known1, Start, Base, KnownBy
<1>2. /\ pc'[r] \in {"idle", "objects", "wipeList", "wipe", "wipeHead"}
      /\ head' \in {head, None}
  BY DEF TypeOK, Uninstall, UninstallObject, WipeList, Wipe, WipeHead, Return, LoopTo, Goto,
         Fault, store
<1>3. KnownBy(r)' /\ EmbedsAll'
  <2>1. \A m \in Revisions : body'[m] \in {body[m], None}
    BY DEF TypeOK, Histories, Uninstall, UninstallObject, WipeList, Wipe, WipeHead, store
  <2>. QED
    BY <1>2, <2>1 DEF EmbedsAll
<1>4. Tight'
  <2>1. CASE UninstallObject(r) \/ WipeList(r)
    <3>1. UNCHANGED <<head, body>> /\ pc[r] \notin {"head", "wipe"}
      BY <2>1 DEF UninstallObject, WipeList, store
    <3>. QED
      BY <3>1, SameRecords
  <2>2. CASE Wipe(r)
    <3>1. pc'[r] \in {"wipe", "wipeHead"}
      BY <2>2 DEF TypeOK, Wipe, LoopTo, Goto, Fault
    <3>2. pc'[r] = "wipeHead" => Stored(body') = {}
      BY DEF DoneBy, Stored
    <3>. QED
      BY <3>1, <3>2 DEF Tight, Stored
  <2>3. CASE WipeHead(r)
    <3>1. body' = body /\ Stored(body) = {}
      BY <2>3 DEF WipeHead, DoneBy
    <3>. QED
      BY <3>1 DEF Tight, Stored
  <2>. QED
    BY <2>1, <2>2, <2>3 DEF Uninstall
<1>. QED
  BY <1>3, <1>4, KnownFrame

LEMMA KnownStep ==
  ASSUME Smooth, RInv, NEW r \in Requests, Step(r) PROVE RInv'
<1>1. ~Abandon(r)
  BY DEF Smooth, Abandon, Fault
<1>. QED
  BY <1>1, KnownGet, KnownMigrate, KnownMigratePrune, KnownLoad, KnownApply, KnownPut,
     KnownPrune, KnownUninstall DEF Step, Get, RecordRevision

LEMMA KnownInit == ASSUME Init PROVE RInv
<1>1. PICK k \in 0 .. MaxLegacy, h \in Histories :
        Stored(h) = 1 .. k /\ head = IF k = 0 THEN None ELSE [rev |-> k, old |-> h]
  BY DEF Init
<1>2. EmbedsAll
  <2>1. ASSUME NEW n \in Revisions, n <= k PROVE n \in Stored(h)
    BY <1>1, <2>1, Constants DEF Revisions
  <2>. QED
    BY <1>1, <2>1 DEF EmbedsAll, Stored
<1>3. Stored(body) = {}
  BY DEF Init, Stored, NoHistory
<1>4. Tight /\ KnownWell
  BY <1>3 DEF Init, Tight, KnownWell, KnownBy
<1>. QED
  BY <1>2, <1>4, LiveInit DEF RInv

LEMMA KnownNext == ASSUME Smooth, RInv, [Next]_vars PROVE RInv'
<1>1. ASSUME UNCHANGED vars PROVE RInv'
  <2>1. LInv'
    BY LiveNext DEF RInv
  <2>2. Tight' /\ EmbedsAll' /\ KnownWell'
    BY <1>1 DEF RInv, Tight, EmbedsAll, KnownWell, KnownBy, Current, Stored, New, Newer, vars, store
  <2>. QED
    BY <2>1, <2>2 DEF RInv
<1>. QED
  BY <1>1, KnownStep DEF Next, Step

-----------------------------------------------------------------------------
(* No revision is forgotten.                                               *)

LEMMA ForgetStep ==
  ASSUME Smooth, RInv, NEW r \in Requests, Step(r), NEW n \in Known, n \notin Known',
         op[r].kind # "uninstall"
  PROVE  HistoryMax > 0 /\ Cardinality({m \in Known : m > n}) >= HistoryMax
<1>1. Known1(r) /\ Faults = {}
  BY Knowing
<1>. USE <1>1 DEF Known1, Start, Base, KnownBy
<1>2. /\ n \in Revisions /\ body'[n] = None /\ (head' # None => head'.old[n] = None)
      /\ (body[n] # None \/ (head # None /\ head.old[n] # None))
  BY DEF Known
<1>3. ~(head' = head /\ body' = body)
  BY <1>2
<1>4. pc[r] \notin {"objects", "wipeList", "wipe", "wipeHead"}
  BY DEF DoneBy
<1>5. Migrate(r) \/ MigrateHead(r) \/ MigratePrune(r) \/ PutRevision(r) \/ PutHead(r) \/ PruneDelete(r)
  BY <1>3, <1>4 DEF Step, Get, RecordRevision, Uninstall, Begin, GetNothing, GetHead,
     MigrateList, LoadFirst, LoadDeploy, LoadRollback, LoadUninstall, ApplyObject,
     PruneList, UninstallObject, WipeList, Wipe, WipeHead, Abandon, store
<1>6. ~Migrate(r)
  <2>1. SUFFICES ASSUME Migrate(r) PROVE FALSE
    OBVIOUS
  <2>2. PICK p \in left[r] : body' = [body EXCEPT ![p] = cur[r].hist[p]]
    BY <2>1 DEF Migrate, Fault
  <2>3. /\ head' = head /\ head # None /\ pc[r] = "migrate"
        /\ cur[r].rev = head.rev /\ cur[r].hist = head.old
    BY <2>1 DEF Migrate, ReadBy
  <2>4. head.rev \in Stored(head.old) /\ head.old # NoHistory
    BY <2>3 DEF DoneBy, Stored, NoHistory
  <2>5. Stored(body) \subseteq Stored(head.old)
    BY <2>3, <2>4, BodiesEmbedded
  <2>6. head.old[n] # None
    BY <1>2, <2>5 DEF Stored
  <2>. QED
    BY <1>2, <2>3, <2>6
<1>7. ~MigrateHead(r)
  <2>1. SUFFICES ASSUME MigrateHead(r) PROVE FALSE
    OBVIOUS
  <2>2. body' = body /\ cur[r].hist = head.old /\ pc[r] = "migrateHead"
    BY <2>1 DEF MigrateHead, ReadBy
  <2>3. Stored(head.old) \subseteq Stored(body)
    BY <2>2 DEF AppliedBy, Stored
  <2>. QED
    BY <1>2, <2>2, <2>3 DEF Stored
<1>8. ~PutRevision(r)
  <2>1. SUFFICES ASSUME PutRevision(r) PROVE FALSE
    OBVIOUS
  <2>2. /\ body' = [body EXCEPT ![New(r)] = op[r].chart] /\ head' = head
        /\ op[r].chart # None
    BY <2>1 DEF PutRevision, Fault, AskedBy
  <2>. QED
    BY <1>2, <2>2 DEF TypeOK, Histories
<1>9. ~PutHead(r)
  <2>1. SUFFICES ASSUME PutHead(r) PROVE FALSE
    OBVIOUS
  <2>2. body' = body /\ (head # None => head.old = NoHistory)
    BY <2>1 DEF PutHead, Fault
  <2>. QED
    BY <1>2, <2>2 DEF NoHistory
<1>10. pc[r] \in {"migratePrune", "prune"} /\ \E p \in left[r] : body' = [body EXCEPT ![p] = None]
  BY <1>5, <1>6, <1>7, <1>8, <1>9 DEF MigratePrune, PruneDelete, Fault
<1>11. head' = head
  BY <1>5, <1>6, <1>7, <1>8, <1>9 DEF MigratePrune, PruneDelete
<1>12. n \in left[r]
  BY <1>2, <1>10, <1>11 DEF TypeOK, Histories
<1>13. HistoryMax > 0 /\ Cardinality(Newer(Stored(body) \ left[r], n)) >= HistoryMax
  BY <1>10, <1>12
<1>14. {m \in Known : m > n} = Newer(Known, n) /\ Known \in SUBSET Revisions
  BY DEF Newer, Known
<1>15. Stored(body) \ left[r] \in SUBSET Revisions
       /\ Newer(Stored(body) \ left[r], n) \subseteq Newer(Known, n)
  BY DEF Newer, Known, Stored
<1>16. Cardinality(Newer(Stored(body) \ left[r], n)) <= Cardinality(Newer(Known, n))
  BY <1>14, <1>15, NewerMonotone
<1>17. /\ Cardinality(Newer(Stored(body) \ left[r], n)) \in Nat
       /\ Cardinality(Newer(Known, n)) \in Nat
  BY <1>14, <1>15, NewerFinite
<1>18. Cardinality(Newer(Known, n)) >= HistoryMax
  <2>1. ASSUME NEW a \in Nat, NEW b \in Nat, a <= b, a >= HistoryMax PROVE b >= HistoryMax
    BY <2>1, BoundsAssumption
  <2>. HIDE <1>1
  <2>. QED
    BY <1>13, <1>16, <1>17, <2>1
<1>. HIDE <1>1
<1>. QED
  BY <1>13, <1>14, <1>18

\* A revision that is known, stored or embedded, is forgotten only with
\* HistoryMax newer ones or with the release, if requests run one at a time
\* and nothing fails (see HelmLegacy for a migration that fails).
THEOREM NothingEverForgotten == ASSUME Smooth PROVE Spec => NothingForgotten
<1>1. ASSUME RInv, [Next]_vars
      PROVE  \A n \in Known :
               \/ n \in Known'
               \/ \E r \in Requests : op[r].kind = "uninstall"
               \/ HistoryMax > 0 /\ Cardinality({m \in Known : m > n}) >= HistoryMax
  <2>1. SUFFICES ASSUME NEW n \in Known, n \notin Known',
                        \A r \in Requests : op[r].kind # "uninstall"
                 PROVE  HistoryMax > 0 /\ Cardinality({m \in Known : m > n}) >= HistoryMax
    OBVIOUS
  <2>2. ~UNCHANGED vars
    BY <2>1 DEF Known, vars, store
  <2>3. PICK r \in Requests : Step(r)
    BY <1>1, <2>2 DEF Next, Step
  <2>. QED
    BY <1>1, <2>1, <2>3, ForgetStep
<1>2. RInv /\ [Next]_vars
        => [\A n \in Known :
              \/ n \in Known'
              \/ \E r \in Requests : op[r].kind = "uninstall"
              \/ HistoryMax > 0 /\ Cardinality({m \in Known : m > n}) >= HistoryMax]_vars
  BY <1>1
<1>. QED
  BY <1>2, KnownInit, KnownNext, PTL DEF Spec, NothingForgotten

-----------------------------------------------------------------------------
(* The refinement of ReleaseHistory.                                       *)

\* The chart of each revision, wherever it is stored.
Charted == [n \in Revisions |-> IF body[n] = None THEN head.old[n] ELSE body[n]]

Seen(c, f) == {n \in Revisions : n <= c /\ f[n] # None}

View(c, f) == [n \in Revisions |-> IF n \in Top(Seen(c, f)) THEN f[n] ELSE None]

LEMMA ViewOf ==
  ASSUME NEW c, NEW b, NEW e
  PROVE  LET chart(n) == IF b[n] = None THEN e[n] ELSE b[n]
             seen == {n \in Revisions : n <= c /\ chart(n) # None}
         IN  [n \in Revisions |->
                IF /\ n \in seen
                   /\ HistoryMax <= 0 \/ Cardinality({m \in seen : m > n}) < HistoryMax
                THEN chart(n) ELSE None]
             = View(c, [n \in Revisions |-> chart(n)])
<1>. DEFINE chart(n) == IF b[n] = None THEN e[n] ELSE b[n]
            seen == {n \in Revisions : n <= c /\ chart(n) # None}
            f == [n \in Revisions |-> chart(n)]
<1>1. seen = Seen(c, f) /\ \A n \in Revisions : f[n] = chart(n)
  BY DEF Seen
<1>2. \A n \in Revisions :
        (n \in seen /\ (HistoryMax <= 0 \/ Cardinality({m \in seen : m > n}) < HistoryMax))
          <=> n \in Top(seen)
  BY DEF Top, Newer
<1>. HIDE DEF seen, chart, f
<1>3. [n \in Revisions |->
         IF /\ n \in seen
            /\ HistoryMax <= 0 \/ Cardinality({m \in seen : m > n}) < HistoryMax
         THEN chart(n) ELSE None]
      = View(c, f)
  BY <1>1, <1>2 DEF View
<1>. QED
  BY <1>3 DEF seen, chart, f

LEMMA AbsIsView == AbsHistory = View(AbsCurrent, Charted)
BY ViewOf DEF AbsHistory, Charted

LEMMA AbsWasView == AbsHistory' = View(AbsCurrent', Charted')
<1>1. Charted' = [n \in Revisions |-> IF body'[n] = None THEN (head').old[n] ELSE body'[n]]
  BY DEF Charted
<1>. QED
  BY <1>1, ViewOf DEF AbsHistory

\* The cardinality of the abstract module is the same operator.
LEMMA SameCardinality == ASSUME NEW S PROVE History!Cardinality(S) = Cardinality(S)
BY Zenon DEF History!Cardinality, Cardinality

\* The view is of the revisions up to the current one.
LEMMA ViewSame ==
  ASSUME NEW c, NEW f, NEW g, \A n \in Revisions : n <= c => f[n] = g[n]
  PROVE  View(c, f) = View(c, g)
<1>1. Seen(c, f) = Seen(c, g)
  BY DEF Seen
<1>2. \A n \in Top(Seen(c, f)) : f[n] = g[n]
  BY DEF Top, Seen
<1>. QED
  BY <1>1, <1>2 DEF View

\* What is deleted beyond the newest HistoryMax was not in view.
LEMMA ViewDelete ==
  ASSUME NEW c, NEW f, NEW g, NEW n \in Seen(c, f), HistoryMax > 0,
         Cardinality(Newer(Seen(c, f), n)) >= HistoryMax,
         g[n] = None, \A m \in Revisions \ {n} : g[m] = f[m]
  PROVE  View(c, f) = View(c, g)
<1>. DEFINE S == Seen(c, f)
<1>1. S \in SUBSET Revisions
  BY DEF Seen
<1>2. Seen(c, g) = S \ {n}
  BY DEF Seen
<1>3. Top(Seen(c, g)) = Top(S)
  BY <1>1, <1>2, TopDelete
<1>4. n \notin Top(S)
  BY <1>1, NewerFinite, BoundsAssumption DEF Top
<1>. QED
  BY <1>3, <1>4 DEF View

LEMMA ViewNothing ==
  ASSUME NEW f PROVE View(0, f) = [n \in Revisions |-> None]
<1>1. \A n \in Revisions : ~(n <= 0)
  BY Constants
<1>2. Seen(0, f) = {} /\ Top({}) = {}
  BY <1>1 DEF Seen, Top
<1>. QED
  BY <1>2 DEF View

\* Recording the next revision is the abstract operation.
LEMMA ViewRecord ==
  ASSUME NEW c \in Nat, c + 1 \in Revisions, NEW x \in Charts, NEW f, NEW g,
         g[c + 1] = x, \A n \in Revisions : n <= c => g[n] = f[n]
  PROVE  View(c + 1, g) = History!Trim([View(c, f) EXCEPT ![c + 1] = x])
<1>. DEFINE S == Seen(c, f)
            h == [View(c, f) EXCEPT ![c + 1] = x]
<1>1. S \in SUBSET Revisions /\ (\A n \in S : n < c + 1) /\ x # None
  BY Constants, NoneAssumption DEF Seen
<1>2. Seen(c + 1, g) = S \cup {c + 1}
  <2>1. \A n \in Revisions : n <= c + 1 <=> (n <= c \/ n = c + 1)
    BY Constants
  <2>. QED
    BY <1>1, <2>1 DEF Seen
<1>3. h = [n \in Revisions |-> IF n = c + 1 THEN x ELSE IF n \in Top(S) THEN f[n] ELSE None]
  BY DEF View
<1>4. Top(S) \subseteq S
  BY DEF Top
<1>5. \A n \in S : f[n] # None /\ n # c + 1 /\ g[n] = f[n]
  BY <1>1 DEF Seen
<1>6. History!Kept(h) = Top(S) \cup {c + 1}
  BY <1>1, <1>3, <1>4, <1>5 DEF History!Kept
<1>7. History!Newest(History!Kept(h)) = Top(History!Kept(h))
  <2>1. ASSUME NEW T PROVE History!Newest(T) = Top(T)
    BY SameCardinality DEF History!Newest, Top, Newer
  <2>. QED
    BY <2>1
<1>8. History!Newest(History!Kept(h)) = Top(Seen(c + 1, g))
  BY <1>1, <1>2, <1>6, <1>7, TopAdd
<1>9. Top(Seen(c + 1, g)) \subseteq Top(S) \cup {c + 1}
  BY <1>6, <1>7, <1>8 DEF Top
<1>10. \A n \in Top(Seen(c + 1, g)) : g[n] = h[n]
  BY <1>1, <1>3, <1>4, <1>5, <1>9
<1>11. View(c + 1, g) = [n \in Revisions |-> IF n \in Top(Seen(c + 1, g)) THEN h[n] ELSE None]
  BY <1>10 DEF View
<1>. HIDE DEF h
<1>12. View(c + 1, g) = History!Trim(h)
  BY <1>8, <1>11 DEF History!Trim
<1>. QED
  BY <1>12 DEF h

\* Of the release that is being wiped nothing is left to see.
LEMMA AbsNow ==
  ASSUME Smooth, RInv, NEW r \in Requests, Step(r)
  PROVE  /\ AbsCurrent = (IF pc[r] \in {"wipe", "wipeHead"} THEN 0 ELSE Current)
         /\ AbsCurrent' = (IF pc'[r] \in {"wipe", "wipeHead"} THEN 0 ELSE Current')
<1>1. \A q \in Requests \ {r} : pc[q] = "idle" /\ pc'[q] = "idle"
  BY AloneStep DEF Smooth, RInv, LInv, BInv, NInv
<1>2. /\ Wiping <=> pc[r] \in {"wipe", "wipeHead"}
      /\ Wiping' <=> pc'[r] \in {"wipe", "wipeHead"}
  BY <1>1 DEF Wiping
<1>. QED
  BY <1>2 DEF AbsCurrent, Current

\* A step that changes nothing up to the current revision.
LEMMA SameView ==
  ASSUME AbsCurrent' = AbsCurrent,
         \A n \in Revisions : n <= AbsCurrent => Charted'[n] = Charted[n]
  PROVE  UNCHANGED <<AbsCurrent, AbsHistory>>
<1>1. View(AbsCurrent, Charted) = View(AbsCurrent, Charted')
  BY ViewSame
<1>. QED
  BY <1>1, AbsIsView, AbsWasView

\* The steps that leave the records as they are.
LEMMA AbsQuiet ==
  ASSUME Smooth, RInv, NEW r \in Requests, Step(r), UNCHANGED <<head, body>>,
         pc[r] \in {"wipe", "wipeHead"} <=> pc'[r] \in {"wipe", "wipeHead"}
  PROVE  UNCHANGED <<AbsCurrent, AbsHistory>>
<1>1. Charted' = Charted
  BY DEF Charted
<1>2. AbsCurrent' = AbsCurrent
  BY AbsNow DEF Current
<1>. QED
  BY <1>1, <1>2, SameView

LEMMA AbsMigrate ==
  ASSUME Smooth, RInv, NEW r \in Requests, Migrate(r) \/ MigrateHead(r)
  PROVE  UNCHANGED <<AbsCurrent, AbsHistory>>
<1>1. Known1(r) /\ Step(r) /\ Faults = {}
  BY Knowing DEF Step, Get
<1>. USE <1>1 DEF Known1, Start, Base
<1>2. /\ pc[r] \in {"migrate", "migrateHead"} /\ head # None
      /\ cur[r].rev = head.rev /\ cur[r].hist = head.old
      /\ pc'[r] \notin {"wipe", "wipeHead"}
  BY DEF TypeOK, Migrate, MigrateHead, ReadBy, LoopTo, Goto
<1>3. head.rev \in Stored(head.old) /\ head.old # NoHistory
  BY <1>2 DEF DoneBy, Stored, NoHistory
<1>4. \A n \in Revisions : body[n] # None => head.old[n] # None /\ body[n] = head.old[n]
  <2>1. Stored(body) \subseteq Stored(head.old)
    BY <1>2, <1>3, BodiesEmbedded
  <2>. QED
    BY <1>2, <2>1 DEF Stored, Embedded
<1>5. CASE Migrate(r)
  <2>1. PICK n \in left[r] : body' = [body EXCEPT ![n] = head.old[n]]
    BY <1>2, <1>5 DEF Migrate, Fault
  <2>2. head' = head
    BY <1>5 DEF Migrate
  <2>3. \A m \in Revisions : Charted'[m] = Charted[m]
    BY <1>4, <2>1, <2>2 DEF Charted, TypeOK, Histories
  <2>4. AbsCurrent' = AbsCurrent
    BY <1>2, <2>2, AbsNow DEF Current
  <2>. QED
    BY <2>3, <2>4, SameView
<1>6. CASE MigrateHead(r)
  <2>1. /\ body' = body /\ head' = [rev |-> head.rev, old |-> NoHistory]
        /\ pc[r] = "migrateHead"
    BY <1>2, <1>6 DEF MigrateHead, Fault
  <2>2. \A n \in Revisions : head.old[n] # None => body[n] # None
    BY <1>2, <2>1 DEF AppliedBy, Stored
  <2>3. \A m \in Revisions : Charted'[m] = Charted[m]
    BY <1>4, <2>1, <2>2 DEF Charted, NoHistory
  <2>4. head' # None
    <3>1. [rev |-> head.rev, old |-> NoHistory] \in Heads
      BY <1>2, HistoriesTyped, Constants
    <3>. QED
      BY <2>1, <3>1, NoneAssumption
  <2>5. AbsCurrent' = AbsCurrent
    BY <1>2, <2>1, <2>4, AbsNow DEF Current
  <2>. QED
    BY <2>3, <2>5, SameView
<1>. QED
  BY <1>5, <1>6

LEMMA AbsPutRevision ==
  ASSUME Smooth, RInv, NEW r \in Requests, PutRevision(r)
  PROVE  UNCHANGED <<AbsCurrent, AbsHistory>>
<1>1. Known1(r) /\ Step(r) /\ Faults = {}
  BY Knowing DEF Step, RecordRevision
<1>. USE <1>1 DEF Known1, Start, Base
<1>2. /\ head' = head /\ pc[r] = "revision" /\ pc'[r] = "head"
      /\ body' = [body EXCEPT ![New(r)] = op[r].chart] /\ New(r) = Current + 1
  BY DEF TypeOK, PutRevision, Fault, Goto, ReadBy, New
<1>3. AbsCurrent' = AbsCurrent /\ AbsCurrent = Current
  BY <1>2, AbsNow DEF Current
<1>4. \A n \in Revisions : n <= Current => n # New(r)
  BY <1>2
<1>5. \A n \in Revisions : n <= AbsCurrent => Charted'[n] = Charted[n]
  BY <1>2, <1>3, <1>4 DEF Charted, TypeOK, Histories
<1>. QED
  BY <1>3, <1>5, SameView

LEMMA AbsPrune ==
  ASSUME Smooth, RInv, NEW r \in Requests, MigratePrune(r) \/ PruneDelete(r)
  PROVE  UNCHANGED <<AbsCurrent, AbsHistory>>
<1>1. Known1(r) /\ KnownBy(r) /\ Step(r) /\ Faults = {}
  BY Knowing DEF Step, Get, RecordRevision, Known1
<1>. USE <1>1 DEF Known1, Start, Base
<1>2. /\ pc[r] \in {"migratePrune", "prune"} /\ head' = head /\ head # None
      /\ pc'[r] \notin {"wipe", "wipeHead"}
  BY DEF TypeOK, MigratePrune, PruneDelete, ReadBy, DoneBy, LoopTo, Return, Goto
<1>3. PICK p \in left[r] : body' = [body EXCEPT ![p] = None]
  BY DEF MigratePrune, PruneDelete, Fault
<1>4. /\ head.old = NoHistory /\ HistoryMax > 0 /\ p \in Stored(body)
      /\ Cardinality(Newer(Stored(body) \ left[r], p)) >= HistoryMax
  BY <1>2 DEF KnownBy
<1>5. AbsCurrent' = AbsCurrent /\ AbsCurrent = Current
  BY <1>2, AbsNow DEF Current
<1>6. \A n \in Revisions : Charted[n] = body[n] /\ Charted'[n] = body'[n]
  BY <1>2, <1>4 DEF Charted, NoHistory
<1>7. Seen(Current, Charted) = Stored(body)
  BY <1>2, <1>6 DEF Seen, Stored
<1>8. Cardinality(Newer(Stored(body), p)) >= HistoryMax
  <2>1. /\ Stored(body) \in SUBSET Revisions
        /\ Newer(Stored(body) \ left[r], p) \subseteq Newer(Stored(body), p)
    BY DEF Newer, Stored
  <2>2. Cardinality(Newer(Stored(body) \ left[r], p)) <= Cardinality(Newer(Stored(body), p))
    BY <2>1, NewerMonotone
  <2>3. /\ Cardinality(Newer(Stored(body) \ left[r], p)) \in Nat
        /\ Cardinality(Newer(Stored(body), p)) \in Nat
    BY <2>1, NewerFinite
  <2>4. ASSUME NEW a \in Nat, NEW b \in Nat, a <= b, a >= HistoryMax PROVE b >= HistoryMax
    BY <2>4, BoundsAssumption
  <2>. HIDE <1>1
  <2>. QED
    BY <1>4, <2>2, <2>3, <2>4
<1>9. body'[p] = None /\ \A m \in Revisions \ {p} : body'[m] = body[m]
  BY <1>3, <1>4 DEF TypeOK, Histories, Stored
<1>10. p \in Revisions
  BY <1>4 DEF Stored
<1>. HIDE <1>1
<1>11. View(Current, Charted) = View(Current, Charted')
  BY <1>4, <1>6, <1>7, <1>8, <1>9, <1>10, ViewDelete
<1>. QED
  BY <1>5, <1>11, AbsIsView, AbsWasView

\* The head that names the new revision is the abstract step.
LEMMA AbsPutHead ==
  ASSUME Smooth, RInv, NEW r \in Requests, PutHead(r)
  PROVE  History!Deploy
<1>1. Known1(r) /\ KnownBy(r) /\ Step(r) /\ Faults = {}
  BY Knowing DEF Step, RecordRevision, Known1
<1>. USE <1>1 DEF Known1, Start, Base
<1>2. /\ body' = body /\ head' = [rev |-> New(r), old |-> NoHistory]
      /\ pc[r] = "head" /\ pc'[r] = "pruneList"
  BY DEF TypeOK, PutHead, Fault, Goto
<1>3. /\ New(r) \in Revisions /\ New(r) = Current + 1
      /\ body[New(r)] = op[r].chart /\ op[r].chart # None
      /\ head # None => head.old = NoHistory
  BY <1>2 DEF AskedBy, ReadBy, DoneBy, KnownBy, New
<1>4. op[r].chart \in Charts
  BY <1>3 DEF TypeOK, Ops
<1>5. head' # None
  <2>1. [rev |-> New(r), old |-> NoHistory] \in Heads
    BY <1>3, HistoriesTyped, Constants
  <2>. QED
    BY <1>2, <2>1, NoneAssumption
<1>6. AbsCurrent = Current /\ AbsCurrent' = Current + 1
  BY <1>2, <1>3, <1>5, AbsNow DEF Current
<1>7. Charted'[Current + 1] = op[r].chart
  BY <1>2, <1>3 DEF Charted
<1>8. ASSUME NEW n \in Revisions, n <= Current PROVE Charted'[n] = Charted[n]
  <2>1. head # None
    BY <1>8 DEF Current
  <2>. QED
    BY <1>2, <1>3, <2>1 DEF Charted
<1>9. Current \in Nat /\ Current + 1 \in Revisions
  BY <1>3
<1>. HIDE <1>1
<1>10. View(Current + 1, Charted')
         = History!Trim([View(Current, Charted) EXCEPT ![Current + 1] = op[r].chart])
  BY <1>4, <1>7, <1>8, <1>9, ViewRecord
<1>11. AbsHistory' = History!Trim([AbsHistory EXCEPT ![AbsCurrent + 1] = op[r].chart])
  BY <1>6, <1>10, AbsIsView, AbsWasView
<1>. QED
  BY <1>4, <1>6, <1>9, <1>11 DEF History!Deploy, History!Record

\* The listing of the records to wipe is the abstract uninstall.
LEMMA AbsWipe ==
  ASSUME Smooth, RInv, NEW r \in Requests, WipeList(r) \/ Wipe(r) \/ WipeHead(r)
  PROVE  [History!Next]_<<AbsCurrent, AbsHistory>>
<1>1. Known1(r) /\ Step(r) /\ Faults = {}
  BY Knowing DEF Step, Uninstall
<1>. USE <1>1 DEF Known1, Start, Base
<1>2. AbsCurrent' = 0
  <2>1. CASE WipeList(r) \/ Wipe(r)
    <3>1. pc'[r] \in {"wipe", "wipeHead"}
      BY <2>1 DEF TypeOK, WipeList, Wipe, Fault, LoopTo, Goto
    <3>. QED
      BY <3>1, AbsNow
  <2>2. CASE WipeHead(r)
    <3>1. head' = None
      BY <2>2 DEF WipeHead, Fault
    <3>. QED
      BY <3>1, AbsNow DEF Current
  <2>. QED
    BY <2>1, <2>2
<1>3. AbsHistory' = [n \in Revisions |-> None]
  BY <1>2, AbsWasView, ViewNothing
<1>. QED
  BY <1>2, <1>3 DEF History!Next, History!Uninstall

LEMMA AbsStep ==
  ASSUME Smooth, RInv, NEW r \in Requests, Step(r)
  PROVE  [History!Next]_<<AbsCurrent, AbsHistory>>
<1>1. Known1(r) /\ Faults = {}
  BY Knowing
<1>2. CASE Migrate(r) \/ MigrateHead(r) \/ PutRevision(r) \/ MigratePrune(r) \/ PruneDelete(r)
  BY <1>2, AbsMigrate, AbsPutRevision, AbsPrune
<1>3. CASE PutHead(r)
  BY <1>3, AbsPutHead DEF History!Next
<1>4. CASE WipeList(r) \/ Wipe(r) \/ WipeHead(r)
  BY <1>4, AbsWipe
<1>5. CASE \/ Begin(r) \/ GetNothing(r) \/ GetHead(r) \/ MigrateList(r)
           \/ LoadFirst(r) \/ LoadDeploy(r) \/ LoadRollback(r) \/ LoadUninstall(r)
           \/ ApplyObject(r) \/ PruneList(r) \/ UninstallObject(r)
  <2>1. UNCHANGED <<head, body>>
    BY <1>5 DEF Begin, GetNothing, GetHead, MigrateList, LoadFirst, LoadDeploy,
         LoadRollback, LoadUninstall, ApplyObject, PruneList, UninstallObject, store
  <2>2. pc[r] \notin {"wipe", "wipeHead"}
    BY <1>5 DEF Begin, GetNothing, GetHead, MigrateList, LoadFirst, LoadDeploy,
         LoadRollback, LoadUninstall, ApplyObject, PruneList, UninstallObject
  <2>3. pc'[r] \notin {"wipe", "wipeHead"}
    <3>1. TypeOK
      BY <1>1 DEF Known1, Start, Base
    <3>2. CASE Begin(r) \/ GetNothing(r) \/ GetHead(r) \/ MigrateList(r)
      BY <3>1, <3>2 DEF TypeOK, Begin, GetNothing, GetHead, MigrateList, ListPruned,
           Return, Goto
    <3>3. CASE LoadFirst(r) \/ LoadDeploy(r) \/ LoadRollback(r) \/ LoadUninstall(r)
      BY <3>1, <3>3 DEF TypeOK, LoadFirst, FirstRead, LoadDeploy, LoadRollback,
           LoadUninstall, Return, Goto
    <3>4. CASE ApplyObject(r) \/ PruneList(r) \/ UninstallObject(r)
      BY <3>1, <3>4 DEF TypeOK, ApplyObject, PruneList, ListPruned, UninstallObject,
           LoopTo, Return, Goto
    <3>. QED
      BY <1>5, <3>2, <3>3, <3>4
  <2>. QED
    BY <2>1, <2>2, <2>3, AbsQuiet
<1>6. ~Abandon(r)
  BY <1>1 DEF Abandon, Fault
<1>. QED
  BY <1>2, <1>3, <1>4, <1>5, <1>6 DEF Step, Get, RecordRevision, Uninstall

LEMMA AbsInit == ASSUME Init PROVE History!Init
<1>1. PICK k \in 0 .. MaxLegacy, h \in Histories :
        Stored(h) = 1 .. k /\ head = IF k = 0 THEN None ELSE [rev |-> k, old |-> h]
  BY DEF Init
<1>2. ~Wiping /\ \A n \in Revisions : body[n] = None
  BY DEF Init, Wiping, NoHistory
<1>3. k = 0 \/ k \in Revisions
  BY BoundsAssumption DEF Revisions
<1>4. head # None <=> k # 0
  <2>1. ASSUME k # 0 PROVE [rev |-> k, old |-> h] \in Heads
    BY <1>3, <2>1 DEF Heads
  <2>. QED
    BY <1>1, <2>1, NoneAssumption
<1>5. AbsCurrent = k
  BY <1>1, <1>2, <1>4 DEF AbsCurrent
<1>6. ASSUME NEW n \in Revisions, k # 0 PROVE Charted[n] = h[n]
  BY <1>1, <1>2, <1>6 DEF Charted
<1>7. Seen(k, Charted) = 1 .. k
  <2>1. CASE k = 0
    <3>1. \A n \in Revisions : ~(n <= 0)
      BY Constants
    <3>. QED
      BY <2>1, <3>1 DEF Seen
  <2>2. CASE k # 0
    <3>1. Seen(k, Charted) = {n \in Stored(h) : n <= k}
      BY <1>6, <2>2 DEF Seen, Stored
    <3>. QED
      BY <1>1, <3>1
  <2>. QED
    BY <2>1, <2>2
<1>8. \A n \in Top(1 .. k) : n \in Revisions /\ Charted[n] \in Charts /\ Charted[n] # None
  <2>1. ASSUME NEW n \in Seen(k, Charted)
        PROVE  n \in Revisions /\ Charted[n] \in Charts /\ Charted[n] # None
    <3>1. n \in Revisions /\ n <= k /\ Charted[n] # None
      BY DEF Seen
    <3>2. k # 0
      BY <3>1, Constants
    <3>. QED
      BY <1>6, <3>1, <3>2 DEF Histories
  <2>. QED
    BY <1>7, <2>1 DEF Top
<1>9. AbsHistory = [n \in Revisions |-> IF n \in Top(1 .. k) THEN Charted[n] ELSE None]
  BY <1>5, <1>7, AbsIsView DEF View
<1>10. AbsHistory \in [Revisions -> Charts \cup {None}]
  BY <1>8, <1>9
<1>11. History!Kept(AbsHistory) = Top(1 .. k)
  BY <1>8, <1>9 DEF History!Kept
<1>12. History!Newest(1 .. k) = Top(1 .. k)
  BY SameCardinality DEF History!Newest, Top, Newer
<1>. QED
  BY <1>3, <1>5, <1>10, <1>11, <1>12 DEF History!Init

\* With requests that run one at a time and nothing failing, the sequences of
\* single calls of deploy, rollback, uninstall and of the reads that migrate the
\* older layout are the atomic operations of ReleaseHistory.
THEOREM HistoryKept == ASSUME Smooth PROVE Spec => KeepsHistory
<1>1. RInv /\ [Next]_vars => [History!Next]_<<AbsCurrent, AbsHistory>>
  <2>1. SUFFICES ASSUME RInv, [Next]_vars PROVE [History!Next]_<<AbsCurrent, AbsHistory>>
    OBVIOUS
  <2>2. CASE UNCHANGED vars
    <3>1. UNCHANGED <<AbsCurrent, Charted>>
      BY <2>2 DEF AbsCurrent, Wiping, Charted, vars, store
    <3>. QED
      BY <3>1, AbsIsView, AbsWasView
  <2>3. CASE Next
    BY <2>1, <2>3, AbsStep DEF Next, Step
  <2>. QED
    BY <2>1, <2>2, <2>3
<1>2. Init => History!Init
  BY AbsInit
<1>. QED
  BY <1>1, <1>2, KnownInit, KnownNext, PTL DEF Spec, KeepsHistory, History!Spec
================================================================================

---------------------------- MODULE HelmRelease -----------------------------
(***************************************************************************)
(* The release records of the Helm manager.  A release is a head record    *)
(* (its current revision) and one body record per revision, next to the    *)
(* objects that its chart put into the cluster.  Deploy, rollback, uninstall*)
(* and every read are sequences of single API calls, with no lock; a read  *)
(* of a release in the older layout, where the head embeds the history,    *)
(* rewrites it.  One release is modelled: releases share no record.        *)
(***************************************************************************)
EXTENDS Integers, FiniteSets

CONSTANTS
  Requests,    \* callers of HelmDeploy, HelmRollback, HelmUninstall, HelmHistory
  Charts,      \* rendered charts: a manifest with its values
  Objects,     \* the cluster objects that charts render
  ConfigMaps,  \* those of them that are ConfigMaps, like the records
  ObjectsOf,   \* the objects of each chart
  None,        \* no record, no object, no chart
  Head,        \* names the head record in a listing
  HistoryMax,  \* revisions kept; <= 0 keeps all
  MaxRevision, \* bound of the model: no request writes a later revision
  MaxLegacy,   \* longest history of a release in the older layout
  Operations,  \* what callers ask for (see Kinds)
  Faults,      \* which failures may happen (see FaultKinds)
  Exclusive    \* TRUE: callers run one request of the release at a time

Revisions == 1..MaxRevision

\* A call that fails (a conflict, the API server refuses it), and a request
\* whose context is cancelled or whose gateway dies.
FaultKinds == {"reject", "abandon"}

Kinds == {"deploy", "rollback", "uninstall", "read"}

ASSUME ChartsAssumption ==
  /\ ConfigMaps \subseteq Objects
  /\ ObjectsOf \in [Charts -> SUBSET Objects]
  /\ \A c \in Charts : ObjectsOf[c] # {}

ASSUME BoundsAssumption ==
  /\ HistoryMax \in Int
  /\ MaxRevision \in Nat \ {0}
  /\ MaxLegacy \in 0..MaxRevision

ASSUME EnvironmentAssumption ==
  /\ Operations \subseteq Kinds
  /\ Faults \subseteq FaultKinds
  /\ Exclusive \in BOOLEAN

VARIABLES
  head,   \* the head record, or None
  body,   \* the stored body of each revision (its chart), or None
  live,   \* the chart whose manifest each cluster object was last applied from
  pc,     \* per request: the call it makes next
  op,     \* per request: what it was asked, and how often it has read
  cur,    \* per request: the release it works on, as it last read it
  left    \* per request: what the loop it is in has still to handle

store == <<head, body, live>>
vars == <<head, body, live, pc, op, cur, left>>

-----------------------------------------------------------------------------
(* Types.                                                                  *)

Histories == [Revisions -> Charts \cup {None}]

\* rev: the current revision; old: the embedded history of the older layout.
Heads == [rev : Revisions, old : Histories]

\* chart: what is deployed (rollback: once found); to: the revision to roll
\* back to, 0 meaning the previous one; reads: how many Gets have returned.
Ops == [kind : Kinds, chart : Charts \cup {None},
        to : Revisions \cup {0}, reads : 0..1]

Releases == [rev : Revisions \cup {0}, hist : Histories]

PCs == {"idle", "get", "migrate", "migrateHead", "migrateList", "migratePrune",
        "load", "apply", "revision", "head", "pruneList", "prune",
        "objects", "wipeList", "wipe", "wipeHead"}

ASSUME NoneAssumption ==
  /\ None \notin Charts \cup Objects \cup Heads
  /\ Head \notin Objects \cup Revisions
  /\ Objects \cap Revisions = {}

TypeOK ==
  /\ head \in Heads \cup {None}
  /\ body \in Histories
  /\ live \in [Objects -> Charts \cup {None}]
  /\ pc \in [Requests -> PCs]
  /\ op \in [Requests -> Ops]
  /\ cur \in [Requests -> Releases]
  /\ left \in [Requests -> SUBSET (Objects \cup Revisions \cup {Head})]

-----------------------------------------------------------------------------
(* Helpers.                                                                *)

NoHistory == [n \in Revisions |-> None]
NoOp      == [kind |-> "read", chart |-> None, to |-> 0, reads |-> 0]
NoRelease == [rev |-> 0, hist |-> NoHistory]

Stored(h) == {n \in Revisions : h[n] # None}

Fault(f) == f \in Faults

Goto(r, next) == pc' = [pc EXCEPT ![r] = next]

\* The request returns, with or without an error.
Return(r) ==
  /\ Goto(r, "idle")
  /\ op' = [op EXCEPT ![r] = NoOp]
  /\ cur' = [cur EXCEPT ![r] = NoRelease]
  /\ left' = [left EXCEPT ![r] = {}]

\* A loop over a set: the next round, or what follows the loop.
LoopTo(r, x, again, after) ==
  /\ left' = [left EXCEPT ![r] = @ \ {x}]
  /\ Goto(r, IF left[r] = {x} THEN after ELSE again)

\* Mutant: a revision is numbered by the length of the history.
NewByLength(r) == Cardinality(Stored(cur[r].hist)) + 1

\* The revision that the request records.
New(r) == cur[r].rev + 1

\* Mutants: one too few, one too many.
KeepTooFew(hist, new) ==
  {n \in Stored(hist) \cup {new} :
     Cardinality({m \in Stored(hist) : m > n}) + (IF new > n THEN 1 ELSE 0)
       < HistoryMax - 1}

KeepTooMany(hist, new) ==
  {n \in Stored(hist) \cup {new} :
     Cardinality({m \in Stored(hist) : m > n}) + (IF new > n THEN 1 ELSE 0)
       <= HistoryMax}

\* pruneHistory keeps the newest HistoryMax of the LIST of history numbers and
\* the new one (0: none); a number that is in it twice takes two places.
Keep(hist, new) ==
  {n \in Stored(hist) \cup {new} :
     Cardinality({m \in Stored(hist) : m > n}) + (IF new > n THEN 1 ELSE 0)
       < HistoryMax}

Init ==
  /\ \E k \in 0..MaxLegacy, h \in Histories :
       /\ Stored(h) = 1..k
       /\ head = IF k = 0 THEN None ELSE [rev |-> k, old |-> h]
       /\ live = [o \in Objects |->
                    IF k # 0 /\ o \in ObjectsOf[h[k]] THEN h[k] ELSE None]
  /\ body = NoHistory
  /\ pc = [r \in Requests |-> "idle"]
  /\ op = [r \in Requests |-> NoOp]
  /\ cur = [r \in Requests |-> NoRelease]
  /\ left = [r \in Requests |-> {}]

Begin(r) ==
  /\ pc[r] = "idle"
  /\ Exclusive => \A q \in Requests : pc[q] = "idle"
  /\ \E o \in Ops :
       /\ o.kind \in Operations /\ o.reads = 0
       /\ o.chart # None <=> o.kind = "deploy"
       /\ o.to # 0 => o.kind = "rollback"
       /\ op' = [op EXCEPT ![r] = o]
  /\ Goto(r, "get")
  /\ UNCHANGED <<store, cur, left>>

-----------------------------------------------------------------------------
(* Get: the head, the migration of the older layout, the bodies.           *)

\* The release exists no more, or not yet: only a deploy goes on.
GetNothing(r) ==
  /\ pc[r] = "get" /\ head = None
  /\ CASE op[r].kind # "deploy" -> Return(r)
       [] op[r].kind = "deploy" /\ op[r].reads = 0 ->
            /\ Goto(r, "apply")
            /\ op' = [op EXCEPT ![r].reads = 1]
            /\ left' = [left EXCEPT ![r] = ObjectsOf[op[r].chart]]
            /\ UNCHANGED cur
       [] OTHER ->
            /\ Goto(r, "revision")
            /\ cur' = [cur EXCEPT ![r] = NoRelease]
            /\ UNCHANGED <<op, left>>
  /\ UNCHANGED store

GetHead(r) ==
  /\ pc[r] = "get" /\ head # None
  /\ cur' = [cur EXCEPT ![r] = [rev |-> head.rev, hist |-> head.old]]
  /\ left' = [left EXCEPT ![r] = Stored(head.old)]
  /\ Goto(r, IF head.old = NoHistory THEN "load" ELSE "migrate")
  /\ UNCHANGED <<store, op>>

\* The migration is best effort: a failure ends it, and Get goes on.
Migrate(r) ==
  /\ pc[r] = "migrate"
  /\ \E n \in left[r] :
       /\ \A m \in left[r] : n <= m
       /\ \/ /\ body' = [body EXCEPT ![n] = cur[r].hist[n]]
             /\ LoopTo(r, n, "migrate", "migrateHead")
          \/ /\ Fault("reject")
             /\ Goto(r, "load")
             /\ UNCHANGED <<body, left>>
  /\ UNCHANGED <<head, live, op, cur>>

MigrateHead(r) ==
  /\ pc[r] = "migrateHead"
  /\ \/ /\ head' = [rev |-> cur[r].rev, old |-> NoHistory]
        /\ Goto(r, "migrateList")
     \/ /\ Fault("reject")
        /\ Goto(r, "load")
        /\ UNCHANGED head
  /\ UNCHANGED <<body, live, op, cur, left>>

\* The list of what the prune will delete, for a migration or a new revision.
ListPruned(r, new, again, after) ==
  LET pruned == Stored(body) \ Keep(cur[r].hist, new)
  IN  IF HistoryMax > 0 /\ pruned # {}
      THEN Goto(r, again) /\ left' = [left EXCEPT ![r] = pruned]
      ELSE Goto(r, after) /\ left' = [left EXCEPT ![r] = {}]

MigrateList(r) ==
  /\ pc[r] = "migrateList"
  /\ \/ ListPruned(r, 0, "migratePrune", "load")
     \/ Fault("reject") /\ Goto(r, "load") /\ UNCHANGED left
  /\ UNCHANGED <<store, op, cur>>

MigratePrune(r) ==
  /\ pc[r] = "migratePrune"
  /\ \/ \E n \in left[r] :
          /\ body' = [body EXCEPT ![n] = None]
          /\ LoopTo(r, n, "migratePrune", "load")
     \/ Fault("reject") /\ Goto(r, "load") /\ UNCHANGED <<body, left>>
  /\ UNCHANGED <<head, live, op, cur>>

-----------------------------------------------------------------------------
(* What a request does with the release it has read.                       *)

\* The service's own Get: it checks who may write, and the previous revision
\* is the default target of a rollback.  (A read ends here.)
FirstRead(r) ==
  IF op[r].kind = "deploy"
  THEN /\ Goto(r, "apply")
       /\ op' = [op EXCEPT ![r].reads = 1]
       /\ left' = [left EXCEPT ![r] = ObjectsOf[op[r].chart]]
  ELSE /\ Goto(r, "get")
       /\ op' = [op EXCEPT ![r].reads = 1,
                           ![r].to = IF @ = 0 /\ op[r].kind = "rollback"
                                     THEN cur[r].rev - 1 ELSE @]
       /\ left' = [left EXCEPT ![r] = {}]

LoadFirst(r) ==
  /\ pc[r] = "load" /\ op[r].reads = 0
  /\ \/ op[r].kind = "read" /\ Return(r)
     \/ op[r].kind # "read" /\ FirstRead(r) /\ UNCHANGED cur
  /\ UNCHANGED store

\* The release that is recorded or deleted is the one of the second Get.
\* Mutant: the history is taken from the head, not from the bodies.
LoadDeployHeadOnly(r) ==
  /\ pc[r] = "load" /\ op[r].reads = 1 /\ op[r].kind = "deploy"
  /\ Goto(r, "revision")
  /\ UNCHANGED <<store, op, cur, left>>

LoadDeploy(r) ==
  /\ pc[r] = "load" /\ op[r].reads = 1 /\ op[r].kind = "deploy"
  /\ cur' = [cur EXCEPT ![r].hist = body]
  /\ Goto(r, "revision")
  /\ UNCHANGED <<store, op, left>>

LoadRollback(r) ==
  /\ pc[r] = "load" /\ op[r].reads = 1 /\ op[r].kind = "rollback"
  /\ \/ /\ op[r].to \in Stored(body)
        /\ op' = [op EXCEPT ![r].chart = body[op[r].to]]
        /\ cur' = [cur EXCEPT ![r].hist = body]
        /\ left' = [left EXCEPT ![r] = ObjectsOf[body[op[r].to]]]
        /\ Goto(r, "apply")
     \/ op[r].to \notin Stored(body) /\ Return(r)
  /\ UNCHANGED store

\* The objects to delete are those of the last revision that has a body.
LoadUninstall(r) ==
  /\ pc[r] = "load" /\ op[r].reads = 1 /\ op[r].kind = "uninstall"
  /\ cur' = [cur EXCEPT ![r].hist = body]
  /\ \/ /\ Stored(body) = {}
        /\ Goto(r, "wipeList")
        /\ left' = [left EXCEPT ![r] = {}]
     \/ \E n \in Stored(body) :
          /\ \A m \in Stored(body) : m <= n
          /\ Goto(r, "objects")
          /\ left' = [left EXCEPT ![r] = ObjectsOf[body[n]]]
  /\ UNCHANGED <<store, op>>

-----------------------------------------------------------------------------
(* Applying a manifest and recording the revision.                         *)

\* One object is created or updated; an error ends the request there.  The
\* manifest applied, a deploy reads the release again, a rollback records it.
\* Mutant: an object that exists already is left as it is.
ApplyObjectOnce(r) ==
  /\ pc[r] = "apply"
  /\ \E o \in left[r] :
       /\ live' = [live EXCEPT ![o] = IF @ = None THEN op[r].chart ELSE @]
       /\ LoopTo(r, o, "apply",
                 IF op[r].kind = "deploy" THEN "get" ELSE "revision")
  /\ UNCHANGED <<head, body, op, cur>>

ApplyObject(r) ==
  /\ pc[r] = "apply"
  /\ \/ /\ \E o \in left[r] :
             /\ live' = [live EXCEPT ![o] = op[r].chart]
             /\ LoopTo(r, o, "apply",
                       IF op[r].kind = "deploy" THEN "get" ELSE "revision")
        /\ UNCHANGED <<op, cur>>
     \/ Fault("reject") /\ Return(r) /\ UNCHANGED live
  /\ UNCHANGED <<head, body>>

\* Mutant: an error of the write is dropped.
PutRevisionUnchecked(r) ==
  /\ pc[r] = "revision"
  /\ New(r) <= MaxRevision
  /\ \/ body' = [body EXCEPT ![New(r)] = op[r].chart]
     \/ Fault("reject") /\ UNCHANGED body
  /\ Goto(r, "head")
  /\ UNCHANGED <<head, live, op, cur, left>>

PutRevision(r) ==
  /\ pc[r] = "revision"
  /\ New(r) <= MaxRevision
  /\ \/ /\ body' = [body EXCEPT ![New(r)] = op[r].chart]
        /\ Goto(r, "head")
        /\ UNCHANGED <<op, cur, left>>
     \/ Fault("reject") /\ Return(r) /\ UNCHANGED body
  /\ UNCHANGED <<head, live>>

\* Mutant: the head is written before its number is raised.
PutHeadUnnumbered(r) ==
  /\ pc[r] = "head"
  /\ head' = [rev |-> cur[r].rev, old |-> NoHistory]
  /\ Goto(r, "pruneList")
  /\ UNCHANGED <<body, live, op, cur, left>>

\* The head that is written never embeds a history.
PutHead(r) ==
  /\ pc[r] = "head"
  /\ \/ /\ head' = [rev |-> New(r), old |-> NoHistory]
        /\ Goto(r, "pruneList")
        /\ UNCHANGED <<op, cur, left>>
     \/ Fault("reject") /\ Return(r) /\ UNCHANGED head
  /\ UNCHANGED <<body, live>>

PruneList(r) ==
  /\ pc[r] = "pruneList"
  /\ \/ /\ Stored(body) \subseteq Keep(cur[r].hist, New(r)) \/ HistoryMax <= 0
        /\ Return(r)
     \/ /\ ListPruned(r, New(r), "prune", "prune")
        /\ left'[r] # {}
        /\ UNCHANGED <<op, cur>>
     \/ Fault("reject") /\ Return(r)
  /\ UNCHANGED store

PruneDelete(r) ==
  /\ pc[r] = "prune"
  /\ \/ \E n \in left[r] :
          /\ body' = [body EXCEPT ![n] = None]
          /\ \/ left[r] = {n} /\ Return(r)
             \/ left[r] # {n} /\ LoopTo(r, n, "prune", "prune") /\ UNCHANGED <<op, cur>>
     \/ Fault("reject") /\ Return(r) /\ UNCHANGED body
  /\ UNCHANGED <<head, live>>

-----------------------------------------------------------------------------
(* Uninstall: the objects (errors ignored), then every record.             *)

UninstallObject(r) ==
  /\ pc[r] = "objects"
  /\ \E o \in left[r] :
       /\ live' = [live EXCEPT ![o] = None] \/ (Fault("reject") /\ UNCHANGED live)
       /\ LoopTo(r, o, "objects", "wipeList")
  /\ UNCHANGED <<head, body, op, cur>>

\* Every ConfigMap labelled with the release: the head, the bodies, and the
\* ConfigMaps among the objects, which applyManifest labels too.
WipeList(r) ==
  /\ pc[r] = "wipeList"
  /\ LET listed == Stored(body) \cup {o \in ConfigMaps : live[o] # None}
                     \cup (IF head = None THEN {} ELSE {Head})
     IN  /\ left' = [left EXCEPT ![r] = listed]
         /\ Goto(r, IF listed = {} THEN "wipeHead" ELSE "wipe")
  /\ UNCHANGED <<store, op, cur>>

Wipe(r) ==
  /\ pc[r] = "wipe"
  /\ \/ /\ \E x \in left[r] :
             /\ head' = IF x = Head THEN None ELSE head
             /\ body' = [n \in Revisions |-> IF n = x THEN None ELSE body[n]]
             /\ live' = [o \in Objects |-> IF o = x THEN None ELSE live[o]]
             /\ LoopTo(r, x, "wipe", "wipeHead")
        /\ UNCHANGED <<op, cur>>
     \/ Fault("reject") /\ Return(r) /\ UNCHANGED store

WipeHead(r) ==
  /\ pc[r] = "wipeHead"
  /\ head' = None \/ (Fault("reject") /\ UNCHANGED head)
  /\ Return(r)
  /\ UNCHANGED <<body, live>>

-----------------------------------------------------------------------------
Abandon(r) ==
  /\ Fault("abandon")
  /\ pc[r] # "idle"
  /\ Return(r)
  /\ UNCHANGED store

Get(r) ==
  \/ GetNothing(r) \/ GetHead(r)
  \/ Migrate(r) \/ MigrateHead(r) \/ MigrateList(r) \/ MigratePrune(r)
  \/ LoadFirst(r) \/ LoadDeploy(r) \/ LoadRollback(r) \/ LoadUninstall(r)

RecordRevision(r) ==
  PutRevision(r) \/ PutHead(r) \/ PruneList(r) \/ PruneDelete(r)

Uninstall(r) ==
  UninstallObject(r) \/ WipeList(r) \/ Wipe(r) \/ WipeHead(r)

Next ==
  \E r \in Requests :
    \/ Begin(r) \/ Get(r) \/ ApplyObject(r) \/ RecordRevision(r)
    \/ Uninstall(r) \/ Abandon(r)

Spec == Init /\ [][Next]_vars

-----------------------------------------------------------------------------
(* Properties.                                                             *)

\* Refinement: with nothing going wrong, deploys, rollbacks and uninstalls are
\* the atomic operations of ReleaseHistory.  A recorded revision counts from
\* the head that names it, an uninstall from the listing of its records; the
\* embedded history of the older layout counts like bodies.
Wiping == \E r \in Requests : pc[r] \in {"wipe", "wipeHead"}

AbsCurrent == IF head = None \/ Wiping THEN 0 ELSE head.rev

AbsHistory ==
  LET chart(n) == IF body[n] = None THEN head.old[n] ELSE body[n]
      seen == {n \in Revisions : n <= AbsCurrent /\ chart(n) # None}
  IN  [n \in Revisions |->
         IF /\ n \in seen
            /\ HistoryMax <= 0 \/ Cardinality({m \in seen : m > n}) < HistoryMax
         THEN chart(n) ELSE None]

History == INSTANCE ReleaseHistory
             WITH current <- AbsCurrent, history <- AbsHistory

KeepsHistory == History!Spec

\* What the current revision deployed is what is in the cluster, whenever no
\* request is working on the release.
DeployedIsLive ==
  (head # None /\ \A r \in Requests : pc[r] = "idle") =>
    LET c == AbsHistory[head.rev] IN c # None /\ \A o \in ObjectsOf[c] : live[o] = c

\* An acknowledged deploy or rollback is in the history, as the current one.
AckedRecorded ==
  [][\A r \in Requests :
       pc[r] \in {"pruneList", "prune"} /\ pc'[r] = "idle" =>
         /\ head' # None /\ head'.rev = New(r)
         /\ body'[New(r)] = op[r].chart]_vars

\* A revision that the head has named is never written again with something
\* else: its number belongs to it.
NumbersAreFinal ==
  [][\A n \in Revisions :
       /\ head # None /\ n <= head.rev
       /\ body[n] # None /\ body'[n] # None
       => body'[n] = body[n]]_vars

\* Pruning deletes what is beyond the newest revisions: never the body of the
\* revision that the head names, and a prune that ends leaves HistoryMax bodies
\* at most.
PruneExact ==
  [][ /\ \A n \in Revisions :
           /\ body[n] # None /\ body'[n] = None
           /\ \E r \in Requests : pc[r] \in {"prune", "migratePrune"} /\ n \in left[r]
           => head # None /\ n # head.rev
      /\ \A r \in Requests :
           /\ pc[r] = "prune" /\ Cardinality(left[r]) = 1
           /\ pc'[r] = "idle" /\ body' # body
           => Cardinality(Stored(body')) <= HistoryMax ]_vars

\* No revision is lost, embedded or not, while fewer than HistoryMax newer ones
\* are known, unless the release is being uninstalled.
Known == {n \in Revisions : body[n] # None \/ (head # None /\ head.old[n] # None)}

NothingForgotten ==
  [][\A n \in Known :
       \/ n \in Known'
       \/ \E r \in Requests : op[r].kind = "uninstall"
       \/ HistoryMax > 0 /\ Cardinality({m \in Known : m > n}) >= HistoryMax]_vars

\* An uninstalled release has left none of its objects in the cluster.
UninstallClean ==
  (head = None /\ \A r \in Requests : pc[r] = "idle") =>
    \A o \in Objects : live[o] = None
=============================================================================

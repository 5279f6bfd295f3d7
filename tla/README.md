# workspace-gateway in TLA+

Specifications of the state that the workspace gateway manages, checked with TLC
on small instances and, but for liveness, proved with TLAPS for all instances. Source paths below are relative to `src/`.

The gateway is one Go process in front of four other systems: Kubernetes
(sandboxes, services, Helm releases, volume claims), Forgejo (git), the agent
(sessions, models) and sqlite (who owns what). It keeps hardly any state of its
own. Nearly every operation is a **sequence of calls to those systems made
without a lock and without a transaction**, on objects found again *by name*.
What is hard to test is therefore what happens between two calls: another
request for the same name, a refused call, a cancelled context, a dying process.
The models take one such call as one step.

## 1. Inventory

| Part (source) | State | Operations | What is hard | What makes it correct | Module |
|---|---|---|---|---|---|
| Sandbox manager (`internal/sandboxmgr`) | per name a Secret, a Pod, a Service | Create, Delete, WaitReady, Get, List, Resolve | three creates and three deletes in a row, undo by name, 30 s and 60 s waits | a name is free or completely taken; a sandbox is reached with its own token; nobody's sandbox is destroyed by somebody else's create | `SandboxLifecycle` |
| Idle reaper (`internal/sandboxreaper`) | none | sweep every 10 min | acts on an old listing | reclaims idle sandboxes, and only those | `SandboxLifecycle` |
| Session-delete cascade (`workspacesvc/service.go:837`) | none | list, delete each | errors ignored | the session's sandboxes go | `SandboxLifecycle` |
| Helm release manager (`internal/helmmgr`) | head ConfigMap, one body ConfigMap per revision, the charts' objects | Apply, Rollback, Uninstall, Get (which migrates), prune | several writes per revision, read-modify-write of the number, pruning from a stale read | an acknowledged revision is in the history, the newest `historyMax` are kept, what is recorded is what runs | `HelmRelease`, `ReleaseHistory` |
| Session and repo ownership (`workspacesvc/service.go`, `internal/members`, `internal/roles`) | sqlite rows, Forgejo orgs/repos/branches, agent sessions | claim, ensure, fork, delete | check-then-act over three systems; a cascade whose errors are ignored | one owner per repository; one session per branch; nothing is left below a deleted repository | `RepoOwnership` |
| Repository import (`service.go:1344-1440`, `internal/gitimport`) | the same | ImportRepo, with its own clean-up | two imports of one name; a clean-up by name | an existing repository is never touched; a failed import leaves nothing | `RepoOwnership` |
| Session reconciliation (`cmd/reconcile-sessions`) | none | give every branch a session | runs beside the gateway, on old lists | branch and session are 1:1 in the end | `RepoOwnership` |
| MR flow (`SubmitMR`, `MergeMR`, `CloseMR`, `mr_notify.go`) | `mr/` branches, pull requests, submission rows | submit, merge, close | four systems per submit; indices that start anew with the repository while the rows stay | no stranded branch, the true origin, only the target decides, the reviewer is told | `MergeRequests` |
| Git commits (`internal/gitcommit`) | cached clones | Submit (Sync and the rest have no caller) | a push whose answer is lost | part of a submit | `MergeRequests` |
| Merge policy (`internal/gitmerge`) | none (pure) | three-way merge per path | delete/modify, binaries, modes | both sides' edits survive or a marker is left | not modelled: no package imports it |
| Services manager (`internal/servicesmgr`) | Deployment, sibling Services, annotations | Deploy, Pause, Resume, Scale, Apply, Rollback, Delete | ownership read before an unversioned upsert; the replica count remembered in an annotation; errors ignored by Delete | pause and resume are inverse; nothing is left behind; owners are kept | `ManagedService` |
| Volume claims (`servicesmgr/services.go:829-930`) | PVCs | Create, Delete | check then delete | a mounted claim is never deleted | `ManagedService` |
| ConfigMap/Secret store (`servicesmgr/configstore.go`) | ConfigMaps, Secrets | upsert, delete | last writer wins | - | not modelled: one call each |
| Image builds (`workspacesvc/builds.go`, `internal/imagebuild`) | process-local table | start, poll, cancel | goroutine against cancel and poll; fields read one by one without the lock | it can be stopped; polls add up to the log; every client learns of the end | `ImageBuild` |
| Watch hub (`workspacehub.go`, `internal/k8swatch`) | subscribers, one run per first subscriber | subscribe, unsubscribe, signal | coalescing; lost events between watches; an old run drains beside a new one | every change of what is watched is seen in the end; nobody watches when nobody asks | `WatchHub` |
| Token broker (`internal/agentclient`) | token cache | mint, invalidate, replay | mint outside the lock | one retry after a 401 | not modelled (section 6) |
| Provisioning (`internal/provision`, `cmd/provision`) | tenants, tokens, providers, presets | set-up, run by hand | read-modify-write of an index | a second run changes nothing | not modelled (section 6) |
| Forwarded agent surface (`forward.go`) | none | pass-through | - | - | not modelled: no state |
| Registry, runtime profiles, bootstrap, presets, sandbox VM options, logs | none | rendering, queries | - | - | not modelled: no state |
| `gen/` | - | generated RPC code | - | - | not modelled: generated |

**Interactions.** The service layer authenticates, checks ownership with a read
of its own, and calls a manager. Create, delete, cascade and reaper meet in the
sandbox objects; deploy, rollback, uninstall *and history reads* meet in the
release records; deploys, updates and claim requests meet in the Deployments; claims,
imports, forks, deletions and the reconciliation command meet in repositories, rows and
sessions; submits and decisions meet in the pull requests. A submit claims the repository on
its way to the reviewer's session, and the deletion of a repository cascades to
sandboxes and services. The watch hub only observes. Nothing calls back into
another component; what runs without a request is the reaper (a ticker), the goroutine of an
image build, and the hub's goroutines while anybody is subscribed. Only builds
and the hub share memory, under a mutex each; everything else shares external systems.

`PROJECT.json` lists the hazards of this code at the line where each bites, with
the property that watches it or the reason why none does.

## 2. Modules

| Module | What it is |
|---|---|
| `SandboxNames` | abstract: what the sandbox manager promises about names |
| `SandboxLifecycle` | the three objects of each name; creates, deletes, cascades, reapers, cluster; implements `SandboxNames` |
| `SandboxLifecycleProofs` | TLAPS proofs about it, the refinement included |
| `MCSandboxLifecycle` | its TLC instances (`Sandbox*.cfg`) |
| `ReleaseHistory` | abstract: what a Helm release promises |
| `HelmRelease` | head, bodies and objects of one release, one action per API call; implements `ReleaseHistory` |
| `HelmReleaseProofs` | TLAPS proofs about it, the refinement included |
| `MCHelmRelease` | its TLC instances (`Helm*.cfg`) |
| `ManagedService` | Deployments, Services and claims; one action per API call of the service and claim RPCs |
| `ManagedServiceProofs` | TLAPS proofs about it |
| `MCManagedService` | its TLC instances (`Service*.cfg`) |
| `RepoOwnership` | repositories, branches, rows, sessions, sandboxes and services of an organization; claims, imports, forks, deletions, reconciliation |
| `RepoOwnershipProofs` | TLAPS proofs about it |
| `MCRepoOwnership` | its TLC instances (`RepoClaims.cfg`, `RepoReconcile.cfg`) |
| `MergeRequests` | change requests of one repository: submit, merge, close |
| `MergeRequestsProofs` | TLAPS proofs about it |
| `MCMergeRequests` | its TLC instance (`ChangeRequests.cfg`) |
| `ImageBuild` | one background build, its pollers and its cancellation |
| `ImageBuildProofs` | TLAPS proofs about it |
| `MCImageBuild` | its TLC instance (`BuildPolls.cfg`) |
| `WatchHub` | subscribers, runs and watches of the push path |
| `WatchHubProofs` | TLAPS proofs about it |
| `MCWatchHub` | its TLC instances (`Hub*.cfg`) |

Definitions whose comment begins with *Mutant* are plausible bugs: each property
of a passing run has been seen to fail with one of them in place of the real
definition (`PROJECT.json`, `mutants`).

### SandboxLifecycle

`secret[n]`, `pod[n]`, `svc[n]` are the cluster's objects of resource name `n`. A
bearer token is modelled by the create that minted it, so "the Secret has the
pod's token" is an equation. `pc[r]` is the next API call of request `r`:

* create: `CreateCheck` (the early refusal, `service.go:1900`), `CreateSecret`,
  `CreatePod`, `CreateService` (`k8s.go:308, 451, 468`), with the undo calls
  `UndoPod`, `UndoSecret`, then `WaitReady` (`wait.go`);
* delete: `DeleteGet` (`k8s.go:520`), `DeleteService`, `DeleteSecret`, `DeletePod`
  (`555-557`), `DeleteWait` (`529-540`);
* callers of delete: `DeleteSandbox` (with `Accessible`), `CascadeList`/`CascadeNext`,
  `ReapList`/`ReapCheck`/`SweepEnd`;
* environment: pods run, fail, age and disappear, jobs start, end and are
  forgotten, and a request may be abandoned (context cancelled, gateway gone).

`Faults` says which failures are possible, and `Exclusive` whether the *callers*
refrain from deleting a name while a create or another delete of it is under
way. The code does not enforce `Exclusive`; it is the assumption under which
its guarantees hold, and the runs without it show what happens otherwise.

`SandboxNames` is what such callers may rely on (`NamesKept`): `Create` and `Delete`, several
API calls each, are atomic. The refinement mapping is short because the code makes the Service last and
deletes it first: a name is held (`Holder`) while its Service exists, by the create whose token
the Secret carries; a create is granted the name by its `CreateService`, a delete frees it by its
`DeleteService`, and every other call, an undo included, changes nothing in this view. With a refused Service, a lost delete, a cut-off
request or a slow pod TLC finds executions that are not of this kind.

Abstractions: pod contents, images, volumes and environments do not matter to
any property; a readiness poll is one step that succeeds or gives up at any time; an
API read and the decision on it are one step. Refusals that change nothing (bad
names, volumes that are not the caller's) are left out: such a request does not start.

### HelmRelease

`head` (the head record: current revision, and in the older layout the embedded
history), `body[n]` (the body record of revision `n`) and `live[o]` (the chart from which
object `o` was last applied). A chart stands for manifest and values. Requests are
deploys, rollbacks, uninstalls and reads; each starts with the service's own `Get`
(`GetNothing`/`GetHead`, the migration `Migrate*`, then `Load*`), and writers `Get`
again before they act (`reads` counts). Then `ApplyObject` once per object,
`PutRevision`, `PutHead`, `PruneList`, `PruneDelete`; or `UninstallObject`, `WipeList`,
`Wipe`, `WipeHead`.

Upserts (create, on conflict get and update with the version just read) are one step:
the version check in them can only fail within those microseconds, which is a
rejected call of the model. `Keep` counts *places in a list*, as `pruneHistory` does,
so that a number listed twice takes two places.

One release is modelled. Two releases share a record only if one is named like
`rev-<other>-v<n>`, which is a fact about strings and listed as a hazard only.

`ReleaseHistory` is the promise: a current revision and the newest `HistoryMax`
charts, changed at once by deploy, rollback and uninstall. The refinement mapping
(`AbsCurrent`, `AbsHistory`) counts a revision from the moment the head names it,
ignores bodies above the head (an unfinished deploy), lets embedded revisions
count until they are migrated, and shows at most the newest `HistoryMax`, so that pruning is
a stutter.

### ManagedService

`dep[n]` is the Deployment of service `n`: its creator, whether it is labelled as a service
(`managed`), its pod template, its replica
count, and the count remembered by a pause (`marker`; paused means that it is there). A name
may hold a Deployment that nobody owns (`Unowned`: a chart's, or made by hand) from the start.
`svc[s]` is a Service object, with the service it is labelled with; a Service of somebody
else has no label. `pvc[v]` is the creator of a claim, and `past[n]` the templates of the
ReplicaSets that a rollback can choose from. The requests:

* deploy: `CheckDeploy` (`service.go:2334`), `ResolveVolume` (`2473`), `CheckPort` for each
  Service (`services.go:411-424`), `DeployDeployment` (`661`), `Expose` for each Service (`667-684`);
* all others on a service: `Check` (the ownership read in `service.go`), `Get` (the manager's
  own read), and then `Update` for scale, pause and resume (`Scaled`, `Paused`, `Resumed`),
  `Revision` for a rollback, `ApplyDeployment` and `Expose` for a manifest, or
  `ListServices`, `DeleteService`, `DeleteDeployment`;
* claims: `CheckClaim`, then `CreateClaim`, or `CheckMounted` and `DeleteClaim`;
* the guard of `Check` is `May`: a rollback and an apply pass where nobody owns the Deployment
  (`OwnedService`, `service.go:3337`), the others do not (`Writable`, `3428`). An apply keeps the owner
  where there is one, and takes it from the manifest where there is none (`AppliedCreators`,
  `services.go:1200`). `OwnersKept` is what holds under both guards; that nobody writes what nobody owns, as
  `service.go:3427` has it, does not (`UnownedUntouched`, section 3);
* environment: the Deployment controller (`Rollout`), abandoned requests (`Abandon`).

`copy[r]` is the Deployment that a scale, pause, resume or rollback will send back
changed. The API server refuses it if the object was written in between; the model
says so by clearing the copy at that write (`Outdated`), and a request without a copy fails.
Deploy and apply have no such check: they read the version right before they write, which is one
step here, as in `HelmRelease`.

`Faults`: `"abandon"` (a request stops at any call), `"drop"` (a delete whose error
`services.go:1257` ignores), `"blind"` (a failed read that counts as nothing found:
`service.go:2334`, `services.go:916`, `1254`). `Exclusive` says whether callers run one *structural*
request (anything but scale, pause and resume) at a time; the code does not enforce it.

Abstractions: a template stands for everything in the pod, and what distinguishes two of them is
the claim they mount. The tenant-internal namespaces, which refine the ownership check, and the
readiness wait after a deploy are left out: the wait reads only. A rollback may choose any
earlier template (revision 0 names the one before the current). Older ReplicaSets that Kubernetes
prunes only take choices away. A manifest may carry any template, count and marker, and name any Service with
any creator. Claims that this program did not make (without a creator), which `resolveVolumes` (`service.go:2489`)
lets anybody mount, are left out: `DeletePVC` refuses them, so `MountedClaimStays` does not concern them.

### RepoOwnership

The state is what the systems record: `exists`, `protected`, `branches`, `strays` in Forgejo
(a stray is a repository that `EnsureRepo` makes under the gateway's own user when the
organization refuses it, `forgejo.go:266`), `sessions` in the agent, `owners`, `orgOwners`,
`freeRows` in sqlite (`members.go`), `sandboxes` and `services` in the cluster. `req[p]` is the
call that caller `p` serves and its next step; `FirstStep` lists the calls.

* claim (`claimRepo`, `service.go:455-480`): `ClaimCheck`, `ClaimOwned`, then Forgejo's `EnsureRepo`
  (`MakeCheck`, `MakePost`, `Protect`), `AddRepo`, `AddOrg`; the RPC `EnsureRepo` starts in
  the middle;
* sessions: `SessionProbe`, `CreateSession`, `FreeRow`, `MayFork`, `ForkParent`, `Fork`, and
  branches: `BranchVisible`, `CreateBranch`;
* import: `OrgCheck`, `OrgAdd`, `ImportCheck`, `ImportPost`, `ImportPush`, `ImportDefault`, `AddRepo`,
  `ImportProtect`, and `ImportCleanup`;
* deletion: `MayDelete`, `CascadeSandboxes`, `CascadeSession`, `DeleteGitBranch`, and for a whole
  repository `MayRemove`, `ListSessions`, `CascadeNext` (each session with the former two),
  `DeleteServices`, `DeleteGitRepo`, `RemoveRepo`;
* `cmd/reconcile-sessions`: `ReconcileStart`, `ReconcileList`, `ReconcileNext`, and the steps of a claim
  for each branch;
* environment: sessions get sandboxes and services at any time; `Interrupt` ends a request at any
  call; `IgnoredError` loses a call whose error the code ignores.

`past[r]` is history: what has happened to the requests on `r`. The properties name the
entries that excuse them, and each is there because TLC finds a counterexample without it:
`"overlap"` (two tenants, or a delete or import and anything else, at work on `r` at once), `"foreign"` (the
RPC `EnsureRepo` recorded a repository of another tenant), `"torn"` (`DeleteRepo` was cut between Forgejo
and its row), `"cut"`, `"skipped"` (an ignored error), `"late"` (a sandbox that
appeared between a cascade's list and the deletion of the session).

One organization is modelled; what an organization's row adds is `orgOwners`. The calls of the
sandbox deletion are those of `SandboxLifecycle`, one step here.

### MergeRequests

`heads` are the `mr/` branches and `mrs` the pull requests of one repository, `records` the rows
of `members.mr_submissions` by index, `told` the messages on the bus. `lives` counts how often the
repository has been created: its indices start anew, the rows stay. Every call
keeps what it has read (`index`, `head`, `life`) in `job`.

* submit (`service.go:1576-1648`): `SubmitMR`, `Push` (`gitcommit.Submit`), `CreateMR`, `Cleanup`,
  `AddRecord`, and `notifyMRSubmitted`: `Ensure` (the target's session, which may make the repository
  anew), `Mail`;
* merge and close (`1669-1720`): `GetMR` with `Authorized`, then `Merge`, or `Close` and `DeleteHead`, then
  `DropRecord`;
* environment: `DeleteRepo`, `CreateRepo`; `Interrupt`; `LosePush` and `LoseMR` (the call has its effect, its
  answer is lost); `IgnoredError`.

`past[s]` is history again; `"overtaken"` marks a request that a call changed under an index it had read in an
earlier repository. A head's name contains the time in nanoseconds, so the submit stands for it. Contents and
conflicts are left out: a push, a pull request and a merge may be refused at will. The gateway has a bus: without
one it tells nobody of a change request (`mr_notify.go:24`), and `ReviewerTold` says nothing of it.

### ImageBuild

`entry` is the build's entry in the table, `mu` says who holds the table's lock between two writes,
`start` is the RPC and then the goroutine (`Enter`, `StoreCancel`, `Go`, `builds.go:49-100`), `proc` is buildctl, `pipe` its
output on the way to the log (`Output`, `Emit`), `stopped` the build's context. `Finish`/`Finished` and
`Cancel`/`Canceled` are the two writes each of the goroutine's end and of `CancelBuild`. `GetBuildStatus`
looks the entry up with the lock and reads its fields without it (`builds.go:103-122`): a data race,
so `Read` takes the fields in any order with writes in between. `raced` marks the clients to
which that has happened. `Timeout` is the build's deadline, `Restart` the loss of the table. Builds do not
touch each other's entries, so there is one.

### WatchHub

`subs`, `wake` and `ctx` are the hub's subscribers, their channels for one signal and its runs;
`watch`, `event`, `out`, `got` are, per run, the open watches, the events in them, the channel of
`k8swatch.Changes` and the signal in the forwarder's hand. A client lists what its frame shows one by one
(`List`), waits for a signal (`Woken`), comes and goes (`Subscribe`, `Unsub`; whoever comes back has a new
stream and has seen nothing). A frame shows more than the hub watches: beside `Sources` (sandbox Pods,
Deployments, claims, release ConfigMaps, `service.go:183-192`) there are `Unwatched` kinds, the Service objects with a
service's ports and the Pods with its phase, restarts and message (`services.go:812-813`). A list that fails ends
the stream, but a failed read of these two counts as nothing there (`Listing`). `EverybodyServed` and
`SubscribersCatchUp` speak of the sources only; of the rest the same does not hold, although `service.go:3270` says
so (`FramesFollow`, section 3). The claims' mounted-by column, read from the Deployments with the same
ignored error, is not modelled. Watches end
at will (`Close`) and are opened again (`Open`) with an event per object there is. `Runs` is how many
runs there may be at a time: an old one drains beside a new one.
A signal carries nothing, so what matters is whether a client that is behind has one in its
channel or on the way (`EverybodyServed`).

## 3. Runs

Passing runs:

| Run | Instance | Checks |
|---|---|---|
| `SandboxExclusive` | 1 name, 2 creates, 2 deleters, reaper; `Exclusive`; creates may be refused | `SandboxUsable`, `NoOrphans`, `NoForeignKill`, `NamesKept` |
| `SandboxCrash` | 1 name, 3 creates, 2 deleters; `Exclusive`; creates refused, requests abandoned anywhere, pods evicted or slow (0.9 million states) | `TokensAgree` |
| `SandboxLive` | 1 name, 2 creates, deleter, cascade and reaper, all overlapping; refusals | `FailedCreateLeavesNothing`, `CreatesEnd`, `CascadeReclaims`, `IdleReclaimed` |
| `HelmAlone` | 1 request at a time, 2 charts over 3 objects, 5 revisions, `HistoryMax` 2, initial history of 0 to 3 revisions in the older layout | `TypeOK`, `DeployedIsLive`, `KeepsHistory`, `NothingForgotten` |
| `HelmCrash` | the same with 4 revisions, calls that fail and requests abandoned anywhere; no uninstall | `AckedRecorded`, `NumbersAreFinal`, `PruneExact` |
| `ServiceOverlap` | 1 service, whose name may hold a Deployment nobody owns at the start, with up to 2 Services, 2 templates of which one mounts a claim, 2 tenants, 2 requests of every kind that repeat for ever, up to 2 replicas; `Exclusive`; requests abandoned anywhere (2.5 minutes) | `TypeOK`, `NoStrandedService`, `MountedClaimStays`, `OwnersKept`, `PauseReversible` |
| `RepoClaims` | 2 tenants, 1 repository with main only, 2 requests at a time, 4 calls in all, 1 fault (2.4 million states, 1 minute) | `TypeOK`, `OneOwner`, `NobodysRepo`, `RowsHaveRepos`, `MainProtected` |
| `RepoReconcile` | 1 tenant, 1 repository with main and another branch, 1 free session, 1 request at a time beside the reconciliation, 3 calls, 1 fault (0.9 million states, 1.5 minutes) | `NothingLeft`, `BranchesGetSessions` |
| `ChangeRequests` | 2 submits, 1 decider that repeats for ever, 2 branches, 2 lives of the repository, 1 fault (5.0 million states, 1.5 minutes) | `TypeOK`, `NoStrandedHead`, `OriginIsTrue`, `OwnBranchOnly`, `ReviewerTold` |
| `BuildPolls` | 1 client, up to 3 pieces of output, cancel, deadline and restart at any time (78 thousand states) | `TypeOK`, `Stoppable`, `PollsTrue`, `ClientLearns` |
| `HubSubscribers` | 1 client that comes and goes for ever, 1 source and 1 unwatched kind, 2 runs, 3 changes (0.15 million states) | `TypeOK`, `EverybodyServed`, `SubscribersCatchUp` |

`SandboxEvict.cfg` (3 creates, evictions; 0.4 million states) is kept to be run by hand: it passes, and shows
`SandboxUsable`, `NoForeignKill` and `NamesKept` under the weaker assumption of their theorems. `SandboxLifecycle`'s `TypeOK`
is proved and checked by no run.

One run is there for its counterexample: `HelmTwoDeploys` shows that two overlapping deploys are both
acknowledged (`AckedRecorded`) while one revision is recorded. Eight more configurations have
counterexamples of the same kind and are kept to be run by hand, for example
`tlc -config SandboxStuckName.cfg MCSandboxLifecycle`. The first seven
contradict a sentence of the repository, quoted in `PROJECT.json` (`findings` and `hazards`); the last one shows
why a theorem needs its assumption:

| Configuration | Module | Property | What happens |
|---|---|---|---|
| `SandboxStuckName` | `MCSandboxLifecycle` | `NoOrphans` | a delete overlaps a create; a Service (or Secret) stays without Pod; Create is refused for ever, Delete answers "not found" |
| `SandboxForeignKill` | `MCSandboxLifecycle` | `NoForeignKill` | the undo of a refused create deletes the live pod of another create |
| `SandboxReapBusy` | `MCSandboxLifecycle` | `ReapsOnlyIdle` | a job starts after the reaper has listed the jobs; its pod is deleted |
| `HelmLegacy` | `MCHelmRelease` | `NothingForgotten` | a failed migration, then a deploy: the embedded history is gone |
| `HelmLeftover` | `MCHelmRelease` | `UninstallClean` | an object that an upgrade dropped survives the uninstall |
| `ServiceUnowned` | `MCManagedService` | `UnownedUntouched` | an apply, whose guard lets everybody pass, makes its tenant the owner of a Deployment that nobody owned |
| `HubUnwatched` | `MCWatchHub` | `FramesFollow` | a client lists before a service's Pod is there, or its read of it fails; nothing signals the Pod, and the client never sees it |
| `HelmHalfWiped` | `MCHelmRelease` | `AckedRecorded` | an uninstall fails after the head's deletion, the bodies stay above the next release's numbers, and the prune of an acknowledged deploy deletes its own revision |

Variations of these instances showed more of the same kind, noted with the hazards:
with two overlapping deploys a slow prune deletes the current revision's body
(`PruneExact`); after a crash between body and head the retried number counts twice and one
revision too many is pruned (`NothingForgotten`; `PruneExact` is stated for what a prune
has listed); after an interrupted uninstall the
stale bodies outnumber the new release's and the acknowledged revision is pruned
(`AckedRecorded`); a `DeleteSandbox` acts on the sandbox of another session if the name was
re-created after its check. `ServiceOverlap` without `Exclusive`: a deploy makes a Service
behind the back of a delete (`NoStrandedService`), a claim is deleted between the check of the
deploy that mounts it and its write (`MountedClaimStays`), the second of two deploys of a new name takes
it over (`OwnersKept`); the faults `"drop"` (`NoStrandedService`) and `"blind"` (all three) do the
same to single requests. `PauseReversible` holds in every variation, and is proved.
Each exception that a property of the newer modules names was found in the same way, by checking it without.
Of `TokensAgree`: with three creates a name ends up with the pod of one and the Secret of
another, if a create is cut off (exempted) or the undo of a failed one is lost (`"drop"`, left out of the run). Of the others:
two tenants both own a repository that they claimed at once (`OneOwner`), a cut claim leaves a repository that
nobody can claim (`NobodysRepo`), a cut submit leaves a branch (`NoStrandedHead`), a poll that
meets a write repeats or loses output (`PollsTrue`), and the last object of a source that goes
between two watches is not missed by anybody (`SubscribersCatchUp`).

**Bounds.** Names do not interact, so one is enough. Two creates are needed for any
conflict over a name and suffice for each of the found ones but for foreign tokens, which take
three, one to leave remains and two to meet them (a fourth changed nothing); a deleter and the
reaper repeat for ever, a create runs once (its token identifies it). For Helm, two charts, one of
which drops both a plain object and a ConfigMap of the other; `HistoryMax` 2 with 4 or 5 revisions
makes pruning happen several times; three embedded revisions exceed `HistoryMax`. `MaxRevision` stops
a request from writing later revisions and is the only bound there that cuts behaviour off; requests
may then still read, uninstall and start again.
For services, two requests are what any conflict needs, and both repeat; two counts tell a remembered
count from the default 1; tenants, requests, and the two Services, are symmetric.
Repositories share nothing but the organization's row. Two tenants and two requests at a time make every conflict over one;
four calls allow create, delete, create again and one more. Three suffice beside a reconciliation that
repeats for ever. One fault at every possible place is enough for each exception; that more do not break the invariants
is proved, not checked.
Two submits give indices 1 and 2 and, with two lives of the repository, a row and a stale call
under an index that is used again. A build's output in three pieces can fall before, between and
after the reads of two polls. For the hub, one client that leaves and returns makes the old run overlap the new one, and
two kinds in a frame make its lists interleave with the changes; two clients with one change, and two
sources with one change, were also checked and hold. `EverybodyServed` is proved for any number.

Deadlock is not checked: when every create has run and nothing asks for a delete, when nobody
calls, or when the build is over and everybody knows, the system rests.

**Fairness.** `SandboxLifecycle!Fairness`: a goroutine that can make its next call
makes it; the ticker keeps firing; a terminating pod is removed by the kubelet. No
fairness is assumed of users, of pods becoming ready, of job ends or of the faults.
`IdleReclaimed` and `CascadeReclaims` need all three; `CreatesEnd` only the first.
`RepoOwnership!FairSpec`: handlers go on, and the reconciliation command is run again (it is a command, and
meant to be). Calls and faults are bounded, so that what it sees stands still in the end.
`ImageBuild!FairSpec`: the goroutines go on, the deadline fires, a killed process ends, a client polls again; nothing is assumed of
buildctl, which may hang. `WatchHub!FairSpec`: goroutines go on, a watch is opened in the end
(the code retries for ever), a cancelled one closes; nothing is assumed of the cluster or the clients.

## 4. Proofs

Every theorem holds for all values of the constants that satisfy the assumptions named in the
component's module; no theorem of one module uses another's.

`SandboxLifecycleProofs` (requests of different kinds are different, `None` is nothing
else), for any number of names, requests and sessions:

* `TypeCorrect`: `Spec => []TypeOK`. Inductive invariant `TInv` = `TypeOK` and `PcOK`
  (each kind of request stays among its own calls; a working request has a name).
* `FailedCreateClean`: unless best-effort deletes get lost (`"drop"`), a failed create leaves
  nothing of its own, under **any** interleaving and every other fault. `FInv` adds `SecretHeld` and
  `PodHeld`: a Secret or a live Pod that carries `c`'s token is under `c`'s name, and `c` is past
  the call that made it and not at an answer that promises to have undone it.
* `SandboxUsableCalm`, `NoForeignKillCalm`, `NamesKeptCalm`: under `Calm` (`Exclusive`, and no fault but
  rejected creates and evicted pods). The properties are not inductive: during a create or a
  delete a name is legitimately half-made, and after an eviction it stays so. `SInv` adds `OneDelete` (one delete per name)
  and, for each name, `Sound`: a delete holds the Secret of a finished sandbox until it takes it, and so keeps other creates
  out (`DeleteOwns`); nobody takes the Secret of a create at work, so that its Service is never refused (`CreateOwns`); a Service
  stands in front of the Secret of a create that made it (`ServiceOwned`); what a live pod may lack, and
  whose call is to blame (`PodComplete`); and a terminating pod is waited for (`TerminatingWaited`), so that a
  delete never returns early and a new one never finds its remains. One lemma for the calls of a
  create, one for those of a delete; `SoundElsewhere` covers every step at another name. `NamesKeptCalm` is the refinement of
  `SandboxNames`: `CreateService` is `Grant`, the refusals are `Deny`, `DeleteService` is `Release`, the rest stutters.
* `NoOrphansCalm`: the same without evictions, which do leave orphans. `IInv` adds that a delete has the name and its
  pod for itself until it deletes the pod (`DeleteAlone`), and that a Secret belongs to a create at work or to
  the pod (`SecretOwned`).
* `TokensAgreeAlways`: under `Exclusive`, unless deletes get lost, and with every other fault. A delete may
  take the Secret of a create that began after it (the pod was evicted, an earlier delete stopped halfway); a
  second create then makes its own, and there are one's Secret and the other's pod (`Crossed`). `KInv` says why this
  does not last: a delete takes a Secret only after it has taken the Service
  (`DeleteQuiet`), afterwards nobody takes the Service back, so that the first of the two that gets past
  `CreateService` blocks the other (`RobberServed`, `OneServed`), which undoes pod or Secret.

`ManagedServiceProofs`, for any number of requests, services, claims and tenants:

* `TypeCorrect`: `Spec => []TypeOK`. `TInv` adds what a request knows at each call (`PcOK`) and
  `CopyCurrent`: a copy that can still be sent back *is* the Deployment.
* `PauseResume`: `Spec => PauseReversible`, with no assumption on overlap or faults. By
  `CopyCurrent` an update that goes through starts from the object as it is (`UpdateStep`,
  `UpdateWrites`), and what remains is arithmetic on the counts (`CountedValues`).
* `NoStrandedServiceCalm`, `MountedClaimStaysCalm`, `OwnersKeptCalm`: under `Calm` (`Exclusive`,
  and no fault but abandoned requests). `IInv` adds `Alone`: one structural request at a time; a
  labelled Service has its Deployment at every moment; and what each request has found out is still
  so when it acts on it (`Ready`: a delete has seen every Service, a claim to be deleted is
  unmounted, what a deploy or apply writes has the right owner, prechecked Services may be taken).
  Scale, pause and resume run in between, and `SameShapeAlone` shows that they disturb nothing of it;
  `WriterAlone` shows that a structural writer has only its own findings to keep. `OwnersKeptCalm` covers
  Deployments with an owner under every request, those without under all but an apply (`AppliedDeployment`),
  and Services under deploys.

`HelmReleaseProofs`, for any charts, objects, callers and `HistoryMax`. The invariants are layers, each with the
assumption it needs; the next one keeps the former:

* `TypeCorrect` (no assumption): `TInv` = `TypeOK` and `AskedBy` (what a request holds at each call).
* `NumbersStay` (`Exclusive`; any failure): `NInv` adds that one request is at work (`Alone`), that what it has
  read of the head is still there (`ReadBy`), and that a body copied from an embedded history is the same (`Embedded`).
* `AckedStays`, `PruneStaysExact` (`Calm`: `Exclusive`, and no uninstall that can fail halfway): `BInv` adds that
  bodies end at the revision after the head (`Below`: a crash between body and head leaves one there) and
  what a writer may count on until it prunes (`DoneBy`). `KeepBounded` is the counting argument: what
  `pruneHistory` keeps is at most `HistoryMax` long, also when a number is counted twice.
* `DeployedStaysLive` (`Smooth`: `Exclusive`, no failure): `LInv` adds `Settled` and `AppliedBy`, what is already
  in the cluster at each point of an apply.
* `NothingEverForgotten`, `HistoryKept` (`Smooth`): `RInv` adds that bodies end *at* the head (`Tight`), that an
  embedded history is complete (`EmbedsAll`), and that what a prune has still to delete has `HistoryMax` newer
  revisions among those that stay (`KnownBy`). `HistoryKept` is the refinement of `ReleaseHistory`: the abstract
  history is the newest `HistoryMax` of what is stored or embedded up to the current revision (`View`,
  `AbsIsView`); `AbsPutHead` is the abstract deploy, `AbsWipe` the uninstall, all other calls stutter, a prune
  because of `TopDelete`.

The assumptions are needed: without `Exclusive` `HelmTwoDeploys`, without `Calm` `HelmHalfWiped`, without `Smooth`
`HelmLegacy` have counterexamples.

`RepoOwnershipProofs`, for any tenants, repositories, branches, requests, reconcilers, calls and faults:

* `TypeCorrect`: `TInv` = `TypeOK` and `Shape`: each call takes only its own steps (`MayBeAt`) with
  its own arguments (`ShapeArgs`).
* `OneOwnerAlways`, `NobodysRepoAlways`, `RowsHaveReposAlways`, `MainProtectedAlways`: with every
  interleaving and fault, and with exactly the exceptions that the properties name. `IInv` adds three
  things. `Apart`: requests on one repository are of one tenant, and a deletion or import is alone,
  unless the history says `"overlap"`. `CallerOK`: what a request may count on between its
  calls (`ClaimOK`: who owns what is to be claimed; `ImportOK`: an import's repository is nobody's until its
  row; `RemoveOK`, `GitOK`: who deletes owns, and when the row may be without its
  repository). `RepoOK`: the four properties without "no request is at work", each with the request
  that accounts for the gap (`Dropping`, `Recording`, `Protecting`). A step disturbs the repository of its
  own request only (`ElsewhereKept`), so each action has one lemma about that one.
* `NothingLeftAlways`: holds also while requests are at work. `LInv` adds what hangs on what (`BelowOK`: a session
  has an owner, a sandbox a session, a service an owner) and what the requests count on for it: one past its
  ownership check is still an owner's (`AdmitOK`: only a deletion takes a row, and it would have overlapped), and a
  cascade's list covers the sessions that are left (`SweepOK`: none after the list is done, no sandbox at the session it is about
  to delete, no service past the list of services). A service needs no exception: it belongs to a session, and at
  that point there is none. This was checked first for 2 tenants and 2 requests, for 2 branches with
  2 overlapping requests, and for 2 tenants with the reconciliation, the latter two with 2 faults.

`MergeRequestsProofs`, for any finite number of submits and any deciders, branches, lives and faults:

* `TypeCorrect`: the interesting part is that indices suffice: no submit opens a second request
  (`Openers`, `OneEach`), so the requests inject into the submits (`RoomForOne`).
* `NeverStranded`, `OriginAlwaysTrue`, `OwnBranchAlways`, `ReviewerAlwaysTold`. `IInv` adds what a call may
  still count on after the call that read it, as long as the repository is the same one: `RecordFresh` (the index is
  that of its own request), `DecideFresh` (the index has the head it read, its caller may decide, and is settled
  when the row goes), and `FirstRows` (in the first life no row lies in wait for a new index). Most steps
  move one call inside one life of the repository and keep the requests in place (`Local`): they are
  covered by `LocalIInv`, with `StaysCovered` and `RowStays` for what they leave alone. The others open a request
  (`OpensStep`) or change the repository's life (`Turned`).

`ImageBuildProofs`, for any number of clients and any output:

* `TypeCorrect`, `AlwaysStoppable`, `PollsAlwaysTrue`. The invariant follows the build through its stages:
  `Stages` and `Running` (what entry, process and lock are together), `Complete` (when the entry ends without
  a cancel, its log is complete), `Offsets`, `Current` (what an unraced poll has read is what is there), `Told`.

`WatchHubProofs`, for any clients, sources, runs and contents:

* `TypeCorrect`, and `ServedAlways`: `EverybodyServed` is inductive as it stands, given the types: every step that
  takes a signal from one place puts it in the next, and every change of a source either reaches an open watch or is
  announced when it is opened. Neither the property nor the theorem says anything of what is unwatched.

`FInv`, `KInv`, `BInv`, both `LInv`, `RInv` and every `IInv` were checked as invariants of TLC runs before they were proved.

Only model-checked: liveness
(`CreatesEnd`, `CascadeReclaims`, `IdleReclaimed`, `BranchesGetSessions`, `ClientLearns`,
`SubscribersCatchUp`): liveness under fairness is outside the prover's reach.

## 5. Plan

What is left, in order:

1. What the service RPCs and the repository RPCs promise when each is taken as a whole, like `SandboxNames` for
   the sandboxes: a table of services whose changes are atomic, and a register of owners.
2. Pure functions against reference definitions: the merge policy (when something calls it), names, roles.

## 6. Not modelled

Rendering (pods, manifests, presets), input validation, authentication, logs,
registries and generated code: no state, or state of other systems that no operation
here reads back. The tenant check of each RPC is left out where all requests are of one tenant.

* The token broker (`internal/agentclient`): a slow mint may store a token that was revoked meanwhile, and a
  request that meets a revoked token invalidates it and tries once more. The code promises no more
  than that one retry, so there is nothing to check but the step itself.
* The ConfigMap and Secret store: each operation is one upsert or delete, the last writer wins, and no comment says otherwise.
* Provisioning (`internal/provision`, `cmd/provision`): a command run by hand, a sequence of calls each of which
  overwrites or deletes. What could go wrong is another writer at once: the index of presets in the key-value
  store, which the agent writes too, is read, changed and written back without a revision check.
* The merge policy (`internal/gitmerge`): pure, and imported by no package; the gates that its comments
  describe do not exist (see the findings).
* The cached working copies of `gitcommit`: only `Submit`, which clones anew, is called by the service.
* Readers (listings, object views, logs, images): they change nothing, and nothing is decided on them
  but what the models read themselves.

About two thirds of the counted lines of the repository (`gen/`, 33 of 49 thousand) are generated RPC code, which has
no behaviour of its own; the models cover the state-changing code of the rest.

One sentence of the repository's README has no code to model: it says (lines 94-95)
that the agent's `deleted` lifecycle event cascades to a session's sandboxes,
but nothing in the gateway receives that event; the cascade runs only from
the gateway's own deletes.

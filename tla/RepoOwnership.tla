---------------------------- MODULE RepoOwnership ----------------------------
(***************************************************************************)
(* Who owns which repository, and what hangs below it.  Three systems      *)
(* record it: Forgejo has the repositories and their branches, the agent   *)
(* the sessions of each tenant, and the gateway's sqlite table (members)   *)
(* the ownership rows.  Nothing ties them together: every RPC is a series  *)
(* of calls, each checking or changing one of the three, with no lock and  *)
(* no transaction.  One action below is one such call of one request.      *)
(*                                                                         *)
(* All repositories are of one organization; two organizations share no    *)
(* row, so only its owners (org_owners) are kept.                          *)
(***************************************************************************)
EXTENDS Naturals, FiniteSets

CONSTANTS
  Tenants,
  Repos,
  Branches,     \* branch names; a session is named after its branch
  Main,         \* roles.MainBranch
  FreeNames,    \* names of sessions that belong to no repository
  Requests,     \* handlers of client calls (each runs one call after the other)
  Reconcilers,  \* runs of cmd/reconcile-sessions
  None,
  MaxRequests,  \* bound: client calls in a behaviour
  MaxFaults     \* bound: failed calls in a behaviour

ASSUME NamesAssumption ==
  /\ Main \in Branches
  /\ None \notin Tenants \cup Repos \cup Branches \cup FreeNames
  /\ FreeNames \cap (Repos \X Branches) = {}   \* ValidComponent: no ":"
  /\ Requests \cap Reconcilers = {}

ASSUME BoundsAssumption == MaxRequests \in Nat /\ MaxFaults \in Nat

Callers == Requests \cup Reconcilers

BranchSessions == Repos \X Branches
AgentSessions  == BranchSessions \cup FreeNames

VARIABLES
  exists,     \* Forgejo: the organization's repositories
  protected,  \* Forgejo: those whose main takes no direct push
  branches,   \* Forgejo: <<repository, branch>>
  strays,     \* Forgejo: repositories made under the gateway's own user
  owners,     \* members.repo_owners: <<tenant, repository>>
  orgOwners,  \* members.org_owners: tenants
  freeRows,   \* members.free_sessions: <<tenant, name>>
  sessions,   \* agent: <<tenant, session>>
  sandboxes,  \* cluster: <<creator, session annotation>> of the sandboxes
  services,   \* cluster: repositories whose sessions have a service
  req,        \* per caller: the call it serves, and its next step
  past,       \* history, per repository: what has happened to its requests
  budget      \* client calls and faults so far

git     == <<exists, protected, branches, strays>>
rows    == <<owners, orgOwners, freeRows>>
cluster == <<sandboxes, services>>
vars    == <<git, rows, sessions, cluster, req, past, budget>>

-----------------------------------------------------------------------------
(* Types.                                                                  *)

FirstStep ==
  [ensure |-> "exists", ensureRepo |-> "make", createOrg |-> "org",
   import |-> "org", fork |-> "mayFork", branch |-> "visible",
   delSession |-> "mayDelete", delRepo |-> "mayRemove",
   free |-> "freeRow", delFree |-> "freeRole", reconcile |-> "list"]

Ops == DOMAIN FirstStep

ASSUME NoneAssumption == None \notin Ops

PCs ==
  { "idle", "exists", "owned", "make", "post", "protect", "row", "orgRow",
    "probe", "create", "org", "orgAdd", "impExists", "impPost", "push",
    "default", "impProtect", "cleanup", "mayFork", "parent", "fork",
    "visible", "branch", "mayDelete", "sandboxes", "session", "gitBranch",
    "mayRemove", "sessions", "cascade", "services", "gitRepo", "dropRow",
    "freeRow", "freeRole", "list", "next" }

\* What a repository has been through (see Begin, AddRepo and Interrupt).
Causes == {"overlap", "foreign", "torn", "cut", "skipped", "late"}

Idle == [op |-> None, t |-> None, r |-> None, b |-> None, pc |-> "idle",
         todo |-> {}]

Calls ==
  [op : Ops \cup {None}, t : Tenants \cup {None}, r : Repos \cup {None},
   b : Branches \cup FreeNames \cup {None}, pc : PCs,
   todo : SUBSET BranchSessions]

TypeOK ==
  /\ exists \subseteq Repos /\ protected \subseteq exists
  /\ branches \subseteq exists \X Branches /\ strays \subseteq Repos
  /\ owners \subseteq Tenants \X Repos /\ orgOwners \subseteq Tenants
  /\ freeRows \subseteq Tenants \X FreeNames
  /\ sessions \subseteq Tenants \X AgentSessions
  /\ sandboxes \subseteq Tenants \X AgentSessions
  /\ services \subseteq Repos
  /\ req \in [Callers -> Calls]
  /\ past \in [Repos -> SUBSET Causes]
  /\ budget \in [calls : 0 .. MaxRequests, faults : 0 .. MaxFaults]

-----------------------------------------------------------------------------
(* Helpers.                                                                *)

At(p, step)   == req[p].pc = step
Goto(p, step) == req' = [req EXCEPT ![p].pc = step]

\* The handler returns.  The reconciler goes on with its next branch.
Return(p) ==
  req' = [req EXCEPT ![p] =
            IF req[p].op = "reconcile"
              THEN [@ EXCEPT !.pc = "next", !.r = None, !.b = None]
              ELSE Idle]

Owns(p) == <<req[p].t, req[p].r>> \in owners

Target(p) ==
  IF req[p].op = "delFree" THEN req[p].b ELSE <<req[p].r, req[p].b>>

OwnersOf(r) == {t \in Tenants : <<t, r>> \in owners}

\* Some request is at work on r.
Busy(r) == \E p \in Callers : req[p].r = r

Marked(r, cause) == [past EXCEPT ![r] = @ \cup {cause}]

\* The request that may delete a repository: DeleteRepo, and an import that
\* cleans up after itself.
Removing == {"delRepo", "import"}

\* p starts to work on r.  History: it meets a request on r of another tenant,
\* or one of the two may delete r.
Begin(p, op, t, r) ==
  past' = IF r # None /\ \E q \in Callers \ {p} :
               req[q].r = r /\ ( \/ req[q].t # t
                                 \/ {op, req[q].op} \cap Removing # {} )
            THEN Marked(r, "overlap")
            ELSE past

Init ==
  /\ exists = {} /\ protected = {} /\ branches = {} /\ strays = {}
  /\ owners = {} /\ orgOwners = {} /\ freeRows = {}
  /\ sessions = {} /\ sandboxes = {} /\ services = {}
  /\ req = [p \in Callers |-> Idle]
  /\ past = [r \in Repos |-> {}]
  /\ budget = [calls |-> 0, faults |-> 0]

-----------------------------------------------------------------------------
(* A client call arrives; its arguments have passed ValidComponent.        *)
(* DeleteBranch of a branch other than main takes the steps of             *)
(* DeleteBranchSession, so delSession stands for both.                     *)

Receive(p, op, t, r, b) ==
  /\ At(p, "idle") /\ budget.calls < MaxRequests
  /\ req' = [req EXCEPT ![p] = [op |-> op, t |-> t, r |-> r, b |-> b,
                                pc |-> FirstStep[op], todo |-> {}]]
  /\ Begin(p, op, t, r)
  /\ budget' = [budget EXCEPT !.calls = @ + 1]
  /\ UNCHANGED <<git, rows, sessions, cluster>>

ReceiveCall(p) ==
  \E t \in Tenants :
    \/ \E r \in Repos, b \in Branches, op \in {"ensure", "branch", "delSession"} :
         Receive(p, op, t, r, b)
    \/ \E r \in Repos, op \in {"ensureRepo", "import"} : Receive(p, op, t, r, Main)
    \/ \E r \in Repos, b \in Branches \ {Main} : Receive(p, "fork", t, r, b)
    \/ \E r \in Repos : Receive(p, "delRepo", t, r, None)
    \/ Receive(p, "createOrg", t, None, None)
    \/ \E f \in FreeNames, op \in {"free", "delFree"} : Receive(p, op, t, None, f)

-----------------------------------------------------------------------------
(* claimRepo and Forgejo's EnsureRepo.                                     *)

\* Mutant: claimRepo records the caller as an owner of whatever exists.
ClaimCheckAdopts(p) ==
  /\ At(p, "exists")
  /\ Goto(p, "make")
  /\ UNCHANGED <<git, rows, sessions, cluster, past, budget>>

ClaimCheck(p) ==
  /\ At(p, "exists")
  /\ Goto(p, IF req[p].r \in exists THEN "owned" ELSE "make")
  /\ UNCHANGED <<git, rows, sessions, cluster, past, budget>>

ClaimOwned(p) ==
  /\ At(p, "owned")
  /\ IF Owns(p) THEN Goto(p, "probe") ELSE Return(p)
  /\ UNCHANGED <<git, rows, sessions, cluster, past, budget>>

MakeCheck(p) ==
  /\ At(p, "make")
  /\ Goto(p, IF req[p].r \in exists THEN "protect" ELSE "post")
  /\ UNCHANGED <<git, rows, sessions, cluster, past, budget>>

\* POST to the organization, and when that is refused, to the gateway's own
\* user.  An auto-initialized repository has main, one to import into nothing.
Post(p, next, initial) ==
  LET r == req[p].r IN
  /\ \/ /\ r \notin exists
        /\ exists' = exists \cup {r}
        /\ branches' = branches \cup ({r} \X initial)
        /\ Goto(p, next)
        /\ UNCHANGED strays
     \/ /\ r \in exists /\ r \notin strays
        /\ strays' = strays \cup {r}
        /\ Goto(p, next)
        /\ UNCHANGED <<exists, branches>>
     \/ /\ r \in exists /\ r \in strays
        /\ Return(p)
        /\ UNCHANGED <<exists, branches, strays>>
  /\ UNCHANGED <<protected, rows, sessions, cluster, past, budget>>

MakePost(p) == At(p, "post") /\ Post(p, "protect", {Main})

\* ProtectMain; a repository that is gone is an error.
Protect(p) ==
  /\ At(p, "protect")
  /\ IF req[p].r \in exists
       THEN protected' = protected \cup {req[p].r} /\ Goto(p, "row")
       ELSE Return(p) /\ UNCHANGED protected
  /\ UNCHANGED <<exists, branches, strays, rows, sessions, cluster, past, budget>>

\* Mutant: the columns of the row are swapped.
AddRepoSwapped(p) ==
  /\ At(p, "row")
  /\ owners' = owners \cup {<<req[p].r, req[p].t>>}
  /\ Goto(p, "probe")
  /\ UNCHANGED <<git, orgOwners, freeRows, sessions, cluster, past, budget>>

\* AddRepo.  History: the RPC EnsureRepo records a repository somebody owns.
AddRepo(p) ==
  LET r == req[p].r IN
  /\ At(p, "row")
  /\ owners' = owners \cup {<<req[p].t, r>>}
  /\ past' = IF req[p].op = "ensureRepo" /\ OwnersOf(r) \ {req[p].t} # {}
               THEN Marked(r, "foreign") ELSE past
  /\ Goto(p, CASE req[p].op = "ensureRepo" -> "probe"
               [] req[p].op = "import" -> "impProtect"
               [] OTHER -> "orgRow")
  /\ UNCHANGED <<git, orgOwners, freeRows, sessions, cluster, budget>>

AddOrg(p) ==
  /\ At(p, "orgRow")
  /\ orgOwners' = orgOwners \cup {req[p].t}
  /\ Goto(p, "probe")
  /\ UNCHANGED <<git, owners, freeRows, sessions, cluster, past, budget>>

-----------------------------------------------------------------------------
(* Sessions: sessionExists, createSession, Fork, CreateFreeSession.        *)

SessionProbe(p) ==
  /\ At(p, "probe")
  /\ IF <<req[p].t, Target(p)>> \in sessions THEN Return(p) ELSE Goto(p, "create")
  /\ UNCHANGED <<git, rows, sessions, cluster, past, budget>>

\* The agent refuses a duplicate: the answer is then an error.
CreateSession(p) ==
  /\ At(p, "create")
  /\ sessions' = sessions \cup
       {<<req[p].t, IF req[p].op = "free" THEN req[p].b ELSE Target(p)>>}
  /\ Return(p)
  /\ UNCHANGED <<git, rows, cluster, past, budget>>

\* CreateFreeSession writes its row before the session.
FreeRow(p) ==
  /\ At(p, "freeRow")
  /\ freeRows' = freeRows \cup {<<req[p].t, req[p].b>>}
  /\ Goto(p, "create")
  /\ UNCHANGED <<git, owners, orgOwners, sessions, cluster, past, budget>>

MayFork(p) ==
  /\ At(p, "mayFork")
  /\ IF Owns(p) THEN Goto(p, "parent") ELSE Return(p)
  /\ UNCHANGED <<git, rows, sessions, cluster, past, budget>>

\* Only a main session forks.
ForkParent(p) ==
  /\ At(p, "parent")
  /\ IF <<req[p].t, <<req[p].r, Main>>>> \in sessions
       THEN Goto(p, "fork") ELSE Return(p)
  /\ UNCHANGED <<git, rows, sessions, cluster, past, budget>>

\* The agent forks the parent if it still has it.  The branch itself is made
\* by the extension that hears of it, with a CreateBranch call of its own.
Fork(p) ==
  /\ At(p, "fork")
  /\ sessions' = IF <<req[p].t, <<req[p].r, Main>>>> \in sessions
                   THEN sessions \cup {<<req[p].t, Target(p)>>} ELSE sessions
  /\ Return(p)
  /\ UNCHANGED <<git, rows, cluster, past, budget>>

BranchVisible(p) ==
  /\ At(p, "visible")
  /\ IF Owns(p) THEN Goto(p, "branch") ELSE Return(p)
  /\ UNCHANGED <<git, rows, sessions, cluster, past, budget>>

\* An existing branch is tolerated, a missing repository is an error.
CreateBranch(p) ==
  /\ At(p, "branch")
  /\ branches' = branches \cup {x \in {Target(p)} : x[1] \in exists}
  /\ Return(p)
  /\ UNCHANGED <<exists, protected, strays, rows, sessions, cluster, past, budget>>

-----------------------------------------------------------------------------
(* claimOrg and ImportRepo.                                                *)

\* OwnsOrg, then OrgOwner: a row of another tenant refuses the claim.
OrgCheck(p) ==
  LET continue == IF req[p].op = "import" THEN Goto(p, "impExists") ELSE Return(p)
  IN
  /\ At(p, "org")
  /\ CASE req[p].t \in orgOwners -> continue
       [] orgOwners = {} -> Goto(p, "orgAdd")
       [] OTHER -> Return(p)
  /\ UNCHANGED <<git, rows, sessions, cluster, past, budget>>

OrgAdd(p) ==
  /\ At(p, "orgAdd")
  /\ orgOwners' = orgOwners \cup {req[p].t}
  /\ IF req[p].op = "import" THEN Goto(p, "impExists") ELSE Return(p)
  /\ UNCHANGED <<git, owners, freeRows, sessions, cluster, past, budget>>

ImportCheck(p) ==
  /\ At(p, "impExists")
  /\ IF req[p].r \in exists THEN Return(p) ELSE Goto(p, "impPost")
  /\ UNCHANGED <<git, rows, sessions, cluster, past, budget>>

ImportPost(p) == At(p, "impPost") /\ Post(p, "push", {})

\* The clone of the source and the forced push to main.  Either may fail: the
\* source is not there, the ref is unknown, or main takes no push (any more).
ImportPush(p) ==
  /\ At(p, "push")
  /\ \/ /\ req[p].r \in exists \ protected
        /\ branches' = branches \cup {<<req[p].r, Main>>}
        /\ Goto(p, "default")
     \/ Goto(p, "cleanup") /\ UNCHANGED branches
  /\ UNCHANGED <<exists, protected, strays, rows, sessions, cluster, past, budget>>

\* SetDefaultBranch, which may fail too.
ImportDefault(p) ==
  /\ At(p, "default")
  /\ \/ req[p].r \in exists /\ Goto(p, "row")
     \/ Goto(p, "cleanup")
  /\ UNCHANGED <<git, rows, sessions, cluster, past, budget>>

\* Mutant: an import does not protect main.
ImportNoProtect(p) ==
  /\ At(p, "impProtect")
  /\ Goto(p, "probe")
  /\ UNCHANGED <<git, rows, sessions, cluster, past, budget>>

\* Best effort.
ImportProtect(p) ==
  /\ At(p, "impProtect")
  /\ protected' = protected \cup ({req[p].r} \cap exists)
  /\ Goto(p, "probe")
  /\ UNCHANGED <<exists, branches, strays, rows, sessions, cluster, past, budget>>

RemoveFromForgejo(r) ==
  /\ exists' = exists \ {r}
  /\ protected' = protected \ {r}
  /\ branches' = {x \in branches : x[1] # r}
  /\ UNCHANGED strays

\* Mutant: a failed import returns and leaves the repository it made.
ImportLeaves(p) ==
  /\ At(p, "cleanup")
  /\ Return(p)
  /\ UNCHANGED <<git, rows, sessions, cluster, past, budget>>

ImportCleanup(p) ==
  /\ At(p, "cleanup")
  /\ RemoveFromForgejo(req[p].r)
  /\ Return(p)
  /\ UNCHANGED <<rows, sessions, cluster, past, budget>>

-----------------------------------------------------------------------------
(* Deletion: DeleteBranchSession, DeleteBranch, DeleteRepo and the cascade *)
(* they share, whose errors are ignored.  SandboxLifecycle has the calls   *)
(* of the sandbox deletion; here it is one step.                           *)

MayDelete(p) ==
  /\ \/ At(p, "mayDelete") /\ (IF Owns(p) THEN Goto(p, "sandboxes") ELSE Return(p))
     \/ /\ At(p, "freeRole")
        /\ IF <<req[p].t, req[p].b>> \in freeRows
             THEN Goto(p, "sandboxes") ELSE Return(p)
  /\ UNCHANGED <<git, rows, sessions, cluster, past, budget>>

CascadeSandboxes(p) ==
  /\ At(p, "sandboxes")
  /\ sandboxes' = sandboxes \ {<<req[p].t, Target(p)>>}
  /\ Goto(p, "session")
  /\ UNCHANGED <<git, rows, sessions, services, past, budget>>

\* The agent session, and the row of a free one.
CascadeSession(p) ==
  /\ At(p, "session")
  /\ sessions' = sessions \ {<<req[p].t, Target(p)>>}
  /\ freeRows' = freeRows \ {<<req[p].t, Target(p)>>}
  /\ CASE req[p].op = "delRepo" -> Goto(p, "cascade")
       [] req[p].op = "delSession" /\ req[p].b # Main -> Goto(p, "gitBranch")
       [] OTHER -> Return(p)
  /\ UNCHANGED <<git, owners, orgOwners, cluster, past, budget>>

DeleteGitBranch(p) ==
  /\ At(p, "gitBranch")
  /\ branches' = branches \ {Target(p)}
  /\ Return(p)
  /\ UNCHANGED <<exists, protected, strays, rows, sessions, cluster, past, budget>>

MayRemove(p) ==
  /\ At(p, "mayRemove")
  /\ IF Owns(p) THEN Goto(p, "sessions") ELSE Return(p)
  /\ UNCHANGED <<git, rows, sessions, cluster, past, budget>>

\* Mutant: only the main session is looked up.
ListMainSession(p) ==
  /\ At(p, "sessions")
  /\ req' = [req EXCEPT ![p].todo =
               {s \in {<<req[p].r, Main>>} : <<req[p].t, s>> \in sessions},
               ![p].pc = "cascade"]
  /\ UNCHANGED <<git, rows, sessions, cluster, past, budget>>

\* The agent lists the caller's sessions; those of the repository are handled.
ListSessions(p) ==
  /\ At(p, "sessions")
  /\ req' = [req EXCEPT ![p].todo =
               {s \in {req[p].r} \X Branches : <<req[p].t, s>> \in sessions},
               ![p].pc = "cascade"]
  /\ UNCHANGED <<git, rows, sessions, cluster, past, budget>>

CascadeNext(p) ==
  /\ At(p, "cascade")
  /\ \/ \E s \in req[p].todo :
          req' = [req EXCEPT ![p].todo = @ \ {s}, ![p].b = s[2],
                             ![p].pc = "sandboxes"]
     \/ req[p].todo = {} /\ Goto(p, "services")
  /\ UNCHANGED <<git, rows, sessions, cluster, past, budget>>

DeleteServices(p) ==
  /\ At(p, "services")
  /\ services' = services \ {req[p].r}
  /\ Goto(p, "gitRepo")
  /\ UNCHANGED <<git, rows, sessions, sandboxes, past, budget>>

\* Mutant: the ownership row is forgotten.
DeleteGitRepoOnly(p) ==
  /\ At(p, "gitRepo")
  /\ RemoveFromForgejo(req[p].r)
  /\ Return(p)
  /\ UNCHANGED <<rows, sessions, cluster, past, budget>>

DeleteGitRepo(p) ==
  /\ At(p, "gitRepo")
  /\ RemoveFromForgejo(req[p].r)
  /\ Goto(p, "dropRow")
  /\ UNCHANGED <<rows, sessions, cluster, past, budget>>

RemoveRepo(p) ==
  /\ At(p, "dropRow")
  /\ owners' = owners \ {<<req[p].t, req[p].r>>}
  /\ Return(p)
  /\ UNCHANGED <<git, orgOwners, freeRows, sessions, cluster, past, budget>>

-----------------------------------------------------------------------------
(* cmd/reconcile-sessions: EnsureBranchSession for every branch of every   *)
(* repository the tenant owns.  Each runs again and again.                 *)

ReconcileStart(p) ==
  /\ p \in Reconcilers /\ At(p, "idle")
  /\ \E t \in Tenants :
       req' = [req EXCEPT ![p] = [Idle EXCEPT !.op = "reconcile", !.t = t,
                                              !.pc = "list"]]
  /\ UNCHANGED <<git, rows, sessions, cluster, past, budget>>

\* Mutant: only the default branch of each repository is looked at.
ReconcileListMain(p) ==
  /\ At(p, "list")
  /\ req' = [req EXCEPT ![p].todo =
               {x \in branches : <<req[p].t, x[1]>> \in owners /\ x[2] = Main},
               ![p].pc = "next"]
  /\ UNCHANGED <<git, rows, sessions, cluster, past, budget>>

\* ListRepos, and Branches of each of them.
ReconcileList(p) ==
  /\ At(p, "list")
  /\ req' = [req EXCEPT ![p].todo =
               {x \in branches : <<req[p].t, x[1]>> \in owners},
               ![p].pc = "next"]
  /\ UNCHANGED <<git, rows, sessions, cluster, past, budget>>

ReconcileNext(p) ==
  /\ At(p, "next")
  /\ \/ \E x \in req[p].todo :
          /\ req' = [req EXCEPT ![p].todo = @ \ {x}, ![p].r = x[1],
                                ![p].b = x[2], ![p].pc = "exists"]
          /\ Begin(p, "reconcile", req[p].t, x[1])
     \/ /\ req[p].todo = {}
        /\ req' = [req EXCEPT ![p] = Idle]
        /\ UNCHANGED past
  /\ UNCHANGED <<git, rows, sessions, cluster, budget>>

-----------------------------------------------------------------------------
(* The sessions at work, and what goes wrong.                              *)

\* History: a cascade has deleted the sandboxes of session s, and is about to
\* delete the session.
Passed(t, s) == \E p \in Callers : At(p, "session") /\ req[p].t = t /\ Target(p) = s

SandboxAppears(t, s) ==
  /\ <<t, s>> \in sessions \ sandboxes
  /\ sandboxes' = sandboxes \cup {<<t, s>>}
  /\ past' = IF s \in BranchSessions /\ Passed(t, s)
               THEN Marked(s[1], "late") ELSE past
  /\ UNCHANGED <<git, rows, sessions, services, req, budget>>

ServiceAppears(t, s) ==
  /\ <<t, s>> \in sessions /\ s \in BranchSessions /\ s[1] \notin services
  /\ services' = services \cup {s[1]}
  /\ UNCHANGED <<git, rows, sessions, sandboxes, req, past, budget>>

Fail == budget' = [budget EXCEPT !.faults = @ + 1] /\ budget.faults < MaxFaults

\* The request ends here: its next call fails, its context is cancelled, or
\* the gateway dies.  (When the lost call did have its effect, the request
\* ends one step later.)  The reconciler ends, or warns and takes its next
\* branch.  History: "torn" is a DeleteRepo that leaves the row, "cut" any other.
Interrupt(p) ==
  LET r == req[p].r IN
  /\ ~At(p, "idle") /\ Fail
  /\ Return(p) \/ req' = [req EXCEPT ![p] = Idle]
  /\ past' = IF r = None THEN past
               ELSE Marked(r, IF At(p, "dropRow") THEN "torn" ELSE "cut")
  /\ UNCHANGED <<git, rows, sessions, cluster>>

\* A call whose error is ignored (or only logged) fails, and the handler goes
\* on: AddOrg, ProtectMain of an import, every call of the cascade, the lists
\* of DeleteRepo.
AfterIgnored(p) ==
  CASE At(p, "orgRow") -> Goto(p, "probe")
    [] At(p, "impProtect") -> Goto(p, "probe")
    [] At(p, "sandboxes") -> Goto(p, "session")
    [] At(p, "session") /\ req[p].op = "delRepo" -> Goto(p, "cascade")
    [] At(p, "session") /\ req[p].op = "delSession" /\ req[p].b # Main
         -> Goto(p, "gitBranch")
    [] At(p, "session") -> Return(p)
    [] At(p, "sessions") -> Goto(p, "cascade")
    [] At(p, "services") -> Goto(p, "gitRepo")

IgnoredError(p) ==
  LET r == req[p].r IN
  /\ req[p].pc \in {"orgRow", "impProtect", "sandboxes", "session", "sessions",
                    "services"}
  /\ Fail
  /\ AfterIgnored(p)
  /\ past' = IF r = None THEN past ELSE Marked(r, "skipped")
  /\ UNCHANGED <<git, rows, sessions, cluster>>

-----------------------------------------------------------------------------
Claim(p) ==
  \/ ClaimCheck(p) \/ ClaimOwned(p) \/ MakeCheck(p) \/ MakePost(p)
  \/ Protect(p) \/ AddRepo(p) \/ AddOrg(p) \/ OrgCheck(p) \/ OrgAdd(p)

Sessioning(p) ==
  \/ SessionProbe(p) \/ CreateSession(p) \/ FreeRow(p) \/ MayFork(p)
  \/ ForkParent(p) \/ Fork(p) \/ BranchVisible(p) \/ CreateBranch(p)

Import(p) ==
  \/ ImportCheck(p) \/ ImportPost(p) \/ ImportPush(p) \/ ImportDefault(p)
  \/ ImportProtect(p) \/ ImportCleanup(p)

Deletion(p) ==
  \/ MayDelete(p) \/ CascadeSandboxes(p) \/ CascadeSession(p)
  \/ DeleteGitBranch(p) \/ MayRemove(p) \/ ListSessions(p) \/ CascadeNext(p)
  \/ DeleteServices(p) \/ DeleteGitRepo(p) \/ RemoveRepo(p)

Reconcile(p) == ReconcileStart(p) \/ ReconcileList(p) \/ ReconcileNext(p)

Step(p) == Claim(p) \/ Sessioning(p) \/ Import(p) \/ Deletion(p) \/ Reconcile(p)

Next ==
  \/ \E p \in Requests : ReceiveCall(p)
  \/ \E p \in Callers : Step(p) \/ Interrupt(p) \/ IgnoredError(p)
  \/ \E t \in Tenants, s \in AgentSessions : SandboxAppears(t, s)
  \/ \E t \in Tenants, s \in BranchSessions : ServiceAppears(t, s)

Spec == Init /\ [][Next]_vars

\* A handler goes on with its call, and the reconciler is run again.
FairSpec == Spec /\ \A p \in Callers : WF_vars(Step(p))

-----------------------------------------------------------------------------
(* Properties.                                                             *)

\* A repository has one owner ("a tenant may NOT claim a repo it does not own",
\* service.go:383), whatever its requests of one tenant do and wherever claims,
\* imports and cascades are cut, except in three cases: requests of two tenants
\* (or a delete or an import and another request) overlapped on it, the RPC
\* EnsureRepo was called on it by a tenant that did not own it, or a DeleteRepo
\* was cut between Forgejo and the row.
OneOwner ==
  \A r \in Repos :
    past[r] \cap {"overlap", "foreign", "torn"} = {}
      => \A t, u \in OwnersOf(r) : t = u

\* A repository nobody owns can never be claimed (claimRepo refuses it, import
\* too).  With no request at work on it there is one only if a claim or import
\* was cut half-way, or a delete or import overlapped with another request.
NobodysRepo ==
  \A r \in exists :
    OwnersOf(r) = {} /\ ~Busy(r) => past[r] \cap {"cut", "overlap"} # {}

\* A row without its repository would make the old owner an owner of the
\* repository that the next tenant creates under the name.  DeleteRepo and the
\* clean-up of an import leave none, except in the cases of OneOwner.
RowsHaveRepos ==
  \A r \in Repos \ exists :
    OwnersOf(r) # {} /\ ~Busy(r)
      => past[r] \cap {"overlap", "foreign", "torn"} # {}

\* "main can only change by merging an MR" (forgejo.go:223): an owned
\* repository has a protected main, unless the call that protects it was cut or
\* its error ignored (an import logs it), or a delete or import overlapped.
MainProtected ==
  \A r \in exists \ protected :
    OwnersOf(r) # {} /\ ~Busy(r)
      => past[r] \cap {"cut", "skipped", "overlap"} # {}

\* DeleteRepo takes everything below the repository with it: a tenant that
\* does not own r has neither sessions nor sandboxes of r, at no moment, and the
\* services go with the last owner.  A delete that was cut does not break this,
\* because the row goes last and the delete can be repeated; an ignored error
\* does, and so does a sandbox created between the list of a session's sandboxes
\* and the deletion of the session.  A service deployed at any moment does not.
NothingLeft ==
  \A r \in Repos :
    past[r] \cap {"overlap", "skipped", "late"} = {} =>
      /\ \A t \in Tenants \ OwnersOf(r), b \in Branches :
           <<t, <<r, b>>>> \notin sessions \cup sandboxes
      /\ r \in services => OwnersOf(r) # {}

\* repo:branch <-> session, 1:1 (service.go:377): whatever was cut or lost, the
\* reconciliation gives every branch of an owned repository its session.
BranchesGetSessions ==
  <>[](\A x \in branches, t \in Tenants :
         <<t, x[1]>> \in owners => <<t, x>> \in sessions)
=============================================================================

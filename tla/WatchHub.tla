------------------------------- MODULE WatchHub -------------------------------
(***************************************************************************)
(* The push path of WatchWorkspace.  A hub keeps, while anybody is         *)
(* subscribed, one run: a goroutine per source (pods, Deployments, claims, *)
(* release ConfigMaps) that watches it and puts a signal into a channel    *)
(* for one, and a goroutine that forwards signals to the subscribers,      *)
(* each with a channel for one.  Signals carry nothing: a subscriber lists *)
(* everything again.  Watches end whenever the API server likes and are    *)
(* opened again; what changes in between is in no watch.  And a frame      *)
(* lists more than the hub watches: a service's ports are in its Service,  *)
(* and how its container fares is in its Pod, and neither has a source.    *)
(***************************************************************************)
EXTENDS Naturals

CONSTANTS
  Clients,
  Sources,     \* what the hub watches
  Unwatched,   \* what a frame lists beside it: Services and the Pods of services
  Contents,    \* what there may be of either
  Empty,       \* nothing at all
  Runs,        \* bound: runs at a time; an old one drains beside a new one
  MaxChanges   \* bound: changes in the cluster

ASSUME ContentsAssumption == Empty \in Contents /\ MaxChanges \in Nat
ASSUME UnwatchedAssumption == Sources \cap Unwatched = {}

\* What a frame is made of.
Listed == Sources \cup Unwatched

VARIABLES
  cluster,  \* per kind of object a frame lists: what there is
  changes,  \* how often that has changed
  subs,     \* hub.subs
  wake,     \* per client: its channel holds a signal
  ctx,      \* per run: "on" (hub.cancel is its), "cancelled", "off" (it ended)
  watch,    \* per run and source: the watch is open
  event,    \* per run and source: the open watch has an event to deliver
  out,      \* per run: the channel of Changes holds a signal
  got,      \* per run: the forwarder has taken one and waits for the lock
  todo,     \* per client: what it has still to list
  seen,     \* per client and kind: what its last list returned
  missed    \* history: <<client, source>>: it became empty, unwatched, behind its list

world == <<cluster, changes, missed>>
hub   == <<subs, wake, ctx>>
run   == <<watch, event, out, got>>
client == <<todo, seen>>
vars  == <<world, hub, run, client>>

\* The state has its type, no closed channel holds a signal, and only an open
\* watch has an event.
TypeOK ==
  /\ cluster \in [Listed -> Contents] /\ changes \in 0 .. MaxChanges
  /\ missed \subseteq Clients \X Sources
  /\ subs \subseteq Clients /\ wake \in [Clients -> BOOLEAN]
  /\ \A c \in Clients : wake[c] => c \in subs
  /\ ctx \in [Runs -> {"on", "cancelled", "off"}]
  /\ watch \in [Runs -> SUBSET Sources] /\ event \in [Runs -> SUBSET Sources]
  /\ \A r \in Runs : event[r] \subseteq watch[r]
  /\ out \in [Runs -> BOOLEAN] /\ got \in [Runs -> BOOLEAN]
  /\ todo \in [Clients -> SUBSET Listed]
  /\ seen \in [Clients -> [Listed -> Contents]]

NothingSeen == [s \in Listed |-> Empty]

Init ==
  /\ cluster \in [Listed -> Contents] /\ changes = 0 /\ missed = {}
  /\ subs = {} /\ wake = [c \in Clients |-> FALSE]
  /\ ctx = [r \in Runs |-> "off"]
  /\ watch = [r \in Runs |-> {}] /\ event = [r \in Runs |-> {}]
  /\ out = [r \in Runs |-> FALSE] /\ got = [r \in Runs |-> FALSE]
  /\ todo = [c \in Clients |-> {}]
  /\ seen = [c \in Clients |-> NothingSeen]

Live == {r \in Runs : ctx[r] = "on"}

-----------------------------------------------------------------------------
(* The cluster.                                                            *)

\* Every open watch of it gets an event; what is unwatched just changes.
\* History: a source that becomes empty while the live run does not watch it
\* leaves no trace for the next watch, and who has listed it does not hear of it.
Change(s) ==
  /\ changes < MaxChanges /\ changes' = changes + 1
  /\ \E x \in Contents \ {cluster[s]} :
       /\ cluster' = [cluster EXCEPT ![s] = x]
       /\ missed' = IF s \in Sources /\ x = Empty /\ \A r \in Live : s \notin watch[r]
                      THEN missed \cup {<<c, s>> : c \in {d \in subs : s \notin todo[d]}}
                      ELSE missed \ (Clients \X {s})
  /\ event' = [r \in Runs |-> IF s \in watch[r] THEN event[r] \cup {s} ELSE event[r]]
  /\ UNCHANGED <<hub, watch, out, got, client>>

-----------------------------------------------------------------------------
(* subscribe and unsub, each with the lock.                                *)

\* A client that was admitted lists everything after it has subscribed.
Subscribe(c) ==
  /\ c \notin subs
  /\ subs' = subs \cup {c}
  /\ wake' = [wake EXCEPT ![c] = FALSE]
  /\ todo' = [todo EXCEPT ![c] = Listed]
  /\ IF Live = {}
       THEN \E r \in Runs : ctx[r] = "off" /\ ctx' = [ctx EXCEPT ![r] = "on"]
       ELSE UNCHANGED ctx
  /\ UNCHANGED <<world, run, seen>>

\* It is deleted from the map and its channel is closed.  The stream is over: a
\* client that comes back is a new one, and has seen nothing.
Leave(c) ==
  /\ c \in subs
  /\ subs' = subs \ {c}
  /\ wake' = [wake EXCEPT ![c] = FALSE]
  /\ todo' = [todo EXCEPT ![c] = {}]
  /\ seen' = [seen EXCEPT ![c] = NothingSeen]
  /\ missed' = missed \ ({c} \X Sources)
  /\ UNCHANGED <<cluster, changes, run>>

\* Mutant: the last subscriber does not stop the watches.
UnsubKeeps(c) == Leave(c) /\ UNCHANGED ctx

\* The client goes, or one of its lists fails.
Unsub(c) ==
  /\ Leave(c)
  /\ ctx' = IF subs' = {}
              THEN [r \in Runs |-> IF ctx[r] = "on" THEN "cancelled" ELSE ctx[r]]
              ELSE ctx

-----------------------------------------------------------------------------
(* A run: Changes, drain, and the hub's forwarder.                         *)

\* The watch has no resource version: it begins with an event for every object
\* there is.  An error is tried again.
Open(r, s) ==
  /\ ctx[r] = "on" /\ s \notin watch[r]
  /\ watch' = [watch EXCEPT ![r] = @ \cup {s}]
  /\ event' = [event EXCEPT ![r] = IF cluster[s] = Empty THEN @ ELSE @ \cup {s}]
  /\ UNCHANGED <<world, hub, out, got, client>>

Deliver(r, s) ==
  /\ s \in event[r]
  /\ event' = [event EXCEPT ![r] = @ \ {s}]
  /\ out' = [out EXCEPT ![r] = TRUE]
  /\ UNCHANGED <<world, hub, watch, got, client>>

\* The watch ends and its events have been delivered; or the context is over,
\* and they need not be.
Close(r, s) ==
  /\ s \in watch[r]
  /\ s \in event[r] => ctx[r] = "cancelled"
  /\ watch' = [watch EXCEPT ![r] = @ \ {s}]
  /\ event' = [event EXCEPT ![r] = @ \ {s}]
  /\ UNCHANGED <<world, hub, out, got, client>>

Take(r) ==
  /\ out[r] /\ ~got[r]
  /\ out' = [out EXCEPT ![r] = FALSE]
  /\ got' = [got EXCEPT ![r] = TRUE]
  /\ UNCHANGED <<world, hub, watch, event, client>>

\* Mutant: the subscribers' channels hold nothing, so a signal is lost on a
\* client that is busy.
ForwardUnbuffered(r) ==
  /\ got[r] /\ got' = [got EXCEPT ![r] = FALSE]
  /\ wake' = [c \in Clients |-> wake[c] \/ (c \in subs /\ todo[c] = {})]
  /\ UNCHANGED <<world, subs, ctx, watch, event, out, client>>

\* Mutant: the forwarder does not read the subscribers under the lock, and
\* signals also one whose channel has been closed meanwhile.
ForwardStale(r) ==
  /\ got[r] /\ got' = [got EXCEPT ![r] = FALSE]
  /\ wake' = [c \in Clients |-> TRUE]
  /\ UNCHANGED <<world, subs, ctx, watch, event, out, client>>

Forward(r) ==
  /\ got[r] /\ got' = [got EXCEPT ![r] = FALSE]
  /\ wake' = [c \in Clients |-> wake[c] \/ c \in subs]
  /\ UNCHANGED <<world, subs, ctx, watch, event, out, client>>

\* The channel of Changes is closed and drained.
RunEnds(r) ==
  /\ ctx[r] = "cancelled" /\ watch[r] = {} /\ ~out[r] /\ ~got[r]
  /\ ctx' = [ctx EXCEPT ![r] = "off"]
  /\ UNCHANGED <<world, subs, wake, run, client>>

-----------------------------------------------------------------------------
(* WatchWorkspace: one list after the other, then wait.                    *)

\* What a list returns.  An error ends the stream, but where the services' ports
\* and Pods are read it counts as nothing there.
Listing(s) == {cluster[s]} \cup (IF s \in Unwatched THEN {Empty} ELSE {})

List(c) ==
  /\ \E s \in todo[c] : \E x \in Listing(s) :
       /\ seen' = [seen EXCEPT ![c][s] = x]
       /\ todo' = [todo EXCEPT ![c] = @ \ {s}]
       /\ missed' = missed \ {<<c, s>>}
  /\ UNCHANGED <<cluster, changes, hub, run>>

Woken(c) ==
  /\ c \in subs /\ todo[c] = {} /\ wake[c]
  /\ wake' = [wake EXCEPT ![c] = FALSE]
  /\ todo' = [todo EXCEPT ![c] = Listed]
  /\ UNCHANGED <<world, subs, ctx, run, seen>>

-----------------------------------------------------------------------------
Next ==
  \/ \E s \in Listed : Change(s)
  \/ \E c \in Clients : Subscribe(c) \/ Unsub(c) \/ List(c) \/ Woken(c)
  \/ \E r \in Runs, s \in Sources : Open(r, s) \/ Deliver(r, s) \/ Close(r, s)
  \/ \E r \in Runs : Take(r) \/ Forward(r) \/ RunEnds(r)

Spec == Init /\ [][Next]_vars

\* Goroutines go on, a watch can be opened in the end, a cancelled one closes.
\* Nothing makes the cluster change, or clients come and go.
FairSpec ==
  /\ Spec
  /\ \A c \in Clients : WF_vars(List(c)) /\ WF_vars(Woken(c))
  /\ \A r \in Runs :
       /\ WF_vars(Take(r)) /\ WF_vars(Forward(r)) /\ WF_vars(RunEnds(r))
       /\ \A s \in Sources :
            /\ WF_vars(Open(r, s)) /\ WF_vars(Deliver(r, s))
            /\ WF_vars(ctx[r] = "cancelled" /\ Close(r, s))

-----------------------------------------------------------------------------
(* Properties.                                                             *)

\* A signal for s is under way in run r, or its next watch of s begins with one.
OnItsWay(r, s) ==
  got[r] \/ out[r] \/ s \in event[r] \/ (s \notin watch[r] /\ cluster[s] # Empty)

\* c has listed s, and s is not what it was (except as explained below).
Outdated(c, s) ==
  s \notin todo[c] /\ seen[c][s] # cluster[s] /\ <<c, s>> \notin missed

\* "An idle deployment runs no watches" (workspacehub.go:13); otherwise there is
\* one run that is not about to end, also for a subscriber that is the first to
\* come while the run of the last to leave still drains, and no subscriber is
\* behind in what the hub watches without a signal in its channel or on its way
\* to it.  It says nothing of what a frame lists unwatched.
EverybodyServed ==
  /\ subs = {} => Live = {}
  /\ subs # {} => \E r \in Runs :
       /\ Live = {r}
       /\ \A c \in subs, s \in Sources :
            Outdated(c, s) => wake[c] \/ OnItsWay(r, s)

\* "A missed change is still observed" (watch.go:71): when the cluster is quiet
\* every subscriber has seen the state of all that is watched, whatever happened
\* between its lists, between two watches or before the first.  Exception: what
\* was last in its source and went, after it was listed, while nobody watched.
SubscribersCatchUp ==
  \A c \in Clients :
    []<>(c \in subs => \A s \in Sources :
           seen[c][s] = cluster[s] \/ <<c, s>> \in missed)

\* "A new frame whenever any underlying k8s object changes" (service.go:3270):
\* the same of the rest of a frame, with no exception.  The code breaks it: when
\* a service's Pod no longer gets its image, or a Service has other ports,
\* nothing signals it, and a subscriber may show the old state for ever.  Nor is
\* one that could not be read read again.
FramesFollow ==
  \A c \in Clients :
    []<>(c \in subs => \A s \in Unwatched : seen[c][s] = cluster[s])
=============================================================================

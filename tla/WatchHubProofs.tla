---------------------------- MODULE WatchHubProofs ----------------------------
(* Proofs about WatchHub, for any number of clients, sources and runs.     *)
EXTENDS WatchHub, TLAPS

\* The state stays well typed.
THEOREM TypeCorrect == Spec => []TypeOK
<1>1. Init => TypeOK
  <2>. SUFFICES ASSUME Init PROVE TypeOK
    OBVIOUS
  <2>1. cluster \in [Listed -> Contents] /\ changes \in 0 .. MaxChanges
    BY ContentsAssumption DEF Init
  <2>2. seen \in [Clients -> [Listed -> Contents]]
    BY ContentsAssumption DEF Init, NothingSeen
  <2>. QED
    BY <2>1, <2>2 DEF Init, TypeOK
<1>2. TypeOK /\ [Next]_vars => TypeOK'
  <2>. SUFFICES ASSUME TypeOK, [Next]_vars PROVE TypeOK'
    OBVIOUS
  <2>1. ASSUME NEW s \in Listed, Change(s) PROVE TypeOK'
    BY <2>1, ContentsAssumption DEF TypeOK, Change, hub, client
  <2>2. ASSUME NEW c \in Clients, Subscribe(c) PROVE TypeOK'
    BY <2>2 DEF TypeOK, Subscribe, world, run
  <2>3. ASSUME NEW c \in Clients, Unsub(c) PROVE TypeOK'
    <3>1. seen' \in [Clients -> [Listed -> Contents]]
      BY <2>3, ContentsAssumption DEF TypeOK, Unsub, Leave, NothingSeen
    <3>. QED
      BY <2>3, <3>1 DEF TypeOK, Unsub, Leave, run
  <2>4. ASSUME NEW c \in Clients, List(c) PROVE TypeOK'
    <3>. PICK s \in todo[c] : \E x \in Listing(s) :
           /\ seen' = [seen EXCEPT ![c][s] = x]
           /\ todo' = [todo EXCEPT ![c] = @ \ {s}]
           /\ missed' = missed \ {<<c, s>>}
      BY <2>4 DEF List
    <3>. PICK x \in Listing(s) :
           /\ seen' = [seen EXCEPT ![c][s] = x]
           /\ todo' = [todo EXCEPT ![c] = @ \ {s}]
           /\ missed' = missed \ {<<c, s>>}
      OBVIOUS
    <3>1. s \in Listed /\ x \in Contents
      BY ContentsAssumption DEF TypeOK, Listing
    <3>. QED
      BY <2>4, <3>1 DEF TypeOK, List, hub, run
  <2>5. ASSUME NEW c \in Clients, Woken(c) PROVE TypeOK'
    BY <2>5 DEF TypeOK, Woken, world, run
  <2>6. ASSUME NEW r \in Runs, NEW s \in Sources, Open(r, s) PROVE TypeOK'
    BY <2>6 DEF TypeOK, Open, world, hub, client
  <2>7. ASSUME NEW r \in Runs, NEW s \in Sources, Deliver(r, s) PROVE TypeOK'
    BY <2>7 DEF TypeOK, Deliver, world, hub, client
  <2>8. ASSUME NEW r \in Runs, NEW s \in Sources, Close(r, s) PROVE TypeOK'
    BY <2>8 DEF TypeOK, Close, world, hub, client
  <2>9. ASSUME NEW r \in Runs, Take(r) \/ Forward(r) \/ RunEnds(r) PROVE TypeOK'
    BY <2>9 DEF TypeOK, Take, Forward, RunEnds, world, hub, run, client
  <2>10. CASE UNCHANGED vars
    BY <2>10 DEF TypeOK, vars, world, hub, run, client
  <2>. QED
    BY <2>1, <2>2, <2>3, <2>4, <2>5, <2>6, <2>7, <2>8, <2>9, <2>10 DEF Next
<1>. QED
  BY <1>1, <1>2, PTL DEF Spec

\* The run that serves the subscribers.
Serves(r) ==
  /\ Live = {r}
  /\ \A c \in subs, s \in Sources : Outdated(c, s) => wake[c] \/ OnItsWay(r, s)

\* A step that leaves the subscribers and their contexts alone has to keep the
\* signals of the live run on their way.
LEMMA StillServed ==
  ASSUME EverybodyServed, UNCHANGED <<subs, ctx>>,
         \A r \in Runs : Serves(r) => Serves(r)'
  PROVE  EverybodyServed'
<1>1. Live' = Live
  BY DEF Live
<1>. QED
  BY <1>1 DEF EverybodyServed, Serves

LEMMA ServedChange ==
  ASSUME TypeOK, EverybodyServed, NEW s \in Listed, Change(s)
  PROVE  EverybodyServed'
<1>. SUFFICES ASSUME NEW r \in Runs, Serves(r) PROVE Serves(r)'
  BY StillServed DEF Change, hub
<1>1. Live' = {r}
  BY DEF Serves, Live, Change, hub
<1>2. ASSUME NEW c \in subs, NEW z \in Sources, Outdated(c, z)'
      PROVE  wake[c] \/ OnItsWay(r, z)'
  <2>. c \in Clients
    BY DEF TypeOK
  <2>0. UNCHANGED <<todo, seen, wake, watch, out, got>>
    BY DEF Change, hub, client
  <2>1. CASE z # s
    <3>1. cluster'[z] = cluster[z]
      BY <2>1 DEF Change, TypeOK
    <3>2. <<c, z>> \in missed => <<c, z>> \in missed'
      BY <2>1 DEF Change
    <3>3. Outdated(c, z)
      BY <1>2, <2>0, <3>1, <3>2 DEF Outdated
    <3>4. z \in event[r] => z \in event'[r]
      BY DEF Change, TypeOK
    <3>. QED
      BY <2>0, <3>1, <3>3, <3>4 DEF Serves, OnItsWay
  <2>2. CASE z = s /\ s \in watch[r]
    BY <2>2 DEF Change, OnItsWay, TypeOK
  <2>3. CASE z = s /\ s \notin watch[r]
    <3>1. \A q \in Live : s \notin watch[q]
      BY <2>3 DEF Serves
    <3>2. s \notin todo[c] /\ <<c, s>> \notin missed'
      BY <1>2, <2>0, <2>3 DEF Outdated
    <3>3. cluster'[s] # Empty
      BY <2>3, <3>1, <3>2 DEF Change, TypeOK
    <3>. QED
      BY <2>0, <2>3, <3>3 DEF OnItsWay
  <2>. QED
    BY <2>1, <2>2, <2>3
<1>. QED
  BY <1>1, <1>2 DEF Serves, Change, hub

LEMMA ServedSubscribe ==
  ASSUME TypeOK, EverybodyServed, NEW d \in Clients, Subscribe(d)
  PROVE  EverybodyServed'
<1>. USE DEF Subscribe, world, run
<1>1. \A s \in Sources : ~Outdated(d, s)'
  BY DEF Outdated, TypeOK, Listed
<1>2. subs' # {}
  OBVIOUS
<1>3. CASE Live = {}
  <2>1. subs = {}
    BY <1>3 DEF EverybodyServed
  <2>. PICK r \in Runs : ctx[r] = "off" /\ ctx' = [ctx EXCEPT ![r] = "on"]
    BY <1>3
  <2>2. Live' = {r}
    BY <1>3 DEF Live, TypeOK
  <2>. QED
    BY <1>1, <1>2, <2>1, <2>2 DEF EverybodyServed
<1>4. CASE Live # {}
  <2>. PICK r \in Runs : Serves(r)
    BY <1>4 DEF EverybodyServed, Serves
  <2>1. Live' = {r}
    BY <1>4 DEF Serves, Live
  <2>2. ASSUME NEW c \in subs, NEW s \in Sources, Outdated(c, s)'
        PROVE  wake'[c] \/ OnItsWay(r, s)'
    BY <2>2 DEF Serves, Outdated, OnItsWay, TypeOK
  <2>. QED
    BY <1>1, <1>2, <2>1, <2>2 DEF EverybodyServed
<1>. QED
  BY <1>3, <1>4

LEMMA ServedUnsub ==
  ASSUME TypeOK, EverybodyServed, NEW d \in Clients, Unsub(d)
  PROVE  EverybodyServed'
<1>. USE DEF Unsub, Leave, run
<1>1. CASE subs' = {}
  <2>1. \A r \in Runs : ctx'[r] # "on"
    BY <1>1 DEF TypeOK
  <2>. QED
    BY <1>1, <2>1 DEF EverybodyServed, Live
<1>2. CASE subs' # {}
  <2>. PICK r \in Runs : Serves(r)
    BY <1>2 DEF EverybodyServed, Serves
  <2>1. Live' = {r}
    BY <1>2 DEF Serves, Live
  <2>2. ASSUME NEW c \in subs', NEW s \in Sources, Outdated(c, s)'
        PROVE  wake'[c] \/ OnItsWay(r, s)'
    <3>. c \in subs /\ c # d /\ c \in Clients
      BY DEF TypeOK
    <3>1. wake'[c] = wake[c] /\ todo'[c] = todo[c] /\ seen'[c] = seen[c]
      BY DEF TypeOK
    <3>2. Outdated(c, s)
      BY <2>2, <3>1 DEF Outdated
    <3>. QED
      BY <3>1, <3>2 DEF Serves, OnItsWay
  <2>. QED
    BY <1>2, <2>1, <2>2 DEF EverybodyServed
<1>. QED
  BY <1>1, <1>2

\* A run's own steps pass the signal on: from the watch to the channel of
\* Changes, to the forwarder, to every subscriber.
LEMMA ServedRun ==
  ASSUME TypeOK, EverybodyServed, NEW q \in Runs,
         \/ \E s \in Sources : Open(q, s) \/ Deliver(q, s) \/ Close(q, s)
         \/ Take(q) \/ Forward(q)
  PROVE  EverybodyServed'
<1>0. UNCHANGED <<subs, ctx, cluster, missed, todo, seen>>
  BY DEF Open, Deliver, Close, Take, Forward, world, hub, client
<1>. SUFFICES ASSUME NEW r \in Runs, Serves(r) PROVE Serves(r)'
  BY <1>0, StillServed
<1>1. Live' = {r} /\ ctx[r] = "on"
  BY <1>0 DEF Serves, Live
<1>2. ASSUME NEW c \in subs, NEW s \in Sources, Outdated(c, s)
      PROVE  wake'[c] \/ OnItsWay(r, s)'
  <2>0. wake[c] \/ OnItsWay(r, s)
    BY <1>2 DEF Serves
  <2>. c \in Clients
    BY DEF TypeOK
  <2>1. CASE \E z \in Sources : Open(q, z)
    BY <2>0, <2>1, <1>0 DEF Open, OnItsWay, TypeOK, hub
  <2>2. CASE \E z \in Sources : Deliver(q, z)
    BY <2>0, <2>2, <1>0 DEF Deliver, OnItsWay, TypeOK, hub
  <2>3. CASE \E z \in Sources : Close(q, z)
    <3>. PICK z \in Sources : Close(q, z)
      BY <2>3
    <3>1. CASE wake[c] \/ got[r] \/ out[r] \/ s \notin watch[r]
      BY <2>0, <3>1, <1>0 DEF Close, OnItsWay, TypeOK, hub
    <3>2. CASE s \in event[r]
      BY <3>2, <1>1 DEF Close, OnItsWay, TypeOK
    <3>. QED
      BY <2>0, <3>1, <3>2 DEF OnItsWay
  <2>4. CASE Take(q)
    BY <2>0, <2>4, <1>0 DEF Take, OnItsWay, TypeOK, hub
  <2>5. CASE Forward(q)
    BY <2>0, <2>5, <1>0 DEF Forward, OnItsWay, TypeOK
  <2>. QED
    BY <2>1, <2>2, <2>3, <2>4, <2>5
<1>. QED
  BY <1>0, <1>1, <1>2 DEF Serves, Outdated

LEMMA ServedClient ==
  ASSUME TypeOK, EverybodyServed, NEW d \in Clients, List(d) \/ Woken(d)
  PROVE  EverybodyServed'
<1>0. UNCHANGED <<subs, ctx, cluster, watch, event, out, got>>
  BY DEF List, Woken, world, hub, run
<1>. SUFFICES ASSUME NEW r \in Runs, Serves(r) PROVE Serves(r)'
  BY <1>0, StillServed
<1>1. Live' = {r}
  BY <1>0 DEF Serves, Live
<1>2. ASSUME NEW c \in subs, NEW s \in Sources, Outdated(c, s)'
      PROVE  wake'[c] \/ OnItsWay(r, s)'
  <2>. c \in Clients
    BY DEF TypeOK
  <2>1. CASE List(d)
    <3>. PICK z \in todo[d] : \E x \in Listing(z) :
           /\ seen' = [seen EXCEPT ![d][z] = x]
           /\ todo' = [todo EXCEPT ![d] = @ \ {z}]
           /\ missed' = missed \ {<<d, z>>}
      BY <2>1 DEF List
    <3>. PICK x \in Listing(z) :
           /\ seen' = [seen EXCEPT ![d][z] = x]
           /\ todo' = [todo EXCEPT ![d] = @ \ {z}]
           /\ missed' = missed \ {<<d, z>>}
      OBVIOUS
    <3>1. z \in Listed
      BY DEF TypeOK
    <3>2. ~(c = d /\ s = z)
      <4>1. s \in Sources => Listing(s) = {cluster[s]}
        BY UnwatchedAssumption DEF Listing
      <4> QED
        BY <1>0, <1>2, <3>1, <4>1 DEF Outdated, TypeOK
    <3>3. Outdated(c, s)
      BY <1>0, <1>2, <3>1, <3>2 DEF Outdated, TypeOK
    <3>. QED
      BY <1>0, <2>1, <3>3 DEF Serves, OnItsWay, List, hub
  <2>2. CASE Woken(d)
    <3>1. c # d
      BY <1>2, <2>2 DEF Woken, Outdated, TypeOK, Listed
    <3>. QED
      BY <1>0, <1>2, <2>2, <3>1 DEF Woken, Outdated, OnItsWay, Serves, TypeOK, world
  <2>. QED
    BY <2>1, <2>2
<1>. QED
  BY <1>0, <1>1, <1>2 DEF Serves

\* An idle hub has no live run, any other exactly one, however many of them
\* still drain, and it carries a signal for whoever is behind in what is watched.
\* What a frame lists unwatched is in the steps, and in no conclusion.
\* (Inductive as it stands, given the types.)
THEOREM ServedAlways == Spec => []EverybodyServed
<1>1. Init => EverybodyServed
  BY DEF Init, EverybodyServed, Live
<1>2. TypeOK /\ EverybodyServed /\ [Next]_vars => EverybodyServed'
  <2>. SUFFICES ASSUME TypeOK, EverybodyServed, [Next]_vars PROVE EverybodyServed'
    OBVIOUS
  <2>1. ASSUME NEW r \in Runs, RunEnds(r) PROVE EverybodyServed'
    <3>1. Live' = Live
      BY <2>1 DEF RunEnds, Live, TypeOK
    <3>2. UNCHANGED <<world, subs, wake, run, client>>
      BY <2>1 DEF RunEnds
    <3>. QED
      BY <3>1, <3>2
      DEF EverybodyServed, Outdated, OnItsWay, world, run, client
  <2>2. CASE UNCHANGED vars
    BY <2>2 DEF vars, world, hub, run, client, EverybodyServed, Live, Outdated, OnItsWay
  <2>. QED
    BY <2>1, <2>2, ServedChange, ServedSubscribe, ServedUnsub, ServedRun, ServedClient
    DEF Next
<1>. QED
  BY <1>1, <1>2, TypeCorrect, PTL DEF Spec
=============================================================================

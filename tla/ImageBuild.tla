------------------------------ MODULE ImageBuild ------------------------------
(***************************************************************************)
(* One background image build: the RPC that starts it, the goroutine that  *)
(* runs buildctl, and the clients that poll and cancel it by its id.  They *)
(* share the build's entry in a table of the process.  The table's lock    *)
(* (buildsMu) is held for every write, but GetBuildStatus lets go of it    *)
(* before it reads the entry.  Builds do not touch each other's entries.   *)
(***************************************************************************)
EXTENDS Naturals

CONSTANTS
  Clients,    \* each polls until it is told of the end
  None,
  MaxChunks   \* bound: pieces of output that buildctl writes

Fields   == {"state", "ref", "log", "offset"}  \* what a poll reads, in any order
Terminal == {"done", "failed"}
Entries  == [state : {"running"} \cup Terminal, ref : BOOLEAN, log : Nat,
             cancel : BOOLEAN]

ASSUME ChunksAssumption == MaxChunks \in Nat
ASSUME NoneAssumption   == None \notin Entries \cup {"finish", "cancel"}

VARIABLES
  entry,     \* the entry, or None; log counts the pieces appended to it
  mu,        \* who holds the lock in the middle of its writes
  start,     \* BuildSandboxImage: its next step
  proc,      \* buildctl
  stopped,   \* the build's context is over (cancelled, or its timeout)
  pipe,      \* output not yet appended
  written,   \* output in all
  poll,      \* per client: what its poll has still to read, and has read
  view,      \* per client: what it was told, and how much output it has
  canceled,  \* history: a CancelBuild was acknowledged
  raced      \* history: clients with a write between two reads of a poll

build  == <<entry, mu, start, proc, stopped, pipe, written, canceled>>
client == <<poll, view>>
vars   == <<build, client, raced>>

NoPoll == [todo |-> {}, state |-> "running", ref |-> FALSE, log |-> 0, offset |-> 0]

TypeOK ==
  /\ entry \in Entries \cup {None}
  /\ mu \in {None, "finish", "cancel"}
  /\ start \in {"enter", "store", "go", "answered", "over"}
  /\ proc \in {"none", "running", "ok", "failed", "gone"}
  /\ stopped \in BOOLEAN /\ canceled \in BOOLEAN
  /\ pipe \in Nat /\ written \in 0 .. MaxChunks
  /\ poll \in [Clients -> [todo : SUBSET Fields, state : {"running"} \cup Terminal,
                           ref : BOOLEAN, log : Nat, offset : Nat]]
  /\ view \in [Clients -> [state : {"running", "lost"} \cup Terminal,
                           ref : BOOLEAN, got : Nat, offset : Nat]]
  /\ raced \subseteq Clients

Init ==
  /\ entry = None /\ mu = None /\ start = "enter" /\ proc = "none"
  /\ stopped = FALSE /\ pipe = 0 /\ written = 0 /\ canceled = FALSE
  /\ poll = [c \in Clients |-> NoPoll]
  /\ view = [c \in Clients |-> [state |-> "running", ref |-> FALSE, got |-> 0,
                                offset |-> 0]]
  /\ raced = {}

\* A write to the entry.  History: it may fall between the reads of a poll.
Write(e) ==
  /\ entry' = e
  /\ raced' = raced \cup {c \in Clients : poll[c].todo # {}}

-----------------------------------------------------------------------------
(* BuildSandboxImage.  A request that is refused makes no entry.           *)

Enter ==
  /\ start = "enter" /\ start' = "store"
  /\ Write([state |-> "running", ref |-> FALSE, log |-> 0, cancel |-> FALSE])
  /\ UNCHANGED <<mu, proc, stopped, pipe, written, client, canceled>>

\* A second turn with the lock: ListBuilds has shown the id by now.
StoreCancel ==
  /\ start = "store" /\ start' = "go" /\ mu = None
  /\ Write([entry EXCEPT !.cancel = TRUE])
  /\ UNCHANGED <<mu, proc, stopped, pipe, written, client, canceled>>

\* The goroutine.  A process is not started in a context that is over.
Go ==
  /\ start = "go" /\ start' = "answered"
  /\ proc' = IF stopped THEN "failed" ELSE "running"
  /\ UNCHANGED <<entry, mu, stopped, pipe, written, client, canceled, raced>>

-----------------------------------------------------------------------------
(* buildctl and BuildStream.                                               *)

Output ==
  /\ proc = "running" /\ written < MaxChunks
  /\ written' = written + 1 /\ pipe' = pipe + 1
  /\ UNCHANGED <<entry, mu, start, proc, stopped, client, canceled, raced>>

\* It may end well even when it is about to be killed.
Exit ==
  /\ proc = "running"
  /\ proc' \in {"ok", "failed"}
  /\ UNCHANGED <<entry, mu, start, stopped, pipe, written, client, canceled, raced>>

Kill ==
  /\ proc = "running" /\ stopped
  /\ proc' = "failed"
  /\ UNCHANGED <<entry, mu, start, stopped, pipe, written, client, canceled, raced>>

\* Mutant: a build has no deadline.
NoTimeout == FALSE /\ UNCHANGED vars

Timeout ==
  /\ proc = "running" /\ ~stopped /\ stopped' = TRUE
  /\ UNCHANGED <<entry, mu, start, proc, pipe, written, client, canceled, raced>>

\* The emit callback.
Emit ==
  /\ pipe > 0 /\ pipe' = pipe - 1 /\ mu = None
  /\ Write([entry EXCEPT !.log = @ + 1])
  /\ UNCHANGED <<mu, start, proc, stopped, written, client, canceled>>

\* Mutant: BuildStream does not wait until its output has been read.
FinishEarly ==
  /\ start = "answered" /\ proc \in {"ok", "failed"} /\ mu = None
  /\ mu' = "finish"
  /\ Write([entry EXCEPT !.state = IF proc = "ok" THEN "done" ELSE "failed"])
  /\ UNCHANGED <<start, proc, stopped, pipe, written, client, canceled>>

\* With the lock: first the state, then the reference or the error's text.
Finish ==
  /\ start = "answered" /\ proc \in {"ok", "failed"} /\ pipe = 0 /\ mu = None
  /\ mu' = "finish"
  /\ Write([entry EXCEPT !.state = IF proc = "ok" THEN "done" ELSE "failed"])
  /\ UNCHANGED <<start, proc, stopped, pipe, written, client, canceled>>

Finished ==
  /\ mu = "finish" /\ mu' = None
  /\ Write(IF proc = "ok" THEN [entry EXCEPT !.ref = TRUE]
                          ELSE [entry EXCEPT !.log = @ + 1])
  /\ start' = "over" /\ proc' = "gone"
  /\ UNCHANGED <<stopped, pipe, written, client, canceled>>

-----------------------------------------------------------------------------
(* CancelBuild.  Without a stored cancel function it answers "no".         *)

\* Mutant: the entry is marked, but the process goes on.
CancelMarks ==
  /\ entry # None /\ mu = None /\ entry.state = "running" /\ entry.cancel
  /\ canceled' = TRUE /\ mu' = "cancel"
  /\ Write([entry EXCEPT !.state = "failed", !.cancel = FALSE])
  /\ UNCHANGED <<start, proc, stopped, pipe, written, client>>

\* Mutant: a state of its own, which no client takes for an end.
CancelNames ==
  /\ entry # None /\ mu = None /\ entry.state = "running" /\ entry.cancel
  /\ stopped' = TRUE /\ canceled' = TRUE /\ mu' = "cancel"
  /\ Write([entry EXCEPT !.state = "canceled", !.cancel = FALSE])
  /\ UNCHANGED <<start, proc, pipe, written, client>>

Cancel ==
  /\ entry # None /\ mu = None /\ entry.state = "running" /\ entry.cancel
  /\ stopped' = TRUE /\ canceled' = TRUE /\ mu' = "cancel"
  /\ Write([entry EXCEPT !.state = "failed", !.cancel = FALSE])
  /\ UNCHANGED <<start, proc, pipe, written, client>>

Canceled ==
  /\ mu = "cancel" /\ mu' = None
  /\ Write([entry EXCEPT !.log = @ + 1])
  /\ UNCHANGED <<start, proc, stopped, pipe, written, client, canceled>>

-----------------------------------------------------------------------------
(* GetBuildStatus.  The entry is looked up with the lock and read without  *)
(* it, in an order that is up to the compiler.                             *)

Poll(c) ==
  /\ view[c].state = "running" /\ poll[c].todo = {}
  /\ entry # None /\ mu = None
  /\ poll' = [poll EXCEPT ![c] = [NoPoll EXCEPT !.todo = Fields]]
  /\ UNCHANGED <<build, view, raced>>

Fetch(p, f) ==
  LET rest == p.todo \ {f} IN
  CASE f = "state"  -> [p EXCEPT !.todo = rest, !.state = entry.state]
    [] f = "ref"    -> [p EXCEPT !.todo = rest, !.ref = entry.ref]
    [] f = "log"    -> [p EXCEPT !.todo = rest, !.log = entry.log]
    [] f = "offset" -> [p EXCEPT !.todo = rest, !.offset = entry.log]

\* What is read; the poll returns with its last read.  Its answer has the
\* output after the offset that the client gave, which is that of its last
\* answer, and the log's length as the next one.
Read(c, f) ==
  LET now == Fetch(poll[c], f) IN
  /\ f \in poll[c].todo
  /\ IF now.todo # {}
       THEN poll' = [poll EXCEPT ![c] = now] /\ UNCHANGED view
       ELSE /\ poll' = [poll EXCEPT ![c] = NoPoll]
            /\ view' = [view EXCEPT ![c] =
                 [state |-> now.state, ref |-> now.ref, offset |-> now.offset,
                  got |-> @.got + (now.log - @.offset)]]
  /\ UNCHANGED <<build, raced>>

\* The gateway is started anew: the table is empty, polls are refused.
Restart ==
  /\ start # "enter" /\ entry # None
  /\ entry' = None /\ mu' = None /\ start' = "over" /\ proc' = "gone"
  /\ pipe' = 0
  /\ poll' = [c \in Clients |-> NoPoll]
  /\ view' = [c \in Clients |-> IF view[c].state = "running"
                                  THEN [view[c] EXCEPT !.state = "lost"] ELSE view[c]]
  /\ UNCHANGED <<stopped, written, canceled, raced>>

-----------------------------------------------------------------------------
Starting == Enter \/ StoreCancel \/ Go
Work     == Kill \/ Timeout \/ Emit \/ Finish \/ Finished \/ Canceled
Polling(c) == Poll(c) \/ \E f \in Fields : Read(c, f)

Next ==
  \/ Starting \/ Output \/ Exit \/ Work \/ Cancel \/ Restart
  \/ \E c \in Clients : Polling(c)

Spec == Init /\ [][Next]_vars

\* The goroutine goes on, the timeout fires, a stopped process dies, and a client
\* polls again.  buildctl may hang.
FairSpec == Spec /\ WF_vars(Starting) /\ WF_vars(Work)
                 /\ \A c \in Clients : WF_vars(Polling(c))

-----------------------------------------------------------------------------
(* Properties.                                                             *)

\* A running buildctl can be stopped by CancelBuild or is already being stopped:
\* the entry does not end, and its cancel function is not lost, before it does.
Stoppable ==
  proc = "running" => stopped \/ (entry # None /\ entry.state = "running" /\ entry.cancel)

\* A client whose polls met no write has all the output up to its offset, once
\* ("only the output produced since since_offset", builds.go:115); it is told
\* "done" only with the image's reference; and when it is told of the end it
\* has the whole log, unless the build was cancelled, which leaves the
\* goroutine to append more.
PollsTrue ==
  \A c \in Clients \ raced :
    /\ view[c].got = view[c].offset
    /\ view[c].state = "done" => view[c].ref
    /\ view[c].state \in Terminal /\ ~canceled /\ entry # None
         => view[c].offset = entry.log

\* Every build ends, and who polls is told so (or that the gateway forgot it),
\* even if buildctl hangs.
ClientLearns ==
  \A c \in Clients : start = "answered" ~> view[c].state # "running"
=============================================================================

--------------------------- MODULE ImageBuildProofs ---------------------------
(* Proofs about ImageBuild, for any number of clients and any output.      *)
EXTENDS ImageBuild, TLAPS

-----------------------------------------------------------------------------
(* The inductive invariant.                                                *)

\* Who may be at work when.
Stages ==
  /\ (entry = None => (pipe = 0 /\ mu = None /\ start \in {"enter", "over"}))
  /\ (start = "enter" => entry = None)
  /\ (start \in {"enter", "store", "go"} => (proc = "none" /\ pipe = 0))
  /\ (start = "store" => (entry.state = "running" /\ ~entry.cancel))
  /\ (start = "over" => (proc = "gone" /\ pipe = 0))
  /\ (start = "over" /\ entry # None => entry.state \in Terminal)
  /\ (start = "answered" => proc \in {"running", "ok", "failed"})
  /\ (mu = "finish" => (start = "answered" /\ proc \in {"ok", "failed"} /\ pipe = 0))
  /\ (mu = "finish" => entry.state = IF proc = "ok" THEN "done" ELSE "failed")
  /\ (mu = "cancel" => (entry.state = "failed" /\ canceled))

\* A build that still runs can be cancelled, or has been.
Running ==
  start \in {"go", "answered"} /\ mu # "finish"
    => stopped \/ (entry.state = "running" /\ entry.cancel)

\* An entry that says how the build ended, without a cancel, is complete.
Complete ==
  entry # None /\ entry.state \in Terminal =>
    /\ (canceled \/ mu = "finish" \/ start = "over")
    /\ (entry.state = "done" => entry.ref \/ mu = "finish")

\* A log only grows, so the offset a client has is within it.
Offsets ==
  \A c \in Clients :
    /\ (poll[c].todo # {} => (entry # None /\ view[c].state = "running"))
    /\ (entry # None /\ view[c].state = "running" => view[c].offset <= entry.log)
    /\ (poll[c].todo # {} /\ "log" \notin poll[c].todo
         => (view[c].offset <= poll[c].log /\ poll[c].log <= entry.log))
    /\ (poll[c].todo # {} /\ "offset" \notin poll[c].todo
         => poll[c].offset <= entry.log)
    /\ (start = "enter" => (view[c].state = "running" /\ view[c].offset = 0))

\* What a poll that met no write has read is what the entry holds.
Current ==
  \A c \in Clients \ raced : poll[c].todo # {} =>
    /\ mu = None
    /\ ("state"  \notin poll[c].todo => poll[c].state  = entry.state)
    /\ ("ref"    \notin poll[c].todo => poll[c].ref    = entry.ref)
    /\ ("log"    \notin poll[c].todo => poll[c].log    = entry.log)
    /\ ("offset" \notin poll[c].todo => poll[c].offset = entry.log)

\* What such a client has been told.  After the end nothing is appended.
Told ==
  \A c \in Clients \ raced :
    /\ view[c].got = view[c].offset
    /\ (view[c].state = "done" => view[c].ref)
    /\ (view[c].state \in Terminal /\ ~canceled /\ entry # None
         => (start = "over" /\ mu = None /\ view[c].offset = entry.log))

IInv == TypeOK /\ Stages /\ Running /\ Complete /\ Offsets /\ Current /\ Told

LEMMA InitIInv == ASSUME Init PROVE IInv
<1>1. NoPoll \in [todo : SUBSET Fields, state : {"running"} \cup Terminal,
                  ref : BOOLEAN, log : Nat, offset : Nat]
  BY DEF NoPoll
<1>2. [state |-> "running", ref |-> FALSE, got |-> 0, offset |-> 0]
        \in [state : {"running", "lost"} \cup Terminal, ref : BOOLEAN, got : Nat, offset : Nat]
  OBVIOUS
<1>3. 0 \in 0 .. MaxChunks
  BY ChunksAssumption
<1>4. TypeOK
  BY <1>1, <1>2, <1>3 DEF Init, TypeOK
<1>5. Stages
  BY NoneAssumption DEF Init, Stages
<1>6. Running /\ Complete /\ Offsets /\ Current /\ Told
  BY DEF Init, NoPoll, Terminal, Running, Complete, Offsets, Current, Told
<1>. QED
  BY <1>4, <1>5, <1>6 DEF IInv

-----------------------------------------------------------------------------
(* The steps of the build.  Those that write the entry only let it grow.   *)

\* A write that keeps the log, or adds to it, keeps every offset within it.
LEMMA GrowingLog ==
  ASSUME IInv, entry \in Entries, entry' \in Entries, entry'.log >= entry.log,
         UNCHANGED client, start' # "enter"
  PROVE  Offsets'
<1>1. \A c \in Clients : view[c].offset \in Nat /\ poll[c].log \in Nat /\ poll[c].offset \in Nat
  BY DEF IInv, TypeOK
<1>2. entry # None /\ entry' # None
  BY NoneAssumption
<1>3. entry.log \in Nat /\ entry'.log \in Nat
  BY DEF Entries
<1>. QED
  BY <1>1, <1>2, <1>3 DEF IInv, Offsets, client

\* A write is no poll's business but those it is recorded for, unless it comes
\* after the end.
LEMMA WriteApart ==
  ASSUME IInv, Write(entry'), UNCHANGED client, entry # None,
         start # "over" \/ mu # None \/ canceled', canceled => canceled'
  PROVE  Current' /\ Told'
<1>1. Current'
  BY DEF Write, Current, client
<1>2. ASSUME NEW c \in Clients \ raced' PROVE c \in Clients \ raced
  BY DEF Write
<1>3. Told'
  BY <1>2 DEF IInv, Told, client
<1>. QED
  BY <1>1, <1>3

LEMMA StepEnter == ASSUME IInv, Enter PROVE IInv'
<1>. USE NoneAssumption DEF Enter, Terminal
<1>1. entry = None /\ mu = None /\ proc = "none" /\ pipe = 0
  BY DEF IInv, Stages
<1>2. entry' = [state |-> "running", ref |-> FALSE, log |-> 0, cancel |-> FALSE]
  BY DEF Write
<1>3a. entry' \in Entries
  BY <1>2 DEF Entries
<1>3. entry' \in Entries /\ entry' # None
  BY <1>3a
<1>4. TypeOK'
  BY <1>3 DEF IInv, TypeOK, Write, client
<1>5. Stages' /\ Running' /\ Complete'
  BY <1>1, <1>2, <1>3 DEF Stages, Running, Complete
<1>6. \A c \in Clients : poll[c].todo = {} /\ view[c].state = "running" /\ view[c].offset = 0
  BY <1>1 DEF IInv, Offsets
<1>7a. poll' = poll /\ view' = view /\ start' # "enter" /\ entry'.log = 0
  BY <1>2 DEF client
<1>7b. Offsets'
  BY <1>6, <1>7a DEF Offsets
<1>7. Offsets' /\ Current'
  BY <1>6, <1>7a, <1>7b DEF Current
<1>8. Told'
  BY <1>6 DEF IInv, Told, Write, client
<1>. QED
  BY <1>4, <1>5, <1>7, <1>8 DEF IInv

\* The steps of the process alone: the entry and the clients stay as they are.
LEMMA Untouched ==
  ASSUME IInv, UNCHANGED <<entry, mu, poll, view, raced, canceled>>,
         start' = "enter" => start = "enter", start = "over" => start' = "over"
  PROVE  Offsets' /\ Current' /\ Told'
<1>1. Offsets' /\ Current'
  BY DEF IInv, Offsets, Current
<1>2. Told'
  BY DEF IInv, Told
<1>. QED
  BY <1>1, <1>2

LEMMA StepGo == ASSUME IInv, Go \/ Output \/ Exit \/ Kill \/ Timeout PROVE IInv'
<1>1. CASE Go
  <2>1. TypeOK'
    BY <1>1 DEF IInv, TypeOK, Go, client
  <2>2. Stages' /\ Running' /\ Complete'
    BY <1>1 DEF IInv, Stages, Running, Complete, Go
  <2>3. Offsets' /\ Current' /\ Told'
    BY <1>1, Untouched DEF Go, client
  <2>. QED
    BY <2>1, <2>2, <2>3 DEF IInv
<1>2. CASE Output
  <2>1. written + 1 \in 0 .. MaxChunks /\ pipe + 1 \in Nat
    BY <1>2, ChunksAssumption DEF IInv, TypeOK, Output
  <2>2. TypeOK'
    BY <1>2, <2>1 DEF IInv, TypeOK, Output, client
  <2>3. start = "answered" /\ mu # "finish"
      BY <1>2 DEF IInv, Stages, Output, TypeOK
  <2>4. Stages' /\ Running' /\ Complete'
    BY <1>2, <2>3 DEF IInv, Stages, Running, Complete, Output
  <2>5. Offsets' /\ Current' /\ Told'
    BY <1>2, Untouched DEF Output, client
  <2>. QED
    BY <2>2, <2>4, <2>5 DEF IInv
<1>3. CASE Exit \/ Kill \/ Timeout
  <2>1. TypeOK'
    BY <1>3 DEF IInv, TypeOK, Exit, Kill, Timeout, client
  <2>2. start = "answered" /\ mu # "finish"
    BY <1>3 DEF IInv, Stages, Exit, Kill, Timeout, TypeOK
  <2>3. Stages' /\ Running' /\ Complete'
    BY <1>3, <2>2 DEF IInv, Stages, Running, Complete, Exit, Kill, Timeout
  <2>4. Offsets' /\ Current' /\ Told'
    BY <1>3, Untouched DEF Exit, Kill, Timeout, client
  <2>. QED
    BY <2>1, <2>3, <2>4 DEF IInv
<1>. QED
  BY <1>1, <1>2, <1>3

LEMMA StepStoreCancel == ASSUME IInv, StoreCancel PROVE IInv'
<1>. USE DEF StoreCancel, Terminal
<1>1. entry \in Entries /\ entry.state = "running" /\ mu = None
  BY DEF IInv, TypeOK, Stages
<1>2. entry' = [entry EXCEPT !.cancel = TRUE]
  BY DEF Write
<1>3. /\ entry' \in Entries /\ entry'.log = entry.log /\ entry'.state = "running"
      /\ entry'.cancel
  BY <1>1, <1>2 DEF Entries
<1>4. entry # None /\ entry' # None
  BY <1>1, <1>3, NoneAssumption
<1>5. TypeOK'
  BY <1>3 DEF IInv, TypeOK, Write, client
<1>6. Stages' /\ Running' /\ Complete'
  BY <1>1, <1>3, <1>4, NoneAssumption DEF IInv, Stages, Running, Complete
<1>7. entry'.log >= entry.log
  BY <1>1, <1>3 DEF Entries
<1>8. Offsets'
  BY <1>1, <1>3, <1>7, GrowingLog
<1>9. Current' /\ Told'
  BY <1>4, WriteApart DEF Write
<1>. QED
  BY <1>5, <1>6, <1>8, <1>9 DEF IInv

\* The writes that come after the start: the entry is there.
LEMMA StepEmit == ASSUME IInv, Emit PROVE IInv'
<1>. USE DEF Emit, Terminal
<1>1. start = "answered" /\ entry # None
  BY DEF IInv, TypeOK, Stages
<1>2. entry \in Entries
  BY <1>1 DEF IInv, TypeOK
<1>3. entry' = [entry EXCEPT !.log = @ + 1]
  BY DEF Write
<1>4. /\ entry' \in Entries /\ entry'.log = entry.log + 1 /\ entry'.state = entry.state
      /\ entry'.cancel = entry.cancel /\ entry'.ref = entry.ref
  BY <1>2, <1>3 DEF Entries
<1>5. entry' # None
  BY <1>4, NoneAssumption
<1>6. pipe' \in Nat
  BY DEF IInv, TypeOK
<1>7. TypeOK'
  BY <1>4, <1>6 DEF IInv, TypeOK, Write, client
<1>8. Stages' /\ Running' /\ Complete'
  BY <1>1, <1>4, <1>5, NoneAssumption DEF IInv, Stages, Running, Complete
<1>9. entry'.log >= entry.log
  BY <1>2, <1>4 DEF Entries
<1>10. Offsets'
  BY <1>1, <1>2, <1>4, <1>9, GrowingLog
<1>11. Current' /\ Told'
  BY <1>1, WriteApart DEF Write
<1>. QED
  BY <1>7, <1>8, <1>10, <1>11 DEF IInv

LEMMA StepFinish == ASSUME IInv, Finish PROVE IInv'
<1>. USE DEF Finish, Terminal
<1>1. start = "answered" /\ entry # None
  BY DEF IInv, TypeOK, Stages
<1>2. entry \in Entries
  BY <1>1 DEF IInv, TypeOK
<1>3. entry' = [entry EXCEPT !.state = IF proc = "ok" THEN "done" ELSE "failed"]
  BY DEF Write
<1>4. /\ entry' \in Entries /\ entry'.log = entry.log /\ entry'.state \in Terminal
      /\ entry'.state = IF proc = "ok" THEN "done" ELSE "failed"
      /\ entry'.cancel = entry.cancel /\ entry'.ref = entry.ref
  BY <1>2, <1>3 DEF Entries
<1>5. entry' # None
  BY <1>4, NoneAssumption
<1>6. TypeOK'
  BY <1>4 DEF IInv, TypeOK, Write, client
<1>7. Stages' /\ Running' /\ Complete'
  BY <1>1, <1>4, <1>5, NoneAssumption DEF IInv, Stages, Running, Complete
<1>8. entry'.log >= entry.log
  BY <1>2, <1>4 DEF Entries
<1>9. Offsets'
  BY <1>1, <1>2, <1>4, <1>8, GrowingLog
<1>10. Current' /\ Told'
  BY <1>1, WriteApart DEF Write
<1>. QED
  BY <1>6, <1>7, <1>9, <1>10 DEF IInv

LEMMA StepFinished == ASSUME IInv, Finished PROVE IInv'
<1>. USE DEF Finished, Terminal
<1>1. start = "answered" /\ entry # None /\ proc \in {"ok", "failed"} /\ pipe = 0
  BY NoneAssumption DEF IInv, TypeOK, Stages
<1>2. entry \in Entries
  BY <1>1 DEF IInv, TypeOK
<1>3. entry' = IF proc = "ok" THEN [entry EXCEPT !.ref = TRUE]
                              ELSE [entry EXCEPT !.log = @ + 1]
  BY DEF Write
<1>4. /\ entry' \in Entries /\ entry'.log >= entry.log /\ entry'.state = entry.state
      /\ (entry'.state = "done" => entry'.ref = TRUE)
  <2>1. CASE proc = "ok"
    <3>1. entry' = [entry EXCEPT !.ref = TRUE]
      BY <1>3, <2>1
    <3>2. entry' \in Entries /\ entry'.log = entry.log /\ entry'.state = entry.state
      BY <1>2, <3>1 DEF Entries
    <3>3. entry'.ref = TRUE
      BY <1>2, <3>1, Zenon DEF Entries
    <3>. QED
      BY <1>2, <3>2, <3>3 DEF Entries
  <2>2. CASE proc # "ok"
    <3>1. entry.state = "failed"
      BY <2>2 DEF IInv, Stages
    <3>. QED
      BY <1>2, <1>3, <2>2, <3>1 DEF Entries
  <2>. QED
    BY <2>1, <2>2
<1>5. entry' # None /\ entry'.state \in Terminal
  BY <1>1, <1>4, NoneAssumption DEF IInv, Stages
<1>6. TypeOK'
  BY <1>4 DEF IInv, TypeOK, Write, client
<1>7. Stages' /\ Running' /\ Complete'
  BY <1>1, <1>4, <1>5, NoneAssumption DEF IInv, Stages, Running, Complete
<1>8. Offsets'
  BY <1>1, <1>2, <1>4, GrowingLog
<1>9. Current' /\ Told'
  BY <1>1, WriteApart DEF Write
<1>. QED
  BY <1>6, <1>7, <1>8, <1>9 DEF IInv

LEMMA StepCancel == ASSUME IInv, Cancel PROVE IInv'
<1>. USE DEF Cancel, Terminal
<1>1. start \in {"go", "answered"}
  BY DEF IInv, TypeOK, Stages
<1>2. entry \in Entries
  BY DEF IInv, TypeOK
<1>3. entry' = [entry EXCEPT !.state = "failed", !.cancel = FALSE]
  BY DEF Write
<1>4. /\ entry' \in Entries /\ entry'.log = entry.log /\ entry'.state = "failed"
  BY <1>2, <1>3 DEF Entries
<1>5. entry' # None /\ entry'.log >= entry.log
  BY <1>2, <1>4, NoneAssumption DEF Entries
<1>6. TypeOK'
  BY <1>4 DEF IInv, TypeOK, Write, client
<1>7. Stages' /\ Running' /\ Complete'
  BY <1>1, <1>4, <1>5, NoneAssumption DEF IInv, Stages, Running, Complete
<1>8. Offsets'
  BY <1>1, <1>2, <1>4, <1>5, GrowingLog
<1>9. Current' /\ Told'
  BY <1>1, WriteApart DEF Write
<1>. QED
  BY <1>6, <1>7, <1>8, <1>9 DEF IInv

LEMMA StepCanceled == ASSUME IInv, Canceled PROVE IInv'
<1>. USE DEF Canceled, Terminal
<1>1. entry # None /\ start # "enter" /\ start # "store" /\ entry.state = "failed" /\ canceled
  BY NoneAssumption DEF IInv, Stages
<1>2. entry \in Entries
  BY <1>1 DEF IInv, TypeOK
<1>3. entry' = [entry EXCEPT !.log = @ + 1]
  BY DEF Write
<1>4. /\ entry' \in Entries /\ entry'.log = entry.log + 1 /\ entry'.state = entry.state
      /\ entry'.cancel = entry.cancel
  BY <1>2, <1>3 DEF Entries
<1>5. entry' # None /\ entry'.log >= entry.log
  BY <1>2, <1>4, NoneAssumption DEF Entries
<1>6. TypeOK'
  BY <1>4 DEF IInv, TypeOK, Write, client
<1>7. Stages' /\ Running' /\ Complete'
  BY <1>1, <1>4, <1>5, NoneAssumption DEF IInv, Stages, Running, Complete
<1>8. Offsets'
  BY <1>1, <1>2, <1>4, <1>5, GrowingLog
<1>9. Current' /\ Told'
  BY <1>1, WriteApart DEF Write
<1>. QED
  BY <1>6, <1>7, <1>8, <1>9 DEF IInv

-----------------------------------------------------------------------------
(* The clients.                                                            *)

LEMMA StepPoll == ASSUME IInv, NEW c \in Clients, Poll(c) PROVE IInv'
<1>1. [NoPoll EXCEPT !.todo = Fields]
        \in [todo : SUBSET Fields, state : {"running"} \cup Terminal,
             ref : BOOLEAN, log : Nat, offset : Nat]
  BY DEF NoPoll
<1>2. TypeOK'
  BY <1>1 DEF Poll, IInv, TypeOK, build
<1>3. Stages' /\ Running' /\ Complete'
  BY DEF Poll, build, IInv, Stages, Running, Complete
<1>4. \A d \in Clients : d # c => poll'[d] = poll[d]
  BY DEF Poll, IInv, TypeOK
<1>5. poll'[c].todo = Fields
  BY DEF Poll, IInv, TypeOK, NoPoll
<1>6. Offsets'
  BY <1>4, <1>5 DEF Poll, build, IInv, Offsets, Fields
<1>7. Current'
  BY <1>4, <1>5 DEF Poll, build, IInv, Current, Fields
<1>8. Told'
  BY DEF Poll, build, IInv, Told
<1>. QED
  BY <1>2, <1>3, <1>6, <1>7, <1>8 DEF IInv

\* A read of one field: c still wants it, so the entry is there.
LEMMA ReadFacts ==
  ASSUME IInv, NEW c \in Clients, NEW f \in Fields, Read(c, f)
  PROVE  /\ entry \in Entries /\ poll[c].todo # {} /\ view[c].state = "running"
         /\ view[c].offset <= entry.log
         /\ Fetch(poll[c], f) \in [todo : SUBSET Fields, state : {"running"} \cup Terminal,
                                 ref : BOOLEAN, log : Nat, offset : Nat]
<1>1. poll[c].todo # {}
  BY DEF Read
<1>2. entry # None /\ view[c].state = "running" /\ view[c].offset <= entry.log
  BY <1>1 DEF IInv, Offsets
<1>3. entry \in Entries
  BY <1>2 DEF IInv, TypeOK
<1>4. poll[c] \in [todo : SUBSET Fields, state : {"running"} \cup Terminal,
                   ref : BOOLEAN, log : Nat, offset : Nat]
  BY DEF IInv, TypeOK
<1>5. entry.state \in {"running"} \cup Terminal /\ entry.ref \in BOOLEAN /\ entry.log \in Nat
  BY <1>3 DEF Entries
<1>6. CASE f = "state"
  BY <1>1, <1>2, <1>3, <1>4, <1>5, <1>6 DEF Fetch
<1>7. CASE f = "ref"
  BY <1>1, <1>2, <1>3, <1>4, <1>5, <1>7 DEF Fetch
<1>8. CASE f = "log"
  BY <1>1, <1>2, <1>3, <1>4, <1>5, <1>8 DEF Fetch
<1>9. CASE f = "offset"
  BY <1>1, <1>2, <1>3, <1>4, <1>5, <1>9 DEF Fetch
<1>. QED
  BY <1>1, <1>2, <1>3, <1>6, <1>7, <1>8, <1>9 DEF Fields

\* The read value is the entry's; what was read before stays.
LEMMA FetchFields ==
  ASSUME IInv, NEW c \in Clients, NEW f \in Fields, Read(c, f)
  PROVE  /\ Fetch(poll[c], f).todo = poll[c].todo \ {f}
         /\ Fetch(poll[c], f).state  = IF f = "state"  THEN entry.state ELSE poll[c].state
         /\ Fetch(poll[c], f).ref    = IF f = "ref"    THEN entry.ref   ELSE poll[c].ref
         /\ Fetch(poll[c], f).log    = IF f = "log"    THEN entry.log   ELSE poll[c].log
         /\ Fetch(poll[c], f).offset = IF f = "offset" THEN entry.log   ELSE poll[c].offset
<1>1. poll[c] \in [todo : SUBSET Fields, state : {"running"} \cup Terminal,
                   ref : BOOLEAN, log : Nat, offset : Nat]
  BY DEF IInv, TypeOK
<1>2. CASE f = "state"
  BY <1>1, <1>2 DEF Fetch
<1>3. CASE f = "ref"
  BY <1>1, <1>3 DEF Fetch
<1>4. CASE f = "log"
  BY <1>1, <1>4 DEF Fetch
<1>5. CASE f = "offset"
  BY <1>1, <1>5 DEF Fetch
<1>. QED
  BY <1>2, <1>3, <1>4, <1>5 DEF Fields

LEMMA StepRead == ASSUME IInv, NEW c \in Clients, NEW f \in Fields, Read(c, f) PROVE IInv'
<1>. DEFINE now == Fetch(poll[c], f)
<1>1. /\ entry \in Entries /\ poll[c].todo # {} /\ view[c].state = "running"
      /\ view[c].offset <= entry.log
      /\ now \in [todo : SUBSET Fields, state : {"running"} \cup Terminal,
                  ref : BOOLEAN, log : Nat, offset : Nat]
  BY ReadFacts
<1>2. /\ now.todo = poll[c].todo \ {f}
      /\ now.state  = IF f = "state"  THEN entry.state ELSE poll[c].state
      /\ now.ref    = IF f = "ref"    THEN entry.ref   ELSE poll[c].ref
      /\ now.log    = IF f = "log"    THEN entry.log   ELSE poll[c].log
      /\ now.offset = IF f = "offset" THEN entry.log   ELSE poll[c].offset
  BY FetchFields
<1>. HIDE DEF now
<1>3. UNCHANGED <<build, raced>>
  BY DEF Read
<1>4. Stages' /\ Running' /\ Complete'
  BY <1>3 DEF build, IInv, Stages, Running, Complete
<1>5. entry.log \in Nat
  BY <1>1 DEF Entries
<1>6. view[c] \in [state : {"running", "lost"} \cup Terminal, ref : BOOLEAN, got : Nat, offset : Nat]
  BY DEF IInv, TypeOK
<1>7. /\ ("log" \notin now.todo => (view[c].offset <= now.log /\ now.log <= entry.log))
      /\ ("offset" \notin now.todo => now.offset <= entry.log)
  BY <1>1, <1>2, <1>5 DEF IInv, Offsets
<1>8. c \notin raced =>
        /\ mu = None
        /\ ("state"  \notin now.todo => now.state  = entry.state)
        /\ ("ref"    \notin now.todo => now.ref    = entry.ref)
        /\ ("log"    \notin now.todo => now.log    = entry.log)
        /\ ("offset" \notin now.todo => now.offset = entry.log)
  BY <1>1, <1>2 DEF IInv, Current
<1>9. CASE now.todo # {}
  <2>1. poll' = [poll EXCEPT ![c] = now] /\ view' = view
    BY <1>9 DEF Read, now
  <2>2. TypeOK'
    BY <1>1, <1>3, <2>1 DEF build, IInv, TypeOK
  <2>3. /\ \A d \in Clients : d # c => poll'[d] = poll[d]
        /\ poll'[c] = now
    BY <2>1 DEF IInv, TypeOK
  <2>4. Offsets'
    BY <1>1, <1>3, <1>7, <2>1, <2>3 DEF build, IInv, Offsets
  <2>5. Current'
    BY <1>3, <1>8, <2>3 DEF build, IInv, Current
  <2>6. Told'
    BY <1>3, <2>1 DEF build, IInv, Told
  <2>. QED
    BY <1>4, <2>2, <2>4, <2>5, <2>6 DEF IInv
<1>10. CASE now.todo = {}
  <2>. DEFINE told == [state |-> now.state, ref |-> now.ref, offset |-> now.offset,
                       got |-> view[c].got + (now.log - view[c].offset)]
  <2>1. poll' = [poll EXCEPT ![c] = NoPoll] /\ view' = [view EXCEPT ![c] = told]
    BY <1>10 DEF Read, now
  <2>2. view[c].got + (now.log - view[c].offset) \in Nat
    BY <1>1, <1>6, <1>7, <1>10
  <2>3. told \in [state : {"running", "lost"} \cup Terminal, ref : BOOLEAN, got : Nat, offset : Nat]
    BY <1>1, <2>2
  <2>. HIDE DEF told
  <2>4. NoPoll \in [todo : SUBSET Fields, state : {"running"} \cup Terminal,
                    ref : BOOLEAN, log : Nat, offset : Nat]
    BY DEF NoPoll
  <2>5. TypeOK'
    BY <1>3, <2>1, <2>3, <2>4 DEF build, IInv, TypeOK
  <2>6. /\ \A d \in Clients : d # c => poll'[d] = poll[d] /\ view'[d] = view[d]
        /\ poll'[c].todo = {} /\ view'[c] = told
    BY <2>1, <2>3 DEF IInv, TypeOK, NoPoll
  <2>7. told.state = now.state /\ told.ref = now.ref /\ told.offset = now.offset
        /\ told.got = view[c].got + (now.log - view[c].offset)
    BY DEF told
  <2>8. start # "enter"
    BY <1>1, NoneAssumption DEF IInv, Stages
  <2>9. Offsets'
    BY <1>3, <1>7, <1>10, <2>6, <2>7, <2>8 DEF build, IInv, Offsets
  <2>10. Current'
    BY <1>3, <2>6 DEF build, IInv, Current
  <2>11. ASSUME c \notin raced
         PROVE  /\ told.got = told.offset
                /\ (told.state = "done" => told.ref)
                /\ (told.state \in Terminal /\ ~canceled
                     => (start = "over" /\ mu = None /\ told.offset = entry.log))
    <3>1. now.state = entry.state /\ now.ref = entry.ref /\ now.log = entry.log
          /\ now.offset = entry.log /\ mu = None
      BY <1>8, <1>10, <2>11
    <3>2. view[c].got = view[c].offset
      BY <2>11 DEF IInv, Told
    <3>3. told.got = told.offset
      BY <1>5, <1>6, <2>7, <3>1, <3>2
    <3>4. entry # None /\ mu # "finish"
      BY <1>1, <3>1, NoneAssumption
    <3>5. entry.state \in Terminal /\ ~canceled => start = "over"
      BY <3>4 DEF IInv, Complete
    <3>6. told.state = "done" => told.ref
      BY <2>7, <3>1, <3>4 DEF IInv, Complete, Terminal
    <3>. QED
      BY <2>7, <3>1, <3>3, <3>5, <3>6
  <2>12. Told'
    BY <1>3, <2>6, <2>11 DEF build, IInv, Told
  <2>. QED
    BY <1>4, <2>5, <2>9, <2>10, <2>12 DEF IInv
<1>. QED
  BY <1>9, <1>10

LEMMA StepRestart == ASSUME IInv, Restart PROVE IInv'
<1>1. NoPoll \in [todo : SUBSET Fields, state : {"running"} \cup Terminal,
                  ref : BOOLEAN, log : Nat, offset : Nat]
  BY DEF NoPoll
<1>2. TypeOK'
  BY <1>1 DEF Restart, IInv, TypeOK
<1>3. Stages' /\ Running' /\ Complete'
  BY NoneAssumption DEF Restart, Stages, Running, Complete
<1>4. \A c \in Clients : poll'[c].todo = {} /\ view'[c].state # "running"
  BY DEF Restart, NoPoll, IInv, TypeOK
<1>5. Offsets' /\ Current'
  BY <1>4 DEF Restart, Offsets, Current
<1>6. \A c \in Clients : /\ view'[c].got = view[c].got /\ view'[c].offset = view[c].offset
                         /\ view'[c].ref = view[c].ref
                         /\ (view'[c].state = "done" => view[c].state = "done")
  BY DEF Restart, IInv, TypeOK
<1>7. Told'
  BY <1>6 DEF Restart, IInv, Told
<1>. QED
  BY <1>2, <1>3, <1>5, <1>7 DEF IInv

-----------------------------------------------------------------------------
(* The theorems.                                                           *)

LEMMA Inductive == Spec => []IInv
<1>1. Init => IInv
  BY InitIInv
<1>2. IInv /\ [Next]_vars => IInv'
  <2>. SUFFICES ASSUME IInv, [Next]_vars PROVE IInv'
    OBVIOUS
  <2>1. CASE Starting
    BY <2>1, StepEnter, StepStoreCancel, StepGo DEF Starting
  <2>2. CASE Output \/ Exit \/ Kill \/ Timeout
    BY <2>2, StepGo
  <2>3. CASE Emit \/ Finish \/ Finished \/ Cancel \/ Canceled
    BY <2>3, StepEmit, StepFinish, StepFinished, StepCancel, StepCanceled
  <2>4. CASE Restart
    BY <2>4, StepRestart
  <2>5. CASE \E c \in Clients : Polling(c)
    BY <2>5, StepPoll, StepRead DEF Polling
  <2>6. CASE UNCHANGED vars
    BY <2>6 DEF vars, build, client, IInv, TypeOK, Stages, Running, Complete, Offsets,
                Current, Told
  <2>. QED
    BY <2>1, <2>2, <2>3, <2>4, <2>5, <2>6 DEF Next, Work
<1>. QED
  BY <1>1, <1>2, PTL DEF Spec

\* Every variable of a build keeps its type; above all, no client is ever given
\* an offset beyond its answer's log, which would make the next difference
\* negative.
THEOREM TypeCorrect == Spec => []TypeOK
<1>1. IInv => TypeOK
  BY DEF IInv
<1>. QED
  BY <1>1, Inductive, PTL

\* A running buildctl can be stopped by CancelBuild, or is being stopped.
THEOREM AlwaysStoppable == Spec => []Stoppable
<1>1. IInv => Stoppable
  <2>. SUFFICES ASSUME IInv, proc = "running", ~stopped
                PROVE  entry # None /\ entry.state = "running" /\ entry.cancel
    BY DEF Stoppable
  <2>1. start = "answered" /\ mu # "finish" /\ entry # None
    BY DEF IInv, TypeOK, Stages
  <2>. QED
    BY <2>1 DEF IInv, Running
<1>. QED
  BY <1>1, Inductive, PTL

\* What clients whose polls met no write have been told is true.
THEOREM PollsAlwaysTrue == Spec => []PollsTrue
<1>1. IInv => PollsTrue
  BY DEF IInv, Told, PollsTrue
<1>. QED
  BY <1>1, Inductive, PTL
=============================================================================

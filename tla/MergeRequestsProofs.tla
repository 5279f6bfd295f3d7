------------------------- MODULE MergeRequestsProofs -------------------------
(* Proofs about MergeRequests: what is true of every change request, for any *)
(* submits, deciders and branches, any number of faults, and however often   *)
(* the repository is deleted and created anew.                               *)
EXTENDS MergeRequests, FiniteSetTheorems, TLAPS

-----------------------------------------------------------------------------
(* The inductive invariant.                                                *)

\* Which steps a call takes, and what it knows on the way.
SubmitShape(s) ==
  /\ job[s].pc \in SubmitPCs
  /\ ~At(s, "new") => job[s].base \in Branches
  /\ At(s, "record") => job[s].index \in Indices /\ job[s].life # 0
  /\ job[s].life <= lives

DecideShape(d) ==
  /\ job[d].pc \in DecidePCs
  /\ ~At(d, "idle") => /\ job[d].index \in Indices /\ job[d].life # 0
                       /\ job[d].head \in Submits
  /\ job[d].life <= lives

Shapes ==
  /\ \A s \in Submits : SubmitShape(s)
  /\ \A d \in Deciders : DecideShape(d)

DeadEmpty == ~alive => mrs = <<>> /\ heads = {}

\* A submit opens one request, and where it is afterwards.
OneEach == \A i, j \in DOMAIN mrs : mrs[i].head = mrs[j].head => i = j

Opener(i, s) ==
  /\ job[s].pc \in {"record", "ensure", "mail", "done", "cleanup"}
  /\ At(s, "record") => job[s].index = i /\ job[s].life = lives
  /\ At(s, "cleanup") => "cut" \in past[s]

Openers == \A i \in DOMAIN mrs : Opener(i, mrs[i].head)

TInv == TypeOK /\ Shapes /\ DeadEmpty /\ OneEach /\ Openers

\* What a call knows is still so, unless the repository is another one.
Fresh(p) == alive /\ job[p].life = lives

RecordFresh ==
  \A s \in Submits : At(s, "record") /\ Fresh(s) =>
    job[s].index \in DOMAIN mrs /\ mrs[job[s].index].head = s

Knows(d) ==
  ~At(d, "idle") /\ Fresh(d) =>
    /\ job[d].index \in DOMAIN mrs
    /\ mrs[job[d].index].head = job[d].head
    /\ job[d].pc \in {"merge", "close"} => Authorized(job[d].caller, mrs[job[d].index])
    /\ job[d].pc \in {"delHead", "drop"} => mrs[job[d].index].state # "open"

DecideFresh == \A d \in Deciders : Knows(d)

\* Rows under indices that are not given out yet are of an earlier repository.
FirstRows ==
  lives = 1 => \A i \in Indices : i \in DOMAIN mrs \/ ~alive \/ records[i] = None

IInv ==
  /\ TInv
  /\ RecordFresh /\ DecideFresh /\ FirstRows
  /\ NoStrandedHead /\ OriginIsTrue /\ OwnBranchOnly /\ ReviewerTold
-----------------------------------------------------------------------------
(* What the steps do to their own call, and to the requests.               *)

PCs == SubmitPCs \cup DecidePCs

Keeps(p) ==
  /\ job' \in [Calls -> Job]
  /\ \A q \in Calls \ {p} : job'[q] = job[q]

Goes(p, step) ==
  /\ Keeps(p)
  /\ job'[p].pc = step
  /\ job'[p].caller = job[p].caller /\ job'[p].base = job[p].base
  /\ job'[p].index = job[p].index /\ job'[p].head = job[p].head
  /\ job'[p].life = job[p].life

Ends(p) ==
  /\ Keeps(p)
  /\ job'[p].pc = IF p \in Submits THEN "done" ELSE "idle"
  /\ job'[p].life = 0
  /\ p \in Submits => job'[p].caller = job[p].caller /\ job'[p].base = job[p].base

LEMMA JobTyped ==
  ASSUME TypeOK, NEW p \in Calls
  PROVE  /\ job[p].pc \in PCs
         /\ job[p].caller \in Branches \cup {None} /\ job[p].base \in Branches \cup {None}
         /\ job[p].index \in Indices \cup {0} /\ job[p].head \in Submits \cup {None}
         /\ job[p].life \in 0 .. MaxLives
BY DEF TypeOK, Job, PCs

LEMMA IdleTyped == \A pc \in PCs : Idle(pc) \in Job
BY BoundsAssumption DEF Idle, Job, PCs

LEMMA Flow ==
  ASSUME TypeOK, NEW p \in Calls
  PROVE  /\ \A step \in PCs : Goto(p, step) => Goes(p, step)
         /\ End(p) => Ends(p)
<1>1. ASSUME NEW step \in PCs, Goto(p, step)
      PROVE  Goes(p, step)
  BY <1>1 DEF TypeOK, Goto, Goes, Keeps, Job, PCs
<1>2. ASSUME End(p), p \in Submits
      PROVE  Ends(p)
  <2>. DEFINE done == [job[p] EXCEPT !.pc = "done", !.index = 0, !.life = 0]
  <2>1. job' = [job EXCEPT ![p] = done]
    BY <1>2 DEF End
  <2>2. job[p] \in Job
    BY DEF TypeOK
  <2>2a. "done" \in SubmitPCs \cup DecidePCs /\ 0 \in 0 .. MaxLives /\ 0 \in Indices \cup {0}
    BY BoundsAssumption DEF SubmitPCs
  <2>3. /\ done \in Job /\ done.pc = "done" /\ done.life = 0
        /\ done.caller = job[p].caller /\ done.base = job[p].base
    BY <2>2, <2>2a DEF Job
  <2>. HIDE DEF done
  <2>4. job'[p] = done /\ Keeps(p)
    BY <2>1, <2>3 DEF TypeOK, Keeps
  <2>. QED
    BY <1>2, <2>3, <2>4 DEF Ends
<1>3. ASSUME End(p), p \notin Submits
      PROVE  Ends(p)
  <2>1. Idle("idle") \in Job
    BY IdleTyped DEF PCs, DecidePCs
  <2>2. job' = [job EXCEPT ![p] = Idle("idle")]
    BY <1>3 DEF End
  <2>3. Idle("idle").pc = "idle" /\ Idle("idle").life = 0
    BY DEF Idle
  <2>4. job'[p] = Idle("idle") /\ Keeps(p)
    BY <2>1, <2>2 DEF TypeOK, Keeps
  <2>. QED
    BY <1>3, <2>3, <2>4 DEF Ends
<1>. QED
  BY <1>1, <1>2, <1>3

LEMMA RequestTyped ==
  ASSUME TypeOK, NEW i \in DOMAIN mrs
  PROVE  /\ mrs[i] \in MR
         /\ mrs[i].head \in Submits /\ mrs[i].base \in Branches
         /\ mrs[i].by \in Branches \cup {None}
         /\ mrs[i].state \in {"open", "merged", "closed"}
         /\ i \in Indices
<1>1. mrs[i] \in MR
  BY DEF TypeOK
<1>2. i \in 1 .. Len(mrs) /\ Len(mrs) \in Nat /\ Len(mrs) <= Cardinality(Submits)
  BY DEF TypeOK
<1>3. i \in Indices
  BY <1>2, FiniteAssumption, FS_CardinalityType DEF Indices
<1>. QED
  BY <1>1, <1>3 DEF MR

\* The requests stay, and none is opened again.
Kept ==
  /\ mrs' \in Seq(MR) /\ Len(mrs') = Len(mrs) /\ DOMAIN mrs' = DOMAIN mrs
  /\ \A i \in DOMAIN mrs :
       /\ mrs'[i].head = mrs[i].head /\ mrs'[i].base = mrs[i].base
       /\ mrs'[i].state = "open" => mrs[i].state = "open"

LEMMA UnchangedKept ==
  ASSUME TypeOK, UNCHANGED mrs
  PROVE  Kept
BY DEF TypeOK, Kept

LEMMA SettledKept ==
  ASSUME TypeOK, NEW i \in DOMAIN mrs, NEW state \in {"merged", "closed"},
         NEW who \in Branches \cup {None}, mrs' = Settled(i, state, who)
  PROVE  Kept /\ mrs'[i].state = state /\ mrs'[i].by = who
         /\ \A j \in DOMAIN mrs \ {i} : mrs'[j] = mrs[j]
<1>. DEFINE settled == [mrs[i] EXCEPT !.state = state, !.by = who]
<1>1. mrs' = [mrs EXCEPT ![i] = settled]
  BY DEF Settled
<1>2. mrs \in Seq(MR) /\ mrs[i] \in MR
  BY DEF TypeOK
<1>3. /\ settled \in MR /\ settled.head = mrs[i].head /\ settled.base = mrs[i].base
      /\ settled.state = state /\ settled.by = who
  BY <1>2 DEF MR
<1>. HIDE DEF settled
<1>. QED
  BY <1>1, <1>2, <1>3 DEF Kept

LEMMA DeleteBranchKept ==
  ASSUME TypeOK, NEW s \in Submits, DeleteBranch(s)
  PROVE  /\ Kept /\ heads' = heads \ {s} /\ UNCHANGED <<alive, lives>>
         /\ \A i \in DOMAIN mrs : mrs'[i].by = mrs[i].by
         /\ \A i \in DOMAIN mrs : mrs[i].head # s => mrs'[i] = mrs[i]
<1>1. CASE UNCHANGED mrs
  BY <1>1, UnchangedKept DEF DeleteBranch
<1>2. CASE mrs' = [i \in DOMAIN mrs |->
                     IF mrs[i].head = s /\ mrs[i].state = "open"
                       THEN [mrs[i] EXCEPT !.state = "closed"] ELSE mrs[i]]
  <2>1. DOMAIN mrs = 1 .. Len(mrs) /\ Len(mrs) \in Nat /\ mrs \in [1 .. Len(mrs) -> MR]
    BY DEF TypeOK
  <2>2. \A i \in DOMAIN mrs : mrs'[i] = IF mrs[i].head = s /\ mrs[i].state = "open"
                       THEN [mrs[i] EXCEPT !.state = "closed"] ELSE mrs[i]
    BY <1>2
  <2>3. \A i \in DOMAIN mrs : mrs'[i] \in MR
    BY <2>1, <2>2 DEF MR
  <2>4. mrs' \in Seq(MR) /\ Len(mrs') = Len(mrs) /\ DOMAIN mrs' = DOMAIN mrs
    BY <1>2, <2>1, <2>3
  <2>5. \A i \in DOMAIN mrs : /\ mrs'[i].head = mrs[i].head
           /\ mrs'[i].base = mrs[i].base /\ mrs'[i].by = mrs[i].by
           /\ mrs'[i].state = "open" => mrs[i].state = "open"
    BY <2>1, <2>2 DEF MR
  <2>. QED
    BY <1>2, <2>2, <2>4, <2>5 DEF DeleteBranch, Kept
<1>. QED
  BY <1>1, <1>2 DEF DeleteBranch

\* Each submit opens one request at most, so that there are indices enough.
LEMMA RoomForOne ==
  ASSUME TInv, NEW s \in Submits, At(s, "create")
  PROVE  /\ \A i \in DOMAIN mrs : mrs[i].head # s
         /\ Len(mrs) + 1 \in Indices
<1>1. \A i \in DOMAIN mrs : mrs[i].head # s
  BY DEF TInv, Openers, Opener, At
<1>2. mrs \in Seq(MR)
  BY DEF TInv, TypeOK
<1>. HIDE DEF TInv
<1>2a. Len(mrs) \in Nat /\ DOMAIN mrs = 1 .. Len(mrs)
  BY <1>2
<1>2b. \A i \in DOMAIN mrs : mrs[i].head \in Submits
  BY RequestTyped DEF TInv
<1>. DEFINE full == 1 .. Len(mrs) + 1
            opener == [i \in full |-> IF i \in DOMAIN mrs THEN mrs[i].head ELSE s]
<1>3. opener \in Injection(full, Submits)
  BY <1>1, <1>2a, <1>2b DEF TInv, OneEach, Injection, IsInjective
<1>4. Cardinality(full) <= Cardinality(Submits)
  BY <1>3, FiniteAssumption, FS_Injection
<1>5. Cardinality(full) = Len(mrs) + 1
  BY <1>2a, FS_Interval
<1>6. Cardinality(Submits) \in Nat
  BY FiniteAssumption, FS_CardinalityType
<1>. QED
  BY <1>1, <1>2a, <1>4, <1>5, <1>6 DEF Indices

LEMMA OpenedGrows ==
  ASSUME TInv, NEW s \in Submits, At(s, "create"), mrs' = Opened(s)
  PROVE  /\ mrs' \in Seq(MR) /\ Len(mrs') = Len(mrs) + 1
         /\ DOMAIN mrs' = DOMAIN mrs \cup {Len(mrs) + 1} /\ Len(mrs) + 1 \notin DOMAIN mrs
         /\ \A i \in DOMAIN mrs : mrs'[i] = mrs[i]
         /\ mrs'[Len(mrs) + 1] = [head |-> s, base |-> job[s].base,
                                   state |-> "open", by |-> None]
<1>1. job[s].base \in Branches
  BY DEF TInv, Shapes, SubmitShape, At
<1>2. [head |-> s, base |-> job[s].base, state |-> "open", by |-> None] \in MR
  BY <1>1 DEF MR
<1>. QED
  BY <1>2 DEF TInv, TypeOK, Opened
-----------------------------------------------------------------------------
(* A step of one call inside the life of one repository.                   *)

PastGrows ==
  /\ past' \in [Submits -> SUBSET Causes]
  /\ \A s \in Submits : past[s] \subseteq past'[s]

LEMMA MarkedGrows ==
  ASSUME TypeOK, NEW s \in Submits, NEW cause \in Causes, past' = Marked(s, cause)
  PROVE  PastGrows /\ cause \in past'[s]
BY DEF TypeOK, Marked, PastGrows

LEMMA UnchangedGrows ==
  ASSUME TypeOK, UNCHANGED past
  PROVE  PastGrows
BY DEF TypeOK, PastGrows

LEMMA OvertakingGrows ==
  ASSUME TypeOK, NEW p \in Calls, Overtaking(p)
  PROVE  /\ PastGrows
         /\ Stale(p) /\ job[p].index \in DOMAIN mrs =>
              "overtaken" \in past'[mrs[job[p].index].head]
<1>1. CASE Stale(p) /\ job[p].index \in DOMAIN mrs
  <2>1. mrs[job[p].index].head \in Submits
    BY <1>1, RequestTyped
  <2>2. "overtaken" \in Causes
    BY DEF Causes
  <2>. QED
    BY <1>1, <2>1, <2>2, MarkedGrows DEF Overtaking
<1>2. CASE ~(Stale(p) /\ job[p].index \in DOMAIN mrs)
  BY <1>2, UnchangedGrows DEF Overtaking
<1>. QED
  BY <1>1, <1>2

Local(p) ==
  /\ Keeps(p) /\ Kept /\ PastGrows
  /\ UNCHANGED <<alive, lives>>
  /\ heads' \subseteq Submits /\ (~alive => heads' = {})
  /\ records' \in [Indices -> Branches \cup {None}]
  /\ told' \subseteq Submits /\ told \subseteq told'
  /\ faults' \in 0 .. MaxFaults

HasMR(s) == \E i \in DOMAIN mrs : mrs[i].head = s

Told(s) ==
  s \in told \/ job[s].caller = job[s].base \/ past[s] \cap {"cut", "untold"} # {}

Covered(s) ==
  \/ IsOpen(s)
  \/ job[s].pc \in {"create", "cleanup"}
  \/ \E d \in Deciders : At(d, "delHead") /\ job[d].head = s
  \/ past[s] \cap {"cut", "skipped", "overtaken"} # {}

\* What remains to show about the call itself.
OwnSubmit(s) ==
  /\ SubmitShape(s)' /\ ~At(s, "record")'
  /\ HasMR(s) =>
       /\ job'[s].pc \in {"ensure", "mail", "done"}
            \/ (At(s, "cleanup")' /\ "cut" \in past'[s])
       /\ UNCHANGED Origin(s)
       /\ At(s, "done")' => Told(s)'

OwnDecide(d) == DecideShape(d)' /\ Knows(d)'

Own(p) == (p \in Submits => OwnSubmit(p)) /\ (p \in Deciders => OwnDecide(p))

LEMMA LocalTyped ==
  ASSUME TInv, NEW p \in Calls, Local(p)
  PROVE  TypeOK' /\ DeadEmpty' /\ OneEach'
<1>1. TypeOK'
  BY DEF TInv, TypeOK, Local, Keeps, Kept, PastGrows
<1>2. DeadEmpty'
  BY DEF TInv, DeadEmpty, Local, Kept
<1>3. OneEach'
  BY DEF TInv, OneEach, Local, Kept
<1>. QED
  BY <1>1, <1>2, <1>3

LEMMA LocalTInv ==
  ASSUME TInv, NEW p \in Calls, Local(p), Own(p)
  PROVE  TInv'
<1>1. Shapes'
  <2>1. ASSUME NEW s \in Submits PROVE SubmitShape(s)'
    BY NamesAssumption DEF TInv, Shapes, SubmitShape, Local, Keeps, Own, OwnSubmit, At, Calls
  <2>2. ASSUME NEW d \in Deciders PROVE DecideShape(d)'
    BY NamesAssumption DEF TInv, Shapes, DecideShape, Local, Keeps, Own, OwnDecide, At, Calls
  <2>. QED
    BY <2>1, <2>2 DEF Shapes
<1>2. Openers'
  <2>. SUFFICES ASSUME NEW i \in DOMAIN mrs
                PROVE  Opener(i, mrs[i].head)'
    BY DEF Openers, Local, Kept
  <2>. DEFINE s == mrs[i].head
  <2>1. s \in Submits /\ mrs'[i].head = s /\ Opener(i, s)
    BY RequestTyped DEF TInv, Openers, Local, Kept
  <2>2. CASE s = p
    BY <2>1, <2>2 DEF Own, OwnSubmit, HasMR, Opener, At
  <2>3. CASE s # p
    <3>1. job'[s] = job[s] /\ past[s] \subseteq past'[s] /\ lives' = lives
      BY <2>1, <2>3 DEF Local, Keeps, PastGrows, Calls
    <3>. QED
      BY <2>1, <3>1 DEF Opener, At
  <2>. QED
    BY <2>2, <2>3
<1>. QED
  BY <1>1, <1>2, LocalTyped DEF TInv

LEMMA LocalFresh ==
  ASSUME IInv, NEW p \in Calls, Local(p), Own(p)
  PROVE  RecordFresh' /\ DecideFresh'
<1>1. RecordFresh'
  BY DEF IInv, RecordFresh, Local, Keeps, Kept, Own, OwnSubmit, At, Fresh, Calls
<1>2. ASSUME NEW d \in Deciders, d # p
      PROVE  Knows(d)'
  BY <1>2 DEF IInv, DecideFresh, Knows, Local, Keeps, Kept, At, Fresh, Calls, Authorized
<1>. QED
  BY <1>1, <1>2 DEF Own, OwnDecide, DecideFresh

LEMMA LocalTold ==
  ASSUME IInv, NEW p \in Calls, Local(p), Own(p)
  PROVE  ReviewerTold'
<1>. SUFFICES ASSUME NEW i \in DOMAIN mrs, At(mrs[i].head, "done")'
              PROVE  Told(mrs[i].head)'
  BY DEF ReviewerTold, Told, Local, Kept
<1>. DEFINE s == mrs[i].head
<1>1. s \in Submits /\ mrs'[i].head = s
  BY RequestTyped DEF IInv, TInv, Local, Kept
<1>1a. At(s, "done") => Told(s)
  BY DEF IInv, ReviewerTold, Told
<1>2. CASE s = p
  BY <1>1, <1>2 DEF Own, OwnSubmit, HasMR
<1>3. CASE s # p
  BY <1>1, <1>1a, <1>3 DEF Local, Keeps, PastGrows, Calls, At, Told
<1>. QED
  BY <1>2, <1>3

\* A branch stays covered unless its own request is settled, or the call that
\* was to deal with it moves on.
LEMMA StaysCovered ==
  ASSUME IInv, NEW p \in Calls, Local(p), NEW s \in heads,
         \A i \in DOMAIN mrs : mrs[i].head = s => mrs'[i] = mrs[i],
         s = p => job[p].pc \notin {"create", "cleanup"},
         p \in Deciders => ~At(p, "delHead") \/ job[p].head # s
  PROVE  Covered(s)'
<1>1. s \in Submits /\ Covered(s)
  BY DEF IInv, TInv, TypeOK, NoStrandedHead, Covered
<1>2. IsOpen(s) => IsOpen(s)'
  BY DEF IsOpen, Local, Kept
<1>3. past[s] \subseteq past'[s]
  BY <1>1 DEF Local, PastGrows
<1>4. s # p => job'[s] = job[s]
  BY <1>1 DEF Local, Keeps, Calls
<1>5. \A d \in Deciders : d # p => job'[d] = job[d]
  BY DEF Local, Keeps, Calls
<1>. QED
  BY <1>1, <1>2, <1>3, <1>4, <1>5 DEF Covered, At

LEMMA LocalIInv ==
  ASSUME IInv, NEW p \in Calls, Local(p), Own(p),
         NoStrandedHead', OriginIsTrue', OwnBranchOnly', FirstRows'
  PROVE  IInv'
BY LocalTInv, LocalFresh, LocalTold DEF IInv

LEMMA DecidersStay ==
  ASSUME IInv, NEW p \in Calls, Local(p),
         \A i \in DOMAIN mrs : mrs'[i].by = mrs[i].by
  PROVE  OwnBranchOnly'
<1>. SUFFICES ASSUME NEW i \in DOMAIN mrs
              PROVE  (\/ mrs[i].by \in {None, mrs[i].base}
                      \/ "overtaken" \in past[mrs[i].head])'
  BY DEF OwnBranchOnly, Local, Kept
<1>1. past[mrs[i].head] \subseteq past'[mrs[i].head]
  BY RequestTyped DEF IInv, TInv, Local, PastGrows
<1>. QED
  BY <1>1 DEF IInv, OwnBranchOnly, Local, Kept

\* The row of a request that no step touches stays right.
RowTrue(i) ==
  LET s == mrs[i].head IN
  "overtaken" \in past[s] \/
    /\ records[i] \in {None, Origin(s)} \/ (lives > 1 /\ ~Recorded(s))
    /\ Recorded(s) /\ mrs[i].state = "open" => records[i] = Origin(s)

LEMMA RowStays ==
  ASSUME IInv, NEW p \in Calls, Local(p), Own(p), NEW i \in DOMAIN mrs,
         UNCHANGED records[i],
         mrs[i].head = p => (Recorded(p)' => Recorded(p))
  PROVE  RowTrue(i)'
<1>. PICK s \in Submits : s = mrs[i].head
  BY RequestTyped DEF IInv, TInv
<1>1. mrs'[i].head = s /\ (mrs'[i].state = "open" => mrs[i].state = "open")
  BY DEF Local, Kept
<1>2. past[s] \subseteq past'[s] /\ lives' = lives
  BY <1>1 DEF Local, PastGrows
<1>3. Origin(s)' = Origin(s) /\ (Recorded(s)' => Recorded(s))
  <2>1. CASE s = p
    BY <1>1, <2>1 DEF Own, OwnSubmit, HasMR
  <2>2. CASE s # p
    <3>1. job'[s] = job[s]
      BY <1>1, <2>2 DEF Local, Keeps, Calls
    <3>. QED
      BY <3>1, <1>2 DEF Origin, Recorded
  <2>. QED
    BY <2>1, <2>2
<1>4. RowTrue(i)
  BY DEF IInv, OriginIsTrue, RowTrue
<1>. QED
  BY <1>1, <1>2, <1>3, <1>4 DEF RowTrue

LEMMA RowsStay ==
  ASSUME IInv, NEW p \in Calls, Local(p), Own(p), UNCHANGED records,
         p \in Submits /\ HasMR(p) => (Recorded(p)' => Recorded(p))
  PROVE  OriginIsTrue' /\ FirstRows'
<1>1. \A i \in DOMAIN mrs : RowTrue(i)'
  BY RowStays, RequestTyped DEF IInv, TInv, HasMR
<1>2. OriginIsTrue'
  BY <1>1 DEF OriginIsTrue, RowTrue, Local, Kept
<1>3. FirstRows'
  BY DEF IInv, FirstRows, Local, Kept
<1>. QED
  BY <1>2, <1>3

-----------------------------------------------------------------------------
(* The steps of SubmitMR.                                                  *)

LEMMA SubmitStepPCs ==
  {"push", "create", "cleanup", "ensure", "mail", "delHead", "drop", "record"} \subseteq PCs
BY DEF PCs, SubmitPCs, DecidePCs

LEMMA SubmitNotDecider == \A s \in Submits : s \notin Deciders /\ s \in Calls
BY NamesAssumption DEF Calls

LEMMA DeciderNotSubmit == \A d \in Deciders : d \notin Submits /\ d \in Calls
BY NamesAssumption DEF Calls

LEMMA SubmitMRStep ==
  ASSUME IInv, NEW s \in Submits, SubmitMR(s)
  PROVE  IInv'
<1>1. At(s, "new") /\ ~HasMR(s)
  BY DEF SubmitMR, IInv, TInv, Openers, Opener, HasMR, At
<1>2. s \in Calls /\ s \notin Deciders /\ TypeOK
  BY SubmitNotDecider DEF IInv, TInv
<1>3. PICK c \in Branches \cup {None}, b \in Branches :
        job' = [job EXCEPT ![s].pc = "push", ![s].caller = c, ![s].base = b]
  BY DEF SubmitMR
<1>4. /\ Keeps(s) /\ At(s, "push")' /\ job'[s].base \in Branches
      /\ job'[s].life = job[s].life
  <2>. DEFINE started == [job[s] EXCEPT !.pc = "push", !.caller = c, !.base = b]
  <2>1. job' = [job EXCEPT ![s] = started]
    BY <1>3
  <2>2. job[s] \in Job
    BY <1>2 DEF TypeOK
  <2>3. "push" \in SubmitPCs \cup DecidePCs
    BY DEF SubmitPCs
  <2>4. started \in Job /\ started.pc = "push" /\ started.base = b /\ started.life = job[s].life
    BY <2>2, <2>3 DEF Job
  <2>. HIDE DEF started
  <2>. QED
    BY <1>2, <2>1, <2>4 DEF TypeOK, Keeps, At
<1>5. Kept /\ PastGrows
  BY <1>2, UnchangedKept, UnchangedGrows DEF SubmitMR, forgejo
<1>6. Local(s)
  BY <1>2, <1>4, <1>5 DEF SubmitMR, Local, forgejo, TypeOK, IInv, TInv, DeadEmpty
<1>7. Own(s)
  BY <1>1, <1>2, <1>4, <1>6
  DEF Own, OwnSubmit, SubmitShape, At, SubmitPCs, IInv, TInv, Shapes, Local
<1>8. \A q \in heads : Covered(q)'
  BY <1>1, <1>2, <1>6, StaysCovered DEF SubmitMR, forgejo, At
<1>9. NoStrandedHead'
  BY <1>8 DEF NoStrandedHead, Covered, SubmitMR, forgejo
<1>10. OwnBranchOnly'
  BY <1>2, <1>6, DecidersStay DEF SubmitMR, forgejo
<1>11. OriginIsTrue' /\ FirstRows'
  BY <1>1, <1>2, <1>6, <1>7, RowsStay DEF SubmitMR
<1>. QED
  BY <1>2, <1>6, <1>7, <1>9, <1>10, <1>11, LocalIInv

LEMMA SubmitGoesOn ==
  ASSUME TInv, NEW s \in Submits, UNCHANGED lives, ~At(s, "new"),
         Ends(s) \/ \E step \in SubmitPCs \ {"new", "record"} : Goes(s, step)
  PROVE  /\ Keeps(s) /\ SubmitShape(s)' /\ ~At(s, "record")'
         /\ UNCHANGED Origin(s)
<1>1. job[s].base \in Branches /\ job[s].life <= lives /\ lives >= 0
  BY DEF TInv, TypeOK, Shapes, SubmitShape
<1>2. /\ Keeps(s) /\ job'[s].pc \in SubmitPCs \ {"new", "record"}
      /\ job'[s].caller = job[s].caller /\ job'[s].base = job[s].base
      /\ job'[s].life \in {0, job[s].life}
  BY DEF Ends, Goes, SubmitPCs
<1>. QED
  BY <1>1, <1>2 DEF SubmitShape, At, Origin

LEMMA DecideGoesOn ==
  ASSUME TInv, NEW d \in Deciders, UNCHANGED lives, ~At(d, "idle"),
         Ends(d) \/ \E step \in DecidePCs : Goes(d, step)
  PROVE  Keeps(d) /\ DecideShape(d)'
<1>1. DecideShape(d) /\ lives >= 0
  BY DEF TInv, TypeOK, Shapes
<1>2. CASE Ends(d)
  BY <1>1, <1>2, DeciderNotSubmit DEF Ends, DecideShape, DecidePCs, At
<1>3. CASE \E step \in DecidePCs : Goes(d, step)
  BY <1>1, <1>3 DEF Goes, DecideShape, At
<1>. QED
  BY <1>2, <1>3

\* What a step needs to be local when it leaves the requests alone.
LEMMA Unmoved ==
  ASSUME TInv
  PROVE  /\ heads \subseteq Submits /\ (~alive => heads = {} /\ mrs = <<>>)
         /\ records \in [Indices -> Branches \cup {None}]
         /\ told \subseteq Submits
         /\ faults \in 0 .. MaxFaults
         /\ (UNCHANGED mrs => Kept)
         /\ (UNCHANGED past => PastGrows)
         /\ TypeOK
BY UnchangedKept, UnchangedGrows DEF TInv, TypeOK, DeadEmpty

LEMMA PushStep ==
  ASSUME IInv, NEW s \in Submits, Push(s)
  PROVE  IInv'
<1>1. At(s, "push") /\ ~HasMR(s) /\ ~At(s, "new")
  BY DEF Push, IInv, TInv, Openers, Opener, HasMR, At
<1>2. s \in Calls /\ s \notin Deciders /\ TInv /\ TypeOK
  BY SubmitNotDecider DEF IInv, TInv
<1>3. \/ alive /\ heads' = heads \cup {s} /\ Goes(s, "create")
      \/ Ends(s) /\ UNCHANGED heads
  BY <1>2, Flow, SubmitStepPCs DEF Push
<1>4. /\ Keeps(s) /\ SubmitShape(s)' /\ ~At(s, "record")'
  BY <1>1, <1>2, <1>3, SubmitGoesOn DEF Push, SubmitPCs
<1>5. Local(s)
  BY <1>2, <1>3, <1>4, Unmoved DEF Push, Local
<1>6. Own(s)
  BY <1>1, <1>2, <1>4 DEF Own, OwnSubmit
<1>7. \A q \in heads : Covered(q)'
  BY <1>1, <1>2, <1>5, StaysCovered DEF Push, At
<1>8. NoStrandedHead'
  BY <1>3, <1>7 DEF NoStrandedHead, Covered, Goes
<1>9. OwnBranchOnly'
  BY <1>2, <1>5, DecidersStay DEF Push
<1>10. OriginIsTrue' /\ FirstRows'
  BY <1>1, <1>2, <1>5, <1>6, RowsStay DEF Push
<1>. QED
  BY <1>2, <1>5, <1>6, <1>8, <1>9, <1>10, LocalIInv

LEMMA CleanupStep ==
  ASSUME IInv, NEW s \in Submits, Cleanup(s)
  PROVE  IInv'
<1>1. At(s, "cleanup") /\ (HasMR(s) => "cut" \in past[s]) /\ ~At(s, "new")
  BY DEF Cleanup, IInv, TInv, Openers, Opener, HasMR, At
<1>2. s \in Calls /\ s \notin Deciders /\ TInv /\ TypeOK
  BY SubmitNotDecider DEF IInv, TInv
<1>3. /\ Kept /\ heads' = heads \ {s} /\ UNCHANGED <<alive, lives>>
      /\ \A i \in DOMAIN mrs : mrs'[i].by = mrs[i].by
      /\ \A i \in DOMAIN mrs : mrs[i].head # s => mrs'[i] = mrs[i]
  BY <1>2, DeleteBranchKept DEF Cleanup
<1>4. Ends(s)
  BY <1>2, Flow DEF Cleanup
<1>5. /\ Keeps(s) /\ SubmitShape(s)' /\ ~At(s, "record")' /\ UNCHANGED Origin(s)
  BY <1>1, <1>2, <1>3, <1>4, SubmitGoesOn
<1>6. Local(s)
  BY <1>2, <1>3, <1>5, Unmoved DEF Cleanup, Local
<1>7. Own(s)
  BY <1>1, <1>2, <1>4, <1>5 DEF Own, OwnSubmit, Ends, Told, Cleanup
<1>8. \A q \in heads \ {s} : Covered(q)'
  BY <1>2, <1>3, <1>6, StaysCovered
<1>9. NoStrandedHead'
  BY <1>3, <1>8 DEF NoStrandedHead, Covered
<1>10. OwnBranchOnly'
  BY <1>2, <1>3, <1>6, DecidersStay
<1>11. HasMR(s) => ~Recorded(s)'
  BY <1>1 DEF Recorded, Cleanup
<1>12. OriginIsTrue' /\ FirstRows'
  BY <1>2, <1>6, <1>7, <1>11, RowsStay DEF Cleanup
<1>. QED
  BY <1>2, <1>6, <1>7, <1>9, <1>10, <1>12, LocalIInv

LEMMA MailStep ==
  ASSUME IInv, NEW s \in Submits, Mail(s)
  PROVE  IInv'
<1>1. At(s, "mail") /\ ~At(s, "new")
  BY DEF Mail, At
<1>2. s \in Calls /\ s \notin Deciders /\ TInv /\ TypeOK
  BY SubmitNotDecider DEF IInv, TInv
<1>3. Ends(s)
  BY <1>2, Flow DEF Mail
<1>4. /\ Keeps(s) /\ SubmitShape(s)' /\ ~At(s, "record")' /\ UNCHANGED Origin(s)
  BY <1>1, <1>2, <1>3, SubmitGoesOn DEF Mail, forgejo
<1>5. Local(s)
  BY <1>2, <1>4, Unmoved DEF Mail, forgejo, Local
<1>6. Own(s)
  BY <1>2, <1>3, <1>4 DEF Own, OwnSubmit, Ends, Told, Mail
<1>7. \A q \in heads : Covered(q)'
  BY <1>1, <1>2, <1>5, StaysCovered DEF Mail, forgejo, At
<1>8. NoStrandedHead'
  BY <1>7 DEF NoStrandedHead, Covered, Mail, forgejo
<1>9. OwnBranchOnly'
  BY <1>2, <1>5, DecidersStay DEF Mail, forgejo
<1>10. Recorded(s)' => Recorded(s)
  BY <1>1 DEF Recorded, Mail, At
<1>11. OriginIsTrue' /\ FirstRows'
  BY <1>2, <1>5, <1>6, <1>10, RowsStay DEF Mail
<1>. QED
  BY <1>2, <1>5, <1>6, <1>8, <1>9, <1>11, LocalIInv

\* When the repository has to be made anew, see Turns below.
LEMMA EnsureStep ==
  ASSUME IInv, NEW s \in Submits, Ensure(s), UNCHANGED <<alive, lives>>
  PROVE  IInv'
<1>1. At(s, "ensure") /\ ~At(s, "new")
  BY DEF Ensure, At
<1>2. s \in Calls /\ s \notin Deciders /\ TInv /\ TypeOK
  BY SubmitNotDecider DEF IInv, TInv
<1>3. (Ends(s) /\ job[s].caller = job[s].base) \/ Goes(s, "mail")
  BY <1>2, Flow, SubmitStepPCs DEF Ensure
<1>4. /\ Keeps(s) /\ SubmitShape(s)' /\ ~At(s, "record")' /\ UNCHANGED Origin(s)
  BY <1>1, <1>2, <1>3, SubmitGoesOn DEF SubmitPCs
<1>5. Local(s)
  BY <1>2, <1>4, Unmoved DEF Ensure, Local
<1>6. Own(s)
  BY <1>2, <1>3, <1>4 DEF Own, OwnSubmit, Ends, Goes, At, Told
<1>7. \A q \in heads : Covered(q)'
  BY <1>1, <1>2, <1>5, StaysCovered DEF Ensure, At
<1>8. NoStrandedHead'
  BY <1>7 DEF NoStrandedHead, Covered, Ensure
<1>9. OwnBranchOnly'
  BY <1>2, <1>5, DecidersStay DEF Ensure
<1>10. Recorded(s)' => Recorded(s)
  BY <1>1 DEF Recorded, Ensure, At
<1>11. OriginIsTrue' /\ FirstRows'
  BY <1>2, <1>5, <1>6, <1>10, RowsStay DEF Ensure
<1>. QED
  BY <1>2, <1>5, <1>6, <1>8, <1>9, <1>11, LocalIInv

LEMMA CreateMRRefused ==
  ASSUME IInv, NEW s \in Submits, At(s, "create"), Goto(s, "cleanup"),
         UNCHANGED <<forgejo, records, told, past, faults>>
  PROVE  IInv'
<1>1. ~HasMR(s) /\ ~At(s, "new")
  BY DEF IInv, TInv, Openers, Opener, HasMR, At
<1>2. s \in Calls /\ s \notin Deciders /\ TInv /\ TypeOK
  BY SubmitNotDecider DEF IInv, TInv
<1>3. Goes(s, "cleanup")
  BY <1>2, Flow, SubmitStepPCs
<1>4. /\ Keeps(s) /\ SubmitShape(s)' /\ ~At(s, "record")'
  BY <1>1, <1>2, <1>3, SubmitGoesOn DEF SubmitPCs, forgejo
<1>5. Local(s)
  BY <1>2, <1>4, Unmoved DEF Local, forgejo
<1>6. Own(s)
  BY <1>1, <1>2, <1>4 DEF Own, OwnSubmit
<1>7. \A q \in heads \ {s} : Covered(q)'
  BY <1>2, <1>5, StaysCovered DEF forgejo
<1>8. NoStrandedHead'
  BY <1>3, <1>7 DEF NoStrandedHead, Covered, forgejo, Goes
<1>9. OwnBranchOnly'
  BY <1>2, <1>5, DecidersStay DEF forgejo
<1>10. OriginIsTrue' /\ FirstRows'
  BY <1>1, <1>2, <1>5, <1>6, RowsStay
<1>. QED
  BY <1>2, <1>5, <1>6, <1>8, <1>9, <1>10, LocalIInv

\* A request is opened, and its submit records it or, if the answer is lost,
\* takes the branch back.
Opens(s) ==
  /\ mrs' = Opened(s)
  /\ Keeps(s) /\ PastGrows /\ SubmitShape(s)' /\ faults' \in 0 .. MaxFaults
  /\ UNCHANGED <<alive, lives, heads, records, told>>
  /\ \/ At(s, "record")' /\ job'[s].index = Len(mrs) + 1 /\ job'[s].life = lives
     \/ At(s, "cleanup")' /\ "cut" \in past'[s]

LEMMA OpensTInv ==
  ASSUME TInv, NEW s \in Submits, At(s, "create"), s \in heads, Opens(s)
  PROVE  TInv'
<1>. PICK n : n = Len(mrs) + 1
  OBVIOUS
<1>1. /\ mrs' \in Seq(MR) /\ Len(mrs') = n
      /\ DOMAIN mrs' = DOMAIN mrs \cup {n} /\ n \notin DOMAIN mrs
      /\ \A i \in DOMAIN mrs : mrs'[i] = mrs[i]
      /\ mrs'[n] = [head |-> s, base |-> job[s].base, state |-> "open", by |-> None]
  BY OpenedGrows DEF Opens
<1>1a. mrs'[n].head = s
  BY <1>1
<1>2. n \in Indices /\ \A i \in DOMAIN mrs : mrs[i].head # s
  BY RoomForOne
<1>3. TypeOK'
  <2>1. Len(mrs') <= Cardinality(Submits)
    BY <1>1, <1>2 DEF Indices
  <2>. QED
    BY <1>1, <2>1 DEF TInv, TypeOK, Opens, Keeps, PastGrows
<1>4. Shapes'
  BY NamesAssumption DEF TInv, Shapes, SubmitShape, DecideShape, At, Opens, Keeps, Calls
<1>5. DeadEmpty'
  BY DEF TInv, DeadEmpty, Opens
<1>6. OneEach'
  BY <1>1, <1>1a, <1>2 DEF TInv, OneEach
<1>7. Openers'
  <2>1. Opener(n, s)'
    BY DEF Opens, Opener, At
  <2>2. ASSUME NEW i \in DOMAIN mrs, NEW q \in Submits, q # s, Opener(i, q)
        PROVE  Opener(i, q)'
    BY <2>2 DEF Opens, Keeps, PastGrows, Opener, At, Calls
  <2>3. \A i \in DOMAIN mrs : mrs[i].head \in Submits
    BY RequestTyped DEF TInv
  <2>. QED
    BY <1>1, <1>1a, <1>2, <2>1, <2>2, <2>3 DEF Openers, TInv
<1>. QED
  BY <1>3, <1>4, <1>5, <1>6, <1>7 DEF TInv

LEMMA OpensStep ==
  ASSUME IInv, NEW s \in Submits, At(s, "create"), s \in heads, Opens(s),
         UNCHANGED Origin(s)
  PROVE  IInv'
<1>. PICK n : n = Len(mrs) + 1
  OBVIOUS
<1>1. /\ DOMAIN mrs' = DOMAIN mrs \cup {n} /\ n \notin DOMAIN mrs
      /\ \A i \in DOMAIN mrs : mrs'[i] = mrs[i]
      /\ mrs'[n] = [head |-> s, base |-> job[s].base,
                                   state |-> "open", by |-> None]
  BY OpenedGrows DEF Opens, IInv
<1>2. n \in Indices /\ \A i \in DOMAIN mrs : mrs[i].head # s
  BY RoomForOne DEF IInv
<1>3. \A i \in DOMAIN mrs : mrs[i].head \in Submits
  BY RequestTyped DEF IInv, TInv
<1>4. alive /\ lives \in Nat \ {0}
  BY DEF IInv, TInv, DeadEmpty, TypeOK
<1>5. \A q \in Submits \ {s} : job'[q] = job[q]
  BY DEF Opens, Keeps, Calls
<1>6. \A d \in Deciders : job'[d] = job[d]
  BY SubmitNotDecider DEF Opens, Keeps, Calls
<1>7. \A q \in Submits : past[q] \subseteq past'[q]
  BY DEF Opens, PastGrows
<1>8. TInv'
  BY OpensTInv DEF IInv
<1>9. RecordFresh'
  BY <1>1, <1>5 DEF IInv, RecordFresh, Opens, At, Fresh
<1>10. DecideFresh'
  BY <1>1, <1>6 DEF IInv, DecideFresh, Knows, Opens, At, Fresh, Authorized
<1>11. FirstRows'
  BY <1>1 DEF IInv, FirstRows, Opens
<1>12. NoStrandedHead'
  <2>1. IsOpen(s)'
    BY <1>1 DEF IsOpen
  <2>2. ASSUME NEW q \in heads, q # s
        PROVE  Covered(q)'
    <3>1. q \in Submits /\ Covered(q)
      BY DEF IInv, TInv, TypeOK, NoStrandedHead, Covered
    <3>2. IsOpen(q) => IsOpen(q)'
      BY <1>1 DEF IsOpen
    <3>. QED
      BY <2>2, <3>1, <3>2, <1>5, <1>6, <1>7 DEF Covered, At
  <2>. QED
    BY <2>1, <2>2 DEF NoStrandedHead, Covered, Opens
<1>13. OriginIsTrue'
  <2>1. ASSUME NEW i \in DOMAIN mrs
        PROVE  RowTrue(i)'
    <3>. PICK q \in Submits : q = mrs[i].head
      BY <1>3
    <3>1. RowTrue(i) /\ q # s
      BY <1>2 DEF IInv, OriginIsTrue, RowTrue
    <3>2. Origin(q)' = Origin(q) /\ (Recorded(q)' => Recorded(q))
      BY <1>5, <1>7, <3>1 DEF Origin, Recorded
    <3>. QED
      BY <1>1, <1>7, <3>1, <3>2 DEF RowTrue, Opens
  <2>2. RowTrue(n)'
    <3>1. ~Recorded(s)'
      BY DEF Opens, Recorded, At
    <3>2. records'[n] = None \/ lives' > 1
      BY <1>1, <1>2, <1>4 DEF IInv, FirstRows, Opens
    <3>. QED
      BY <1>1, <3>1, <3>2 DEF RowTrue
  <2>. QED
    BY <1>1, <2>1, <2>2 DEF OriginIsTrue, RowTrue
<1>14. OwnBranchOnly'
  BY <1>1, <1>3, <1>7 DEF IInv, OwnBranchOnly
<1>15. ReviewerTold'
  <2>1. ASSUME NEW i \in DOMAIN mrs, At(mrs[i].head, "done")'
        PROVE  Told(mrs[i].head)'
    BY <1>1, <1>2, <1>3, <1>5, <1>7, <2>1 DEF IInv, ReviewerTold, Told, Opens, At
  <2>2. ~At(s, "done")'
    BY DEF Opens, At
  <2>. QED
    BY <1>1, <2>1, <2>2 DEF ReviewerTold, Told
<1>. QED
  BY <1>8, <1>9, <1>10, <1>11, <1>12, <1>13, <1>14, <1>15 DEF IInv

LEMMA CreateMRStep ==
  ASSUME IInv, NEW s \in Submits, CreateMR(s)
  PROVE  IInv'
<1>1. At(s, "create") /\ TInv /\ TypeOK /\ s \in Calls
  BY SubmitNotDecider DEF CreateMR, IInv, TInv
<1>2. CASE Goto(s, "cleanup") /\ UNCHANGED mrs
  BY <1>1, <1>2, CreateMRRefused DEF CreateMR, forgejo
<1>3. CASE /\ s \in heads /\ mrs' = Opened(s)
           /\ job' = [job EXCEPT ![s].pc = "record", ![s].index = Len(mrs) + 1,
                                 ![s].life = lives]
  <2>1. Len(mrs) + 1 \in Indices /\ lives \in (0 .. MaxLives) \ {0}
    BY <1>1, RoomForOne DEF TypeOK
  <2>. DEFINE opened == [job[s] EXCEPT !.pc = "record", !.index = Len(mrs) + 1, !.life = lives]
  <2>2. job[s] \in Job /\ "record" \in SubmitPCs \cup DecidePCs
    BY <1>1 DEF TypeOK, SubmitPCs
  <2>3. /\ opened \in Job /\ opened.pc = "record" /\ opened.index = Len(mrs) + 1
        /\ opened.life = lives /\ opened.caller = job[s].caller /\ opened.base = job[s].base
    BY <2>1, <2>2 DEF Job
  <2>4. job' = [job EXCEPT ![s] = opened]
    BY <1>3
  <2>. HIDE DEF opened
  <2>5. Keeps(s) /\ job'[s] = opened
    BY <1>1, <2>3, <2>4 DEF TypeOK, Keeps
  <2>6. SubmitShape(s)' /\ UNCHANGED Origin(s) /\ At(s, "record")'
    BY <1>1, <2>1, <2>3, <2>5 DEF SubmitShape, SubmitPCs, At, TInv, Shapes, Origin, CreateMR
  <2>7. Opens(s)
    BY <1>1, <1>3, <2>3, <2>5, <2>6, Unmoved DEF Opens, CreateMR
  <2>. QED
    BY <1>1, <1>3, <2>6, <2>7, OpensStep
<1>. QED
  BY <1>2, <1>3 DEF CreateMR

LEMMA LoseMRStep ==
  ASSUME IInv, NEW s \in Submits, LoseMR(s)
  PROVE  IInv'
<1>1. At(s, "create") /\ ~At(s, "new") /\ s \in heads /\ TInv /\ TypeOK /\ s \in Calls
  BY SubmitNotDecider DEF LoseMR, IInv, TInv, At
<1>2. Goes(s, "cleanup")
  BY <1>1, Flow, SubmitStepPCs DEF LoseMR
<1>3. Keeps(s) /\ SubmitShape(s)' /\ UNCHANGED Origin(s)
  BY <1>1, <1>2, SubmitGoesOn DEF SubmitPCs, LoseMR
<1>4. PastGrows /\ "cut" \in past'[s]
  BY <1>1, MarkedGrows DEF LoseMR, Causes
<1>5. faults' \in 0 .. MaxFaults
  BY <1>1, BoundsAssumption DEF LoseMR, Fail, TypeOK
<1>6. Opens(s)
  BY <1>2, <1>3, <1>4, <1>5 DEF Opens, LoseMR, Goes, At
<1>. QED
  BY <1>1, <1>3, <1>6, OpensStep

LEMMA AddRecordStep ==
  ASSUME IInv, NEW s \in Submits, AddRecord(s)
  PROVE  IInv'
<1>1. At(s, "record") /\ ~At(s, "new")
  BY DEF AddRecord, At
<1>2. s \in Calls /\ s \notin Deciders /\ TInv /\ TypeOK
  BY SubmitNotDecider DEF IInv, TInv
<1>3. Goes(s, "ensure")
  BY <1>2, Flow, SubmitStepPCs DEF AddRecord
<1>4. /\ Keeps(s) /\ SubmitShape(s)' /\ ~At(s, "record")' /\ UNCHANGED Origin(s)
  BY <1>1, <1>2, <1>3, SubmitGoesOn DEF SubmitPCs, AddRecord, forgejo
<1>5. /\ PastGrows
      /\ Stale(s) /\ job[s].index \in DOMAIN mrs =>
           "overtaken" \in past'[mrs[job[s].index].head]
  BY <1>2, OvertakingGrows DEF AddRecord
<1>6. PICK j \in Indices : j = job[s].index
  BY <1>1, <1>2 DEF TInv, Shapes, SubmitShape
<1>7. /\ Origin(s) \in Branches \cup {None}
      /\ records' \in [Indices -> Branches \cup {None}] /\ records'[j] = Origin(s)
      /\ \A i \in Indices \ {j} : records'[i] = records[i]
  BY <1>2, <1>6, JobTyped DEF AddRecord, Origin, TypeOK
<1>8. Local(s)
  BY <1>2, <1>4, <1>5, <1>7, Unmoved DEF AddRecord, Local, forgejo
<1>9. Own(s)
  BY <1>2, <1>3, <1>4 DEF Own, OwnSubmit, Goes, At
<1>10. \A q \in heads : Covered(q)'
  BY <1>1, <1>2, <1>8, StaysCovered DEF AddRecord, forgejo, At
<1>11. NoStrandedHead'
  BY <1>10 DEF NoStrandedHead, Covered, AddRecord, forgejo
<1>12. OwnBranchOnly'
  BY <1>2, <1>8, DecidersStay DEF AddRecord, forgejo
<1>13. OriginIsTrue'
  <2>1. ASSUME NEW i \in DOMAIN mrs, i # j
        PROVE  RowTrue(i)'
    <3>1. mrs[i].head # s
      BY <1>1, <1>2, <1>6, <2>1 DEF TInv, Openers, Opener
    <3>2. i \in Indices
      BY <1>2, RequestTyped
    <3>. QED
      BY <1>2, <1>7, <1>8, <1>9, <2>1, <3>1, <3>2, RowStays
  <2>2. ASSUME j \in DOMAIN mrs
        PROVE  RowTrue(j)'
    <3>1. mrs' = mrs
      BY DEF AddRecord, forgejo
    <3>2. CASE Stale(s)
      BY <1>5, <1>6, <2>2, <3>1, <3>2 DEF RowTrue
    <3>3. CASE ~Stale(s)
      <4>1. alive
        BY <1>2, <2>2 DEF TInv, DeadEmpty
      <4>2. mrs[j].head = s
        BY <1>1, <1>6, <3>3, <4>1 DEF IInv, RecordFresh, Fresh, Stale
      <4>. QED
        BY <1>4, <1>7, <3>1, <4>2 DEF RowTrue
    <3>. QED
      BY <3>2, <3>3
  <2>. QED
    BY <2>1, <2>2, <1>8 DEF OriginIsTrue, RowTrue, Local, Kept
<1>14. FirstRows'
  <2>1. lives = 1 => job[s].life = lives
    BY <1>1, <1>2, JobTyped DEF TInv, Shapes, SubmitShape
  <2>2. lives = 1 /\ alive => j \in DOMAIN mrs
    BY <1>1, <1>6, <2>1 DEF IInv, RecordFresh, Fresh
  <2>. QED
    BY <1>7, <2>2 DEF IInv, FirstRows, AddRecord, forgejo
<1>. QED
  BY <1>2, <1>8, <1>9, <1>11, <1>12, <1>13, <1>14, LocalIInv

-----------------------------------------------------------------------------
(* The steps of MergeMR and CloseMR.                                       *)

LEMMA DecidePCsAre ==
  {"idle", "merge", "close", "delHead", "drop"} = DecidePCs /\ DecidePCs \subseteq PCs
BY DEF DecidePCs, PCs

LEMMA GetMRStep ==
  ASSUME IInv, NEW d \in Deciders, GetMR(d)
  PROVE  IInv'
<1>1. At(d, "idle") /\ alive
  BY DEF GetMR
<1>2. d \in Calls /\ d \notin Submits /\ TInv /\ TypeOK
  BY DeciderNotSubmit DEF IInv, TInv
<1>3. PICK op \in {"merge", "close"}, c \in Branches \cup {None}, i \in DOMAIN mrs :
        /\ Authorized(c, mrs[i])
        /\ job' = [job EXCEPT ![d] = [pc |-> op, caller |-> c, base |-> None,
                       index |-> i, head |-> mrs[i].head, life |-> lives]]
  BY DEF GetMR
<1>4. mrs[i].head \in Submits /\ i \in Indices /\ lives \in (0 .. MaxLives) \ {0}
      /\ op \in DecidePCs
  BY <1>2, RequestTyped, DecidePCsAre DEF TypeOK
<1>5. [pc |-> op, caller |-> c, base |-> None, index |-> i,
       head |-> mrs[i].head, life |-> lives] \in Job
  BY <1>4 DEF Job
<1>6. /\ Keeps(d) /\ job'[d].pc = op /\ job'[d].caller = c /\ job'[d].index = i
      /\ job'[d].head = mrs[i].head /\ job'[d].life = lives
  BY <1>2, <1>3, <1>5 DEF TypeOK, Keeps
<1>7. Local(d)
  BY <1>2, <1>6, Unmoved DEF GetMR, Local, forgejo
<1>8. Own(d)
  <2>1. DecideShape(d)'
    BY <1>4, <1>6 DEF DecideShape, GetMR, forgejo
  <2>2. Knows(d)'
    BY <1>3, <1>6 DEF Knows, GetMR, forgejo
  <2>. QED
    BY <1>2, <2>1, <2>2 DEF Own, OwnDecide
<1>9. \A q \in heads : Covered(q)'
  BY <1>1, <1>2, <1>7, StaysCovered DEF GetMR, forgejo, At
<1>10. NoStrandedHead'
  BY <1>9 DEF NoStrandedHead, Covered, GetMR, forgejo
<1>11. OwnBranchOnly'
  BY <1>2, <1>7, DecidersStay DEF GetMR, forgejo
<1>12. OriginIsTrue' /\ FirstRows'
  BY <1>2, <1>7, <1>8, RowsStay DEF GetMR
<1>. QED
  BY <1>2, <1>7, <1>8, <1>10, <1>11, <1>12, LocalIInv

\* A call that ends without having done anything.
LEMMA DecideEnds ==
  ASSUME IInv, NEW d \in Deciders, job[d].pc \in {"merge", "close"}, End(d),
         UNCHANGED <<forgejo, records, told, past, faults>>
  PROVE  IInv'
<1>1. ~At(d, "idle") /\ ~At(d, "delHead")
  BY DEF At
<1>2. d \in Calls /\ d \notin Submits /\ TInv /\ TypeOK
  BY DeciderNotSubmit DEF IInv, TInv
<1>3. Ends(d)
  BY <1>2, Flow
<1>4. Keeps(d) /\ DecideShape(d)'
  BY <1>1, <1>2, <1>3, DecideGoesOn DEF forgejo
<1>5. Local(d)
  BY <1>2, <1>4, Unmoved DEF Local, forgejo
<1>6. Own(d)
  BY <1>2, <1>3, <1>4 DEF Own, OwnDecide, Ends, Knows, At
<1>7. \A q \in heads : Covered(q)'
  BY <1>1, <1>2, <1>5, StaysCovered DEF forgejo
<1>8. NoStrandedHead'
  BY <1>7 DEF NoStrandedHead, Covered, forgejo
<1>9. OwnBranchOnly'
  BY <1>2, <1>5, DecidersStay DEF forgejo
<1>10. OriginIsTrue' /\ FirstRows'
  BY <1>2, <1>5, <1>6, RowsStay
<1>. QED
  BY <1>2, <1>5, <1>6, <1>8, <1>9, <1>10, LocalIInv

\* The request under the index gets its state: it is the one the call has
\* read, or marked overtaken.
LEMMA Settles ==
  ASSUME IInv, NEW d \in Deciders, job[d].pc \in {"merge", "close"},
         NEW i \in DOMAIN mrs, i = job[d].index, Overtaking(d),
         NEW state \in {"merged", "closed"}, mrs' = Settled(i, state, job[d].caller),
         NEW step \in {"delHead", "drop"}, Goto(d, step),
         heads' \in {heads, heads \ {mrs[i].head}},
         heads' = heads => step = "delHead",
         UNCHANGED <<alive, lives, records, told, faults>>
  PROVE  IInv'
<1>1. ~At(d, "idle") /\ ~At(d, "delHead")
  BY DEF At
<1>2. d \in Calls /\ d \notin Submits /\ TInv /\ TypeOK
  BY DeciderNotSubmit DEF IInv, TInv
<1>3. Goes(d, step) /\ step \in DecidePCs
  BY <1>2, Flow, DecidePCsAre
<1>4. Keeps(d) /\ DecideShape(d)'
  BY <1>1, <1>2, <1>3, DecideGoesOn
<1>5. Kept /\ mrs'[i].state = state /\ mrs'[i].by = job[d].caller
      /\ \A j \in DOMAIN mrs \ {i} : mrs'[j] = mrs[j]
  BY <1>2, SettledKept, JobTyped
<1>6. PastGrows /\ (Stale(d) => "overtaken" \in past'[mrs[i].head])
  BY <1>2, OvertakingGrows
<1>7. Local(d)
  BY <1>2, <1>4, <1>5, <1>6, Unmoved DEF Local
<1>8. alive
  BY <1>2 DEF TInv, DeadEmpty
<1>9. ~Stale(d) => mrs[i].head = job[d].head /\ Authorized(job[d].caller, mrs[i])
  BY <1>1, <1>8 DEF IInv, DecideFresh, Knows, Fresh, Stale
<1>10. Own(d)
  <2>1. Knows(d)'
    BY <1>3, <1>5, <1>8, <1>9 DEF Knows, Goes, Fresh, Stale, At, Kept
  <2>. QED
    BY <1>2, <1>4, <2>1 DEF Own, OwnDecide
<1>11. NoStrandedHead'
  <2>1. \A q \in heads \ {mrs[i].head} : Covered(q)'
    BY <1>1, <1>2, <1>5, <1>7, StaysCovered
  <2>2. heads' = heads => Covered(mrs[i].head)' \/ mrs[i].head \notin heads
    <3>1. PICK s \in Submits : s = mrs[i].head
      BY <1>2, RequestTyped
    <3>2. heads' = heads => Covered(s)'
      BY <1>3, <1>6, <1>9, <3>1 DEF Covered, Goes, At
    <3>. QED
      BY <3>1, <3>2, <1>5 DEF Kept
  <2>. QED
    BY <2>1, <2>2, <1>5 DEF NoStrandedHead, Covered, Kept
<1>12. OwnBranchOnly'
  <2>1. ASSUME NEW j \in DOMAIN mrs
        PROVE  (\/ mrs[j].by \in {None, mrs[j].base}
                \/ "overtaken" \in past[mrs[j].head])'
    <3>1. past[mrs[j].head] \subseteq past'[mrs[j].head]
      BY <1>2, <1>6, RequestTyped DEF PastGrows
    <3>. QED
      BY <3>1, <1>5, <1>6, <1>9 DEF Kept, Authorized, IInv, OwnBranchOnly
  <2>. QED
    BY <2>1, <1>5 DEF OwnBranchOnly, Kept
<1>13. OriginIsTrue' /\ FirstRows'
  BY <1>2, <1>7, <1>10, RowsStay
<1>. QED
  BY <1>2, <1>7, <1>10, <1>11, <1>12, <1>13, LocalIInv

LEMMA MergeStep ==
  ASSUME IInv, NEW d \in Deciders, Merge(d)
  PROVE  IInv'
<1>1. At(d, "merge") /\ TInv /\ TypeOK
  BY DEF Merge, IInv, TInv
<1>2. CASE End(d) /\ UNCHANGED <<heads, mrs, past>>
  BY <1>1, <1>2, DecideEnds DEF Merge, forgejo, At
<1>3. CASE \E i \in DOMAIN mrs :
             /\ i = job[d].index /\ mrs' = Settled(i, "merged", job[d].caller)
             /\ heads' = heads \ {mrs[i].head} /\ mrs[i].head \in heads
             /\ Goto(d, "drop") /\ Overtaking(d)
  <2>. PICK i \in DOMAIN mrs :
             /\ i = job[d].index /\ mrs' = Settled(i, "merged", job[d].caller)
             /\ heads' = heads \ {mrs[i].head} /\ mrs[i].head \in heads
             /\ Goto(d, "drop") /\ Overtaking(d)
    BY <1>3
  <2>1. heads' # heads
    OBVIOUS
  <2>. QED
    BY <1>1, <2>1, Settles DEF Merge, At
<1>. QED
  BY <1>2, <1>3 DEF Merge

LEMMA CloseStep ==
  ASSUME IInv, NEW d \in Deciders, Close(d)
  PROVE  IInv'
<1>1. At(d, "close") /\ d \in Calls /\ d \notin Submits /\ TInv /\ TypeOK
  BY DeciderNotSubmit DEF Close, IInv, TInv
<1>2. CASE End(d) /\ UNCHANGED <<mrs, past>>
  BY <1>1, <1>2, DecideEnds DEF Close, forgejo, At
<1>3. CASE \E i \in DOMAIN mrs :
             /\ i = job[d].index /\ mrs' = Settled(i, "closed", job[d].caller)
             /\ Goto(d, "delHead") /\ Overtaking(d)
  BY <1>1, <1>3, Settles DEF Close, At
<1>4. CASE \E i \in DOMAIN mrs :
             /\ i = job[d].index /\ mrs' = mrs /\ mrs[i].state # "open"
             /\ Goto(d, "delHead") /\ Overtaking(d)
  <2>. PICK i \in DOMAIN mrs :
             /\ i = job[d].index /\ mrs' = mrs /\ mrs[i].state # "open"
             /\ Goto(d, "delHead") /\ Overtaking(d)
    BY <1>4
  <2>1. Goes(d, "delHead")
    BY <1>1, Flow, SubmitStepPCs
  <2>2. Keeps(d) /\ DecideShape(d)'
    BY <1>1, <2>1, DecideGoesOn, DecidePCsAre DEF Close, At
  <2>3. Local(d)
    BY <1>1, <2>2, Unmoved, OvertakingGrows DEF Local, Close
  <2>4. Own(d)
    <3>1. Fresh(d)' => mrs[i].head = job[d].head
      BY <1>1, <2>1 DEF IInv, DecideFresh, Knows, Fresh, Goes, Close, At
    <3>. QED
      BY <1>1, <2>1, <2>2, <3>1 DEF Own, OwnDecide, Knows, Goes, At
  <2>5. \A q \in heads : Covered(q)'
    BY <1>1, <2>3, StaysCovered DEF At
  <2>6. NoStrandedHead'
    BY <2>5 DEF NoStrandedHead, Covered, Close
  <2>7. OwnBranchOnly'
    BY <1>1, <2>3, DecidersStay
  <2>8. OriginIsTrue' /\ FirstRows'
    BY <1>1, <2>3, <2>4, RowsStay DEF Close
  <2>. QED
    BY <1>1, <2>3, <2>4, <2>6, <2>7, <2>8, LocalIInv
<1>. QED
  BY <1>2, <1>3, <1>4 DEF Close

LEMMA DeleteHeadStep ==
  ASSUME IInv, NEW d \in Deciders, DeleteHead(d)
  PROVE  IInv'
<1>1. At(d, "delHead") /\ ~At(d, "idle")
  BY DEF DeleteHead, At
<1>2. d \in Calls /\ d \notin Submits /\ TInv /\ TypeOK
  BY DeciderNotSubmit DEF IInv, TInv
<1>3. PICK s \in Submits : s = job[d].head
  BY <1>1, <1>2 DEF TInv, Shapes, DecideShape
<1>4. /\ Kept /\ heads' = heads \ {s} /\ UNCHANGED <<alive, lives>>
      /\ \A i \in DOMAIN mrs : mrs'[i].by = mrs[i].by
      /\ \A i \in DOMAIN mrs : mrs[i].head # s => mrs'[i] = mrs[i]
  BY <1>2, <1>3, DeleteBranchKept DEF DeleteHead
<1>5. Goes(d, "drop")
  BY <1>2, Flow, SubmitStepPCs DEF DeleteHead
<1>6. Keeps(d) /\ DecideShape(d)'
  BY <1>1, <1>2, <1>4, <1>5, DecideGoesOn, DecidePCsAre
<1>7. Local(d)
  BY <1>2, <1>4, <1>6, Unmoved DEF DeleteHead, Local
<1>8. Own(d)
  <2>1. Knows(d)'
    BY <1>1, <1>4, <1>5 DEF IInv, DecideFresh, Knows, Goes, Fresh, At, Kept
  <2>. QED
    BY <1>2, <1>6, <2>1 DEF Own, OwnDecide
<1>9. \A q \in heads \ {s} : Covered(q)'
  BY <1>1, <1>2, <1>3, <1>4, <1>7, StaysCovered DEF At
<1>10. NoStrandedHead'
  BY <1>4, <1>9 DEF NoStrandedHead, Covered
<1>11. OwnBranchOnly'
  BY <1>2, <1>4, <1>7, DecidersStay
<1>12. OriginIsTrue' /\ FirstRows'
  BY <1>2, <1>7, <1>8, RowsStay DEF DeleteHead
<1>. QED
  BY <1>2, <1>7, <1>8, <1>10, <1>11, <1>12, LocalIInv

LEMMA DropRecordStep ==
  ASSUME IInv, NEW d \in Deciders, DropRecord(d)
  PROVE  IInv'
<1>1. At(d, "drop") /\ ~At(d, "idle") /\ ~At(d, "delHead")
  BY DEF DropRecord, At
<1>2. d \in Calls /\ d \notin Submits /\ TInv /\ TypeOK
  BY DeciderNotSubmit DEF IInv, TInv
<1>3. Ends(d)
  BY <1>2, Flow DEF DropRecord
<1>4. Keeps(d) /\ DecideShape(d)'
  BY <1>1, <1>2, <1>3, DecideGoesOn DEF DropRecord, forgejo
<1>5. /\ PastGrows
      /\ Stale(d) /\ job[d].index \in DOMAIN mrs =>
           "overtaken" \in past'[mrs[job[d].index].head]
  BY <1>2, OvertakingGrows DEF DropRecord
<1>6. PICK j \in Indices : j = job[d].index
  BY <1>1, <1>2 DEF TInv, Shapes, DecideShape
<1>7. /\ records' \in [Indices -> Branches \cup {None}] /\ records'[j] = None
      /\ \A i \in Indices \ {j} : records'[i] = records[i]
  BY <1>2, <1>6 DEF DropRecord, TypeOK
<1>8. Local(d)
  BY <1>2, <1>4, <1>5, <1>7, Unmoved DEF DropRecord, Local, forgejo
<1>9. Own(d)
  BY <1>2, <1>3, <1>4 DEF Own, OwnDecide, Ends, Knows, At
<1>10. \A q \in heads : Covered(q)'
  BY <1>1, <1>2, <1>8, StaysCovered DEF DropRecord, forgejo, At
<1>11. NoStrandedHead'
  BY <1>10 DEF NoStrandedHead, Covered, DropRecord, forgejo
<1>12. OwnBranchOnly'
  BY <1>2, <1>8, DecidersStay DEF DropRecord, forgejo
<1>13. OriginIsTrue'
  <2>1. ASSUME NEW i \in DOMAIN mrs, i # j
        PROVE  RowTrue(i)'
    <3>1. mrs[i].head # d /\ i \in Indices
      BY <1>2, RequestTyped
    <3>. QED
      BY <1>2, <1>7, <1>8, <1>9, <2>1, <3>1, RowStays
  <2>2. ASSUME j \in DOMAIN mrs
        PROVE  RowTrue(j)'
    <3>1. mrs' = mrs
      BY DEF DropRecord, forgejo
    <3>2. CASE Stale(d)
      BY <1>5, <1>6, <2>2, <3>1, <3>2 DEF RowTrue
    <3>3. CASE ~Stale(d)
      <4>1. alive
        BY <1>2, <2>2 DEF TInv, DeadEmpty
      <4>2. mrs[j].state # "open"
        BY <1>1, <1>6, <3>3, <4>1 DEF IInv, DecideFresh, Knows, Fresh, Stale, At
      <4>. QED
        BY <1>7, <3>1, <4>2 DEF RowTrue
    <3>. QED
      BY <3>2, <3>3
  <2>. QED
    BY <2>1, <2>2, <1>8 DEF OriginIsTrue, RowTrue, Local, Kept
<1>14. FirstRows'
  BY <1>7 DEF IInv, FirstRows, DropRecord, forgejo
<1>. QED
  BY <1>2, <1>8, <1>9, <1>11, <1>12, <1>13, <1>14, LocalIInv

-----------------------------------------------------------------------------
(* Failures.                                                               *)

LEMMA FailTyped ==
  ASSUME TypeOK, Fail
  PROVE  faults' \in 0 .. MaxFaults
BY BoundsAssumption DEF TypeOK, Fail

LEMMA LosePushStep ==
  ASSUME IInv, NEW s \in Submits, LosePush(s)
  PROVE  IInv'
<1>1. At(s, "push") /\ ~HasMR(s) /\ ~At(s, "new")
  BY DEF LosePush, IInv, TInv, Openers, Opener, HasMR, At
<1>2. s \in Calls /\ s \notin Deciders /\ TInv /\ TypeOK
  BY SubmitNotDecider DEF IInv, TInv
<1>3. Ends(s)
  BY <1>2, Flow DEF LosePush
<1>4. /\ Keeps(s) /\ SubmitShape(s)' /\ ~At(s, "record")'
  BY <1>1, <1>2, <1>3, SubmitGoesOn DEF LosePush
<1>5. PastGrows /\ "cut" \in past'[s]
  BY <1>2, MarkedGrows DEF LosePush, Causes
<1>6. Local(s)
  BY <1>2, <1>4, <1>5, FailTyped, Unmoved DEF LosePush, Local
<1>7. Own(s)
  BY <1>1, <1>2, <1>4 DEF Own, OwnSubmit
<1>8. \A q \in heads : Covered(q)'
  BY <1>1, <1>2, <1>6, StaysCovered DEF LosePush, At
<1>9. NoStrandedHead'
  BY <1>5, <1>8 DEF NoStrandedHead, Covered, LosePush
<1>10. OwnBranchOnly'
  BY <1>2, <1>6, DecidersStay DEF LosePush
<1>11. OriginIsTrue' /\ FirstRows'
  BY <1>1, <1>2, <1>6, <1>7, RowsStay DEF LosePush
<1>. QED
  BY <1>2, <1>6, <1>7, <1>9, <1>10, <1>11, LocalIInv

\* A call fails: nothing but itself and its history changes.
LEMMA SubmitFails ==
  ASSUME IInv, NEW s \in Submits, ~At(s, "new"),
         UNCHANGED <<forgejo, records, told>>, faults' \in 0 .. MaxFaults,
         NEW cause \in Causes, past' = Marked(s, cause),
         Ends(s) \/ \E step \in SubmitPCs \ {"new", "record"} : Goes(s, step),
         job[s].pc \in {"create", "cleanup"} => cause \in {"cut", "skipped"},
         HasMR(s) =>
           /\ job'[s].pc \in {"ensure", "mail", "done"}
           /\ Recorded(s)' => Recorded(s)
           /\ At(s, "done")' => Told(s)'
  PROVE  IInv'
<1>2. s \in Calls /\ s \notin Deciders /\ TInv /\ TypeOK
  BY SubmitNotDecider DEF IInv, TInv
<1>3. /\ Keeps(s) /\ SubmitShape(s)' /\ ~At(s, "record")' /\ UNCHANGED Origin(s)
  BY <1>2, SubmitGoesOn DEF forgejo
<1>4. PastGrows /\ cause \in past'[s]
  BY <1>2, MarkedGrows
<1>5. Local(s)
  BY <1>2, <1>3, <1>4, Unmoved DEF Local, forgejo
<1>6. Own(s)
  BY <1>2, <1>3 DEF Own, OwnSubmit
<1>7. \A q \in heads \ {s} : Covered(q)'
  BY <1>2, <1>5, StaysCovered DEF forgejo
<1>8. s \in heads => Covered(s)'
  <2>1. CASE job[s].pc \in {"create", "cleanup"}
    BY <1>4, <2>1 DEF Covered
  <2>2. CASE job[s].pc \notin {"create", "cleanup"}
    BY <1>2, <1>5, <2>2, StaysCovered DEF forgejo
  <2>. QED
    BY <2>1, <2>2
<1>9. NoStrandedHead'
  BY <1>7, <1>8 DEF NoStrandedHead, Covered, forgejo
<1>10. OwnBranchOnly'
  BY <1>2, <1>5, DecidersStay DEF forgejo
<1>11. OriginIsTrue' /\ FirstRows'
  BY <1>2, <1>5, <1>6, RowsStay
<1>. QED
  BY <1>2, <1>5, <1>6, <1>9, <1>10, <1>11, LocalIInv

LEMMA DecideFails ==
  ASSUME IInv, NEW d \in Deciders, ~At(d, "idle"),
         UNCHANGED <<forgejo, records, told>>, faults' \in 0 .. MaxFaults,
         NEW cause \in {"cut", "skipped"}, past' = Marked(job[d].head, cause),
         Ends(d) \/ (At(d, "delHead") /\ Goes(d, "drop"))
  PROVE  IInv'
<1>2. d \in Calls /\ d \notin Submits /\ TInv /\ TypeOK
  BY DeciderNotSubmit DEF IInv, TInv
<1>1. PICK s \in Submits : s = job[d].head
  BY <1>2 DEF TInv, Shapes, DecideShape
<1>3. Keeps(d) /\ DecideShape(d)'
  BY <1>2, DecideGoesOn, DecidePCsAre DEF forgejo
<1>4. PastGrows /\ cause \in past'[s]
  BY <1>1, <1>2, MarkedGrows DEF Causes
<1>5. Local(d)
  BY <1>2, <1>3, <1>4, Unmoved DEF Local, forgejo
<1>6. Own(d)
  <2>1. CASE Ends(d)
    BY <1>2, <1>3, <2>1 DEF Own, OwnDecide, Ends, Knows, At
  <2>2. CASE At(d, "delHead") /\ Goes(d, "drop")
    BY <1>2, <1>3, <2>2 DEF Own, OwnDecide, IInv, DecideFresh, Goes, Knows, At, Fresh, forgejo
  <2>. QED
    BY <2>1, <2>2
<1>7. \A q \in heads \ {s} : Covered(q)'
  <2>1. \A q \in heads : q # d
    BY <1>2 DEF TypeOK
  <2>. QED
    BY <1>1, <1>2, <1>5, <2>1, StaysCovered DEF forgejo
<1>8. Covered(s)'
  BY <1>4 DEF Covered
<1>9. NoStrandedHead'
  BY <1>7, <1>8 DEF NoStrandedHead, Covered, forgejo
<1>10. OwnBranchOnly'
  BY <1>2, <1>5, DecidersStay DEF forgejo
<1>11. OriginIsTrue' /\ FirstRows'
  BY <1>2, <1>5, <1>6, RowsStay
<1>. QED
  BY <1>2, <1>5, <1>6, <1>9, <1>10, <1>11, LocalIInv

LEMMA InterruptStep ==
  ASSUME IInv, NEW p \in Calls, Interrupt(p)
  PROVE  IInv'
<1>1. Ends(p) /\ faults' \in 0 .. MaxFaults /\ TInv /\ TypeOK
  BY Flow, FailTyped DEF Interrupt, IInv, TInv
<1>2. CASE p \in Submits
  <2>1. ~At(p, "new") /\ past' = Marked(p, "cut") /\ "cut" \in Causes
    BY <1>2, NamesAssumption DEF Interrupt, At, Subject, Causes
  <2>2. "cut" \in past'[p]
    BY <1>1, <1>2, <2>1, MarkedGrows
  <2>3. HasMR(p) => /\ job'[p].pc \in {"ensure", "mail", "done"}
                    /\ ~Recorded(p)' /\ Told(p)'
    BY <1>1, <1>2, <2>2 DEF Ends, Recorded, Told
  <2>. QED
    BY <1>1, <1>2, <2>1, <2>3, SubmitFails DEF Interrupt
<1>3. CASE p \in Deciders
  <2>1. ~At(p, "idle") /\ p \notin Submits
    BY <1>3, DeciderNotSubmit DEF Interrupt, At
  <2>2. job[p].head \in Submits
    BY <1>1, <1>3, <2>1 DEF TInv, Shapes, DecideShape
  <2>3. past' = Marked(job[p].head, "cut")
    BY <2>1, <2>2, NamesAssumption DEF Interrupt, Subject
  <2>. QED
    BY <1>1, <1>3, <2>1, <2>3, DecideFails DEF Interrupt
<1>. QED
  BY <1>2, <1>3 DEF Calls

LEMMA IgnoredErrorStep ==
  ASSUME IInv, NEW p \in Calls, IgnoredError(p)
  PROVE  IInv'
<1>1. faults' \in 0 .. MaxFaults /\ TInv /\ TypeOK
  BY FailTyped DEF IgnoredError, IInv, TInv
<1>2. job[p].pc \in {"cleanup", "record", "ensure", "mail", "delHead", "drop"}
  BY DEF IgnoredError, AfterIgnored
<1>3. CASE p \in Submits
  <2>1. job[p].pc \in SubmitPCs /\ ~At(p, "new") /\ Subject(p) = p
    BY <1>1, <1>2, <1>3 DEF TInv, Shapes, SubmitShape, At, Subject
  <2>2. CASE At(p, "cleanup")
    <3>1. Ends(p) /\ past' = Marked(p, "skipped") /\ "skipped" \in Causes
      BY <1>1, <2>1, <2>2, Flow DEF IgnoredError, AfterIgnored, At, Causes
    <3>2. HasMR(p) => "cut" \in past[p]
      BY <1>1, <2>2 DEF TInv, Openers, Opener, HasMR, At
    <3>3. past[p] \subseteq past'[p]
      BY <1>1, <1>3, <3>1, MarkedGrows DEF PastGrows
    <3>4. HasMR(p) => /\ job'[p].pc \in {"ensure", "mail", "done"}
                      /\ ~Recorded(p)' /\ Told(p)'
      BY <1>3, <3>1, <3>2, <3>3 DEF Ends, Recorded, Told
    <3>. QED
      BY <1>1, <1>3, <2>1, <2>2, <3>1, <3>4, SubmitFails DEF IgnoredError
  <2>3. CASE At(p, "record")
    <3>1. /\ Goes(p, "ensure") /\ past' = Marked(p, "unrecorded")
          /\ "unrecorded" \in Causes
      BY <1>1, <2>1, <2>3, Flow, SubmitStepPCs DEF IgnoredError, AfterIgnored, At, Causes
    <3>2. "unrecorded" \in past'[p]
      BY <1>1, <1>3, <3>1, MarkedGrows
    <3>3. job'[p].pc = "ensure" /\ ~Recorded(p)' /\ ~At(p, "done")'
      BY <3>1, <3>2 DEF Goes, Recorded, At
    <3>. QED
      BY <1>1, <1>3, <2>1, <2>3, <3>1, <3>3, SubmitFails DEF IgnoredError, SubmitPCs, At
  <2>4. CASE At(p, "ensure")
    <3>1. /\ Goes(p, "mail") /\ past' = Marked(p, "unensured")
          /\ "unensured" \in Causes
      BY <1>1, <2>1, <2>4, Flow, SubmitStepPCs DEF IgnoredError, AfterIgnored, At, Causes
    <3>2. past[p] \subseteq past'[p]
      BY <1>1, <1>3, <3>1, MarkedGrows DEF PastGrows
    <3>3. /\ job'[p].pc = "mail" /\ (Recorded(p)' => Recorded(p)) /\ ~At(p, "done")'
      BY <2>4, <3>1, <3>2 DEF Goes, Recorded, At
    <3>. QED
      BY <1>1, <1>3, <2>1, <2>4, <3>1, <3>3, SubmitFails DEF IgnoredError, SubmitPCs, At
  <2>5. CASE At(p, "mail")
    <3>1. Ends(p) /\ past' = Marked(p, "untold") /\ "untold" \in Causes
      BY <1>1, <2>1, <2>5, Flow DEF IgnoredError, AfterIgnored, At, Causes
    <3>2. past[p] \subseteq past'[p] /\ "untold" \in past'[p]
      BY <1>1, <1>3, <3>1, MarkedGrows DEF PastGrows
    <3>3. /\ job'[p].pc = "done" /\ (Recorded(p)' => Recorded(p)) /\ Told(p)'
      BY <1>3, <2>5, <3>1, <3>2 DEF Ends, Recorded, Told, At
    <3>. QED
      BY <1>1, <1>3, <2>1, <2>5, <3>1, <3>3, SubmitFails DEF IgnoredError, At
  <2>. QED
    BY <1>2, <2>1, <2>2, <2>3, <2>4, <2>5 DEF At, SubmitPCs
<1>4. CASE p \in Deciders
  <2>1. p \notin Submits /\ job[p].pc \in DecidePCs /\ Subject(p) = job[p].head
    BY <1>1, <1>4, DeciderNotSubmit DEF TInv, Shapes, DecideShape, Subject
  <2>2. CASE At(p, "delHead")
    <3>1. Goes(p, "drop") /\ past' = Marked(job[p].head, "skipped") /\ ~At(p, "idle")
      BY <1>1, <2>1, <2>2, Flow, SubmitStepPCs DEF IgnoredError, AfterIgnored, At
    <3>. QED
      BY <1>1, <1>4, <2>2, <3>1, DecideFails DEF IgnoredError
  <2>3. CASE At(p, "drop")
    <3>1. Ends(p) /\ past' = Marked(job[p].head, "skipped") /\ ~At(p, "idle")
      BY <1>1, <2>1, <2>3, Flow DEF IgnoredError, AfterIgnored, At
    <3>. QED
      BY <1>1, <1>4, <3>1, DecideFails DEF IgnoredError
  <2>. QED
    BY <1>2, <2>1, <2>2, <2>3 DEF At, DecidePCs
<1>. QED
  BY <1>3, <1>4 DEF Calls

-----------------------------------------------------------------------------
(* The repository goes or comes: no request is left, and what a call knows  *)
(* is of no repository that there is.                                       *)

LEMMA Turned ==
  ASSUME IInv, TypeOK', Shapes', mrs' = <<>>, heads' = {},
         alive' => lives' > 1 /\ \A p \in Calls : job'[p].life # lives'
  PROVE  IInv'
<1>1. DOMAIN mrs' = {}
  OBVIOUS
<1>2. TInv'
  BY <1>1 DEF TInv, DeadEmpty, OneEach, Openers
<1>3. RecordFresh' /\ DecideFresh'
  BY DEF RecordFresh, DecideFresh, Knows, Fresh, Calls
<1>4. FirstRows'
  BY DEF FirstRows
<1>5. NoStrandedHead' /\ OriginIsTrue' /\ OwnBranchOnly' /\ ReviewerTold'
  BY <1>1 DEF NoStrandedHead, OriginIsTrue, OwnBranchOnly, ReviewerTold
<1>. QED
  BY <1>2, <1>3, <1>4, <1>5 DEF IInv

LEMMA DeleteRepoStep ==
  ASSUME IInv, DeleteRepo
  PROVE  IInv'
<1>1. TypeOK'
  <2>1. Cardinality(Submits) \in Nat
    BY FiniteAssumption, FS_CardinalityType
  <2>2. mrs' \in Seq(MR) /\ Len(mrs') <= Cardinality(Submits)
    BY <2>1 DEF DeleteRepo
  <2>. QED
    BY <2>2 DEF DeleteRepo, IInv, TInv, TypeOK
<1>2. Shapes'
  BY DEF DeleteRepo, IInv, TInv, Shapes, SubmitShape, DecideShape, At
<1>. QED
  BY <1>1, <1>2, Turned DEF DeleteRepo

\* What CreateRepo and an EnsureBranchSession that finds no repository do.
LEMMA Remade ==
  ASSUME IInv, ~alive, alive', lives < MaxLives, lives' = lives + 1,
         UNCHANGED <<heads, mrs, records, told, past, faults>>,
         job' \in [Calls -> Job], \A p \in Calls : job'[p].life = job[p].life,
         \A s \in Submits : SubmitShape(s) => job'[s].pc \in SubmitPCs
              /\ (~At(s, "new")' => job'[s].base \in Branches)
              /\ (At(s, "record")' => job'[s].index \in Indices /\ job'[s].life # 0),
         \A d \in Deciders : job'[d] = job[d]
  PROVE  IInv'
<1>1. TInv /\ TypeOK /\ lives \in 1 .. MaxLives /\ MaxLives \in Nat
  BY BoundsAssumption DEF IInv, TInv, TypeOK
<1>2. TypeOK'
  <2>1. lives' \in 1 .. MaxLives /\ alive' \in BOOLEAN
    BY <1>1 DEF TypeOK
  <2>. QED
    BY <1>1, <2>1 DEF TypeOK
<1>3. \A p \in Calls : job[p].life \in Nat /\ job[p].life <= lives
  BY <1>1, JobTyped DEF TInv, Shapes, SubmitShape, DecideShape, Calls
<1>4. Shapes'
  <2>1. \A s \in Submits : SubmitShape(s)'
    BY <1>1, <1>3 DEF TInv, Shapes, SubmitShape, Calls
  <2>2. \A d \in Deciders : DecideShape(d)'
    BY <1>1, <1>3 DEF TInv, Shapes, DecideShape, At, Calls
  <2>. QED
    BY <2>1, <2>2 DEF Shapes
<1>5. mrs' = <<>> /\ heads' = {}
  BY <1>1 DEF TInv, DeadEmpty
<1>6. lives' > 1 /\ \A p \in Calls : job'[p].life # lives'
  BY <1>1, <1>3
<1>. QED
  BY <1>2, <1>4, <1>5, <1>6, Turned

LEMMA CreateRepoStep ==
  ASSUME IInv, CreateRepo
  PROVE  IInv'
<1>1. job \in [Calls -> Job] /\ job' = job
  BY DEF CreateRepo, IInv, TInv, TypeOK
<1>2. \A s \in Submits : SubmitShape(s) => job'[s].pc \in SubmitPCs
              /\ (~At(s, "new")' => job'[s].base \in Branches)
              /\ (At(s, "record")' => job'[s].index \in Indices /\ job'[s].life # 0)
  BY <1>1 DEF SubmitShape, At
<1>. QED
  BY <1>1, <1>2, Remade DEF CreateRepo

LEMMA EnsureRemakes ==
  ASSUME IInv, NEW s \in Submits, Ensure(s), ~UNCHANGED <<alive, lives>>
  PROVE  IInv'
<1>1. TInv /\ TypeOK /\ s \in Calls /\ s \notin Deciders /\ At(s, "ensure")
  BY SubmitNotDecider DEF IInv, TInv, Ensure
<1>2. Goto(s, "mail") /\ ~alive /\ alive' /\ lives < MaxLives /\ lives' = lives + 1
  BY <1>1 DEF Ensure, TypeOK
<1>3. Goes(s, "mail")
  BY <1>1, <1>2, Flow, SubmitStepPCs
<1>4. job' \in [Calls -> Job] /\ \A p \in Calls : job'[p].life = job[p].life
  BY <1>3 DEF Goes, Keeps
<1>5. \A d \in Deciders : job'[d] = job[d]
  BY <1>1, <1>3 DEF Goes, Keeps, Calls
<1>6. ASSUME NEW q \in Submits, SubmitShape(q)
      PROVE  /\ job'[q].pc \in SubmitPCs
             /\ ~At(q, "new")' => job'[q].base \in Branches
             /\ At(q, "record")' => job'[q].index \in Indices /\ job'[q].life # 0
  <2>1. CASE q = s
    BY <1>1, <1>3, <1>6, <2>1 DEF Goes, SubmitShape, SubmitPCs, At
  <2>2. CASE q # s
    BY <1>3, <1>6, <2>2 DEF Goes, Keeps, SubmitShape, At, Calls
  <2>. QED
    BY <2>1, <2>2
<1>. QED
  BY <1>2, <1>4, <1>5, <1>6, Remade DEF Ensure

-----------------------------------------------------------------------------
(* The theorems.                                                           *)

LEMMA InitIInv == Init => IInv
<1>. SUFFICES ASSUME Init PROVE IInv
  OBVIOUS
<1>1. TypeOK
  <2>1. Idle("new") \in Job /\ Idle("idle") \in Job
    BY IdleTyped DEF PCs, SubmitPCs, DecidePCs
  <2>2. job \in [Calls -> Job]
    BY <2>1 DEF Init
  <2>. QED
    BY <2>2, BoundsAssumption, FiniteAssumption, FS_CardinalityType DEF Init, TypeOK
<1>2. \A s \in Submits : job[s] = Idle("new")
  BY DEF Init, Calls
<1>3. \A d \in Deciders : job[d] = Idle("idle")
  BY DeciderNotSubmit DEF Init, Calls
<1>4. Shapes
  BY <1>2, <1>3 DEF Init, Shapes, SubmitShape, DecideShape, At, Idle, SubmitPCs, DecidePCs
<1>5. DOMAIN mrs = {} /\ heads = {} /\ alive
  BY DEF Init
<1>6. TInv
  BY <1>1, <1>4, <1>5 DEF TInv, DeadEmpty, OneEach, Openers
<1>7. RecordFresh /\ DecideFresh
  BY <1>2, <1>3 DEF RecordFresh, DecideFresh, Knows, At, Idle
<1>8. FirstRows
  BY DEF Init, FirstRows
<1>9. NoStrandedHead /\ OriginIsTrue /\ OwnBranchOnly /\ ReviewerTold
  BY <1>5 DEF NoStrandedHead, OriginIsTrue, OwnBranchOnly, ReviewerTold
<1>. QED
  BY <1>6, <1>7, <1>8, <1>9 DEF IInv

LEMMA StutterIInv == IInv /\ UNCHANGED vars => IInv'
BY DEF vars, forgejo, IInv, TInv, TypeOK, Shapes, SubmitShape, DecideShape, DeadEmpty,
       OneEach, Openers, Opener, RecordFresh, DecideFresh, Knows, Fresh, FirstRows,
       NoStrandedHead, OriginIsTrue, OwnBranchOnly, ReviewerTold, At, IsOpen, Origin,
       Recorded

LEMMA NextIInv == IInv /\ [Next]_vars => IInv'
<1>. SUFFICES ASSUME IInv, [Next]_vars PROVE IInv'
  OBVIOUS
<1>1. ASSUME NEW s \in Submits, SubmitMR(s) PROVE IInv'
  BY <1>1, SubmitMRStep
<1>2. ASSUME NEW s \in Submits, Push(s) PROVE IInv'
  BY <1>2, PushStep
<1>3. ASSUME NEW s \in Submits, CreateMR(s) PROVE IInv'
  BY <1>3, CreateMRStep
<1>4. ASSUME NEW s \in Submits, Cleanup(s) PROVE IInv'
  BY <1>4, CleanupStep
<1>5. ASSUME NEW s \in Submits, AddRecord(s) PROVE IInv'
  BY <1>5, AddRecordStep
<1>6. ASSUME NEW s \in Submits, Ensure(s) PROVE IInv'
  BY <1>6, EnsureStep, EnsureRemakes
<1>7. ASSUME NEW s \in Submits, Mail(s) PROVE IInv'
  BY <1>7, MailStep
<1>8. ASSUME NEW s \in Submits, LosePush(s) \/ LoseMR(s) PROVE IInv'
  BY <1>8, LosePushStep, LoseMRStep
<1>9. ASSUME NEW d \in Deciders, GetMR(d) PROVE IInv'
  BY <1>9, GetMRStep
<1>10. ASSUME NEW d \in Deciders, Deciding(d) PROVE IInv'
  BY <1>10, MergeStep, CloseStep, DeleteHeadStep, DropRecordStep DEF Deciding
<1>11. ASSUME NEW p \in Calls, Interrupt(p) \/ IgnoredError(p) PROVE IInv'
  BY <1>11, InterruptStep, IgnoredErrorStep
<1>12. CASE DeleteRepo \/ CreateRepo
  BY <1>12, DeleteRepoStep, CreateRepoStep
<1>13. CASE UNCHANGED vars
  BY <1>13, StutterIInv
<1>. QED
  BY <1>1, <1>2, <1>3, <1>4, <1>5, <1>6, <1>7, <1>8, <1>9, <1>10, <1>11, <1>12, <1>13
  DEF Next, Submitting

LEMMA Inductive == Spec => []IInv
<1>1. Init => IInv
  BY InitIInv
<1>2. IInv /\ [Next]_vars => IInv'
  BY NextIInv
<1>. QED
  BY <1>1, <1>2, PTL DEF Spec

\* Every variable keeps its type, in particular there is an index for every
\* pull request: no submit opens a second one (service.go:1626-1636).
THEOREM TypeCorrect == Spec => []TypeOK
<1>1. IInv => TypeOK
  BY DEF IInv, TInv
<1>. QED
  BY <1>1, Inductive, PTL

\* Whatever calls overlap, and wherever they fail, an mr/ branch without an open
\* change request is about to be dealt with, or one of the named accidents
\* happened to it (service.go:1634-1636, 1714-1716).
THEOREM NeverStranded == Spec => []NoStrandedHead
<1>1. IInv => NoStrandedHead
  BY DEF IInv
<1>. QED
  BY <1>1, Inductive, PTL

\* The origin shown for a change request is its submitter's or none, however
\* often the repository is made anew under the rows (members.AddMRSubmission,
\* MRSubmission).
THEOREM OriginAlwaysTrue == Spec => []OriginIsTrue
<1>1. IInv => OriginIsTrue
  BY DEF IInv
<1>. QED
  BY <1>1, Inductive, PTL

\* The check of authorizeMRTarget, made on an earlier read, still holds when
\* Forgejo merges or closes, in the same life of the repository.
THEOREM OwnBranchAlways == Spec => []OwnBranchOnly
<1>1. IInv => OwnBranchOnly
  BY DEF IInv
<1>. QED
  BY <1>1, Inductive, PTL

\* A submit that has run to its end has told the reviewer (mr_notify.go), save
\* for the named exceptions.
THEOREM ReviewerAlwaysTold == Spec => []ReviewerTold
<1>1. IInv => ReviewerTold
  BY DEF IInv
<1>. QED
  BY <1>1, Inductive, PTL
=============================================================================

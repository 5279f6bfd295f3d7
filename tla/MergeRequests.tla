---------------------------- MODULE MergeRequests ----------------------------
(***************************************************************************)
(* Change requests of one repository.  Submitting one takes four systems,  *)
(* one call after the other: a push of a fresh mr/ branch to the git       *)
(* server, the pull request in Forgejo, a row with the submitter's session *)
(* in the gateway's sqlite table, a message to the session of the target   *)
(* branch on the bus.  Merging and closing undo the first three.  The      *)
(* repository may be deleted and created anew in between: Forgejo then     *)
(* counts its pull requests from 1 again, but the rows stay.               *)
(*                                                                         *)
(* The head branch of a submit has a name of its own (mrBranchName takes   *)
(* the time in nanoseconds), so the submit stands for it.                  *)
(***************************************************************************)
EXTENDS Naturals, Sequences, FiniteSets

CONSTANTS
  Submits,    \* calls of SubmitMR
  Deciders,   \* handlers of MergeMR and CloseMR, one call after the other
  Branches,   \* target branches; a branch session is named after its branch
  None,       \* as a caller: a human at the console (no session header)
  MaxLives,   \* bound: how often the repository is created
  MaxFaults   \* bound: failed calls

ASSUME NamesAssumption ==
  /\ Submits \cap Deciders = {}
  /\ None \notin Branches \cup Submits

\* As many as one likes, but indices are finite.
ASSUME FiniteAssumption == IsFiniteSet(Submits)

ASSUME BoundsAssumption == MaxLives \in Nat \ {0} /\ MaxFaults \in Nat

VARIABLES
  alive,    \* Forgejo: the repository exists
  lives,    \* how often it has been created
  heads,    \* Forgejo: the mr/ branches
  mrs,      \* Forgejo: the pull requests; the index is the place
  records,  \* members.mr_submissions: the origin recorded for an index
  told,     \* bus: submits whose target session has its message
  job,      \* per call: who calls, about what, and the next step
  past,     \* history, per submit: what went wrong with its branch and row
  faults    \* failed calls so far

forgejo == <<alive, lives, heads, mrs>>
vars    == <<forgejo, records, told, job, past, faults>>

-----------------------------------------------------------------------------
Calls   == Submits \cup Deciders
Indices == 1 .. Cardinality(Submits)

SubmitPCs == {"new", "push", "create", "cleanup", "record", "ensure", "mail", "done"}
DecidePCs == {"idle", "merge", "close", "delHead", "drop"}
Causes    == {"cut", "skipped", "unrecorded", "unensured", "untold", "overtaken"}

MR == [head : Submits, base : Branches, state : {"open", "merged", "closed"},
       by : Branches \cup {None}]

\* life: which repository the index or head was read from.
Job == [pc : SubmitPCs \cup DecidePCs,
        caller : Branches \cup {None}, base : Branches \cup {None},
        index : Indices \cup {0}, head : Submits \cup {None}, life : 0 .. MaxLives]

TypeOK ==
  /\ alive \in BOOLEAN /\ lives \in 1 .. MaxLives
  /\ heads \subseteq Submits
  /\ mrs \in Seq(MR) /\ Len(mrs) <= Cardinality(Submits)
  /\ records \in [Indices -> Branches \cup {None}]
  /\ told \subseteq Submits
  /\ job \in [Calls -> Job]
  /\ past \in [Submits -> SUBSET Causes]
  /\ faults \in 0 .. MaxFaults

Idle(pc) == [pc |-> pc, caller |-> None, base |-> None, index |-> 0,
             head |-> None, life |-> 0]

Init ==
  /\ alive = TRUE /\ lives = 1 /\ heads = {} /\ mrs = <<>>
  /\ records = [i \in Indices |-> None]
  /\ told = {}
  /\ job = [p \in Calls |-> Idle(IF p \in Submits THEN "new" ELSE "idle")]
  /\ past = [s \in Submits |-> {}]
  /\ faults = 0

At(p, step)   == job[p].pc = step
Goto(p, step) == job' = [job EXCEPT ![p].pc = step]

\* What a call has found out is of no use after it.
End(p) ==
  job' = [job EXCEPT ![p] =
            IF p \in Submits
              THEN [@ EXCEPT !.pc = "done", !.index = 0, !.life = 0]
              ELSE Idle("idle")]

\* The session on record: the caller's, for a human that of the target.
Origin(s) == IF job[s].caller = None THEN job[s].base ELSE job[s].caller

Stale(p) == job[p].life # lives

Marked(s, cause) == [past EXCEPT ![s] = @ \cup {cause}]

\* History: a call that found its index in an earlier repository changes what
\* now has that index.
Overtaking(p) ==
  past' = IF Stale(p) /\ job[p].index \in DOMAIN mrs
            THEN Marked(mrs[job[p].index].head, "overtaken") ELSE past

-----------------------------------------------------------------------------
(* SubmitMR.                                                               *)

\* A call that passes ensureVisible and BranchExists; others change nothing.
SubmitMR(s) ==
  /\ At(s, "new") /\ alive
  /\ \E c \in Branches \cup {None}, b \in Branches :
       job' = [job EXCEPT ![s].pc = "push", ![s].caller = c, ![s].base = b]
  /\ UNCHANGED <<forgejo, records, told, past, faults>>

\* gitcommit.Submit: clone, edit, commit, and one push of the new branch.  It
\* fails, with nothing pushed, when there is no change to commit.
Push(s) ==
  /\ At(s, "push")
  /\ \/ alive /\ heads' = heads \cup {s} /\ Goto(s, "create")
     \/ End(s) /\ UNCHANGED heads
  /\ UNCHANGED <<alive, lives, mrs, records, told, past, faults>>

\* Mutant: the target is the branch of the caller.
OpenedIntoCaller(s) ==
  Append(mrs, [head |-> s, base |-> job[s].caller, state |-> "open", by |-> None])

Opened(s) ==
  Append(mrs, [head |-> s, base |-> job[s].base, state |-> "open", by |-> None])

\* Mutant: a failed CreateMR returns at once.
CreateMRLeaves(s) ==
  /\ At(s, "create")
  /\ \/ /\ s \in heads
        /\ mrs' = Opened(s)
        /\ job' = [job EXCEPT ![s].pc = "record", ![s].index = Len(mrs) + 1,
                              ![s].life = lives]
     \/ End(s) /\ UNCHANGED mrs
  /\ UNCHANGED <<alive, lives, heads, records, told, past, faults>>

\* Forgejo needs the head; it may refuse for reasons of its own (no difference
\* to the base, base gone).
CreateMR(s) ==
  /\ At(s, "create")
  /\ \/ /\ s \in heads
        /\ mrs' = Opened(s)
        /\ job' = [job EXCEPT ![s].pc = "record", ![s].index = Len(mrs) + 1,
                              ![s].life = lives]
     \/ Goto(s, "cleanup") /\ UNCHANGED mrs
  /\ UNCHANGED <<alive, lives, heads, records, told, past, faults>>

\* What Forgejo does to an open pull request whose head is deleted is its own
\* affair: it stays open, or is closed.
DeleteBranch(s) ==
  /\ heads' = heads \ {s}
  /\ \/ UNCHANGED mrs
     \/ mrs' = [i \in DOMAIN mrs |->
                  IF mrs[i].head = s /\ mrs[i].state = "open"
                    THEN [mrs[i] EXCEPT !.state = "closed"] ELSE mrs[i]]
  /\ UNCHANGED <<alive, lives>>

Cleanup(s) ==
  /\ At(s, "cleanup")
  /\ DeleteBranch(s)
  /\ End(s)
  /\ UNCHANGED <<records, told, past, faults>>

\* Mutant: a row that is there already stays (INSERT OR IGNORE).
AddRecordOnce(s) ==
  /\ At(s, "record")
  /\ records' = [records EXCEPT ![job[s].index] = IF @ = None THEN Origin(s) ELSE @]
  /\ Goto(s, "ensure")
  /\ Overtaking(s)
  /\ UNCHANGED <<forgejo, told, faults>>

\* AddMRSubmission replaces the row.
AddRecord(s) ==
  /\ At(s, "record")
  /\ records' = [records EXCEPT ![job[s].index] = Origin(s)]
  /\ Goto(s, "ensure")
  /\ Overtaking(s)
  /\ UNCHANGED <<forgejo, told, faults>>

\* notifyMRSubmitted.  EnsureBranchSession claims the repository, which makes
\* it anew if it is gone (RepoOwnership has the calls and the session).
Ensure(s) ==
  /\ At(s, "ensure")
  /\ IF job[s].caller = job[s].base
       THEN End(s) /\ UNCHANGED <<alive, lives>>
       ELSE /\ Goto(s, "mail")
            /\ alive' = (alive \/ lives < MaxLives)
            /\ lives' = IF alive' # alive THEN lives + 1 ELSE lives
  /\ UNCHANGED <<heads, mrs, records, told, past, faults>>

Mail(s) ==
  /\ At(s, "mail")
  /\ told' = told \cup {s}
  /\ End(s)
  /\ UNCHANGED <<forgejo, records, past, faults>>

-----------------------------------------------------------------------------
(* MergeMR and CloseMR.                                                    *)

\* Mutant: any session of the repository may decide.
AuthorizedAnyone(caller, mr) == TRUE

\* authorizeMRTarget.
Authorized(caller, mr) == caller \in {None, mr.base}

\* A call up to what it finds out from GetMR: the target, which its caller must
\* be (when the caller is a session), the head, and for a merge that Forgejo
\* thinks it mergeable.  Others change nothing.
GetMR(d) ==
  /\ At(d, "idle") /\ alive
  /\ \E op \in {"merge", "close"}, c \in Branches \cup {None}, i \in DOMAIN mrs :
       /\ Authorized(c, mrs[i])
       /\ job' = [job EXCEPT ![d] = [pc |-> op, caller |-> c, base |-> None,
                       index |-> i, head |-> mrs[i].head, life |-> lives]]
  /\ UNCHANGED <<forgejo, records, told, past, faults>>

\* The pull request gets the state; by is who asked for it.
Settled(i, state, who) ==
  [mrs EXCEPT ![i].state = state, ![i].by = who]

\* Forgejo merges what is open (and may still refuse), and deletes the head.
Merge(d) ==
  LET i == job[d].index IN
  /\ At(d, "merge")
  /\ \/ /\ i \in DOMAIN mrs /\ mrs[i].state = "open" /\ mrs[i].head \in heads
        /\ mrs' = Settled(i, "merged", job[d].caller)
        /\ heads' = heads \ {mrs[i].head}
        /\ Goto(d, "drop")
        /\ Overtaking(d)
     \/ End(d) /\ UNCHANGED <<heads, mrs, past>>
  /\ UNCHANGED <<alive, lives, records, told, faults>>

\* Closing what is closed is no error, closing what is merged is one.
Close(d) ==
  LET i == job[d].index IN
  /\ At(d, "close")
  /\ IF i \in DOMAIN mrs /\ mrs[i].state # "merged"
       THEN /\ mrs' = IF mrs[i].state = "open"
                        THEN Settled(i, "closed", job[d].caller) ELSE mrs
            /\ Goto(d, "delHead")
            /\ Overtaking(d)
       ELSE End(d) /\ UNCHANGED <<mrs, past>>
  /\ UNCHANGED <<alive, lives, heads, records, told, faults>>

\* The head that GetMR returned.
DeleteHead(d) ==
  /\ At(d, "delHead")
  /\ DeleteBranch(job[d].head)
  /\ Goto(d, "drop")
  /\ UNCHANGED <<records, told, past, faults>>

DropRecord(d) ==
  /\ At(d, "drop")
  /\ records' = [records EXCEPT ![job[d].index] = None]
  /\ Overtaking(d)
  /\ End(d)
  /\ UNCHANGED <<forgejo, told, faults>>

-----------------------------------------------------------------------------
(* The repository, and what goes wrong.                                    *)

\* DeleteRepo takes branches and pull requests along, but not the rows.
DeleteRepo ==
  /\ alive /\ alive' = FALSE
  /\ heads' = {} /\ mrs' = <<>>
  /\ UNCHANGED <<lives, records, told, job, past, faults>>

CreateRepo ==
  /\ ~alive /\ alive' = TRUE
  /\ lives < MaxLives /\ lives' = lives + 1
  /\ UNCHANGED <<heads, mrs, records, told, job, past, faults>>

Fail == faults < MaxFaults /\ faults' = faults + 1

\* The submit whose branch and row p works on.
Subject(p) == IF p \in Submits THEN p ELSE job[p].head

\* The call fails, its context is cancelled, or the gateway dies: the handler
\* ends here.
Interrupt(p) ==
  /\ job[p].pc \notin {"new", "idle", "done"} /\ Fail
  /\ End(p)
  /\ past' = IF Subject(p) = None THEN past ELSE Marked(Subject(p), "cut")
  /\ UNCHANGED <<forgejo, records, told>>

\* The push arrives but is reported failed: the handler returns.
LosePush(s) ==
  /\ At(s, "push") /\ alive /\ Fail
  /\ heads' = heads \cup {s}
  /\ End(s)
  /\ past' = Marked(s, "cut")
  /\ UNCHANGED <<alive, lives, mrs, records, told>>

\* The pull request is made but its answer is lost: the handler cleans up.
LoseMR(s) ==
  /\ At(s, "create") /\ s \in heads /\ Fail
  /\ mrs' = Opened(s)
  /\ Goto(s, "cleanup")
  /\ past' = Marked(s, "cut")
  /\ UNCHANGED <<alive, lives, heads, records, told>>

\* Mutant: no message when the target's session could not be ensured.
AfterIgnoredQuiet ==
  [cleanup |-> <<"done", "skipped">>, record |-> <<"ensure", "unrecorded">>,
   ensure |-> <<"done", "unensured">>, mail |-> <<"done", "untold">>,
   delHead |-> <<"drop", "skipped">>, drop |-> <<"idle", "skipped">>]

\* A call whose error is ignored or only logged: where the handler goes on, and
\* what it has left undone.
AfterIgnored ==
  [cleanup |-> <<"done", "skipped">>, record |-> <<"ensure", "unrecorded">>,
   ensure |-> <<"mail", "unensured">>, mail |-> <<"done", "untold">>,
   delHead |-> <<"drop", "skipped">>, drop |-> <<"idle", "skipped">>]

IgnoredError(p) ==
  /\ job[p].pc \in DOMAIN AfterIgnored /\ Fail
  /\ LET next == AfterIgnored[job[p].pc] IN
       /\ IF next[1] \in {"idle", "done"} THEN End(p) ELSE Goto(p, next[1])
       /\ past' = Marked(Subject(p), next[2])
  /\ UNCHANGED <<forgejo, records, told>>

-----------------------------------------------------------------------------
Submitting(s) ==
  \/ Push(s) \/ CreateMR(s) \/ Cleanup(s) \/ AddRecord(s) \/ Ensure(s) \/ Mail(s)

Deciding(d) == Merge(d) \/ Close(d) \/ DeleteHead(d) \/ DropRecord(d)

Next ==
  \/ \E s \in Submits : SubmitMR(s) \/ Submitting(s) \/ LosePush(s) \/ LoseMR(s)
  \/ \E d \in Deciders : GetMR(d) \/ Deciding(d)
  \/ \E p \in Calls : Interrupt(p) \/ IgnoredError(p)
  \/ DeleteRepo \/ CreateRepo

Spec == Init /\ [][Next]_vars

-----------------------------------------------------------------------------
(* Properties.                                                             *)

IsOpen(s) == \E i \in DOMAIN mrs : mrs[i].head = s /\ mrs[i].state = "open"

\* "A failed MR must not strand the mr/ branch" (service.go:1634), and a merge
\* or close takes it along: there is an mr/ branch only for an open change
\* request or while a call is about to open, clean up or delete it.  Exceptions
\* are a handler that was cut (the branch is then nobody's: its name was never
\* returned), an ignored error, and a close that met another request under its
\* index because the repository was created anew.
NoStrandedHead ==
  \A s \in heads :
    \/ IsOpen(s)
    \/ job[s].pc \in {"create", "cleanup"}
    \/ \E d \in Deciders : At(d, "delHead") /\ job[d].head = s
    \/ past[s] \cap {"cut", "skipped", "overtaken"} # {}

Recorded(s) == job[s].pc \in {"ensure", "mail", "done"}
               /\ past[s] \cap {"unrecorded", "cut"} = {}

\* The origin that GetMR shows for a change request is the session that
\* submitted it or none, although indices are used again after the repository
\* was created anew and the rows of the old one stay; and for an open one
\* it is there once the submit has written it.  Exceptions: a row of the old
\* repository under a request whose own row is not written (yet), and a call
\* that began in the old repository and changes the row in the new one.
OriginIsTrue ==
  \A i \in DOMAIN mrs :
    LET s == mrs[i].head IN
    "overtaken" \in past[s] \/
      /\ records[i] \in {None, Origin(s)} \/ (lives > 1 /\ ~Recorded(s))
      /\ Recorded(s) /\ mrs[i].state = "open" => records[i] = Origin(s)

\* An agent session merges or closes only what targets its own branch
\* (service.go:1725), although the check is made on a read before the call and
\* the call names the request by its index only.  (Exception as above.)
OwnBranchOnly ==
  \A i \in DOMAIN mrs :
    \/ mrs[i].by \in {None, mrs[i].base}
    \/ "overtaken" \in past[mrs[i].head]

\* The reviewer is told of every change request that was opened, also when the
\* row or the target's session could not be written; not if the target submitted
\* it itself, the handler was cut, or the message was lost.  It says nothing of a
\* gateway without a bus, which tells nobody (mr_notify.go:24).
ReviewerTold ==
  \A i \in DOMAIN mrs :
    LET s == mrs[i].head IN
    At(s, "done") =>
      \/ s \in told
      \/ job[s].caller = job[s].base
      \/ past[s] \cap {"cut", "untold"} # {}
=============================================================================

---------------------------- MODULE FactoryIssue ----------------------------
(***************************************************************************)
(* One issue of the software factory and the triage workflow that decides  *)
(* its readiness: triage-issues.yml (seed, triage and apply jobs),         *)
(* scripts/factory/apply-triage-verdict.mts and its logic, and the owner's *)
(* approve command (intake-owner-command-issue.mts).                       *)
(*                                                                         *)
(* The seed and apply jobs, and the publish job of FactoryPublish, run one *)
(* at a time: they share the concurrency group of the issue, here holder.  *)
(* Every call to the GitHub API is a step of its own, and people, whom no  *)
(* group binds, act between any two.  A call may fail before it takes      *)
(* effect or, for a write, after; a job may die at any step.               *)
(***************************************************************************)
EXTENDS IssueText, Faults, FiniteSets

CONSTANTS
  Texts,          \* a text: the issue's title and body, in one revision
  BodyOf,         \* text -> its body, as IssueText reads it
  TriageRuns,     \* runs of the triage workflow, in the order they start
  AgentVerdicts   \* readiness values the triage agent may answer

ASSUME FactoryIssueAssumption ==
  /\ TriageRuns \subseteq Nat \ {0}
  /\ \A t \in Texts : BodyOf[t] \in Seq([kind : STRING, level : Nat, words : Seq(STRING)])
  /\ None \notin Texts \cup [run : TriageRuns, held : BOOLEAN, approved : Texts \cup {None}]
  /\ None \notin {"seed", "apply", "publish"} \X Nat

READINESS_LABELS ==
  {"needs-triage", "ready-to-implement", "ready-for-conventional-implementation",
   "ready-to-spec", "needs-info", "wait-to-implement", "wontfix"}

ASSUME VerdictAssumption == AgentVerdicts \subseteq READINESS_LABELS

\* The label of an unrelated concern that people put on the issue.
Labels == READINESS_LABELS \cup {"area"}

VARIABLES
  issue,     \* [open, text, labels]
  comment,   \* the bot's triage comment: None or [run, held, approved]
  triage,    \* run -> the state of its jobs
  holder,    \* the job in the issue's privileged group: None or its name
  order      \* the owner's approve comment and the run of its intake

issueVars == <<issue, comment, triage, holder, order, trouble>>

\* What a triage run carries: pc, its inputs (mode, approved), what its jobs
\* learned (the agent's verdict, the text and labels as read).
Idle == [pc |-> "idle", mode |-> "pre-filter", approved |-> None, verdict |-> None,
         text |-> None, labels |-> {}]

-----------------------------------------------------------------------------
(* The triage comment.                                                     *)

\* Only a run that answered ready-to-implement authorizes; every other verdict
\* keeps the run's hold on the comment.
isFactoryAuthorizingReadiness(readiness) == readiness = "ready-to-implement"

buildVerdictComment(run, readiness, approved) ==
  [run |-> run,
   held |-> ~isFactoryAuthorizingReadiness(readiness),
   approved |-> IF isFactoryAuthorizingReadiness(readiness) THEN approved ELSE None]

\* Fault: the hold names the attempt before.
HoldOfEarlierRun(run) == [run |-> run - 1, held |-> TRUE, approved |-> None]
HoldComment(run) == [run |-> run, held |-> TRUE, approved |-> None]

isAuthorizingTriageGeneration(c) == c # None /\ ~c.held

\* Fault: any triage comment will do.
AnyGeneration(run) == comment # None

\* The comment still carries this run's generation, held or final.
requireRetryableTriageGeneration(run) == comment # None /\ comment.run = run

computeNewLabelSet(labels, readiness) == (labels \ READINESS_LABELS) \cup {readiness}

clampTriageReadiness(mode, readiness) ==
  IF mode = "pre-filter"
     /\ readiness \in {"ready-to-implement", "ready-for-conventional-implementation",
                       "wait-to-implement"}
  THEN "ready-to-spec"
  ELSE readiness

\* Either deterministic check sends the verdict back to planning.
EffectiveReadiness(mode, readiness, text) ==
  IF "ready-to-spec" \in {clampTriageReadiness(mode, readiness),
                          enforceDiffVerifiableAc(readiness, BodyOf[text])}
  THEN "ready-to-spec"
  ELSE readiness

-----------------------------------------------------------------------------
(* Steps of a job.                                                         *)

\* Run r moves on to pc, with the locals that change.
Goes(r, pc) == triage' = [triage EXCEPT ![r].pc = pc]

\* The steps in which a run holds the privileged group.
SeedSteps == {"seed", "unready", "relabel", "check", "hold"}
FallbackSteps == {"fallback", "fallback put", "fallback check", "fallback comment"}
ApplySteps ==
  {"read", "decide", "comment", "labels", "put", "verify"} \cup FallbackSteps

Holds(name) == holder = name

\* A job that ends loses what it read; after a success no job is run again.
Leaves(r, pc) ==
  /\ triage' = [triage EXCEPT ![r] =
       IF pc = "done" THEN [Idle EXCEPT !.pc = pc]
       ELSE [@ EXCEPT !.pc = pc, !.text = None, !.labels = {}]]
  /\ holder' = None

-----------------------------------------------------------------------------
\* The run of the opened event is queued, unless the factory was paused then.
Init ==
  /\ \E t \in Texts : issue = [open |-> TRUE, text |-> t, labels |-> {}]
  /\ comment = None
  /\ \E opened \in BOOLEAN :
       triage = [r \in TriageRuns |->
                   IF opened /\ r = 1 THEN [Idle EXCEPT !.pc = "queued"] ELSE Idle]
  /\ holder = None
  /\ order = [pc |-> "none", said |-> None, text |-> None, edited |-> "before"]
  /\ trouble = 0

\* Runs start in the order of their numbers.
NextRun(r) == triage[r].pc = "idle" /\ \A q \in TriageRuns : q < r => triage[q].pc # "idle"

\* A maintainer dispatches the workflow by hand, in either mode, with no approval.
Dispatch(r, mode) ==
  /\ NextRun(r)
  /\ triage' = [triage EXCEPT ![r] = [Idle EXCEPT !.pc = "queued", !.mode = mode]]
  /\ UNCHANGED <<issue, comment, holder, order, trouble>>

-----------------------------------------------------------------------------
(* The seed job: readiness is withdrawn before the hold is recorded.       *)

Seed(r) ==
  /\ triage[r].pc = "queued"
  /\ holder = None
  /\ holder' = <<"seed", r>>
  /\ Goes(r, "seed")
  /\ UNCHANGED <<issue, comment, order, trouble>>

\* The issue is read; a closed one ends the run.
SeedReads(r) ==
  /\ triage[r].pc = "seed"
  /\ IF issue.open
     THEN /\ triage' = [triage EXCEPT ![r].pc = "unready", ![r].labels = issue.labels]
          /\ UNCHANGED holder
     ELSE Leaves(r, "failed")
  /\ UNCHANGED <<issue, comment, order, trouble>>

\* The one label that authorizes goes first.
SeedUnreadies(r) ==
  /\ triage[r].pc = "unready"
  /\ issue' = [issue EXCEPT !.labels =
                 @ \ (triage[r].labels \cap {"ready-to-implement"})]
  /\ Goes(r, "relabel")
  /\ UNCHANGED <<comment, holder, order, trouble>>

\* Then needs-triage comes and the other readiness labels, as read, go.
SeedRelabels(r) ==
  /\ triage[r].pc = "relabel"
  /\ issue' = [issue EXCEPT !.labels =
                 (@ \cup {"needs-triage"})
                   \ (triage[r].labels \cap (READINESS_LABELS \ {"needs-triage", "ready-to-implement"}))]
  /\ Goes(r, "check")
  /\ UNCHANGED <<comment, holder, order, trouble>>

SeedVerifies(r) ==
  /\ triage[r].pc = "check"
  /\ IF issue.labels \cap READINESS_LABELS = {"needs-triage"}
     THEN Goes(r, "hold") /\ UNCHANGED holder
     ELSE Leaves(r, "failed")
  /\ UNCHANGED <<issue, comment, order, trouble>>

\* The comment, found or posted anew, now carries this run's hold, read back.
SeedRecordsHold(r) ==
  /\ triage[r].pc = "hold"
  /\ comment' = HoldComment(r)
  /\ Leaves(r, "agent")
  /\ UNCHANGED <<issue, order, trouble>>

\* The agent's job, outside the group.  "invalid" is a job that failed, and an artifact
\* that is missing, too large or does not validate.
TriageAgent(r, answer) ==
  /\ triage[r].pc = "agent"
  /\ triage' = [triage EXCEPT ![r].pc = "waiting", ![r].verdict = answer]
  /\ UNCHANGED <<issue, comment, holder, order, trouble>>

-----------------------------------------------------------------------------
(* The apply job.                                                          *)

Apply(r) ==
  /\ triage[r].pc = "waiting"
  /\ holder = None
  /\ holder' = <<"apply", r>>
  /\ Goes(r, "read")
  /\ UNCHANGED <<issue, comment, order, trouble>>

\* The issue as it is now: the text the approval and the criteria are judged by.
ApplyReadsIssue(r) ==
  /\ triage[r].pc = "read"
  /\ IF issue.open
     THEN /\ triage' = [triage EXCEPT ![r].pc = "decide", ![r].text = issue.text]
          /\ UNCHANGED holder
     ELSE Leaves(r, "failed")
  /\ UNCHANGED <<issue, comment, order, trouble>>

\* A generation that is not this run's ends the job; a stale approval, a failed
\* agent or an invalid verdict resets the readiness instead.
ApplyDecides(r) ==
  /\ triage[r].pc = "decide"
  /\ IF ~requireRetryableTriageGeneration(r) THEN Leaves(r, "failed")
     ELSE /\ Goes(r, IF \/ triage[r].approved \notin {None, triage[r].text}
                        \/ triage[r].verdict = "invalid"
                     THEN "fallback" ELSE "comment")
          /\ UNCHANGED holder
  /\ UNCHANGED <<issue, comment, order, trouble>>

Readiness(r) == EffectiveReadiness(triage[r].mode, triage[r].verdict, triage[r].text)

ApplyWritesComment(r) ==
  /\ triage[r].pc = "comment"
  /\ comment' = buildVerdictComment(r, Readiness(r), triage[r].approved)
  /\ Goes(r, "labels")
  /\ UNCHANGED <<issue, holder, order, trouble>>

\* The labels are read, and the set written next is computed from what was read.
ReadsLabels(r, from, to, readiness) ==
  /\ triage[r].pc = from
  /\ triage' = [triage EXCEPT ![r].pc = to,
                              ![r].labels = computeNewLabelSet(issue.labels, readiness)]
  /\ UNCHANGED <<issue, comment, holder, order, trouble>>

PutsLabels(r, from, to) ==
  /\ triage[r].pc = from
  /\ issue' = [issue EXCEPT !.labels = triage[r].labels]
  /\ Goes(r, to)
  /\ UNCHANGED <<comment, holder, order, trouble>>

\* Fault: the labels follow the agent's verdict, not the effective readiness.
LabelsOfVerdict(r) == ReadsLabels(r, "labels", "put", triage[r].verdict)

ApplyReadsLabels(r) == ReadsLabels(r, "labels", "put", Readiness(r))
ApplyPutsLabels(r) == PutsLabels(r, "put", "verify")

\* Labels other than those just written send the job to the fallback.
ApplyVerifies(r) ==
  /\ triage[r].pc = "verify"
  /\ IF issue.labels = triage[r].labels THEN Leaves(r, "done")
     ELSE Goes(r, "fallback") /\ UNCHANGED holder
  /\ UNCHANGED <<issue, comment, order, trouble>>

\* The write of the labels fails, before or after it took effect: fallback too.
ApplyPutFails(r) ==
  /\ triage[r].pc = "put"
  /\ Trouble
  /\ \E lost \in BOOLEAN :
       issue' = IF lost THEN [issue EXCEPT !.labels = triage[r].labels] ELSE issue
  /\ Goes(r, "fallback")
  /\ UNCHANGED <<comment, holder, order>>

FallbackReadsLabels(r) == ReadsLabels(r, "fallback", "fallback put", "needs-triage")
FallbackPutsLabels(r) == PutsLabels(r, "fallback put", "fallback check")

FallbackVerifies(r) ==
  /\ triage[r].pc = "fallback check"
  /\ IF issue.labels = triage[r].labels
     THEN Goes(r, "fallback comment") /\ UNCHANGED holder
     ELSE Leaves(r, "failed")
  /\ UNCHANGED <<issue, comment, order, trouble>>

\* The job fails in any case, so that its run shows red.
FallbackWritesComment(r) ==
  /\ triage[r].pc = "fallback comment"
  /\ comment' = HoldComment(r)
  /\ Leaves(r, "failed")
  /\ UNCHANGED <<issue, order, trouble>>

\* A call without a handler of its own fails, or the runner dies: the job ends where
\* it stands.  A write may still have taken effect.
TriageDies(r) ==
  /\ triage[r].pc \in SeedSteps \cup ApplySteps
  /\ Trouble
  /\ Leaves(r, "failed")
  /\ \/ UNCHANGED <<issue, comment>>
     \/ triage[r].pc \in {"hold", "fallback comment"} /\ comment' = HoldComment(r)
        /\ UNCHANGED issue
     \/ triage[r].pc = "comment"
        /\ comment' = buildVerdictComment(r, Readiness(r), triage[r].approved)
        /\ UNCHANGED issue
  /\ UNCHANGED <<order>>

\* "Re-run failed jobs" on a run whose seed succeeded: the apply job again, with the
\* seed's outputs and the agent's artifact as they were.
RerunApply(r) ==
  /\ triage[r].pc = "failed" /\ triage[r].verdict # None
  /\ Trouble
  /\ Goes(r, "waiting")
  /\ UNCHANGED <<issue, comment, holder, order>>

-----------------------------------------------------------------------------
(* People.                                                                 *)

\* An edit or a rename after the owner's comment may still bear the comment's second.
Edit(text) ==
  /\ text # issue.text
  /\ Trouble
  /\ issue' = [issue EXCEPT !.text = text]
  /\ IF order.pc \in {"said", "read"}
     THEN \E when \in {"same second", "after"} :
            /\ order.edited = "after" => when = "after"
            /\ order' = [order EXCEPT !.edited = when]
     ELSE UNCHANGED order
  /\ UNCHANGED <<comment, triage, holder>>

\* A maintainer closes the issue, puts an unrelated label on it or takes any label off.
Close ==
  /\ issue.open
  /\ Trouble
  /\ issue' = [issue EXCEPT !.open = FALSE]
  /\ UNCHANGED <<comment, triage, holder, order>>

Relabel(label) ==
  /\ label \in issue.labels \cup {"area"}
  /\ Trouble
  /\ issue' = [issue EXCEPT !.labels = IF label \in @ THEN @ \ {label} ELSE @ \cup {label}]
  /\ UNCHANGED <<comment, triage, holder, order>>

-----------------------------------------------------------------------------
(* The approve command.                                                    *)

\* The owner comments; the text it stands under is what the owner approves.
Approve ==
  /\ order.pc = "none"
  /\ order' = [order EXCEPT !.pc = "said", !.said = issue.text]
  /\ UNCHANGED <<issue, comment, triage, holder, trouble>>

\* The intake job reads the comment and the issue.
IntakeReads ==
  /\ order.pc = "said"
  /\ order' = IF issue.open THEN [order EXCEPT !.pc = "read", !.text = issue.text]
              ELSE [order EXCEPT !.pc = "dropped"]
  /\ UNCHANGED <<issue, comment, triage, holder, trouble>>

\* Fault: an edit in the comment's own second counts as older.
EditedStrictlySince(edited) == edited = "after"

\* An edit that is not older than the comment, the same second included.
EditedSince(edited) == edited \in {"same second", "after"}

\* Only then it reads the histories of the body's edits and of the title's renames,
\* and drops the command for one that is not older than the comment.
IntakeChecksHistory ==
  /\ order.pc = "read"
  /\ order' = [order EXCEPT !.pc = IF EditedSince(order.edited) THEN "dropped"
                                   ELSE "approved"]
  /\ UNCHANGED <<issue, comment, triage, holder, trouble>>

\* The next job dispatches the readiness run with the revision approved.
DispatchApproved(r) ==
  /\ order.pc = "approved"
  /\ NextRun(r)
  /\ order' = [order EXCEPT !.pc = "dispatched"]
  /\ triage' = [triage EXCEPT ![r] = [Idle EXCEPT !.pc = "queued", !.mode = "readiness",
                                                  !.approved = order.text]]
  /\ UNCHANGED <<issue, comment, holder, trouble>>
=============================================================================

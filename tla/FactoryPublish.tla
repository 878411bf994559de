--------------------------- MODULE FactoryPublish ---------------------------
(***************************************************************************)
(* From a ready issue to a pull request: implement-ready-issues.yml and    *)
(* scripts/factory/publish-implement-patch.mts.  The implement job reads   *)
(* the issue and lets an agent write a patch; the publish job, in the      *)
(* issue's privileged group, judges the patch, reads the issue again three *)
(* times, force-pushes one commit and opens or refreshes the one pull      *)
(* request of the issue.                                                   *)
(***************************************************************************)
EXTENDS FactoryIssue, PatchRules

CONSTANTS
  ImplementRuns,  \* runs of the implement workflow, in the order they start
  Patches,        \* what agents may leave behind
  PatchesOf,      \* run -> the patches its agent may leave (a bound)
  LoginsOf,       \* run -> the publishers it may get (a bound)
  StatsOf,        \* patch -> its files, as PatchRules reads them
  LinesOf,        \* patch -> the lines of its text
  SlugOf          \* text -> the slug of its title: deriveBranchName

ASSUME FactoryPublishAssumption ==
  /\ ImplementRuns \subseteq Nat \ {0}
  /\ \A i \in ImplementRuns : PatchesOf[i] \subseteq Patches /\ LoginsOf[i] \subseteq {"app", "fallback"}
  /\ DOMAIN StatsOf = Patches /\ DOMAIN LinesOf = Patches /\ Texts \subseteq DOMAIN SlugOf
  /\ None \notin Patches

VARIABLES
  implement,   \* run -> the state of its jobs
  branch,      \* slug -> the commit at the branch's head: None or [by, run, patch, text]
  pulls,       \* slug -> its open pull request: None or [labels, notes]
  failureNote  \* login -> the failure comment: None or [pushed]

publishVars == <<implement, branch, pulls, failureNote>>
vars == <<issueVars, publishVars>>

Slugs == {SlugOf[t] : t \in Texts}

\* The publisher is the factory App, or github-actions when no token was minted.
Logins == {"app", "fallback"}

\* view and text are what the implement job read; labelled, noted and removed tell how
\* the best-effort calls went (None: not tried).
Waiting == [pc |-> "idle", view |-> None, text |-> None, patch |-> None, login |-> "app",
            slug |-> None, existing |-> FALSE, pushed |-> FALSE,
            labelled |-> None, noted |-> None, removed |-> None, summary |-> None]

-----------------------------------------------------------------------------
(* Judging a patch.                                                        *)

\* Git applies the patch to a scratch index and reports what it touches.
getAuthoritativePatchAnalysis(patch) ==
  [paths |-> TouchedPaths(StatsOf[patch]), stats |-> StatsOf[patch], text |-> LinesOf[patch]]

\* The captured encoding may not be binary, nor the patch empty.
Publishable(patch) ==
  LET analysis == getAuthoritativePatchAnalysis(patch)
  IN /\ \A s \in ToSet(analysis.stats) : ~s.binary
     /\ analysis.paths # {}
     /\ findForbiddenPatchPaths(analysis.paths) = {}
     /\ findFactoryPatchEnvelopeViolations(analysis.stats) = {}

\* The classifier of edits that could game the gates.
gamingFlagged(patch) ==
  LET analysis == getAuthoritativePatchAnalysis(patch)
  IN \/ findTestFileEdits(analysis.paths) # {}
     \/ findAddedCoverageSuppressions(analysis.text) # {}
     \/ findAddedPackageJsonTestScriptEdits(analysis.text) # {}
     \/ findAddedRootPytestConfigSections(analysis.text) # {}

-----------------------------------------------------------------------------
(* Steps of a job.                                                         *)

To(i, pc) == implement' = [implement EXCEPT ![i].pc = pc]

AtStep(i, pc) == implement[i].pc = pc

\* A guard of the publish job that fails ends in the failure comment.
Unless(i, ok, next) == To(i, IF ok THEN next ELSE "reject")

IssueOnly == UNCHANGED <<issue, comment, triage, order>>
Quiet == IssueOnly /\ UNCHANGED <<holder, trouble, branch, pulls, failureNote>>

PublishSteps ==
  {"generation", "issue", "find", "recheck", "last check", "push", "open", "fallback",
   "flag", "annotate", "unflag", "finish", "reject"}

Busy(i) == implement[i].pc \notin {"idle", "done", "failed"}

PublishInit ==
  /\ implement = [i \in ImplementRuns |-> Waiting]
  /\ branch = [s \in Slugs |-> None]
  /\ pulls = [s \in Slugs |-> None]
  /\ failureNote = [l \in Logins |-> None]

-----------------------------------------------------------------------------
(* The implement job.  One run of the workflow at a time for an issue.     *)

\* A maintainer dispatches it for an issue that shows the label.
DispatchImplement(i) ==
  /\ AtStep(i, "idle")
  /\ "ready-to-implement" \in issue.labels
  /\ \A j \in ImplementRuns : ~Busy(j) /\ (j < i => ~AtStep(j, "idle"))
  /\ To(i, "view")
  /\ Quiet

\* The labels, the state and the comments come in one call.
ImplementViews(i) ==
  /\ AtStep(i, "view")
  /\ IF issue.open /\ "ready-to-implement" \in issue.labels
        /\ isAuthorizingTriageGeneration(comment)
     THEN implement' = [implement EXCEPT ![i].pc = "text", ![i].view = comment]
     ELSE To(i, "queued")
  /\ Quiet

\* The text comes in the next; it must be the approved one, if one was approved.
verifyApprovedRevision(i) ==
  /\ AtStep(i, "text")
  /\ implement' = [implement EXCEPT
       ![i].pc = IF implement[i].view.approved \in {None, issue.text} THEN "agent"
                 ELSE "queued",
       ![i].text = IF implement[i].view.approved \in {None, issue.text} THEN issue.text
                   ELSE None]
  /\ Quiet

\* The agent's patch passed the gates, or the job failed (no patch).
ImplementAgent(i, patch) ==
  /\ AtStep(i, "agent")
  /\ implement' = [implement EXCEPT ![i].pc = "queued", ![i].patch = patch]
  /\ Quiet

-----------------------------------------------------------------------------
(* The publish job.                                                        *)

\* Fault: the publish job outside the issue's group.
PublishUngrouped(i, login) ==
  /\ AtStep(i, "queued")
  /\ implement' = [implement EXCEPT ![i].pc = "generation", ![i].login = login]
  /\ IssueOnly /\ UNCHANGED <<holder, trouble, branch, pulls, failureNote>>

Publish(i, login) ==
  /\ AtStep(i, "queued")
  /\ holder = None
  /\ holder' = <<"publish", i>>
  /\ implement' = [implement EXCEPT ![i].pc = "generation", ![i].login = login]
  /\ IssueOnly /\ UNCHANGED <<trouble, branch, pulls, failureNote>>

\* The job's result, the size of the artifact and the current generation come first,
\* then the patch itself; git may fail to apply it to today's main.
PublishJudges(i, applies) ==
  /\ AtStep(i, "generation")
  /\ Unless(i, /\ implement[i].patch # None
               /\ isAuthorizingTriageGeneration(comment)
               /\ comment.run = implement[i].view.run
               /\ applies /\ Publishable(implement[i].patch), "issue")
  /\ Quiet

assertIssueRevisionMatches(i) == issue.text = implement[i].text

PublishReadsIssue(i) ==
  /\ AtStep(i, "issue")
  /\ Unless(i, /\ issue.open
               /\ "ready-to-implement" \in issue.labels
               /\ assertIssueRevisionMatches(i), "find")
  /\ Quiet

\* Fault: the pull request is looked for under today's title.
PrOfCurrentTitle == {s \in {SlugOf[issue.text]} : pulls[s] # None}

\* The open pull request whose branch is named for this issue's number.
findPrForIssueNumber == {s \in Slugs : pulls[s] # None}

FindsPr(i) ==
  /\ AtStep(i, "find")
  /\ \E s \in findPrForIssueNumber \cup {None} :
       /\ s = None <=> findPrForIssueNumber = {}
       /\ implement' = [implement EXCEPT ![i].pc = "recheck", ![i].slug = s,
                                         ![i].existing = s # None]
  /\ Quiet

\* The revision again; a new branch is named after the title just read.
ChoosesBranch(i) ==
  /\ AtStep(i, "recheck")
  /\ IF assertIssueRevisionMatches(i)
     THEN implement' = [implement EXCEPT ![i].pc = "last check",
            ![i].slug = IF implement[i].existing THEN @ ELSE SlugOf[issue.text]]
     ELSE To(i, "reject")
  /\ Quiet

\* And once more when the commit is made, just before the push.
RevalidatesBeforePush(i) ==
  /\ AtStep(i, "last check")
  /\ Unless(i, assertIssueRevisionMatches(i), "push")
  /\ Quiet

Commit(i) == [by |-> i, run |-> implement[i].view.run, patch |-> implement[i].patch,
              text |-> implement[i].text]

\* The push fails before or after it took effect; branchPushed stays unset either way.
Pushes(i, ok) ==
  /\ AtStep(i, "push")
  /\ \/ branch' = [branch EXCEPT ![implement[i].slug] = Commit(i)]
     \/ ~ok /\ UNCHANGED branch
  /\ implement' = [implement EXCEPT ![i].pushed = ok,
       ![i].pc = IF ~ok THEN "reject"
                 ELSE IF ~implement[i].existing THEN "open"
                 ELSE IF implement[i].login = "fallback" THEN "fallback"
                 ELSE IF gamingFlagged(implement[i].patch) THEN "flag" ELSE "unflag"]
  /\ MayFail(ok)
  /\ IssueOnly /\ UNCHANGED <<holder, pulls, failureNote>>

\* A pull request is opened for the branch; the answer of the call may be lost.
Opens(i, ok) ==
  /\ AtStep(i, "open")
  /\ \/ pulls' = [pulls EXCEPT ![implement[i].slug] = [labels |-> {}, notes |-> {}]]
     \/ ~ok /\ UNCHANGED pulls
  /\ To(i, IF ~ok THEN "reject"
           ELSE IF implement[i].login = "fallback" THEN "fallback"
           ELSE IF gamingFlagged(implement[i].patch) THEN "flag" ELSE "finish")
  /\ MayFail(ok)
  /\ IssueOnly /\ UNCHANGED <<holder, branch, failureNote>>

\* The pull request of the run, changed unless someone closed it meanwhile.
PullBecomes(i, p) ==
  pulls' = [pulls EXCEPT ![implement[i].slug] = IF @ = None THEN None ELSE p]

Pull(i) == pulls[implement[i].slug]
WithLabel(i, label) == [Pull(i) EXCEPT !.labels = @ \cup {label}]

\* Published without the App: the label that says no review ran, best effort.  The
\* comment that says so on a refresh changes nothing anyone reads back.
applyNoReviewAutomationLabelBestEffort(i, ok) ==
  /\ AtStep(i, "fallback")
  /\ IF ok THEN PullBecomes(i, WithLabel(i, "no-review-automation")) ELSE UNCHANGED pulls
  /\ To(i, IF gamingFlagged(implement[i].patch) THEN "flag"
           ELSE IF implement[i].existing THEN "unflag" ELSE "finish")
  /\ IssueOnly /\ UNCHANGED <<holder, trouble, branch, failureNote>>

applyNoAutoChainLabelBestEffort(i, ok) ==
  /\ AtStep(i, "flag")
  /\ IF ok THEN PullBecomes(i, WithLabel(i, "no-auto-chain")) ELSE UNCHANGED pulls
  /\ implement' = [implement EXCEPT ![i].pc = "annotate", ![i].labelled = ok]
  /\ IssueOnly /\ UNCHANGED <<holder, trouble, branch, failureNote>>

postGamingFlagAnnotation(i, ok) ==
  /\ AtStep(i, "annotate")
  /\ IF ok THEN PullBecomes(i, [Pull(i) EXCEPT !.notes = @ \cup {implement[i].patch}])
     ELSE UNCHANGED pulls
  /\ implement' = [implement EXCEPT ![i].pc = "finish", ![i].noted = ok]
  /\ IssueOnly /\ UNCHANGED <<holder, trouble, branch, failureNote>>

\* A clean refresh takes the flag of an earlier push off; "absent" is no failure.
removeNoAutoChainLabelBestEffort(i, ok) ==
  /\ AtStep(i, "unflag")
  /\ IF ok /\ Pull(i) # None
     THEN PullBecomes(i, [Pull(i) EXCEPT !.labels = @ \ {"no-auto-chain"}])
     ELSE UNCHANGED pulls
  /\ implement' = [implement EXCEPT ![i].pc = "finish",
       ![i].removed = CASE ~ok -> "failed"
                        [] Pull(i) # None /\ "no-auto-chain" \in Pull(i).labels -> "removed"
                        [] OTHER -> None]
  /\ IssueOnly /\ UNCHANGED <<holder, trouble, branch, failureNote>>

\* Fault: the last resort only for a refreshed pull request.
BothLostOnRefresh(i) ==
  /\ gamingFlagged(implement[i].patch) /\ implement[i].existing
  /\ implement[i].labelled = FALSE /\ implement[i].noted = FALSE

gamingSignalsBothLost(i) ==
  /\ gamingFlagged(implement[i].patch)
  /\ implement[i].labelled = FALSE
  /\ implement[i].noted = FALSE

\* What the summary tells an operator of the classifier's result.
buildPublishSuccessStepSummary(i) ==
  IF gamingFlagged(implement[i].patch)
  THEN [says |-> "flagged", label |-> implement[i].labelled, note |-> implement[i].noted]
  ELSE [says |-> "clean", label |-> implement[i].removed = "failed", note |-> FALSE]

\* What a run leaves for a rerun when it fails, and for a reader when it is green.
Failed(i) == [Waiting EXCEPT !.pc = "failed", !.view = implement[i].view,
                             !.text = implement[i].text, !.patch = implement[i].patch]
Green(i) == [Waiting EXCEPT !.pc = "done", !.patch = implement[i].patch,
               !.slug = implement[i].slug, !.summary = buildPublishSuccessStepSummary(i)]

\* A flag nobody would see fails the job, after one more try as a review.
Finishes(i, reviewed) ==
  /\ AtStep(i, "finish")
  /\ implement' = [implement EXCEPT ![i] =
                     IF gamingSignalsBothLost(i) THEN Failed(i) ELSE Green(i)]
  /\ holder' = None
  /\ IF gamingSignalsBothLost(i) /\ reviewed
     THEN PullBecomes(i, [Pull(i) EXCEPT !.notes = @ \cup {implement[i].patch}])
     ELSE UNCHANGED pulls
  /\ IssueOnly /\ UNCHANGED <<trouble, branch, failureNote>>

\* The failure comment of this publisher is updated or posted, and the job fails.
postFailureComment(i, ok) ==
  /\ AtStep(i, "reject")
  /\ implement' = [implement EXCEPT ![i] = Failed(i)]
  /\ holder' = None
  /\ IF ok THEN failureNote' = [failureNote EXCEPT ![implement[i].login] =
                                  [pushed |-> implement[i].pushed]]
     ELSE UNCHANGED failureNote
  /\ MayFail(ok)
  /\ IssueOnly /\ UNCHANGED <<branch, pulls>>

\* A read without an answer, which the publish job reports like a rejection.
PublishReadFails(i) ==
  /\ implement[i].pc \in {"generation", "issue", "find", "recheck", "last check"}
  /\ Trouble
  /\ To(i, "reject")
  /\ IssueOnly /\ UNCHANGED <<holder, branch, pulls, failureNote>>

\* The runner dies.
PublishDies(i) ==
  /\ implement[i].pc \in PublishSteps
  /\ Trouble
  /\ implement' = [implement EXCEPT ![i] = Failed(i)] /\ holder' = None
  /\ IssueOnly /\ UNCHANGED <<branch, pulls, failureNote>>

\* "Re-run failed jobs" after the implement job succeeded: the same patch once more.
RerunPublish(i) ==
  /\ AtStep(i, "failed") /\ implement[i].patch # None
  /\ \A j \in ImplementRuns : ~Busy(j)
  /\ Trouble
  /\ To(i, "queued")
  /\ IssueOnly /\ UNCHANGED <<holder, branch, pulls, failureNote>>

\* A maintainer closes the pull request unmerged.
ClosePull(s) ==
  /\ pulls[s] # None
  /\ Trouble
  /\ pulls' = [pulls EXCEPT ![s] = None]
  /\ IssueOnly /\ UNCHANGED <<holder, implement, branch, failureNote>>

-----------------------------------------------------------------------------
FInit == Init /\ PublishInit

SeedStep(r) ==
  \/ Seed(r) \/ SeedReads(r) \/ SeedUnreadies(r) \/ SeedRelabels(r) \/ SeedVerifies(r)
  \/ SeedRecordsHold(r)

ApplyStep(r) ==
  \/ Apply(r) \/ ApplyReadsIssue(r) \/ ApplyDecides(r) \/ ApplyWritesComment(r)
  \/ ApplyReadsLabels(r) \/ ApplyPutsLabels(r) \/ ApplyVerifies(r) \/ ApplyPutFails(r)
  \/ FallbackReadsLabels(r) \/ FallbackPutsLabels(r) \/ FallbackVerifies(r)
  \/ FallbackWritesComment(r)

Answers == AgentVerdicts \cup {"invalid"}

TriageNext ==
  \/ \E r \in TriageRuns :
       \/ SeedStep(r) \/ ApplyStep(r) \/ TriageDies(r) \/ RerunApply(r)
       \/ \E mode \in {"pre-filter", "readiness"} : Dispatch(r, mode)
       \/ \E answer \in Answers : TriageAgent(r, answer)
       \/ DispatchApproved(r)
  \/ \E t \in Texts : Edit(t)
  \/ \E l \in Labels : Relabel(l)
  \/ Close \/ Approve \/ IntakeReads \/ IntakeChecksHistory

PublishStep(i) ==
  \/ DispatchImplement(i) \/ ImplementViews(i) \/ verifyApprovedRevision(i)
  \/ \E patch \in PatchesOf[i] \cup {None} : ImplementAgent(i, patch)
  \/ \E login \in LoginsOf[i] : Publish(i, login)
  \/ PublishReadsIssue(i) \/ FindsPr(i) \/ ChoosesBranch(i) \/ RevalidatesBeforePush(i)
  \/ implement[i].pc \in PublishSteps /\ \E ok \in BOOLEAN :
       \/ PublishJudges(i, ok) \/ Pushes(i, ok) \/ Opens(i, ok)
       \/ applyNoReviewAutomationLabelBestEffort(i, ok)
       \/ applyNoAutoChainLabelBestEffort(i, ok) \/ postGamingFlagAnnotation(i, ok)
       \/ removeNoAutoChainLabelBestEffort(i, ok) \/ Finishes(i, ok)
       \/ postFailureComment(i, ok)

PublishNext ==
  \/ \E i \in ImplementRuns :
       PublishStep(i) \/ PublishReadFails(i) \/ PublishDies(i) \/ RerunPublish(i)
  \/ \E s \in Slugs : ClosePull(s)

FNext ==
  \/ TriageNext /\ UNCHANGED publishVars
  \/ PublishNext

FSpec == FInit /\ [][FNext]_vars

-----------------------------------------------------------------------------
(* Properties.                                                             *)

FTypeOK ==
  /\ issue \in [open : BOOLEAN, text : Texts, labels : SUBSET Labels]
  /\ comment \in {None} \cup
       [run : TriageRuns, held : BOOLEAN, approved : Texts \cup {None}]
  /\ holder \in {None} \cup ({"seed", "apply"} \X TriageRuns) \cup ({"publish"} \X ImplementRuns)
  /\ DOMAIN triage = TriageRuns /\ DOMAIN implement = ImplementRuns
  /\ branch \in [Slugs -> {None} \cup [by : ImplementRuns, run : TriageRuns, patch : Patches, text : Texts]]

\* What is pushed is what was authorized: the triage comment carries the very
\* generation the implement job worked under, un-held at that moment, the commit was
\* written for the text that job read, which is the approved one if a text was
\* approved, and the patch passes the rules (applyPatchAndPush and its guards).
PushAuthorized ==
  [][\A s \in Slugs : branch'[s] # branch[s] =>
       LET c == branch'[s]
       IN /\ isAuthorizingTriageGeneration(comment) /\ comment.run = c.run
          /\ comment.approved \in {None, c.text}
          /\ \A p \in TouchedPaths(StatsOf[c.patch]) : ~isProtectedPath(normalizePatchPath(p))
          /\ ~(TextLines(StatsOf[c.patch]) > FACTORY_TEXT_LINE_LIMIT)]_vars

\* The text the triage comment records as approved is the text the owner's comment
\* stood under, whatever was edited while the intake job read the issue.
ApprovalHonest ==
  comment # None /\ comment.approved # None => comment.approved = order.said

\* Once the run of the current comment is done and nothing is under way, the issue
\* is ready-to-implement only if that comment authorizes it.
ReadyMeansAuthorized ==
  comment # None /\ holder = None /\ triage[comment.run].pc = "done" =>
    ("ready-to-implement" \in issue.labels => isAuthorizingTriageGeneration(comment))

\* An apply job whose hold was replaced by a newer run's writes nothing: neither the
\* labels nor the comment (requireRetryableTriageGeneration and the group).
StaleApplyWritesNothing ==
  [][\A r \in TriageRuns :
       triage[r].pc \in ApplySteps /\ triage'[r] # triage[r]
         /\ ~(comment # None /\ comment.run = r)
       => UNCHANGED <<issue, comment>>]_vars

\* An issue has at most one open factory pull request, whatever its title became
\* and whichever answers were lost (findExistingPrForIssue).
OneOpenPull == Cardinality({s \in Slugs : pulls[s] # None}) <= 1

\* A flagged commit at the head of an open pull request whose publish job is green
\* is visible there, labelled or annotated, however many of the calls failed, and the
\* job's summary says so.
FlagVisible ==
  \A i \in ImplementRuns :
    LET s == implement[i].slug
    IN AtStep(i, "done") /\ pulls[s] # None /\ branch[s].by = i
         /\ gamingFlagged(branch[s].patch)
       => /\ implement[i].summary.says = "flagged"
          /\ \/ "no-auto-chain" \in pulls[s].labels
             \/ branch[s].patch \in pulls[s].notes
=============================================================================

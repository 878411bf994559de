-------------------------- MODULE GroundingVerdict --------------------------
(***************************************************************************)
(* The spec-grounded review of a pull request: the jobs spec-grounded-     *)
(* review and publish of claude-code-review.yml, with scripts/factory/     *)
(* spec-grounding-runner.mts and publish-spec-grounding-verdict.mts.       *)
(*                                                                         *)
(* A run reviews a head, and the references it finds, against the criteria *)
(* of the issues referred to.  Its publisher puts a thread on the pull     *)
(* request for each criterion of a closed issue that is not met, which     *)
(* blocks the merge until somebody resolves it, and a summary.  It has no  *)
(* transaction: it checks, call by call, that the pull request is still    *)
(* the one it read.  An issue has one criterion; an issue too large to be  *)
(* reviewed counts as one whose criterion is not met.  Publishers exclude  *)
(* each other and people delete no threads of the bot, so the listing of   *)
(* the threads is part of the step that uses it.                           *)
(***************************************************************************)
EXTENDS Sequences, FiniteSets, Faults

CONSTANTS
  Tickets,    \* the numbers of the issues that may be referred to
  References, \* what titles and bodies say: ticket -> "closing", "mention" or "none"
  LongDiffs,  \* the heads whose diff is truncated
  MAX_INDIVIDUAL_CRITERION_BLOCKER_COMMENTS

ASSUME GroundingAssumption ==
  /\ Tickets \subseteq Nat \ {0}
  /\ References \subseteq [Tickets -> {"closing", "mention", "none"}]
  /\ MAX_INDIVIDUAL_CRITERION_BLOCKER_COMMENTS \in Nat
  /\ None \notin [gen : Nat, open : BOOLEAN, read : Nat]

\* A blocker's marker: its issue's number, or one of the two aggregates'.
OVERFLOW == 0
TRUNCATED == -1
Marks == Tickets \cup {OVERFLOW, TRUNCATED}

VARIABLES
  target,    \* [head, base, refs] of the pull request, and the issues with an unticked criterion
  blockers,  \* mark -> its thread [gen, open, read], or None
  summary,   \* the bot's summary [kind, head, refs], None before the first
  rounds,    \* the workflow's runs; GITHUB_RUN_NUMBER is the position
  publisher  \* the publish job that runs, and what it has read

groundingVars == <<target, blockers, summary, rounds, publisher, trouble>>

Closing(refs) == {t \in Tickets : refs[t] = "closing"}
NoReferences == [t \in Tickets |-> "none"]

\* spine holds the closed issues whose criteria were given to the agent.
NewRound(head) ==
  [stage |-> "queued", head |-> head, base |-> 0, closing |-> {}, spine |-> {}, unmet |-> {},
   outcome |-> None]

\* made: the threads this job has created; stands: each blocker has an unresolved thread.
NoPublisher ==
  [round |-> 0, pc |-> "idle", snap |-> NoReferences, todo |-> {}, made |-> {}, stands |-> FALSE,
   gone |-> FALSE]

GroundingInit ==
  /\ \E refs \in References :
       target = [head |-> 1, base |-> 1, refs |-> refs, unticked |-> Tickets]
  /\ blockers = [m \in Marks |-> None]
  /\ summary = None
  /\ rounds = <<NewRound(1)>>
  /\ publisher = NoPublisher
  /\ trouble = 0

-----------------------------------------------------------------------------
(* The review.                                                             *)

\* The issues with unticked criteria among those closed, and among those referred to.
buildCriteriaSpine == Closing(target.refs) \cap target.unticked
buildLinkedIssueSpecs == {t \in target.unticked : target.refs[t] # "none"}

Stage(n, stage) == rounds' = [rounds EXCEPT ![n].stage = stage]

\* A review of the same pull request that is not done is cancelled.
Superseded ==
  [n \in DOMAIN rounds |->
     IF rounds[n].stage \in {"queued", "judging"}
     THEN [NewRound(rounds[n].head) EXCEPT !.stage = "judging", !.outcome = "cancelled"]
     ELSE rounds[n]]

\* Fault: an edit of title or body starts no review.
PushesOnly(event) == event = "push"

\* An event of the pull request does; a push to its base and an edited issue have none.
StartsReview(event) == event \in {"push", "edit"}

\* The runner refuses a head that is not its event's; it takes all it reviews from one
\* reading of the pull request.
RunnerReads(n) ==
  /\ rounds[n].stage = "queued"
  /\ IF target.head # rounds[n].head
     THEN rounds' = [rounds EXCEPT ![n].stage = "judging", ![n].outcome = "failed"]
     ELSE rounds' = [rounds EXCEPT ![n] =
            [@ EXCEPT !.stage = "judging", !.base = target.base,
               !.closing = Closing(target.refs),
               !.spine = buildCriteriaSpine,
               !.outcome = IF target.refs = NoReferences THEN "no-references"
                           ELSE IF buildLinkedIssueSpecs = {} THEN "no-unmet-criteria"
                           ELSE "verdict"]]
  /\ UNCHANGED <<target, blockers, summary, publisher, trouble>>

\* What the agent does not mention is not met; without a valid verdict the job has failed.
\* The publish job queues, and the one that waited before it gives way.
Judged(n, unmet, ok) ==
  /\ rounds[n].stage = "judging"
  /\ unmet \subseteq rounds[n].spine
  /\ ~ok => rounds[n].outcome = "verdict" /\ unmet = {}
  /\ rounds' = [r \in DOMAIN rounds |->
       IF r = n THEN [rounds[n] EXCEPT !.stage = "waiting", !.unmet = unmet,
                        !.outcome = IF ok THEN @ ELSE "failed"]
       ELSE IF rounds[r].stage = "waiting" THEN [rounds[r] EXCEPT !.stage = "cancelled"]
       ELSE rounds[r]]
  /\ MayFail(ok)
  /\ UNCHANGED <<target, blockers, summary, publisher>>

-----------------------------------------------------------------------------
(* The plan of the publisher.                                              *)

isDiffTruncationUnverifiableForClosing(r, refs) ==
  r.head \in LongDiffs /\ r.spine \cap Closing(refs) # {}

\* The unmet criteria of the issues that are closed now.
Applicable(r, refs) == r.unmet \cap Closing(refs)

Individual(r, refs) ==
  {t \in Applicable(r, refs) :
     Cardinality({u \in Applicable(r, refs) : u < t}) < MAX_INDIVIDUAL_CRITERION_BLOCKER_COMMENTS}

planBlockerInlineComments(r, refs) ==
  Individual(r, refs)
    \cup {m \in {OVERFLOW} : Individual(r, refs) # Applicable(r, refs)}
    \cup {m \in {TRUNCATED} : isDiffTruncationUnverifiableForClosing(r, refs)}

\* Individual comments first, by number; then the aggregates.
NextPost(todo) ==
  CHOOSE m \in todo :
    IF todo \subseteq {OVERFLOW, TRUNCATED} THEN \A o \in todo : o <= m
    ELSE m \in Tickets /\ \A o \in todo \cap Tickets : m <= o

-----------------------------------------------------------------------------
(* The publisher.                                                          *)

Now == rounds[publisher.round]
PublisherTo(pc) == publisher' = [publisher EXCEPT !.pc = pc]
PublisherReads == UNCHANGED <<target, blockers, summary, rounds, trouble>>

PublishStarts(n) ==
  /\ rounds[n].stage = "waiting" /\ publisher.pc = "idle"
  /\ IF rounds[n].outcome = "cancelled" THEN Stage(n, "cancelled") /\ UNCHANGED publisher
     ELSE /\ Stage(n, "publishing")
          /\ publisher' = [NoPublisher EXCEPT !.round = n,
                             !.pc = IF rounds[n].outcome = "failed" THEN "fallback" ELSE "pull"]
  /\ UNCHANGED <<target, blockers, summary, trouble>>

SameRange == target.head = Now.head /\ target.base = Now.base

findUnreviewedNewClosingReferences(r, refs) == Closing(refs) \ r.closing

\* Without references threads are deleted; without unmet criteria they are left to people.
Proceeds ==
  CASE Now.outcome = "no-references" -> "clear"
    [] Now.outcome = "no-unmet-criteria" -> "cleared"
    [] OTHER -> IF planBlockerInlineComments(Now, target.refs) = {} THEN "reconcile" ELSE "diff"

\* The pull request must be the reviewed one, and close nothing it did not close then.
ReadsTarget ==
  /\ publisher.pc = "pull"
  /\ LET next == Proceeds
     IN IF ~SameRange \/ findUnreviewedNewClosingReferences(Now, target.refs) # {}
        THEN PublisherTo("fallback")
        ELSE publisher' = [publisher EXCEPT !.pc = next, !.snap = target.refs,
                             !.todo = IF next = "clear" THEN Marks ELSE {}]
  /\ PublisherReads

\* A diff without an added line has no place for a thread.
FetchesDiff(anchor) ==
  /\ publisher.pc = "diff"
  /\ publisher' = [publisher EXCEPT !.pc = IF anchor THEN "post" ELSE "reconcile",
       !.todo = IF anchor THEN planBlockerInlineComments(Now, publisher.snap) ELSE {}]
  /\ PublisherReads

\* A thread that is there gets the new text and generation, and stays resolved if it was.
upsertInlineComment(m) ==
  blockers' = [blockers EXCEPT ![m] =
    IF @ = None THEN [gen |-> publisher.round, open |-> TRUE, read |-> 0]
    ELSE [@ EXCEPT !.gen = publisher.round]]

\* A first thread that GitHub refuses ends the posting, any other error the publishing.
postInlineCommentPlan(result) ==
  /\ publisher.pc = "post"
  /\ LET m == NextPost(publisher.todo)
         created == {o \in {m} : blockers[m] = None}
     IN \/ /\ result = "ok"
           /\ upsertInlineComment(m)
           /\ publisher' = [publisher EXCEPT !.todo = @ \ {m}, !.made = @ \cup created,
                !.pc = IF publisher.todo = {m} THEN "confirm" ELSE "post"]
        \/ /\ result = "refused" /\ created # {} /\ publisher.made = {}
           /\ PublisherTo("confirm") /\ UNCHANGED blockers
        \/ /\ result = "error"
           /\ upsertInlineComment(m) \/ UNCHANGED blockers
           /\ PublisherTo("fallback")
  /\ MayFail(result # "error")
  /\ UNCHANGED <<target, summary, rounds>>

StillOpen(m) == blockers[m].open

\* Threads that were there must be seen to be unresolved; a failed look sees none.
collectUnresolvedPostedMarkers(looks) ==
  /\ publisher.pc = "confirm"
  /\ LET plan == planBlockerInlineComments(Now, publisher.snap)
         posted == plan \ publisher.todo
         open == {m \in posted : m \in publisher.made \/ (looks /\ StillOpen(m))}
     IN publisher' = [publisher EXCEPT !.pc = "reconcile", !.todo = {}, !.made = {},
                        !.stands = plan \subseteq open]
  /\ MayFail(looks)
  /\ UNCHANGED <<target, blockers, summary, rounds>>

verifyPullRequestSnapshotUnchanged == SameRange /\ target.refs = publisher.snap

OfThisOrEarlier(m) == blockers[m] # None /\ blockers[m].gen <= publisher.round

\* Threads of issues no longer closed, and the truncation's once nothing is closed.
Obsolete ==
  {m \in Marks : OfThisOrEarlier(m)
     /\ \/ m \in Tickets \ Closing(publisher.snap)
        \/ m = TRUNCATED /\ Closing(publisher.snap) = {}}

Reconciles ==
  /\ publisher.pc = "reconcile"
  /\ publisher' = IF ~verifyPullRequestSnapshotUnchanged THEN [publisher EXCEPT !.pc = "fallback"]
                  ELSE [publisher EXCEPT !.todo = Obsolete,
                          !.pc = IF Obsolete = {} THEN "check"
                                 ELSE IF TRUNCATED \in Obsolete THEN "verify" ELSE "drop"]
  /\ PublisherReads

\* Before the aggregate goes, and once more before the others do.
VerifiesAgain ==
  /\ publisher.pc = "verify"
  /\ PublisherTo(IF verifyPullRequestSnapshotUnchanged THEN "drop" ELSE "fallback")
  /\ PublisherReads

\* A delete that fails may have deleted.
DropsThread(m, ok, next) ==
  /\ blockers' = [blockers EXCEPT ![m] = None] \/ (~ok /\ UNCHANGED blockers)
  /\ publisher' = [publisher EXCEPT !.todo = IF ok THEN @ \ {m} ELSE {}, !.gone = ok \/ @,
                     !.pc = IF ok THEN next ELSE "fallback"]
  /\ MayFail(ok)
  /\ UNCHANGED <<target, summary, rounds>>

reconcileObsoleteInlineBlockerComments(ok) ==
  /\ publisher.pc = "drop"
  /\ \E m \in publisher.todo :
       /\ TRUNCATED \in publisher.todo => m = TRUNCATED
       /\ DropsThread(m, ok, IF publisher.todo = {m} THEN "check"
                             ELSE IF m = TRUNCATED THEN "verify" ELSE "drop")

\* Without references every thread up to this generation goes, each after a check of its
\* own; todo is listed at the first of them.
ChecksNoReferences ==
  /\ publisher.pc = "clear"
  /\ LET left == {m \in publisher.todo : OfThisOrEarlier(m)}
         safe == SameRange /\ target.refs = NoReferences
     IN publisher' = [publisher EXCEPT !.todo = left,
          !.pc = IF left = {} /\ publisher.gone THEN "cleared"
                 ELSE IF ~safe THEN "raced"
                 ELSE IF left = {} THEN "cleared" ELSE "remove"]
  /\ PublisherReads

clearStaleInlineBlockerComments(ok) ==
  /\ publisher.pc = "remove"
  /\ \E m \in publisher.todo : DropsThread(m, ok, "clear")

-----------------------------------------------------------------------------
(* The summary, and the end of the job.                                    *)

\* The last look, before the call that writes.
PreWriteCheck ==
  /\ publisher.pc = "check"
  /\ PublisherTo(IF verifyPullRequestSnapshotUnchanged THEN "verdict" ELSE "fallback")
  /\ PublisherReads

\* Fault: the job ends well once the summary names the blockers.
SuccessfulOnceWritten(pc) == pc \in {"cleared", "raced", "verdict"}

\* Blockers that have no open thread make the job fail.
Successful(pc) ==
  \/ pc \in {"cleared", "raced"}
  \/ pc = "verdict" /\ (planBlockerInlineComments(Now, publisher.snap) = {} \/ publisher.stands)

\* Clearing is for a summary that is there, or after threads were removed.
Mentioned(pc) == summary # None \/ pc \in {"verdict", "fallback"} \/ (pc = "raced" /\ publisher.gone)

WritesSummary(ok) ==
  /\ publisher.pc \in {"verdict", "cleared", "raced", "fallback"}
  /\ LET written == [kind |-> publisher.pc, head |-> Now.head, refs |-> publisher.snap]
     IN summary' \in {IF Mentioned(publisher.pc) THEN written ELSE summary}
                      \cup {old \in {summary} : ~ok}
  /\ IF ok \/ publisher.pc = "fallback"
     THEN /\ Stage(publisher.round, IF ok /\ Successful(publisher.pc) THEN "ok" ELSE "red")
          /\ publisher' = NoPublisher
     ELSE PublisherTo("fallback") /\ UNCHANGED rounds
  /\ MayFail(ok)
  /\ UNCHANGED <<target, blockers>>

\* A call that reads fails: the fallback tells of it.
PublisherReadFails ==
  /\ publisher.pc \in {"pull", "diff", "reconcile", "verify", "clear", "check"}
  /\ Trouble
  /\ PublisherTo("fallback")
  /\ UNCHANGED <<target, blockers, summary, rounds>>

PublisherDies ==
  /\ publisher.pc # "idle"
  /\ Trouble
  /\ Stage(publisher.round, "red")
  /\ publisher' = NoPublisher
  /\ UNCHANGED <<target, blockers, summary>>

-----------------------------------------------------------------------------
(* People.                                                                 *)

Event(event) ==
  /\ Trouble
  /\ rounds' = IF StartsReview(event) THEN Append(Superseded, NewRound(target'.head)) ELSE rounds
  /\ UNCHANGED <<blockers, summary, publisher>>

PushesHead == target' = [target EXCEPT !.head = @ + 1] /\ Event("push")
EditsReferences(refs) == target' = [target EXCEPT !.refs = refs] /\ Event("edit")
TicksBox(t) ==
  /\ t \in target.unticked
  /\ target' = [target EXCEPT !.unticked = @ \ {t}] /\ Event("issue")
BaseAdvances == target' = [target EXCEPT !.base = @ + 1] /\ Event("base")

\* Somebody resolves a thread, having read what it says now.
ResolvesThread(m) ==
  /\ blockers[m] # None /\ blockers[m].open
  /\ Trouble
  /\ blockers' = [blockers EXCEPT ![m].open = FALSE, ![m].read = blockers[m].gen]
  /\ UNCHANGED <<target, summary, rounds, publisher>>

Finished == {n \in DOMAIN rounds : rounds[n].stage \in {"ok", "red", "cancelled"}}

\* "Re-run all jobs" reviews again under the same number.
RerunReview(n) ==
  /\ n \in Finished
  /\ Trouble
  /\ rounds' = [Superseded EXCEPT ![n] = NewRound(rounds[n].head)]
  /\ UNCHANGED <<target, blockers, summary, publisher>>

\* Running the publish job again keeps the artifacts.
RerunPublish(n) ==
  /\ n \in Finished /\ rounds[n].outcome \notin {None, "cancelled"}
  /\ Trouble
  /\ rounds' = [r \in DOMAIN rounds |->
       IF r = n THEN [rounds[n] EXCEPT !.stage = "waiting"]
       ELSE IF rounds[r].stage = "waiting" THEN [rounds[r] EXCEPT !.stage = "cancelled"]
       ELSE rounds[r]]
  /\ UNCHANGED <<target, blockers, summary, publisher>>

-----------------------------------------------------------------------------
ReviewNext(n) ==
  \/ RunnerReads(n) \/ PublishStarts(n)
  \/ \E unmet \in SUBSET Tickets, ok \in BOOLEAN : Judged(n, unmet, ok)

PublishNext ==
  \/ ReadsTarget \/ Reconciles \/ VerifiesAgain \/ ChecksNoReferences \/ PreWriteCheck
  \/ \E result \in {"ok", "refused", "error"} : postInlineCommentPlan(result)
  \/ \E ok \in BOOLEAN :
       FetchesDiff(ok) \/ collectUnresolvedPostedMarkers(ok) \/ WritesSummary(ok)
         \/ reconcileObsoleteInlineBlockerComments(ok) \/ clearStaleInlineBlockerComments(ok)

PeopleOnTarget ==
  \/ PushesHead \/ BaseAdvances
  \/ \E t \in Tickets : TicksBox(t)
  \/ \E refs \in References : EditsReferences(refs)
  \/ \E m \in Marks : ResolvesThread(m)

GroundingNext ==
  \/ \E n \in DOMAIN rounds : ReviewNext(n) \/ RerunReview(n) \/ RerunPublish(n)
  \/ PublishNext \/ PublisherReadFails \/ PublisherDies \/ PeopleOnTarget

GroundingSpec == GroundingInit /\ [][GroundingNext]_groundingVars

-----------------------------------------------------------------------------
(* Properties.                                                             *)

\* A publish job succeeds with a verdict only if each blocker of the references it
\* verified has a thread that is open, or was resolved by somebody who had this run's
\* words before them (tryPostBlockersInline, collectUnresolvedPostedMarkers).
GreenMeansGated ==
  [][\A n \in DOMAIN rounds :
       rounds[n].stage = "publishing" /\ rounds'[n].stage = "ok" /\ publisher.pc = "verdict" =>
         \A m \in planBlockerInlineComments(rounds[n], publisher.snap) :
           blockers[m] # None /\ (blockers[m].open \/ blockers[m].read = n)]_groundingVars

\* Nothing runs or waits, and the newest run went through.
Quiet ==
  Finished = DOMAIN rounds /\ rounds[Len(rounds)].stage = "ok"

\* Once the runs are worked off, the summary speaks of this head and these references, or
\* admits that it does not, and what the newest run found unmet in an issue the pull
\* request closes has its thread, whatever edits, deletions and repeated older runs came
\* in between (the events of the workflow, and the checks before each write).
GroundingCurrent ==
  Quiet =>
    /\ summary # None /\ summary.kind \in {"verdict", "cleared"} =>
         summary.head = target.head /\ summary.refs = target.refs
    /\ LET newest == rounds[Len(rounds)]
       IN newest.outcome = "verdict" =>
            \A m \in planBlockerInlineComments(newest, target.refs) : blockers[m] # None
=============================================================================

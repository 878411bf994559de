----------------------------- MODULE CodexStatus -----------------------------
(***************************************************************************)
(* The advisory status of the Codex review: codex-verdict-status.yml,      *)
(* scripts/factory/publish-codex-verdict-status.mts and the logic it       *)
(* calls.  Every event on a pull request starts a run; runs share a group  *)
(* with room for one that waits.  A run reads the pull request, then three *)
(* lists in any order, then the reactions to what started the review, and  *)
(* posts what it concludes on the head it read first.                      *)
(*                                                                         *)
(* Timestamps are whole seconds, and much happens within one.              *)
(***************************************************************************)
EXTENDS Faults, FiniteSets, FiniteSetsExt

CONSTANTS
  Shas,       \* commits the head may be moved to
  Forms,      \* what may be commented: [by, title, reviewed, notice, trigger]
  CODEX_WAIT_TIMEOUT,  \* CODEX_WAIT_TIMEOUT_MINUTES, in the model's seconds
  MaxTime     \* bound on the clock

\* What a pending status says is to be done; "retry" once it was retracted.
Advice == {"wait", "due", "eyes-stale-escalate", "already-posted", "not-applicable-draft",
           "verify", "retry"}

ASSUME CodexStatusAssumption ==
  /\ MaxTime \in Nat /\ CODEX_WAIT_TIMEOUT \in Nat
  /\ \A form \in Forms :
       /\ form.by \in {"codex", "owner", "stranger"}
       /\ form.reviewed \in Shas \cup {None, "conflicting"}
       /\ \A b \in {form.title, form.notice, form.trigger} : b \in BOOLEAN
  /\ None \notin Nat
  /\ None \notin [state : {"success", "failure", "pending"}, advice : Advice \cup {None}]

VARIABLES
  now,
  pr,        \* [head, draft, era]: era counts head moves and returns from draft
  timeline,  \* [event, at]
  reviews,   \* [by, sha, at]
  comments,  \* [id, at, era] and the fields of a form
  reactions, \* [by, content, at, subject]
  status,    \* sha -> [state, advice], None until one is posted
  job        \* the run that holds the group, and whether one waits

codexVars == <<now, pr, timeline, reviews, comments, reactions, status, job, trouble>>
evidence == <<pr, timeline, reviews, comments, reactions>>

Unread == [timeline |-> None, reviews |-> None, comments |-> None]

\* short: the lists that were not read to their last page.
NoJob == [pc |-> "idle", waits |-> FALSE, failed |-> FALSE, short |-> {}, snap |-> None,
          view |-> Unread, at |-> 0, plan |-> None]

\* The pull request was opened at 0, and that event's run waits.
CodexInit ==
  /\ now = 0
  /\ \E head \in Shas, draft \in BOOLEAN : pr = [head |-> head, draft |-> draft, era |-> 0]
  /\ timeline = {} /\ reviews = {} /\ comments = {} /\ reactions = {}
  /\ status = [s \in Shas |-> None]
  /\ job = [NoJob EXCEPT !.waits = TRUE]
  /\ trouble = 0

-----------------------------------------------------------------------------
(* codex-signal-collection-logic.mts: what a view of the pull request, read *)
(* in pieces, says of the head of the snapshot.                             *)

HeadEvents == {"head_ref_force_pushed", "head_ref_deleted", "head_ref_restored"}

\* Fault: timestamps of one second postdate each other.
NotEarlier(a, b) == a >= b

\* They do not.
postdates(a, b) == a > b

ByCodex(records) == {r \in records : r.by = "codex"}

\* A trigger of someone who may not trigger is no comment.
filterAuthorizedTriggerComments(all) == {c \in all : ~(c.by = "stranger" /\ c.trigger)}

\* The last forced change of the head, or the creation.
deriveHeadChangedAt(tl) == Max({0} \cup {e.at : e \in {f \in tl : f.event \in HeadEvents}})

\* Forced changes since the boundary, and what Codex said of another commit since.
latestAdvanceEvidenceAt(head, view, boundary) ==
  LET says == {e.at : e \in {f \in view.timeline : f.event \in HeadEvents}}
                \cup {r.at : r \in {q \in ByCodex(view.reviews) : q.sha # head}}
                \cup {c.at : c \in {d \in ByCodex(view.comments) : d.reviewed \in Shas \ {head}}}
      since == {t \in says : t >= boundary}
  IN IF since = {} THEN None ELSE Max(since)

LastOf(tl, event) ==
  LET at == {e.at : e \in {f \in tl : f.event = event}} IN IF at = {} THEN None ELSE Max(at)

\* The pull request was ready when it was read but the timeline's last word is draft.
SnapshotInconsistent(snap, view) ==
  LET ready == LastOf(view.timeline, "ready_for_review")
      draft == LastOf(view.timeline, "convert_to_draft")
  IN ~snap.draft /\ draft # None /\ (ready = None \/ draft >= ready)

\* The opening, or the last time it was made ready; and then a later manual trigger,
\* which must be later than whatever moved the head.
selectBoundary(snap, view) ==
  LET ready == LastOf(view.timeline, "ready_for_review")
      base == IF ~snap.draft /\ ready # None THEN ready ELSE 0
      advance == latestAdvanceEvidenceAt(snap.head, view, base)
      reference == IF advance = None THEN base
                   ELSE Max({base, deriveHeadChangedAt(view.timeline), advance})
      triggers == {c \in view.comments : c.by # "codex" /\ c.trigger /\ c.at > reference}
      latest == CHOOSE c \in triggers :
                  \A d \in triggers : d.at < c.at \/ (d.at = c.at /\ d.id <= c.id)
  IN IF triggers # {} THEN [at |-> latest.at, subject |-> latest.id]
     ELSE IF advance # None THEN None
     ELSE [at |-> base, subject |-> 0]

-----------------------------------------------------------------------------
(* codex-verdict-logic.mts.                                                *)

isFindingsReview(r, head) == r.by = "codex" /\ r.sha = head
isFindingsComment(c, head) == c.by = "codex" /\ c.reviewed = head /\ ~c.title /\ ~c.notice

\* Findings on the head count whenever they were made.
probeCurrentHeadFindings(head, view) ==
  \/ \E r \in view.reviews : isFindingsReview(r, head)
  \/ \E c \in view.comments : isFindingsComment(c, head)

isCleanComment(c, head, boundary, headChanged) ==
  /\ c.by = "codex" /\ c.title /\ c.reviewed = head
  /\ postdates(c.at, boundary) /\ postdates(c.at, headChanged)

\* Another word of Codex on the head since the boundary, or one on several commits.
BlocksClean(c, head, boundary, headChanged) ==
  /\ c.by = "codex" /\ c.reviewed \in {head, "conflicting"}
  /\ postdates(c.at, boundary)
  /\ ~isCleanComment(c, head, boundary, headChanged)

findCleanReactionPair(pairs, boundary, headChanged) ==
  \E eyes, plusOne \in ByCodex(pairs) :
    /\ eyes.content = "eyes" /\ plusOne.content = "+1"
    /\ postdates(plusOne.at, eyes.at) /\ postdates(eyes.at, boundary)
    /\ postdates(plusOne.at, headChanged)

\* When to ask for a review by hand.
manualTriggerAdvice(view, boundary, seen, whole, at) ==
  LET asked == {c \in view.comments : c.by # "codex" /\ c.trigger /\ c.at >= boundary.at
                  /\ (c.at > deriveHeadChangedAt(view.timeline) \/ c.at = boundary.at)
                  /\ (c.at = boundary.at => boundary.subject # 0)}
      eyes == {r.at : r \in {q \in ByCodex(seen) : q.content = "eyes" /\ postdates(q.at, boundary.at)}}
  IN IF asked # {} THEN "already-posted"
     ELSE IF ~whole THEN "wait"
     ELSE IF eyes # {} THEN IF at - Max(eyes) >= CODEX_WAIT_TIMEOUT THEN "eyes-stale-escalate" ELSE "wait"
     ELSE IF at - boundary.at >= CODEX_WAIT_TIMEOUT THEN "due" ELSE "wait"

Pending(advice) == [state |-> "pending", advice |-> advice]

\* A pair of reactions names no commit: it asks for a look.
reduceCodexVerdict(snap, view, boundary, seen, whole, at) ==
  LET headChanged == deriveHeadChangedAt(view.timeline)
      blocked == ~whole \/ \E c \in view.comments :
                             BlocksClean(c, snap.head, boundary.at, headChanged)
  IN IF snap.draft THEN Pending("not-applicable-draft")
     ELSE IF ~blocked /\ \E c \in view.comments :
                           isCleanComment(c, snap.head, boundary.at, headChanged)
     THEN [state |-> "success", advice |-> None]
     ELSE IF ~blocked /\ findCleanReactionPair(seen, boundary.at, headChanged) THEN Pending("verify")
     ELSE Pending(manualTriggerAdvice(view, boundary, seen, whole, at))

\* What is settled before the reactions are known; None if they are needed.
collectSignalInput(snap, view, short) ==
  IF probeCurrentHeadFindings(snap.head, view) THEN [state |-> "failure", advice |-> None]
  ELSE IF short \cap {"timeline", "comments"} # {} \/ SnapshotInconsistent(snap, view)
  THEN Pending(IF snap.draft THEN "not-applicable-draft" ELSE "wait")
  ELSE IF selectBoundary(snap, view) = None
  THEN Pending(IF snap.draft THEN "not-applicable-draft" ELSE "due")
  ELSE None

\* All of it at once.
collectAndPlan(snap, view, seen, at) ==
  IF collectSignalInput(snap, view, {}) # None THEN collectSignalInput(snap, view, {})
  ELSE reduceCodexVerdict(snap, view, selectBoundary(snap, view), seen, TRUE, at)

-----------------------------------------------------------------------------
(* publish-codex-verdict-status.mts: one run.                              *)

JobTo(pc) == job' = [job EXCEPT !.pc = pc]
JobReads == UNCHANGED <<now, evidence, status>>
JobEnds(failed) == job' = [NoJob EXCEPT !.waits = job.waits, !.failed = failed, !.short = job.short]

Starts ==
  /\ job.pc = "idle" /\ job.waits
  /\ job' = [NoJob EXCEPT !.pc = "pull"]
  /\ JobReads /\ UNCHANGED trouble

\* Nothing is posted when the pull request cannot be read.
ReadsPull(ok) ==
  /\ job.pc = "pull"
  /\ IF ok THEN job' = [job EXCEPT !.pc = "lists", !.snap = [head |-> pr.head, draft |-> pr.draft]]
     ELSE JobEnds(TRUE)
  /\ MayFail(ok)
  /\ JobReads

\* A list longer than the pages that are read lacks its newest records.
ReadsList(source, whole) ==
  /\ job.pc = "lists" /\ job.view[source] = None
  /\ LET list == CASE source = "timeline" -> timeline
                   [] source = "reviews" -> reviews
                   [] OTHER -> filterAuthorizedTriggerComments(comments)
     IN \E read \in (IF whole THEN {list} ELSE {{r \in list : r.at < now}}) :
          job' = [job EXCEPT !.view[source] = read, !.short = IF whole THEN @ ELSE @ \cup {source}]
  /\ MayFail(whole)
  /\ JobReads

Collects ==
  /\ job.pc = "lists" /\ \A source \in DOMAIN job.view : job.view[source] # None
  /\ LET plan == collectSignalInput(job.snap, job.view, job.short)
     IN job' = IF plan = None THEN [job EXCEPT !.pc = "reactions", !.at = now]
               ELSE [job EXCEPT !.pc = "post", !.plan = plan, !.view = Unread]
  /\ JobReads /\ UNCHANGED trouble

fetchReactions(whole) ==
  /\ job.pc = "reactions"
  /\ LET boundary == selectBoundary(job.snap, job.view)
         seen == {r \in reactions : r.subject = boundary.subject}
         all == whole /\ job.short = {}
     IN job' = [job EXCEPT !.pc = "post", !.view = Unread, !.at = 0,
          !.short = IF whole THEN @ ELSE @ \cup {"reactions"},
          !.plan = reduceCodexVerdict(job.snap, job.view, boundary, seen, all, job.at)]
  /\ MayFail(whole)
  /\ JobReads

\* The answer of a post may be lost, and what was posted is then retracted.
postStatus(ok) ==
  /\ job.pc = "post"
  /\ \/ status' = [status EXCEPT ![job.snap.head] = job.plan]
     \/ ~ok /\ UNCHANGED status
  /\ IF ok THEN JobEnds(FALSE) ELSE JobTo("retract")
  /\ MayFail(ok)
  /\ UNCHANGED <<now, evidence>>

CallFails ==
  /\ job.pc \in {"lists", "reactions"}
  /\ Trouble
  /\ JobTo("retract")
  /\ JobReads

Retracts(ok) ==
  /\ job.pc = "retract"
  /\ \/ status' = [status EXCEPT ![job.snap.head] = Pending("retry")]
     \/ ~ok /\ UNCHANGED status
  /\ JobEnds(TRUE)
  /\ MayFail(ok)
  /\ UNCHANGED <<now, evidence>>

\* The runner dies.
JobDies ==
  /\ job.pc # "idle"
  /\ Trouble
  /\ JobEnds(TRUE)
  /\ JobReads

-----------------------------------------------------------------------------
(* The pull request.  Every change but a reaction is an event of the       *)
(* workflow.                                                               *)

\* Fault: reviews are no events.
CommentsOnly(kind) == kind # "review"

StartsRun(kind) == kind # "reaction"

\* The run of an event waits; one that waited gives way to it.
Happens(kind) ==
  /\ Trouble
  /\ job' = IF StartsRun(kind) THEN [job EXCEPT !.waits = TRUE] ELSE job
  /\ UNCHANGED <<now, status>>

\* A new commit on top shows in no timeline.
Push(head) ==
  /\ head # pr.head /\ \A c \in comments : c.reviewed # head
  /\ \A r \in reviews : r.sha # head
  /\ pr' = [pr EXCEPT !.head = head, !.era = @ + 1]
  /\ Happens("push")
  /\ UNCHANGED <<timeline, reviews, comments, reactions>>

ForcePush(head) ==
  /\ head # pr.head
  /\ pr' = [pr EXCEPT !.head = head, !.era = @ + 1]
  /\ timeline' = timeline \cup {[event |-> "head_ref_force_pushed", at |-> now]}
  /\ Happens("push")
  /\ UNCHANGED <<reviews, comments, reactions>>

Converts ==
  /\ pr' = [pr EXCEPT !.draft = ~@, !.era = IF pr.draft THEN @ + 1 ELSE @]
  /\ timeline' = timeline \cup
       {[event |-> IF pr.draft THEN "ready_for_review" ELSE "convert_to_draft", at |-> now]}
  /\ Happens("conversion")
  /\ UNCHANGED <<reviews, comments, reactions>>

\* Codex reviews the head, or, being slow, the one before.
Reviewed(by, sha) ==
  /\ reviews' = reviews \cup {[by |-> by, sha |-> sha, at |-> now]}
  /\ Happens("review")
  /\ UNCHANGED <<pr, timeline, comments, reactions>>

\* Only a comment on the head names the head of its era.
Commented(form) ==
  /\ comments' = comments \cup
       {[by |-> form.by, title |-> form.title, reviewed |-> form.reviewed,
         notice |-> form.notice, trigger |-> form.trigger,
         id |-> Cardinality(comments) + 1, at |-> now, era |-> pr.era]}
  /\ form.reviewed \in Shas => form.reviewed = pr.head
  /\ Happens("comment")
  /\ UNCHANGED <<pr, timeline, reviews, reactions>>

Reacts(content, subject) ==
  /\ reactions' = reactions \cup [by : {"codex"}, content : {content}, at : {now}, subject : {subject}]
  /\ Happens("reaction")
  /\ UNCHANGED <<pr, timeline, reviews, comments>>

Tick == now < MaxTime /\ now' = now + 1 /\ UNCHANGED <<evidence, status, job, trouble>>

-----------------------------------------------------------------------------
JobNext ==
  \/ Starts \/ Collects
  \/ \E ok \in BOOLEAN : ReadsPull(ok) \/ fetchReactions(ok) \/ postStatus(ok) \/ Retracts(ok)
  \/ \E source \in DOMAIN Unread, whole \in BOOLEAN : ReadsList(source, whole)

Changes ==
  \/ Converts
  \/ \E s \in Shas : Push(s) \/ ForcePush(s) \/ Reviewed("codex", s)
  \/ \E form \in Forms : Commented(form)
  \/ \E content \in {"eyes", "+1"}, subject \in {0} \cup {c.id : c \in comments} :
       Reacts(content, subject)

CodexNext == JobNext \/ CallFails \/ JobDies \/ Changes \/ Tick

CodexSpec == CodexInit /\ [][CodexNext]_codexVars

-----------------------------------------------------------------------------
(* Properties.                                                             *)

\* No run is under way or due, and the last one read everything and posted.
Settled == job.pc = "idle" /\ ~job.waits /\ ~job.failed /\ job.short = {}

\* Once the events have been worked off, the head's status is the one its evidence calls
\* for: a run that read half of a change, or posted on an earlier head, has a successor
\* (the events and the concurrency group of codex-verdict-status.yml).
StatusCurrent ==
  Settled =>
    /\ status[pr.head] # None
    /\ status[pr.head].state =
         collectAndPlan(pr, [timeline |-> timeline, reviews |-> reviews,
                             comments |-> filterAuthorizedTriggerComments(comments)],
                        {}, now).state

\* A settled success rests on a clean comment that Codex wrote about this head, after the
\* head last moved and the pull request last left draft, though timestamps cannot order
\* what happens within a second; and Codex found nothing in this head, ever.
SuccessEarned ==
  Settled /\ status[pr.head] # None /\ status[pr.head].state = "success" =>
    /\ \E c \in ByCodex(comments) : c.title /\ c.reviewed = pr.head /\ c.era = pr.era
    /\ \A r \in ByCodex(reviews) : r.sha # pr.head
=============================================================================

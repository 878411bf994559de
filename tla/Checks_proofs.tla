------------------------------ MODULE Checks_proofs ------------------------------
(***************************************************************************)
(* Proofs about what a pull request is checked by: the status of the Codex *)
(* review, the spec-grounded review, and the CI gate.  They share nothing  *)
(* but GitHub; each has an inductive invariant of its own, proved for any  *)
(* commits, comments, references and histories and any bound on trouble.   *)
(***************************************************************************)
EXTENDS CodexStatus, GroundingVerdict, ChangeGate, FiniteSetTheorems, TLAPS

-----------------------------------------------------------------------------
(* Greatest elements.                                                      *)

\* A set of naturals that has a bound has a greatest element.
LEMMA GreatestNumber ==
  ASSUME NEW N \in Nat, NEW T, T \subseteq 0 .. N, T # {}
  PROVE  \E n \in T : \A m \in T : n >= m
<1> DEFINE R == StrictSubsetOrdering(Nat)
           D == {n .. N : n \in T}
<1>1. \A n \in T : (n .. N) \in SUBSET Nat /\ IsFiniteSet(n .. N)
  <2>1. \A n \in T : n \in Nat /\ n \in Int /\ N \in Int /\ (n .. N) \subseteq Nat
    OBVIOUS
  <2> QED
    BY <2>1, FS_Interval
<1>2. D \subseteq FiniteSubsetsOf(Nat) /\ D # {}
  BY <1>1, Zenon DEF FiniteSubsetsOf
<1>3. \A x, y \in SUBSET Nat : <<y, x>> \in R <=> (y \subseteq x /\ x # y)
  BY DEF StrictSubsetOrdering
<1>4. IsWellFoundedOn(R, FiniteSubsetsOf(Nat))
  BY FS_StrictSubsetOrderingWellFounded
<1> HIDE DEF R
<1>5. PICK x \in D : \A y \in D : ~ (<<y, x>> \in R)
  BY <1>2, <1>4, WFMin
<1>6. PICK n \in T : x = n .. N
  BY <1>5
<1>7. ASSUME NEW m \in T, ~ (n >= m)
      PROVE  FALSE
  <2>1. (m .. N) \subseteq (n .. N) /\ n \in n .. N /\ n \notin m .. N
    BY <1>7
  <2>2. (m .. N) \in D /\ (m .. N) \in SUBSET Nat /\ (n .. N) \in SUBSET Nat
    BY <1>1
  <2>3. <<m .. N, n .. N>> \in R
    BY <1>3, <2>1, <2>2
  <2> QED
    BY <1>5, <1>6, <2>2, <2>3
<1> QED
  BY <1>7

\* Max is the greatest element.
LEMMA MaxIsGreatest ==
  ASSUME NEW N \in Nat, NEW T, T \subseteq 0 .. N, T # {}
  PROVE  Max(T) \in T /\ \A m \in T : Max(T) >= m
BY GreatestNumber DEF Max

-----------------------------------------------------------------------------
(* The Codex status.                                                       *)

\* The lists as they are.
Evidence == [timeline |-> timeline, reviews |-> reviews,
             comments |-> filterAuthorizedTriggerComments(comments)]

\* The state that the evidence calls for.
CalledFor == collectAndPlan(pr, Evidence, {}, now).state

Sources == {"timeline", "reviews", "comments"}
CodexSteps == {"idle", "pull", "lists", "reactions", "post", "retract"}

\* The job and its view are records with these fields.
JobShaped ==
  /\ job = [pc |-> job.pc, waits |-> job.waits, failed |-> job.failed, short |-> job.short,
            snap |-> job.snap, view |-> job.view, at |-> job.at, plan |-> job.plan]
  /\ job.view = [timeline |-> job.view.timeline, reviews |-> job.view.reviews,
                 comments |-> job.view.comments]
  /\ job.pc \in CodexSteps /\ job.waits \in BOOLEAN /\ job.failed \in BOOLEAN
  /\ job.pc = "pull" => job.view = Unread

CodexTypeOK ==
  /\ JobShaped
  /\ pr \in [head : Shas, draft : BOOLEAN, era : Nat]
  /\ DOMAIN status = Shas

\* A run that no event waits behind knows the pull request as it is ...
SnapCurrent ==
  ~job.waits /\ job.pc \in {"lists", "reactions", "post", "retract"} =>
    job.snap.head = pr.head /\ job.snap.draft = pr.draft

\* ... has read of each list what is there, if it read all of it ...
ViewCurrent ==
  ~job.waits /\ job.pc \in {"lists", "reactions"} =>
    \A source \in Sources \ job.short :
      job.view[source] = None \/ job.view[source] = Evidence[source]

ViewComplete ==
  job.pc = "reactions" =>
    /\ \A source \in Sources : job.view[source] # None
    /\ ~job.waits /\ job.short = {} => collectSignalInput(pr, Evidence, {}) = None

\* ... and posts what that calls for.
PlanCurrent ==
  ~job.waits /\ job.pc = "post" /\ job.short = {} =>
    job.plan # None /\ job.plan.state = CalledFor

CodexInv ==
  CodexTypeOK /\ SnapCurrent /\ ViewCurrent /\ ViewComplete /\ PlanCurrent /\ StatusCurrent

\* What collectAndPlan says of the state depends on head, draft and lists only: neither
\* the reactions nor the time of the look turn it.
LEMMA StateOfPlan ==
  ASSUME NEW snap, NEW was, snap.head = was.head, snap.draft = was.draft,
         NEW view, NEW seen, NEW before, NEW at, NEW then
  PROVE  /\ collectSignalInput(snap, view, {}) = collectSignalInput(was, view, {})
         /\ selectBoundary(snap, view) = selectBoundary(was, view)
         /\ collectAndPlan(snap, view, seen, at).state = collectAndPlan(was, view, before, then).state
<1>1. selectBoundary(snap, view) = selectBoundary(was, view)
  BY DEF selectBoundary
<1>2. SnapshotInconsistent(snap, view) = SnapshotInconsistent(was, view)
  BY DEF SnapshotInconsistent
<1>3. collectSignalInput(snap, view, {}) = collectSignalInput(was, view, {})
  BY <1>1, <1>2 DEF collectSignalInput
<1>4. ASSUME NEW b
      PROVE  reduceCodexVerdict(snap, view, b, seen, TRUE, at).state
               = reduceCodexVerdict(was, view, b, before, TRUE, then).state
  <2>1. \A advice, other : Pending(advice).state = "pending" /\ Pending(other).state = "pending"
    BY DEF Pending
  <2> HIDE DEF Pending
  <2> DEFINE Clean == /\ ~ \E c \in view.comments :
                            BlocksClean(c, snap.head, b.at, deriveHeadChangedAt(view.timeline))
                      /\ \E c \in view.comments :
                           isCleanComment(c, snap.head, b.at, deriveHeadChangedAt(view.timeline))
  <2>2. reduceCodexVerdict(snap, view, b, seen, TRUE, at).state
          = IF ~snap.draft /\ Clean THEN "success" ELSE "pending"
    BY <2>1 DEF reduceCodexVerdict
  <2>3. reduceCodexVerdict(was, view, b, before, TRUE, then).state
          = IF ~snap.draft /\ Clean THEN "success" ELSE "pending"
    BY <2>1 DEF reduceCodexVerdict
  <2> QED
    BY <2>2, <2>3
<1>5. collectAndPlan(snap, view, seen, at).state = collectAndPlan(was, view, before, then).state
  BY <1>1, <1>3, <1>4 DEF collectAndPlan
<1> QED
  BY <1>1, <1>3, <1>5

\* While nobody changes the pull request, what its evidence calls for stays.
LEMMA CallStays ==
  ASSUME UNCHANGED <<pr, timeline, reviews, comments>>
  PROVE  Evidence' = Evidence /\ CalledFor' = CalledFor
<1>1. Evidence' = Evidence
  BY DEF Evidence, filterAuthorizedTriggerComments
<1>2. collectAndPlan(pr, Evidence, {}, now').state = CalledFor
  BY StateOfPlan DEF CalledFor
<1>3. CalledFor' = collectAndPlan(pr', Evidence', {}, now').state
  BY DEF CalledFor
<1> QED
  BY <1>1, <1>2, <1>3

LEMMA CodexStarts == CodexInit => CodexInv
<1> SUFFICES ASSUME CodexInit PROVE CodexInv
  OBVIOUS
<1>1. job = [pc |-> "idle", waits |-> TRUE, failed |-> FALSE, short |-> {}, snap |-> None,
             view |-> Unread, at |-> 0, plan |-> None]
  BY DEF CodexInit, NoJob
<1>2. JobShaped
  BY <1>1 DEF JobShaped, CodexSteps, Unread
<1>3. pr \in [head : Shas, draft : BOOLEAN, era : Nat] /\ DOMAIN status = Shas
  BY DEF CodexInit
<1> QED
  BY <1>1, <1>2, <1>3
  DEF CodexInv, CodexTypeOK, SnapCurrent, ViewCurrent, ViewComplete, PlanCurrent, StatusCurrent, Settled

\* An event makes the run of the new evidence wait: nothing is claimed of the one before.
LEMMA EventsKeep ==
  ASSUME CodexInv, job' = [job EXCEPT !.waits = TRUE], UNCHANGED status,
         pr' \in [head : Shas, draft : BOOLEAN, era : Nat]
  PROVE  CodexInv'
<1>1. /\ job'.waits /\ job'.pc = job.pc /\ job'.view = job.view /\ JobShaped'
  BY DEF CodexInv, CodexTypeOK, JobShaped
<1>2. CodexTypeOK'
  BY <1>1 DEF CodexInv, CodexTypeOK
<1> QED
  BY <1>1, <1>2
  DEF CodexInv, SnapCurrent, ViewCurrent, ViewComplete, PlanCurrent, StatusCurrent, Settled

\* What a step of a run amounts to while the pull request stays as it is.
LEMMA RunKeeps ==
  ASSUME CodexInv, UNCHANGED <<pr, timeline, reviews, comments>>, JobShaped', DOMAIN status' = Shas,
         ~job'.waits /\ job'.pc \in {"lists", "reactions", "post", "retract"} =>
           job'.snap.head = pr.head /\ job'.snap.draft = pr.draft,
         ~job'.waits /\ job'.pc \in {"lists", "reactions"} =>
           \A source \in Sources \ job'.short :
             job'.view[source] = None \/ job'.view[source] = Evidence[source],
         job'.pc = "reactions" =>
           /\ \A source \in Sources : job'.view[source] # None
           /\ ~job'.waits /\ job'.short = {} => collectSignalInput(pr, Evidence, {}) = None,
         ~job'.waits /\ job'.pc = "post" /\ job'.short = {} =>
           job'.plan # None /\ job'.plan.state = CalledFor,
         job'.pc = "idle" /\ ~job'.waits /\ ~job'.failed /\ job'.short = {} =>
           status'[pr.head] # None /\ status'[pr.head].state = CalledFor
  PROVE  CodexInv'
<1>1. Evidence' = Evidence /\ CalledFor' = CalledFor
  BY CallStays
<1>2. CodexTypeOK'
  BY DEF CodexInv, CodexTypeOK
<1>3. SnapCurrent' /\ ViewCurrent' /\ PlanCurrent'
  BY <1>1 DEF SnapCurrent, ViewCurrent, PlanCurrent
<1>4. ViewComplete'
  <2>1. collectSignalInput(pr', Evidence', {}) = collectSignalInput(pr, Evidence, {})
    BY <1>1
  <2> QED
    BY <2>1 DEF ViewComplete
<1>5. StatusCurrent'
  <2>1. StatusCurrent' <=>
          (Settled' => status'[pr'.head] # None /\ status'[pr'.head].state = CalledFor')
    BY DEF StatusCurrent, CalledFor, Evidence
  <2> QED
    BY <1>1, <2>1 DEF Settled
<1> QED
  BY <1>2, <1>3, <1>4, <1>5 DEF CodexInv

\* A step that leaves job, lists and status alone, if it does anything.
LEMMA BystandersLeave ==
  ASSUME CodexInv, UNCHANGED <<pr, timeline, reviews, comments, status, job>>
  PROVE  CodexInv'
<1>1. JobShaped' /\ DOMAIN status' = Shas
  BY DEF CodexInv, CodexTypeOK, JobShaped
<1>2. StatusCurrent =>
        (Settled => status[pr.head] # None /\ status[pr.head].state = CalledFor)
  BY DEF StatusCurrent, CalledFor, Evidence
<1> QED
  BY <1>1, <1>2, RunKeeps
  DEF CodexInv, SnapCurrent, ViewCurrent, ViewComplete, PlanCurrent, Settled

LEMMA StartsKeeps ==
  ASSUME CodexInv, Starts
  PROVE  CodexInv'
<1>1. job' = [pc |-> "pull", waits |-> FALSE, failed |-> FALSE, short |-> {}, snap |-> None,
              view |-> Unread, at |-> 0, plan |-> None]
  BY DEF Starts, NoJob
<1>2. JobShaped'
  BY <1>1 DEF JobShaped, CodexSteps, Unread
<1>3. UNCHANGED <<pr, timeline, reviews, comments, status>> /\ DOMAIN status' = Shas
  BY DEF Starts, JobReads, evidence, CodexInv, CodexTypeOK
<1> QED
  BY <1>1, <1>2, <1>3, RunKeeps

\* The end of a run.
LEMMA EndsKeeps ==
  ASSUME CodexInv, NEW failed \in BOOLEAN, JobEnds(failed),
         UNCHANGED <<pr, timeline, reviews, comments>>, DOMAIN status' = Shas,
         ~failed /\ ~job.waits /\ job.short = {} =>
           status'[pr.head] # None /\ status'[pr.head].state = CalledFor
  PROVE  CodexInv'
<1>1. job' = [pc |-> "idle", waits |-> job.waits, failed |-> failed, short |-> job.short,
              snap |-> None, view |-> Unread, at |-> 0, plan |-> None]
  BY DEF JobEnds, NoJob
<1>2. JobShaped'
  BY <1>1 DEF JobShaped, CodexSteps, Unread, CodexInv, CodexTypeOK
<1> QED
  BY <1>1, <1>2, RunKeeps

\* A run that goes on to take back what it posted.
LEMMA GivesUp ==
  ASSUME CodexInv, JobTo("retract"), job.pc \in {"lists", "reactions", "post"},
         UNCHANGED <<pr, timeline, reviews, comments>>, DOMAIN status' = Shas
  PROVE  CodexInv'
<1>1. /\ job'.pc = "retract" /\ job'.waits = job.waits /\ job'.snap = job.snap /\ JobShaped'
  BY DEF JobTo, CodexInv, CodexTypeOK, JobShaped, CodexSteps
<1> QED
  BY <1>1, RunKeeps DEF CodexInv, SnapCurrent

LEMMA ReadsPullKeeps ==
  ASSUME CodexInv, NEW ok \in BOOLEAN, ReadsPull(ok)
  PROVE  CodexInv'
<1>1. UNCHANGED <<pr, timeline, reviews, comments, status>> /\ DOMAIN status' = Shas
  BY DEF ReadsPull, JobReads, evidence, CodexInv, CodexTypeOK
<1>2. CASE ok
  <2>1. job' = [job EXCEPT !.pc = "lists", !.snap = [head |-> pr.head, draft |-> pr.draft]]
        /\ job.pc = "pull"
    BY <1>2 DEF ReadsPull
  <2>2. /\ job'.pc = "lists" /\ job'.snap.head = pr.head /\ job'.snap.draft = pr.draft
        /\ job'.view = Unread /\ JobShaped'
    BY <2>1 DEF CodexInv, CodexTypeOK, JobShaped, CodexSteps
  <2>3. \A source \in Sources : job'.view[source] = None
    BY <2>2 DEF Sources, Unread
  <2> QED
    BY <1>1, <2>2, <2>3, RunKeeps
<1>3. CASE ~ok
  <2>1. JobEnds(TRUE)
    BY <1>3 DEF ReadsPull
  <2> QED
    BY <1>1, <2>1, EndsKeeps
<1> QED
  BY <1>2, <1>3

LEMMA ReadsListKeeps ==
  ASSUME CodexInv, NEW source \in DOMAIN Unread, NEW whole \in BOOLEAN, ReadsList(source, whole)
  PROVE  CodexInv'
<1> DEFINE list == CASE source = "timeline" -> timeline
                     [] source = "reviews" -> reviews
                     [] OTHER -> filterAuthorizedTriggerComments(comments)
<1>1. source \in Sources /\ DOMAIN Unread = Sources
  BY DEF Unread, Sources
<1>2. list = Evidence[source]
  BY <1>1 DEF Evidence, Sources
<1>3. PICK read \in (IF whole THEN {list} ELSE {{r \in list : r.at < now}}) :
        job' = [job EXCEPT !.view[source] = read,
                           !.short = IF whole THEN @ ELSE @ \cup {source}]
  BY DEF ReadsList
<1> HIDE DEF list
<1>4. /\ job'.pc = job.pc /\ job'.waits = job.waits /\ job'.snap = job.snap
      /\ job'.view = [job.view EXCEPT ![source] = read]
      /\ job'.short = IF whole THEN job.short ELSE job.short \cup {source}
      /\ job'.failed = job.failed
  BY <1>3 DEF CodexInv, CodexTypeOK, JobShaped
<1>5. JobShaped'
  <2>1. job' = [pc |-> job'.pc, waits |-> job'.waits, failed |-> job'.failed, short |-> job'.short,
                snap |-> job'.snap, view |-> job'.view, at |-> job'.at, plan |-> job'.plan]
    BY <1>3 DEF CodexInv, CodexTypeOK, JobShaped
  <2>2. job'.view = [timeline |-> job'.view.timeline, reviews |-> job'.view.reviews,
                     comments |-> job'.view.comments]
    BY <1>1, <1>4 DEF CodexInv, CodexTypeOK, JobShaped, Sources
  <2>3. job.pc = "lists"
    BY DEF ReadsList
  <2> QED
    BY <1>4, <2>1, <2>2, <2>3 DEF CodexInv, CodexTypeOK, JobShaped
<1>6. job.pc = "lists" /\ UNCHANGED <<pr, timeline, reviews, comments, status>>
      /\ DOMAIN status' = Shas
  BY DEF ReadsList, JobReads, evidence, CodexInv, CodexTypeOK
<1>7. ASSUME ~job'.waits, NEW other \in Sources \ job'.short
      PROVE  job'.view[other] = None \/ job'.view[other] = Evidence[other]
  <2>1. DOMAIN job.view = Sources
    BY DEF CodexInv, CodexTypeOK, JobShaped, Sources
  <2>2. CASE other = source
    <3>1. whole /\ read = Evidence[source]
      BY <1>2, <1>3, <1>4, <1>7, <2>2
    <3> QED
      BY <1>1, <1>4, <2>1, <2>2, <3>1
  <2>3. CASE other # source
    <3>1. job'.view[other] = job.view[other] /\ other \in Sources \ job.short
      BY <1>4, <1>7, <2>1, <2>3
    <3> QED
      BY <1>4, <1>6, <1>7, <3>1 DEF CodexInv, ViewCurrent
  <2> QED
    BY <2>2, <2>3
<1> QED
  BY <1>4, <1>5, <1>6, <1>7, RunKeeps DEF CodexInv, SnapCurrent

\* A run that has read all of it has the evidence.
LEMMA WholeViewIsEvidence ==
  ASSUME CodexInv, ~job.waits, job.pc \in {"lists", "reactions"}, job.short = {},
         \A source \in Sources : job.view[source] # None
  PROVE  job.view = Evidence
<1>1. \A source \in Sources : job.view[source] = Evidence[source]
  BY DEF CodexInv, ViewCurrent
<1>2. job.view.timeline = Evidence.timeline /\ job.view.reviews = Evidence.reviews
      /\ job.view.comments = Evidence.comments
  BY <1>1 DEF Sources
<1> QED
  BY <1>2 DEF CodexInv, CodexTypeOK, JobShaped, Evidence

LEMMA CollectsKeeps ==
  ASSUME CodexInv, Collects
  PROVE  CodexInv'
<1> DEFINE plan == collectSignalInput(job.snap, job.view, job.short)
<1>1. /\ job.pc = "lists" /\ \A source \in Sources : job.view[source] # None
      /\ UNCHANGED <<pr, timeline, reviews, comments, status>> /\ DOMAIN status' = Shas
  BY DEF Collects, JobReads, evidence, CodexInv, CodexTypeOK, JobShaped, Sources
<1>2. ASSUME ~job.waits, job.short = {}
      PROVE  plan = collectSignalInput(pr, Evidence, {})
  <2>1. job.view = Evidence /\ job.snap.head = pr.head /\ job.snap.draft = pr.draft
    BY <1>1, <1>2, WholeViewIsEvidence DEF CodexInv, SnapCurrent
  <2>2. plan = collectSignalInput(job.snap, Evidence, {})
    BY <1>2, <2>1
  <2> QED
    BY <2>1, <2>2, StateOfPlan
<1>3. job' = IF plan = None THEN [job EXCEPT !.pc = "reactions", !.at = now]
             ELSE [job EXCEPT !.pc = "post", !.plan = plan, !.view = Unread]
  BY DEF Collects
<1> HIDE DEF plan
<1>4. CASE plan = None
  <2>1. job' = [job EXCEPT !.pc = "reactions", !.at = now]
    BY <1>3, <1>4
  <2>2. /\ job'.pc = "reactions" /\ job'.waits = job.waits /\ job'.snap = job.snap
        /\ job'.view = job.view /\ job'.short = job.short /\ JobShaped'
    BY <2>1 DEF CodexInv, CodexTypeOK, JobShaped, CodexSteps
  <2> QED
    BY <1>1, <1>2, <1>4, <2>2, RunKeeps DEF CodexInv, SnapCurrent, ViewCurrent
<1>5. CASE plan # None
  <2>1. job' = [job EXCEPT !.pc = "post", !.plan = plan, !.view = Unread]
    BY <1>3, <1>5
  <2>2. /\ job'.pc = "post" /\ job'.waits = job.waits /\ job'.snap = job.snap
        /\ job'.plan = plan /\ job'.short = job.short /\ JobShaped'
    BY <2>1 DEF CodexInv, CodexTypeOK, JobShaped, CodexSteps, Unread
  <2>3. ~job.waits /\ job.short = {} => plan.state = CalledFor
    BY <1>2, <1>5 DEF CalledFor, collectAndPlan
  <2> QED
    BY <1>1, <1>5, <2>2, <2>3, RunKeeps DEF CodexInv, SnapCurrent
<1> QED
  BY <1>4, <1>5

\* A verdict is something.
LEMMA VerdictIsThere ==
  ASSUME NEW snap, NEW view, NEW boundary, NEW seen, NEW whole, NEW at
  PROVE  reduceCodexVerdict(snap, view, boundary, seen, whole, at) # None
<1> DEFINE Said == [state : {"success", "failure", "pending"}, advice : Advice \cup {None}]
<1>1. manualTriggerAdvice(view, boundary, seen, whole, at) \in Advice
  BY DEF manualTriggerAdvice, Advice
<1>2. \A advice \in Advice : Pending(advice) \in Said
  BY DEF Pending
<1>3. "not-applicable-draft" \in Advice /\ "verify" \in Advice
  BY DEF Advice
<1>4. [state |-> "success", advice |-> None] \in Said
  OBVIOUS
<1> HIDE DEF Pending, Said
<1>5. reduceCodexVerdict(snap, view, boundary, seen, whole, at) \in Said
  BY <1>1, <1>2, <1>3, <1>4 DEF reduceCodexVerdict
<1> QED
  BY <1>5, CodexStatusAssumption DEF Said

LEMMA FetchesKeeps ==
  ASSUME CodexInv, NEW whole \in BOOLEAN, fetchReactions(whole)
  PROVE  CodexInv'
<1> DEFINE boundary == selectBoundary(job.snap, job.view)
           seen == {r \in reactions : r.subject = boundary.subject}
           all == whole /\ job.short = {}
           plan == reduceCodexVerdict(job.snap, job.view, boundary, seen, all, job.at)
<1>1. /\ job.pc = "reactions"
      /\ UNCHANGED <<pr, timeline, reviews, comments, status>> /\ DOMAIN status' = Shas
  BY DEF fetchReactions, JobReads, evidence, CodexInv, CodexTypeOK
<1>2. job' = [job EXCEPT !.pc = "post", !.view = Unread, !.at = 0,
                         !.short = IF whole THEN @ ELSE @ \cup {"reactions"}, !.plan = plan]
  BY DEF fetchReactions
<1>3. plan # None
  BY VerdictIsThere
<1>4. ASSUME ~job.waits, whole, job.short = {}
      PROVE  plan.state = CalledFor
  <2>1. /\ job.view = Evidence /\ job.snap.head = pr.head /\ job.snap.draft = pr.draft
        /\ collectSignalInput(pr, Evidence, {}) = None
    BY <1>1, <1>4, WholeViewIsEvidence DEF CodexInv, SnapCurrent, ViewComplete
  <2>2. collectSignalInput(job.snap, Evidence, {}) = None
    BY <2>1, StateOfPlan
  <2>3. plan = reduceCodexVerdict(job.snap, Evidence, selectBoundary(job.snap, Evidence), seen,
                                  TRUE, job.at)
    BY <1>4, <2>1
  <2> HIDE DEF plan, seen, boundary
  <2>4. collectAndPlan(job.snap, Evidence, seen, job.at) = plan
    BY <2>2, <2>3 DEF collectAndPlan
  <2>5. collectAndPlan(job.snap, Evidence, seen, job.at).state = CalledFor
    BY <2>1, StateOfPlan DEF CalledFor
  <2> QED
    BY <2>4, <2>5
<1> HIDE DEF plan
<1>5. /\ job'.pc = "post" /\ job'.waits = job.waits /\ job'.snap = job.snap /\ job'.plan = plan
      /\ job'.short = {} => whole /\ job.short = {}
      /\ JobShaped'
  BY <1>2 DEF CodexInv, CodexTypeOK, JobShaped, CodexSteps, Unread
<1> QED
  BY <1>1, <1>3, <1>4, <1>5, RunKeeps DEF CodexInv, SnapCurrent

LEMMA PostsKeep ==
  ASSUME CodexInv, NEW ok \in BOOLEAN, postStatus(ok)
  PROVE  CodexInv'
<1>1. /\ job.pc = "post" /\ UNCHANGED <<pr, timeline, reviews, comments>>
      /\ DOMAIN status' = Shas
  BY DEF postStatus, evidence, CodexInv, CodexTypeOK
<1>2. CASE ok
  <2>1. status' = [status EXCEPT ![job.snap.head] = job.plan] /\ JobEnds(FALSE)
    BY <1>2 DEF postStatus
  <2>2. ~job.waits /\ job.short = {} =>
          status'[pr.head] # None /\ status'[pr.head].state = CalledFor
    BY <1>1, <2>1 DEF CodexInv, CodexTypeOK, SnapCurrent, PlanCurrent
  <2> QED
    BY <1>1, <2>1, <2>2, EndsKeeps
<1>3. CASE ~ok
  <2>1. JobTo("retract")
    BY <1>3 DEF postStatus
  <2> QED
    BY <1>1, <2>1, GivesUp
<1> QED
  BY <1>2, <1>3

LEMMA FailuresKeep ==
  ASSUME CodexInv, CallFails \/ JobDies \/ \E ok \in BOOLEAN : Retracts(ok)
  PROVE  CodexInv'
<1>1. CASE CallFails
  <2>1. /\ JobTo("retract") /\ job.pc \in {"lists", "reactions", "post"}
        /\ UNCHANGED <<pr, timeline, reviews, comments>> /\ DOMAIN status' = Shas
    BY <1>1 DEF CallFails, JobReads, evidence, CodexInv, CodexTypeOK
  <2> QED
    BY <2>1, GivesUp
<1>2. CASE JobDies
  <2>1. JobEnds(TRUE) /\ UNCHANGED <<pr, timeline, reviews, comments>> /\ DOMAIN status' = Shas
    BY <1>2 DEF JobDies, JobReads, evidence, CodexInv, CodexTypeOK
  <2> QED
    BY <2>1, EndsKeeps
<1>3. CASE \E ok \in BOOLEAN : Retracts(ok)
  <2>1. JobEnds(TRUE) /\ UNCHANGED <<pr, timeline, reviews, comments>> /\ DOMAIN status' = Shas
    BY <1>3 DEF Retracts, evidence, CodexInv, CodexTypeOK
  <2> QED
    BY <2>1, EndsKeeps
<1> QED
  BY <1>1, <1>2, <1>3

LEMMA ChangesKeep ==
  ASSUME CodexInv, Changes
  PROVE  CodexInv'
<1>1. pr \in [head : Shas, draft : BOOLEAN, era : Nat]
  BY DEF CodexInv, CodexTypeOK
<1>2. ASSUME Converts \/ \E s \in Shas : Push(s) \/ ForcePush(s) \/ Reviewed("codex", s)
      PROVE  CodexInv'
  <2>1. job' = [job EXCEPT !.waits = TRUE] /\ UNCHANGED status
    BY <1>2 DEF Converts, Push, ForcePush, Reviewed, Happens, StartsRun
  <2>2. /\ pr = [head |-> pr.head, draft |-> pr.draft, era |-> pr.era]
        /\ pr.head \in Shas /\ pr.draft \in BOOLEAN /\ pr.era \in Nat /\ pr.era + 1 \in Nat
    BY <1>1
  <2>3. pr' \in [head : Shas, draft : BOOLEAN, era : Nat]
    <3>1. CASE Converts
      <4>1. pr' = [head |-> pr.head, draft |-> ~pr.draft, era |-> IF pr.draft THEN pr.era + 1 ELSE pr.era]
        BY <1>1, <2>2, <3>1 DEF Converts
      <4> QED
        BY <2>2, <4>1
    <3>2. ASSUME NEW s \in Shas, Push(s) \/ ForcePush(s)
          PROVE  pr' \in [head : Shas, draft : BOOLEAN, era : Nat]
      <4>1. pr' = [head |-> s, draft |-> pr.draft, era |-> pr.era + 1]
        BY <1>1, <2>2, <3>2 DEF Push, ForcePush
      <4> QED
        BY <2>2, <4>1
    <3>3. ASSUME NEW s \in Shas, Reviewed("codex", s)
          PROVE  pr' \in [head : Shas, draft : BOOLEAN, era : Nat]
      BY <1>1, <3>3 DEF Reviewed
    <3> QED
      BY <1>2, <3>1, <3>2, <3>3
  <2> QED
    BY <2>1, <2>3, EventsKeep
<1>3. ASSUME NEW form \in Forms, Commented(form)
      PROVE  CodexInv'
  <2>1. job' = [job EXCEPT !.waits = TRUE] /\ UNCHANGED <<status, pr>>
    BY <1>3 DEF Commented, Happens, StartsRun
  <2> QED
    BY <1>1, <2>1, EventsKeep
<1>4. ASSUME NEW content, NEW subject, Reacts(content, subject)
      PROVE  CodexInv'
  <2>1. UNCHANGED <<pr, timeline, reviews, comments, status, job>>
    BY <1>4 DEF Reacts, Happens, StartsRun
  <2> QED
    BY <2>1, BystandersLeave
<1> QED
  BY <1>2, <1>3, <1>4 DEF Changes

LEMMA CodexStepsKeep ==
  ASSUME CodexInv, [CodexNext]_codexVars
  PROVE  CodexInv'
<1>1. CASE JobNext
  BY <1>1, StartsKeeps, CollectsKeeps, ReadsPullKeeps, FetchesKeeps, PostsKeep, FailuresKeep,
     ReadsListKeeps DEF JobNext
<1>2. CASE Tick \/ UNCHANGED codexVars
  <2>1. UNCHANGED <<pr, timeline, reviews, comments, status, job>>
    BY <1>2 DEF Tick, evidence, codexVars
  <2> QED
    BY <2>1, BystandersLeave
<1> QED
  BY <1>1, <1>2, FailuresKeep, ChangesKeep DEF CodexNext

\* The inductive invariant of the Codex status.
THEOREM CodexInvariance == CodexSpec => []CodexInv
<1>1. CodexInv /\ [CodexNext]_codexVars => CodexInv'
  BY CodexStepsKeep
<1> QED
  BY CodexStarts, <1>1, PTL DEF CodexSpec

\* When no run is under way or due, the status of the head is the one its evidence calls
\* for, whatever was pushed, converted, reviewed or commented while runs were reading and
\* however their calls failed (codex-verdict-status.yml, publish-codex-verdict-status.mts).
THEOREM StatusStaysCurrent == CodexSpec => []StatusCurrent
<1>1. CodexInv => StatusCurrent
  BY DEF CodexInv
<1> QED
  BY <1>1, CodexInvariance, PTL

-----------------------------------------------------------------------------
(* What a success rests on.                                                *)

\* Nothing is of the future, and comments are numbered.
EvidenceDated ==
  /\ now \in Nat
  /\ \A e \in timeline : e.at \in 0 .. now
  /\ \A r \in reviews : r.at \in 0 .. now
  /\ IsFiniteSet(comments)
  /\ \A c \in comments : c.at \in 0 .. now /\ c.id \in 0 .. Cardinality(comments)

Marking == HeadEvents \cup {"ready_for_review"}

\* A comment of an earlier era that names the head is followed by an event that shows in
\* the timeline: pushes, which do not show, bring new heads only.
ErasMarked ==
  \A c \in comments : c.reviewed = pr.head /\ c.era # pr.era =>
    \E e \in timeline : e.event \in Marking /\ e.at >= c.at

EarnedInv == EvidenceDated /\ ErasMarked

LEMMA EarnedStarts == CodexInit => EarnedInv
<1> SUFFICES ASSUME CodexInit PROVE EarnedInv
  OBVIOUS
<1>1. timeline = {} /\ reviews = {} /\ comments = {} /\ now = 0
  BY DEF CodexInit
<1> QED
  BY <1>1, FS_EmptySet DEF EarnedInv, EvidenceDated, ErasMarked

\* An event is added now.
LEMMA EventsDated ==
  ASSUME EarnedInv, NEW e, timeline' = timeline \cup {e}, e.at = now,
         UNCHANGED <<now, reviews, comments>>
  PROVE  EvidenceDated'
<1>1. \A f \in timeline' : f.at \in 0 .. now
  BY DEF EarnedInv, EvidenceDated
<1> QED
  BY <1>1 DEF EarnedInv, EvidenceDated

LEMMA PullChangesEarn ==
  ASSUME EarnedInv, CodexTypeOK,
         Converts \/ \E s \in Shas : Push(s) \/ ForcePush(s)
  PROVE  EarnedInv'
<1>1. /\ pr = [head |-> pr.head, draft |-> pr.draft, era |-> pr.era]
      /\ pr.head \in Shas /\ pr.draft \in BOOLEAN /\ pr.era \in Nat
  BY DEF CodexTypeOK
<1>2. \A c \in comments : c.at \in 0 .. now /\ c.at <= now
  BY DEF EarnedInv, EvidenceDated
<1>3. ASSUME NEW s \in Shas, Push(s)
      PROVE  EarnedInv'
  <2>1. pr'.head = s /\ UNCHANGED <<now, timeline, reviews, comments>>
        /\ \A c \in comments : c.reviewed # s
    BY <1>1, <1>3 DEF Push, Happens
  <2> QED
    BY <2>1 DEF EarnedInv, EvidenceDated, ErasMarked
<1>4. ASSUME NEW s \in Shas, ForcePush(s)
      PROVE  EarnedInv'
  <2> DEFINE e == [event |-> "head_ref_force_pushed", at |-> now]
  <2>1. /\ timeline' = timeline \cup {e} /\ UNCHANGED <<now, reviews, comments>>
        /\ e.at = now /\ e.event \in Marking /\ e \in timeline'
    BY <1>4 DEF ForcePush, Happens, Marking, HeadEvents
  <2> HIDE DEF e
  <2>2. ErasMarked'
    BY <1>2, <2>1 DEF ErasMarked
  <2> QED
    BY <2>1, <2>2, EventsDated DEF EarnedInv
<1>5. CASE Converts /\ pr.draft
  <2> DEFINE e == [event |-> "ready_for_review", at |-> now]
  <2>1. /\ timeline' = timeline \cup {e} /\ UNCHANGED <<now, reviews, comments>>
        /\ e.at = now /\ e.event \in Marking /\ e \in timeline'
    BY <1>5 DEF Converts, Happens, Marking
  <2> HIDE DEF e
  <2>2. ErasMarked'
    BY <1>2, <2>1 DEF ErasMarked
  <2> QED
    BY <2>1, <2>2, EventsDated DEF EarnedInv
<1>6. CASE Converts /\ ~pr.draft
  <2> DEFINE e == [event |-> "convert_to_draft", at |-> now]
  <2>1. /\ timeline' = timeline \cup {e} /\ UNCHANGED <<now, reviews, comments>>
        /\ e.at = now
    BY <1>6 DEF Converts, Happens
  <2>2. pr'.head = pr.head /\ pr'.era = pr.era
    BY <1>1, <1>6 DEF Converts
  <2> HIDE DEF e
  <2>3. ErasMarked'
    BY <2>1, <2>2 DEF EarnedInv, ErasMarked
  <2> QED
    BY <2>1, <2>3, EventsDated DEF EarnedInv
<1> QED
  BY <1>3, <1>4, <1>5, <1>6

LEMMA CommentsEarn ==
  ASSUME EarnedInv, NEW form \in Forms, Commented(form)
  PROVE  EarnedInv'
<1> DEFINE n == Cardinality(comments)
           c == [by |-> form.by, title |-> form.title, reviewed |-> form.reviewed,
                 notice |-> form.notice, trigger |-> form.trigger,
                 id |-> Cardinality(comments) + 1, at |-> now, era |-> pr.era]
<1>1. /\ comments' = comments \cup {c} /\ UNCHANGED <<now, pr, timeline, reviews>>
      /\ c.id = n + 1 /\ c.at = now /\ c.era = pr.era
  BY DEF Commented, Happens
<1>2. n \in Nat /\ IsFiniteSet(comments) /\ now \in Nat
  BY FS_CardinalityType DEF EarnedInv, EvidenceDated
<1> HIDE DEF n, c
<1>3. c \notin comments
  <2>1. c.id \notin 0 .. n
    BY <1>1, <1>2
  <2> QED
    BY <2>1 DEF EarnedInv, EvidenceDated, n
<1>4. IsFiniteSet(comments') /\ Cardinality(comments') = n + 1
  BY <1>1, <1>2, <1>3, FS_AddElement DEF n
<1>5. \A d \in comments' : d.at \in 0 .. now /\ d.id \in 0 .. n + 1
  <2>1. \A d \in comments : d.at \in 0 .. now /\ d.id \in 0 .. n
    BY DEF EarnedInv, EvidenceDated, n
  <2>2. now \in 0 .. now /\ n + 1 \in 0 .. n + 1 /\ 0 .. n \subseteq 0 .. n + 1
    BY <1>2
  <2> QED
    BY <1>1, <2>1, <2>2
<1>6. EvidenceDated'
  BY <1>1, <1>4, <1>5 DEF EarnedInv, EvidenceDated
<1>7. ErasMarked'
  BY <1>1 DEF EarnedInv, ErasMarked
<1> QED
  BY <1>6, <1>7 DEF EarnedInv

LEMMA OthersEarn ==
  ASSUME EarnedInv, UNCHANGED <<pr, timeline, comments>>,
         \/ UNCHANGED <<now, reviews>>
         \/ UNCHANGED reviews /\ now' = now + 1
         \/ UNCHANGED now /\ \E r : r.at = now /\ reviews' = reviews \cup {r}
  PROVE  EarnedInv'
<1>1. now \in Nat /\ now' \in Nat /\ 0 .. now \subseteq 0 .. now' /\ now \in 0 .. now'
  BY DEF EarnedInv, EvidenceDated
<1>2. \A r \in reviews' : r.at \in 0 .. now'
  BY <1>1 DEF EarnedInv, EvidenceDated
<1>3. EvidenceDated'
  BY <1>1, <1>2 DEF EarnedInv, EvidenceDated
<1> QED
  BY <1>3 DEF EarnedInv, ErasMarked

LEMMA EarnedSteps ==
  ASSUME EarnedInv, CodexInv, [CodexNext]_codexVars
  PROVE  EarnedInv'
<1>1. CASE JobNext \/ CallFails \/ JobDies \/ UNCHANGED codexVars
  <2>1. UNCHANGED <<now, pr, timeline, reviews, comments>>
    BY <1>1 DEF JobNext, Starts, Collects, ReadsPull, fetchReactions, postStatus, Retracts, ReadsList,
       CallFails, JobDies, JobReads, evidence, codexVars
  <2> QED
    BY <2>1, OthersEarn
<1>2. CASE Tick
  BY <1>2, OthersEarn DEF Tick, evidence
<1>3. ASSUME NEW s \in Shas, Reviewed("codex", s)
      PROVE  EarnedInv'
  <2> DEFINE r == [by |-> "codex", sha |-> s, at |-> now]
  <2>1. r.at = now /\ reviews' = reviews \cup {r} /\ UNCHANGED <<now, pr, timeline, comments>>
    BY <1>3 DEF Reviewed, Happens
  <2> QED
    BY <2>1, OthersEarn
<1>4. ASSUME NEW content, NEW subject, Reacts(content, subject)
      PROVE  EarnedInv'
  BY <1>4, OthersEarn DEF Reacts, Happens
<1>5. CASE Changes
  BY <1>3, <1>4, <1>5, PullChangesEarn, CommentsEarn DEF Changes, CodexInv
<1> QED
  BY <1>1, <1>2, <1>5 DEF CodexNext

\* The head changed no earlier than any event that shows it.
LEMMA HeadChangedLate ==
  ASSUME EvidenceDated, NEW e \in timeline, e.event \in HeadEvents
  PROVE  deriveHeadChangedAt(timeline) \in 0 .. now /\ deriveHeadChangedAt(timeline) >= e.at
<1> DEFINE T == {0} \cup {f.at : f \in {g \in timeline : g.event \in HeadEvents}}
<1>1. T \subseteq 0 .. now /\ now \in Nat /\ T # {} /\ e.at \in T
  BY DEF EvidenceDated
<1> HIDE DEF T
<1>2. Max(T) \in T /\ \A m \in T : Max(T) >= m
  BY <1>1, MaxIsGreatest
<1> QED
  BY <1>1, <1>2 DEF deriveHeadChangedAt, T

\* Once the pull request was made ready, that is where the base is.
LEMMA LastReadyLate ==
  ASSUME EvidenceDated, NEW e \in timeline, e.event = "ready_for_review"
  PROVE  /\ LastOf(timeline, "ready_for_review") \in 0 .. now
         /\ LastOf(timeline, "ready_for_review") >= e.at
         /\ LastOf(timeline, "ready_for_review") # None
<1> DEFINE T == {f.at : f \in {g \in timeline : g.event = "ready_for_review"}}
<1>1. T \subseteq 0 .. now /\ now \in Nat /\ T # {} /\ e.at \in T
  BY DEF EvidenceDated
<1> HIDE DEF T
<1>2. Max(T) \in T /\ \A m \in T : Max(T) >= m
  BY <1>1, MaxIsGreatest
<1>3. LastOf(timeline, "ready_for_review") = Max(T)
  BY <1>1 DEF LastOf, T
<1>4. Max(T) \in 0 .. now /\ Max(T) >= e.at
  BY <1>1, <1>2
<1>5. \A n \in 0 .. now : n # None
  BY <1>1, CodexStatusAssumption
<1> QED
  BY <1>3, <1>4, <1>5

\* What advanced the head, if anything did, is of the past.
LEMMA AdvanceDated ==
  ASSUME EvidenceDated, NEW head, NEW base \in Nat,
         latestAdvanceEvidenceAt(head, Evidence, base) # None
  PROVE  latestAdvanceEvidenceAt(head, Evidence, base) \in 0 .. now
<1> DEFINE says == {e.at : e \in {f \in timeline : f.event \in HeadEvents}}
                     \cup {r.at : r \in {q \in ByCodex(reviews) : q.sha # head}}
                     \cup {c.at : c \in {d \in ByCodex(filterAuthorizedTriggerComments(comments)) :
                                           d.reviewed \in Shas \ {head}}}
           since == {t \in says : t >= base}
<1>1. latestAdvanceEvidenceAt(head, Evidence, base) = IF since = {} THEN None ELSE Max(since)
  BY DEF latestAdvanceEvidenceAt, Evidence
<1>2. says \subseteq 0 .. now
  BY DEF EvidenceDated, ByCodex, filterAuthorizedTriggerComments
<1>3. now \in Nat
  BY DEF EvidenceDated
<1> HIDE DEF says
<1>4. since # {} => Max(since) \in since
  BY <1>2, <1>3, MaxIsGreatest
<1> QED
  BY <1>1, <1>2, <1>4

\* The latest of some comments: of the last second the one with the greatest number.
LEMMA LatestExists ==
  ASSUME EvidenceDated, NEW C, C \subseteq comments, C # {}
  PROVE  \E c \in C : \A d \in C : d.at < c.at \/ (d.at = c.at /\ d.id <= c.id)
<1>1. now \in Nat /\ Cardinality(comments) \in Nat
  BY FS_CardinalityType DEF EvidenceDated
<1>2. \A c \in C : c.at \in 0 .. now /\ c.id \in 0 .. Cardinality(comments)
  BY DEF EvidenceDated
<1>3. PICK c \in C : \A d \in C : c.at >= d.at
  <2>1. {c.at : c \in C} \subseteq 0 .. now /\ {c.at : c \in C} # {}
    BY <1>2
  <2> QED
    BY <1>1, <2>1, GreatestNumber
<1> DEFINE L == {d \in C : d.at = c.at}
<1>4. PICK l \in L : \A d \in L : l.id >= d.id
  <2>1. {d.id : d \in L} \subseteq 0 .. Cardinality(comments) /\ {d.id : d \in L} # {}
    BY <1>2, <1>3
  <2> QED
    BY <1>1, <2>1, GreatestNumber
<1> QED
  BY <1>2, <1>3, <1>4

\* The boundary is no earlier than when the pull request was last made ready.
LEMMA BoundaryLate ==
  ASSUME EvidenceDated, CodexTypeOK, NEW e \in timeline, e.event = "ready_for_review",
         ~pr.draft, selectBoundary(pr, Evidence) # None
  PROVE  selectBoundary(pr, Evidence).at \in Nat /\ selectBoundary(pr, Evidence).at >= e.at
<1> DEFINE base == LastOf(timeline, "ready_for_review")
           advance == latestAdvanceEvidenceAt(pr.head, Evidence, base)
           reference == IF advance = None THEN base
                        ELSE Max({base, deriveHeadChangedAt(timeline), advance})
           triggers == {c \in filterAuthorizedTriggerComments(comments) :
                          c.by # "codex" /\ c.trigger /\ c.at > reference}
           latest == CHOOSE c \in triggers :
                       \A d \in triggers : d.at < c.at \/ (d.at = c.at /\ d.id <= c.id)
<1>1. base \in 0 .. now /\ base >= e.at /\ base # None /\ now \in Nat /\ e.at \in Nat
  BY LastReadyLate DEF EvidenceDated
<1>2. Evidence.timeline = timeline /\ Evidence.comments = filterAuthorizedTriggerComments(comments)
  BY DEF Evidence
<1>3. selectBoundary(pr, Evidence) =
        IF triggers # {} THEN [at |-> latest.at, subject |-> latest.id]
        ELSE IF advance # None THEN None
        ELSE [at |-> base, subject |-> 0]
  BY <1>1, <1>2 DEF selectBoundary
<1>4. reference \in Nat /\ reference >= base
  <2>1. CASE advance = None
    BY <1>1, <2>1
  <2>2. CASE advance # None
    <3> DEFINE T == {base, deriveHeadChangedAt(timeline), advance}
    <3>1. advance \in 0 .. now
      BY <1>1, <2>2, AdvanceDated
    <3>2. deriveHeadChangedAt(timeline) \in 0 .. now
      <4> DEFINE H == {0} \cup {f.at : f \in {g \in timeline : g.event \in HeadEvents}}
      <4>1. H \subseteq 0 .. now /\ H # {}
        BY <1>1 DEF EvidenceDated
      <4> HIDE DEF H
      <4>2. Max(H) \in H
        BY <1>1, <4>1, MaxIsGreatest
      <4> QED
        BY <4>1, <4>2 DEF deriveHeadChangedAt, H
    <3> HIDE DEF base, advance
    <3>3. T \subseteq 0 .. now /\ T # {} /\ base \in T
      BY <1>1, <3>1, <3>2
    <3> HIDE DEF T
    <3>4. Max(T) \in T /\ \A m \in T : Max(T) >= m
      BY <1>1, <3>3, MaxIsGreatest
    <3>5. reference = Max(T)
      BY <2>2 DEF T
    <3>6. Max(T) >= base
      BY <3>3, <3>4
    <3>7. Max(T) \in 0 .. now
      BY <3>3, <3>4
    <3>8. Max(T) \in Nat
      BY <1>1, <3>7
    <3> QED
      BY <3>5, <3>6, <3>8
  <2> QED
    BY <2>1, <2>2
<1> HIDE DEF base, advance, reference
<1>5. CASE triggers # {}
  <2>1. triggers \subseteq comments
    BY DEF filterAuthorizedTriggerComments
  <2> HIDE DEF triggers
  <2>2. latest \in triggers
    BY <1>5, <2>1, LatestExists
  <2> HIDE DEF latest
  <2>3. latest.at > reference /\ latest.at \in Nat
    BY <2>1, <2>2 DEF triggers, EvidenceDated
  <2>4. selectBoundary(pr, Evidence).at = latest.at
    BY <1>3, <1>5
  <2> QED
    BY <1>1, <1>4, <2>3, <2>4
<1>6. CASE triggers = {}
  <2>1. selectBoundary(pr, Evidence) = [at |-> base, subject |-> 0]
    BY <1>3, <1>6
  <2> QED
    BY <1>1, <2>1
<1> QED
  BY <1>5, <1>6

\* What collectSignalInput settles by itself is no success.
LEMMA SettledIsNoSuccess ==
  ASSUME NEW snap, NEW view
  PROVE  LET settled == collectSignalInput(snap, view, {})
         IN /\ settled # None => settled.state # "success"
            /\ settled = None => /\ ~probeCurrentHeadFindings(snap.head, view)
                                 /\ selectBoundary(snap, view) # None
<1> DEFINE Said == [state : {"success", "failure", "pending"}, advice : Advice \cup {None}]
<1>1. \A advice \in Advice :
        Pending(advice) \in Said /\ Pending(advice).state = "pending"
  BY DEF Pending
<1>2. {"not-applicable-draft", "wait", "due"} \subseteq Advice
  BY DEF Advice
<1>3. [state |-> "failure", advice |-> None] \in Said
  OBVIOUS
<1>4. None \notin Said
  BY CodexStatusAssumption
<1> HIDE DEF Pending, Said
<1> QED
  BY <1>1, <1>2, <1>3, <1>4 DEF collectSignalInput

\* A success that the evidence calls for is earned.
LEMMA CallEarned ==
  ASSUME EarnedInv, CodexTypeOK, CalledFor = "success"
  PROVE  /\ \E c \in ByCodex(comments) : c.title /\ c.reviewed = pr.head /\ c.era = pr.era
         /\ \A r \in ByCodex(reviews) : r.sha # pr.head
<1> DEFINE settled == collectSignalInput(pr, Evidence, {})
           boundary == selectBoundary(pr, Evidence)
<1>1. settled = None /\ boundary # None /\ ~probeCurrentHeadFindings(pr.head, Evidence)
  BY SettledIsNoSuccess DEF CalledFor, collectAndPlan
<1>2. reduceCodexVerdict(pr, Evidence, boundary, {}, TRUE, now).state = "success"
  BY <1>1 DEF CalledFor, collectAndPlan
<1>3. ~pr.draft /\ \E c \in Evidence.comments :
         isCleanComment(c, pr.head, boundary.at, deriveHeadChangedAt(Evidence.timeline))
  <2>1. \A advice : Pending(advice).state # "success"
    BY DEF Pending
  <2> HIDE DEF Pending, boundary
  <2> QED
    BY <1>2, <2>1 DEF reduceCodexVerdict
<1>4. PICK c \in filterAuthorizedTriggerComments(comments) :
        isCleanComment(c, pr.head, boundary.at, deriveHeadChangedAt(timeline))
  BY <1>3 DEF Evidence
<1>5. c \in comments /\ c.by = "codex" /\ c.title /\ c.reviewed = pr.head /\ c.at > boundary.at
      /\ c.at > deriveHeadChangedAt(timeline) /\ c.at \in Nat
  BY <1>4 DEF filterAuthorizedTriggerComments, isCleanComment, postdates, EarnedInv, EvidenceDated
<1>6. c.era = pr.era
  <2>1. ASSUME c.era # pr.era PROVE FALSE
    <3>1. PICK e \in timeline : e.event \in Marking /\ e.at >= c.at
      BY <1>5, <2>1 DEF EarnedInv, ErasMarked
    <3>2. e.at \in Nat /\ EvidenceDated
      BY DEF EarnedInv, EvidenceDated
    <3>3. CASE e.event \in HeadEvents
      <4>1. deriveHeadChangedAt(timeline) \in Nat /\ deriveHeadChangedAt(timeline) >= e.at
        BY <3>2, <3>3, HeadChangedLate
      <4> QED
        BY <1>5, <3>1, <3>2, <4>1
    <3>4. CASE e.event = "ready_for_review"
      <4>1. boundary.at \in Nat /\ boundary.at >= e.at
        BY <1>1, <1>3, <3>2, <3>4, BoundaryLate
      <4> QED
        BY <1>5, <3>1, <3>2, <4>1
    <3> QED
      BY <3>1, <3>3, <3>4 DEF Marking
  <2> QED
    BY <2>1
<1>7. \A r \in ByCodex(reviews) : r.sha # pr.head
  BY <1>1 DEF probeCurrentHeadFindings, isFindingsReview, Evidence, ByCodex
<1> QED
  BY <1>5, <1>6, <1>7 DEF ByCodex

\* A settled success rests on a clean comment of Codex about this head of this era, though
\* timestamps order nothing within a second (codex-verdict-logic.mts,
\* codex-signal-collection-logic.mts).
THEOREM SuccessIsEarned == CodexSpec => []SuccessEarned
<1>1. EarnedInv /\ CodexInv /\ [CodexNext]_codexVars => EarnedInv'
  BY EarnedSteps
<1>2. CodexInv /\ EarnedInv => SuccessEarned
  <2> SUFFICES ASSUME CodexInv, EarnedInv, Settled, status[pr.head].state = "success"
               PROVE  /\ \E c \in ByCodex(comments) : c.title /\ c.reviewed = pr.head /\ c.era = pr.era
                      /\ \A r \in ByCodex(reviews) : r.sha # pr.head
    BY DEF SuccessEarned
  <2>1. CalledFor = "success"
    BY DEF CodexInv, StatusCurrent, CalledFor, Evidence
  <2> QED
    BY <2>1, CallEarned DEF CodexInv
<1> QED
  BY EarnedStarts, <1>1, <1>2, CodexInvariance, PTL DEF CodexSpec

-----------------------------------------------------------------------------
(* The spec-grounded review.                                               *)

Stages == {"queued", "judging", "waiting", "publishing", "ok", "red", "cancelled"}
Outcomes == {None, "cancelled", "failed", "no-references", "no-unmet-criteria", "verdict"}
Round ==
  [stage : Stages, head : Nat, base : Nat, closing : SUBSET Tickets, spine : SUBSET Tickets,
   unmet : SUBSET Tickets, outcome : Outcomes]
Thread == [gen : Nat, open : BOOLEAN, read : Nat]

GroundingTypeOK ==
  /\ target = [head |-> target.head, base |-> target.base, refs |-> target.refs,
               unticked |-> target.unticked]
  /\ target.head \in Nat /\ target.base \in Nat
  /\ blockers \in [Marks -> Thread \cup {None}]
  /\ rounds \in Seq(Round) /\ Len(rounds) > 0
  /\ publisher = [round |-> publisher.round, pc |-> publisher.pc, snap |-> publisher.snap,
                  todo |-> publisher.todo, made |-> publisher.made, stands |-> publisher.stands,
                  gone |-> publisher.gone]
  /\ publisher.todo \subseteq Marks /\ publisher.made \subseteq Marks
  /\ publisher.stands \in BOOLEAN

\* The job that publishes is the one round that is in that stage.
OnePublishes ==
  /\ publisher.pc # "idle" =>
       /\ publisher.round \in DOMAIN rounds
       /\ Now.stage = "publishing"
  /\ \A n \in DOMAIN rounds :
       rounds[n].stage = "publishing" => publisher.pc # "idle" /\ publisher.round = n

Planned == planBlockerInlineComments(Now, publisher.snap)

\* The thread has this run's words; it is open unless it was resolved after it had them.
Worded(m) == blockers[m] # None /\ blockers[m].gen = publisher.round
Seen(m) == blockers[m].open \/ blockers[m].read = publisher.round

\* What the publisher has posted is there; once it says that the blockers stand, all are,
\* and it deletes none of them.
PlanPosted ==
  /\ publisher.pc \in {"idle", "pull", "diff", "post", "confirm", "clear", "remove"} => ~publisher.stands
  /\ publisher.pc \in {"pull", "diff"} => publisher.made = {}
  /\ publisher.pc = "diff" => Planned # {}
  /\ publisher.pc = "post" => publisher.todo # {} /\ publisher.made \cap publisher.todo = {}
  /\ publisher.pc \in {"post", "confirm"} =>
       /\ publisher.todo \subseteq Planned
       /\ \A m \in Planned \ publisher.todo : Worded(m) /\ (m \in publisher.made => Seen(m))
  /\ publisher.pc \in {"drop", "verify"} =>
       \A m \in publisher.todo :
         \/ m \in Tickets \ Closing(publisher.snap)
         \/ m = TRUNCATED /\ Closing(publisher.snap) = {}
  /\ publisher.stands => \A m \in Planned : Worded(m) /\ Seen(m)

Newest == rounds[Len(rounds)]

\* The newest run is about the head there is, and so is a publisher past its first look, with
\* the references there are, if it is the newest run's or that one is done.
AboutTarget ==
  /\ Newest.head = target.head
  /\ publisher.pc \notin {"idle", "pull", "fallback"}
     /\ (publisher.round = Len(rounds) \/ Newest.stage = "ok") =>
       /\ publisher.snap = target.refs /\ Now.head = target.head
       /\ publisher.pc = "remove" => target.refs = NoReferences
  /\ publisher.pc \in {"clear", "remove", "cleared", "raced"} => Now.outcome # "verdict"

SummaryCurrent ==
  Newest.stage = "ok" /\ summary # None /\ summary.kind \in {"verdict", "cleared"} =>
    summary.head = target.head /\ summary.refs = target.refs

BlockersCurrent ==
  Newest.stage = "ok" /\ Newest.outcome = "verdict" =>
    \A m \in planBlockerInlineComments(Newest, target.refs) : blockers[m] # None

GroundingInv ==
  /\ GroundingTypeOK /\ OnePublishes /\ PlanPosted /\ AboutTarget
  /\ SummaryCurrent /\ BlockersCurrent

-----------------------------------------------------------------------------
\* What is planned is a mark; an issue's only if it is closed; and nothing if none is.
LEMMA PlanOfClosed ==
  ASSUME NEW r, NEW refs, NEW m \in planBlockerInlineComments(r, refs)
  PROVE  m \in Marks /\ m \notin Tickets \ Closing(refs) /\ Closing(refs) # {}
<1>1. Applicable(r, refs) \subseteq Closing(refs) /\ Individual(r, refs) \subseteq Applicable(r, refs)
  BY DEF Applicable, Individual
<1>2. Closing(refs) \subseteq Tickets
  BY DEF Closing
<1>3. OVERFLOW \notin Tickets /\ TRUNCATED \notin Tickets
  BY GroundingAssumption DEF OVERFLOW, TRUNCATED
<1>4. CASE m \in Individual(r, refs)
  BY <1>1, <1>2, <1>4 DEF Marks
<1>5. CASE m = OVERFLOW /\ Individual(r, refs) # Applicable(r, refs)
  BY <1>1, <1>3, <1>5 DEF Marks
<1>6. CASE m = TRUNCATED /\ isDiffTruncationUnverifiableForClosing(r, refs)
  BY <1>3, <1>6 DEF Marks, isDiffTruncationUnverifiableForClosing
<1> QED
  BY <1>4, <1>5, <1>6 DEF planBlockerInlineComments

\* There is a next one to post while there is any.
LEMMA NextPostIsOne ==
  ASSUME NEW todo, todo \subseteq Marks, todo # {}
  PROVE  NextPost(todo) \in todo
<1> DEFINE First(m) == IF todo \subseteq {OVERFLOW, TRUNCATED} THEN \A o \in todo : o <= m
                       ELSE m \in Tickets /\ \A o \in todo \cap Tickets : m <= o
<1>1. \E m \in todo : First(m)
  <2>1. CASE todo \subseteq {OVERFLOW, TRUNCATED}
    <3>1. CASE OVERFLOW \in todo
      BY <2>1, <3>1 DEF OVERFLOW, TRUNCATED
    <3>2. CASE OVERFLOW \notin todo
      <4>1. todo = {TRUNCATED}
        BY <2>1, <3>2
      <4>2. TRUNCATED <= TRUNCATED
        BY DEF TRUNCATED
      <4> QED
        BY <4>1, <4>2
    <3> QED
      BY <3>1, <3>2
  <2>2. CASE ~(todo \subseteq {OVERFLOW, TRUNCATED})
    <3>1. PICK k \in todo \cap Tickets : TRUE
      BY <2>2 DEF Marks
    <3>2. todo \cap Tickets \subseteq Nat
      BY GroundingAssumption
    <3> DEFINE T == {k - m : m \in {o \in todo \cap Tickets : o <= k}}
    <3>3. T \subseteq 0 .. k /\ k \in Nat
      BY <3>1, <3>2
    <3>4. k - k \in T
      BY <3>1, <3>3
    <3>5. PICK t \in T : \A u \in T : t >= u
      <4> HIDE DEF T
      <4> QED
        BY <3>3, <3>4, GreatestNumber
    <3>6. PICK m \in todo \cap Tickets : m <= k /\ t = k - m
      OBVIOUS
    <3>7. ASSUME NEW o \in todo \cap Tickets PROVE m <= o
      <4>1. CASE o <= k
        <5>1. k - o \in T
          BY <4>1
        <5>2. t >= k - o
          BY <3>5, <5>1
        <5> QED
          BY <3>2, <3>3, <3>6, <5>2
      <4>2. CASE ~(o <= k)
        BY <3>2, <3>3, <3>6, <4>2
      <4> QED
        BY <4>1, <4>2
    <3> QED
      BY <2>2, <3>6, <3>7
  <2> QED
    BY <2>1, <2>2
<1>2. NextPost(todo) = CHOOSE m \in todo : First(m)
  BY DEF NextPost
<1> HIDE DEF First
<1> QED
  BY <1>1, <1>2

\* A run for each position, as many as before.
LEMMA RoundsStay ==
  ASSUME rounds \in Seq(Round), NEW f, f = [n \in DOMAIN rounds |-> f[n]],
         \A n \in DOMAIN rounds : f[n] \in Round
  PROVE  f \in Seq(Round) /\ Len(f) = Len(rounds) /\ DOMAIN f = DOMAIN rounds
<1>1. DOMAIN rounds = 1 .. Len(rounds) /\ Len(rounds) \in Nat
  OBVIOUS
<1>2. DOMAIN f = 1 .. Len(rounds)
  BY <1>1
<1>3. f \in [1 .. Len(rounds) -> Round]
  BY <1>1
<1> QED
  BY <1>1, <1>2, <1>3

-----------------------------------------------------------------------------
\* The initial state.
LEMMA GroundingStarts == GroundingInit => GroundingInv
<1> SUFFICES ASSUME GroundingInit PROVE GroundingInv
  OBVIOUS
<1>1. PICK refs \in References :
        target = [head |-> 1, base |-> 1, refs |-> refs, unticked |-> Tickets]
  BY DEF GroundingInit
<1>2. /\ blockers = [m \in Marks |-> None] /\ summary = None /\ publisher = NoPublisher
      /\ rounds = <<NewRound(1)>>
  BY DEF GroundingInit
<1>3. NewRound(1) \in Round /\ NewRound(1).stage = "queued" /\ NewRound(1).head = 1
  BY DEF NewRound, Round, Stages, Outcomes
<1>4. /\ publisher.pc = "idle" /\ publisher.stands = FALSE
      /\ publisher.todo = {} /\ publisher.made = {}
      /\ publisher = [round |-> publisher.round, pc |-> publisher.pc, snap |-> publisher.snap,
                      todo |-> publisher.todo, made |-> publisher.made,
                      stands |-> publisher.stands, gone |-> publisher.gone]
  BY <1>2 DEF NoPublisher
<1>5. rounds \in Seq(Round) /\ Len(rounds) = 1 /\ DOMAIN rounds = {1} /\ rounds[1] = NewRound(1)
  BY <1>2, <1>3
<1>6. GroundingTypeOK
  <2>1. /\ target = [head |-> target.head, base |-> target.base, refs |-> target.refs,
                     unticked |-> target.unticked]
        /\ target.head \in Nat /\ target.base \in Nat
    BY <1>1
  <2>2. blockers \in [Marks -> Thread \cup {None}]
    BY <1>2
  <2>3. publisher.todo \subseteq Marks /\ publisher.made \subseteq Marks
        /\ publisher.stands \in BOOLEAN
    BY <1>4
  <2>4. rounds \in Seq(Round) /\ Len(rounds) > 0
    BY <1>5
  <2> QED
    BY <1>4, <2>1, <2>2, <2>3, <2>4, Zenon DEF GroundingTypeOK
<1>7. Newest.head = target.head /\ Newest.stage = "queued"
  BY <1>1, <1>3, <1>5 DEF Newest
<1> QED
  BY <1>3, <1>4, <1>5, <1>6, <1>7
     DEF GroundingInv, OnePublishes, PlanPosted, AboutTarget, SummaryCurrent, BlockersCurrent

\* Runs go on, but neither the one that publishes nor one into "ok" or "publishing".
LEMMA RunsGoOn ==
  ASSUME GroundingInv, UNCHANGED <<target, blockers, summary, publisher>>,
         rounds' \in Seq(Round), Len(rounds') = Len(rounds), DOMAIN rounds' = DOMAIN rounds,
         \A n \in DOMAIN rounds :
           /\ rounds'[n].head = rounds[n].head
           /\ rounds[n].stage = "publishing" => rounds'[n] = rounds[n]
           /\ rounds'[n].stage \in {"publishing", "ok"} => rounds'[n] = rounds[n]
  PROVE  GroundingInv'
<1>1. Len(rounds) \in DOMAIN rounds
  BY DEF GroundingInv, GroundingTypeOK
<1>2. GroundingTypeOK'
  BY DEF GroundingInv, GroundingTypeOK
<1>3. OnePublishes'
  BY DEF GroundingInv, OnePublishes, Now
<1>4. publisher.pc # "idle" => Now' = Now /\ Planned' = Planned
  BY DEF GroundingInv, OnePublishes, Now, Planned
<1>5. PlanPosted'
  <2>1. CASE publisher.pc = "idle"
    BY <2>1, <1>3 DEF GroundingInv, PlanPosted, Worded, Seen
  <2>2. CASE publisher.pc # "idle"
    BY <1>4, <2>2 DEF GroundingInv, PlanPosted, Worded, Seen
  <2> QED
    BY <2>1, <2>2
<1>6. /\ Newest'.head = Newest.head
      /\ Newest'.stage = "ok" => Newest' = Newest
  BY <1>1 DEF Newest
<1>7. AboutTarget'
  BY <1>4, <1>6 DEF GroundingInv, AboutTarget
<1>8. SummaryCurrent' /\ BlockersCurrent'
  BY <1>6 DEF GroundingInv, SummaryCurrent, BlockersCurrent
<1> QED
  BY <1>2, <1>3, <1>5, <1>7, <1>8 DEF GroundingInv

\* A cancelled review leaves its number and head.
LEMMA SupersededRuns ==
  ASSUME GroundingInv
  PROVE  /\ Superseded = [n \in DOMAIN rounds |-> Superseded[n]]
         /\ \A n \in DOMAIN rounds :
              /\ Superseded[n] \in Round /\ Superseded[n].head = rounds[n].head
              /\ rounds[n].stage = "publishing" => Superseded[n] = rounds[n]
              /\ Superseded[n].stage \in {"publishing", "ok"} => Superseded[n] = rounds[n]
<1>1. ASSUME NEW n \in DOMAIN rounds
      PROVE  /\ Superseded[n] \in Round /\ Superseded[n].head = rounds[n].head
             /\ rounds[n].stage = "publishing" => Superseded[n] = rounds[n]
             /\ Superseded[n].stage \in {"publishing", "ok"} => Superseded[n] = rounds[n]
  <2>1. rounds[n] \in Round
    BY DEF GroundingInv, GroundingTypeOK
  <2>2. CASE rounds[n].stage \in {"queued", "judging"}
    <3> DEFINE x == [NewRound(rounds[n].head) EXCEPT !.stage = "judging", !.outcome = "cancelled"]
    <3>1. NewRound(rounds[n].head) \in Round /\ NewRound(rounds[n].head).head = rounds[n].head
      BY <2>1 DEF NewRound, Round, Stages, Outcomes
    <3>2. Superseded[n] = x
      BY <2>2 DEF Superseded
    <3>3. x \in Round /\ x.stage = "judging" /\ x.head = rounds[n].head
      BY <3>1 DEF Round, Stages, Outcomes
    <3> HIDE DEF x
    <3> QED
      BY <2>2, <3>2, <3>3
  <2>3. CASE rounds[n].stage \notin {"queued", "judging"}
    BY <2>1, <2>3 DEF Superseded
  <2> QED
    BY <2>2, <2>3
<1> QED
  BY <1>1, Zenon DEF Superseded

\* The runner, the agent, and whoever runs a review or its publish job again.
LEMMA ReviewsKeep ==
  ASSUME GroundingInv, NEW n \in DOMAIN rounds,
         \/ RunnerReads(n)
         \/ \E unmet \in SUBSET Tickets, ok \in BOOLEAN : Judged(n, unmet, ok)
         \/ RerunReview(n) \/ RerunPublish(n)
  PROVE  GroundingInv'
<1>1. /\ rounds \in Seq(Round) /\ rounds[n] \in Round
      /\ \A r \in DOMAIN rounds : rounds[r] \in Round
  BY DEF GroundingInv, GroundingTypeOK
<1>2. ASSUME NEW f, rounds' = f, f = [r \in DOMAIN rounds |-> f[r]],
             UNCHANGED <<target, blockers, summary, publisher>>,
             \A r \in DOMAIN rounds :
               /\ f[r] \in Round
               /\ f[r].head = rounds[r].head
               /\ rounds[r].stage = "publishing" => f[r] = rounds[r]
               /\ f[r].stage \in {"publishing", "ok"} => f[r] = rounds[r]
      PROVE  GroundingInv'
  <2>1. f \in Seq(Round) /\ Len(f) = Len(rounds) /\ DOMAIN f = DOMAIN rounds
    BY <1>1, <1>2, RoundsStay, Zenon
  <2> QED
    BY <1>2, <2>1, RunsGoOn
<1>3. CASE RunnerReads(n)
  <2>1. rounds[n].stage = "queued" /\ UNCHANGED <<target, blockers, summary, publisher>>
    BY <1>3 DEF RunnerReads
  <2>2. \E x \in Round : /\ rounds' = [rounds EXCEPT ![n] = x]
                         /\ x.stage = "judging" /\ x.head = rounds[n].head
    <3>1. CASE target.head # rounds[n].head
      <4> DEFINE x == [rounds[n] EXCEPT !.stage = "judging", !.outcome = "failed"]
      <4>1. rounds' = [rounds EXCEPT ![n] = x]
        BY <1>3, <3>1 DEF RunnerReads
      <4>2. x \in Round /\ x.stage = "judging" /\ x.head = rounds[n].head
        BY <1>1 DEF Round, Stages, Outcomes
      <4> QED
        BY <4>1, <4>2, Zenon
    <3>2. CASE target.head = rounds[n].head
      <4>1. PICK o \in Outcomes :
              rounds' = [rounds EXCEPT ![n] =
                [rounds[n] EXCEPT !.stage = "judging", !.base = target.base,
                   !.closing = Closing(target.refs), !.spine = buildCriteriaSpine, !.outcome = o]]
        BY <1>3, <3>2 DEF RunnerReads, Outcomes
      <4> DEFINE x == [rounds[n] EXCEPT !.stage = "judging", !.base = target.base,
                   !.closing = Closing(target.refs), !.spine = buildCriteriaSpine, !.outcome = o]
      <4>2. target.base \in Nat /\ Closing(target.refs) \in SUBSET Tickets
            /\ buildCriteriaSpine \in SUBSET Tickets
        BY DEF GroundingInv, GroundingTypeOK, Closing, buildCriteriaSpine
      <4>3. x \in Round /\ x.stage = "judging" /\ x.head = rounds[n].head
        BY <1>1, <4>2 DEF Round, Stages
      <4> QED
        BY <4>1, <4>3, Zenon
    <3> QED
      BY <3>1, <3>2
  <2>3. PICK x \in Round : /\ rounds' = [rounds EXCEPT ![n] = x]
                           /\ x.stage = "judging" /\ x.head = rounds[n].head
    BY <2>2
  <2> QED
    BY <1>1, <1>2, <2>1, <2>3
<1>4. CASE \E unmet \in SUBSET Tickets, ok \in BOOLEAN : Judged(n, unmet, ok)
  <2>1. PICK unmet \in SUBSET Tickets, ok \in BOOLEAN : Judged(n, unmet, ok)
    BY <1>4
  <2> DEFINE y == [rounds[n] EXCEPT !.stage = "waiting", !.unmet = unmet,
                     !.outcome = IF ok THEN @ ELSE "failed"]
             f == [r \in DOMAIN rounds |->
                     IF r = n THEN y
                     ELSE IF rounds[r].stage = "waiting" THEN [rounds[r] EXCEPT !.stage = "cancelled"]
                     ELSE rounds[r]]
  <2>2. /\ rounds[n].stage = "judging" /\ rounds' = f
        /\ UNCHANGED <<target, blockers, summary, publisher>>
    BY <2>1 DEF Judged
  <2>3. y \in Round /\ y.stage = "waiting" /\ y.head = rounds[n].head
    BY <1>1 DEF Round, Stages, Outcomes
  <2> HIDE DEF y
  <2>4. ASSUME NEW r \in DOMAIN rounds
        PROVE  /\ f[r] \in Round /\ f[r].head = rounds[r].head
               /\ rounds[r].stage = "publishing" => f[r] = rounds[r]
               /\ f[r].stage \in {"publishing", "ok"} => f[r] = rounds[r]
    <3>1. CASE r = n
      BY <2>2, <2>3, <3>1
    <3>2. CASE r # n
      BY <1>1, <3>2 DEF Round, Stages
    <3> QED
      BY <3>1, <3>2
  <2>5. f = [r \in DOMAIN rounds |-> f[r]]
    OBVIOUS
  <2> HIDE DEF f
  <2> QED
    BY <1>2, <2>2, <2>4, <2>5
<1>5. CASE RerunReview(n)
  <2>1. /\ n \in Finished /\ rounds' = [Superseded EXCEPT ![n] = NewRound(rounds[n].head)]
        /\ UNCHANGED <<target, blockers, summary, publisher>>
    BY <1>5 DEF RerunReview
  <2>2. rounds[n].stage # "publishing"
    BY <2>1 DEF Finished
  <2> DEFINE x == NewRound(rounds[n].head)
             f == [Superseded EXCEPT ![n] = x]
  <2>3. x \in Round /\ x.stage = "queued" /\ x.head = rounds[n].head
    BY <1>1 DEF Round, NewRound, Stages, Outcomes
  <2> HIDE DEF x
  <2>4. DOMAIN Superseded = DOMAIN rounds
    BY DEF Superseded
  <2>5. ASSUME NEW r \in DOMAIN rounds
        PROVE  f[r] = IF r = n THEN x ELSE Superseded[r]
    BY <2>4
  <2>6. f = [r \in DOMAIN rounds |-> f[r]]
    BY <2>4
  <2>7. rounds' = f
    BY <2>1, Zenon DEF x
  <2> HIDE DEF f
  <2>8. \A r \in DOMAIN rounds :
          /\ f[r] \in Round /\ f[r].head = rounds[r].head
          /\ rounds[r].stage = "publishing" => f[r] = rounds[r]
          /\ f[r].stage \in {"publishing", "ok"} => f[r] = rounds[r]
    BY <2>2, <2>3, <2>5, SupersededRuns
  <2> QED
    BY <1>2, <2>1, <2>6, <2>7, <2>8
<1>6. CASE RerunPublish(n)
  <2> DEFINE y == [rounds[n] EXCEPT !.stage = "waiting"]
             f == [r \in DOMAIN rounds |->
                     IF r = n THEN y
                     ELSE IF rounds[r].stage = "waiting" THEN [rounds[r] EXCEPT !.stage = "cancelled"]
                     ELSE rounds[r]]
  <2>1. /\ n \in Finished /\ rounds' = f
        /\ UNCHANGED <<target, blockers, summary, publisher>>
    BY <1>6 DEF RerunPublish
  <2>2. rounds[n].stage # "publishing"
    BY <2>1 DEF Finished
  <2>3. y \in Round /\ y.stage = "waiting" /\ y.head = rounds[n].head
    BY <1>1 DEF Round, Stages
  <2> HIDE DEF y
  <2>4. ASSUME NEW r \in DOMAIN rounds
        PROVE  /\ f[r] \in Round /\ f[r].head = rounds[r].head
               /\ rounds[r].stage = "publishing" => f[r] = rounds[r]
               /\ f[r].stage \in {"publishing", "ok"} => f[r] = rounds[r]
    <3>1. CASE r = n
      BY <2>2, <2>3, <3>1
    <3>2. CASE r # n
      BY <1>1, <3>2 DEF Round, Stages
    <3> QED
      BY <3>1, <3>2
  <2>5. f = [r \in DOMAIN rounds |-> f[r]]
    OBVIOUS
  <2> HIDE DEF f
  <2> QED
    BY <1>2, <2>1, <2>4, <2>5
<1> QED
  BY <1>3, <1>4, <1>5, <1>6

\* An event that starts a review queues a run about the head there is from now on.
LEMMA ReviewEventsKeep ==
  ASSUME GroundingInv, UNCHANGED <<blockers, summary, publisher>>,
         rounds' = Append(Superseded, NewRound(target'.head)),
         target' = [head |-> target'.head, base |-> target'.base, refs |-> target'.refs,
                    unticked |-> target'.unticked],
         target'.head \in Nat, target'.base \in Nat
  PROVE  GroundingInv'
<1> DEFINE x == NewRound(target'.head)
<1>1. x \in Round /\ x.stage = "queued" /\ x.head = target'.head
  BY DEF NewRound, Round, Stages, Outcomes
<1> HIDE DEF x
<1>2. Superseded \in Seq(Round) /\ Len(Superseded) = Len(rounds) /\ DOMAIN Superseded = DOMAIN rounds
  <2>1. rounds \in Seq(Round)
    BY DEF GroundingInv, GroundingTypeOK
  <2>2. \A n \in DOMAIN rounds : Superseded[n] \in Round
    BY SupersededRuns
  <2> QED
    BY <2>1, <2>2, SupersededRuns, RoundsStay
<1>3. rounds' = Append(Superseded, x)
  BY DEF x
<1>4. /\ rounds' \in Seq(Round) /\ Len(rounds') = Len(rounds) + 1
      /\ rounds'[Len(rounds) + 1] = x
      /\ \A n \in DOMAIN rounds : rounds'[n] = Superseded[n]
      /\ Len(rounds) \in Nat /\ DOMAIN rounds = 1 .. Len(rounds)
      /\ DOMAIN rounds' = 1 .. Len(rounds) + 1
  <2>1. Len(rounds) \in Nat /\ DOMAIN rounds = 1 .. Len(rounds)
    BY DEF GroundingInv, GroundingTypeOK
  <2> QED
    BY <1>1, <1>2, <1>3, <2>1
<1>5. GroundingTypeOK'
  BY <1>4 DEF GroundingInv, GroundingTypeOK
<1>6. OnePublishes'
  <2>1. ASSUME publisher.pc # "idle"
        PROVE  publisher.round \in DOMAIN rounds' /\ Now'.stage = "publishing"
    BY <1>4, <2>1, SupersededRuns DEF GroundingInv, OnePublishes, Now
  <2>2. ASSUME NEW n \in DOMAIN rounds', rounds'[n].stage = "publishing"
        PROVE  publisher.pc # "idle" /\ publisher.round = n
    <3>1. n \in DOMAIN rounds
      BY <1>1, <1>4, <2>2
    <3>2. rounds[n].stage = "publishing"
      BY <1>4, <2>2, <3>1, SupersededRuns
    <3> QED
      BY <3>1, <3>2 DEF GroundingInv, OnePublishes
  <2> QED
    BY <2>1, <2>2 DEF OnePublishes
<1>7. publisher.pc # "idle" =>
        Now' = Now /\ Planned' = Planned /\ publisher.round \in DOMAIN rounds
  BY <1>4, SupersededRuns DEF GroundingInv, OnePublishes, Now, Planned
<1>8. PlanPosted'
  <2>1. CASE publisher.pc = "idle"
    BY <2>1 DEF GroundingInv, PlanPosted, Worded, Seen
  <2>2. CASE publisher.pc # "idle"
    BY <1>7, <2>2 DEF GroundingInv, PlanPosted, Worded, Seen
  <2> QED
    BY <2>1, <2>2
<1>9. Newest' = x
  BY <1>4 DEF Newest
<1>10. AboutTarget'
  <2>1. publisher.pc # "idle" => publisher'.round # Len(rounds')
    BY <1>4, <1>7
  <2> QED
    BY <1>1, <1>7, <1>9, <2>1 DEF GroundingInv, AboutTarget
<1>11. SummaryCurrent' /\ BlockersCurrent'
  BY <1>1, <1>9 DEF SummaryCurrent, BlockersCurrent
<1> QED
  BY <1>5, <1>6, <1>8, <1>10, <1>11 DEF GroundingInv

\* What has no event touches neither head nor references.
LEMMA QuietChangesKeep ==
  ASSUME GroundingInv, UNCHANGED <<blockers, summary, publisher, rounds>>,
         target' = [head |-> target.head, base |-> target'.base, refs |-> target.refs,
                    unticked |-> target'.unticked],
         target'.base \in Nat
  PROVE  GroundingInv'
<1>1. target'.head = target.head /\ target'.refs = target.refs
  OBVIOUS
<1>2. GroundingTypeOK'
  BY <1>1 DEF GroundingInv, GroundingTypeOK
<1>3. OnePublishes' /\ PlanPosted'
  BY DEF GroundingInv, OnePublishes, PlanPosted, Planned, Now, Worded, Seen
<1>4. AboutTarget' /\ SummaryCurrent' /\ BlockersCurrent'
  BY <1>1 DEF GroundingInv, AboutTarget, SummaryCurrent, BlockersCurrent, Newest, Now
<1> QED
  BY <1>2, <1>3, <1>4 DEF GroundingInv

LEMMA PeopleKeepReview ==
  ASSUME GroundingInv, PeopleOnTarget
  PROVE  GroundingInv'
<1>1. /\ target = [head |-> target.head, base |-> target.base, refs |-> target.refs,
                   unticked |-> target.unticked]
      /\ target.head \in Nat /\ target.base \in Nat
  BY DEF GroundingInv, GroundingTypeOK
<1> DEFINE T(head, base, refs, unticked) ==
             [head |-> head, base |-> base, refs |-> refs, unticked |-> unticked]
<1>2. ASSUME NEW head, NEW base, NEW refs, NEW unticked
      PROVE  LET t == T(head, base, refs, unticked)
             IN t.head = head /\ t.base = base /\ t.refs = refs /\ t.unticked = unticked
  OBVIOUS
<1>3. CASE PushesHead
  <2>1. target' = T(target.head + 1, target.base, target.refs, target.unticked)
    BY <1>1, <1>3 DEF PushesHead
  <2>2. /\ rounds' = Append(Superseded, NewRound(target'.head))
        /\ UNCHANGED <<blockers, summary, publisher>>
    BY <1>3 DEF PushesHead, Event, StartsReview
  <2>3. target'.head = target.head + 1 /\ target'.base = target.base
        /\ target'.refs = target.refs /\ target'.unticked = target.unticked
    BY <2>1
  <2> QED
    BY <1>1, <2>1, <2>2, <2>3, ReviewEventsKeep
<1>4. CASE \E refs \in References : EditsReferences(refs)
  <2>1. PICK refs \in References : EditsReferences(refs)
    BY <1>4
  <2>2. target' = T(target.head, target.base, refs, target.unticked)
    BY <1>1, <2>1 DEF EditsReferences
  <2>3. /\ rounds' = Append(Superseded, NewRound(target'.head))
        /\ UNCHANGED <<blockers, summary, publisher>>
    BY <2>1 DEF EditsReferences, Event, StartsReview
  <2>4. target'.head = target.head /\ target'.base = target.base
        /\ target'.refs = refs /\ target'.unticked = target.unticked
    BY <2>2
  <2> QED
    BY <1>1, <2>2, <2>3, <2>4, ReviewEventsKeep
<1>5. CASE \E t \in Tickets : TicksBox(t)
  <2>1. PICK t \in Tickets : TicksBox(t)
    BY <1>5
  <2>2. target' = T(target.head, target.base, target.refs, target.unticked \ {t})
    BY <1>1, <2>1 DEF TicksBox
  <2>3. UNCHANGED <<blockers, summary, publisher, rounds>>
    BY <2>1 DEF TicksBox, Event, StartsReview
  <2>4. target'.base = target.base /\ target'.unticked = target.unticked \ {t}
    BY <2>2
  <2> QED
    BY <1>1, <2>2, <2>3, <2>4, QuietChangesKeep
<1>6. CASE BaseAdvances
  <2>1. target' = T(target.head, target.base + 1, target.refs, target.unticked)
    BY <1>1, <1>6 DEF BaseAdvances
  <2>2. UNCHANGED <<blockers, summary, publisher, rounds>>
    BY <1>6 DEF BaseAdvances, Event, StartsReview
  <2>3. target'.base = target.base + 1 /\ target'.unticked = target.unticked
    BY <2>1
  <2> QED
    BY <1>1, <2>1, <2>2, <2>3, QuietChangesKeep
<1>7. CASE \E m \in Marks : ResolvesThread(m)
  <2>1. PICK m \in Marks : ResolvesThread(m)
    BY <1>7
  <2>2. UNCHANGED <<target, summary, rounds, publisher>> /\ blockers[m] # None
    BY <2>1 DEF ResolvesThread
  <2>3. blockers[m] \in Thread
    BY <2>2 DEF GroundingInv, GroundingTypeOK
  <2> DEFINE x == [blockers[m] EXCEPT !.open = FALSE, !.read = blockers[m].gen]
  <2>4. blockers' = [blockers EXCEPT ![m] = x]
    BY <2>1, <2>3 DEF ResolvesThread, Thread, GroundingInv, GroundingTypeOK
  <2>5. x \in Thread /\ x.gen = blockers[m].gen /\ x.read = x.gen
    BY <2>3 DEF Thread
  <2>6. x # None
    BY <2>5, GroundingAssumption DEF Thread
  <2> HIDE DEF x
  <2>7. blockers' \in [Marks -> Thread \cup {None}]
    BY <2>4, <2>5 DEF GroundingInv, GroundingTypeOK
  <2>8. \A o \in Marks : blockers'[o] = IF o = m THEN x ELSE blockers[o]
    BY <2>4 DEF GroundingInv, GroundingTypeOK
  <2>9. GroundingTypeOK'
    BY <2>2, <2>7 DEF GroundingInv, GroundingTypeOK
  <2>10. ASSUME NEW o \in Marks
         PROVE  /\ blockers[o] # None => blockers'[o] # None
                /\ Worded(o) => Worded(o)'
                /\ Worded(o) /\ Seen(o) => Seen(o)'
    BY <2>2, <2>5, <2>6, <2>8 DEF Worded, Seen
  <2>11. Planned \subseteq Marks /\ planBlockerInlineComments(Newest, target.refs) \subseteq Marks
    BY PlanOfClosed DEF Planned
  <2>12. Planned' = Planned /\ Now' = Now /\ Newest' = Newest
    BY <2>2 DEF Planned, Now, Newest
  <2>13. OnePublishes' /\ AboutTarget' /\ SummaryCurrent'
    BY <2>2, <2>12 DEF GroundingInv, OnePublishes, AboutTarget, SummaryCurrent
  <2>14. PlanPosted'
    BY <2>2, <2>10, <2>11, <2>12 DEF GroundingInv, PlanPosted
  <2>15. BlockersCurrent'
    BY <2>2, <2>10, <2>11, <2>12 DEF GroundingInv, BlockersCurrent
  <2> QED
    BY <2>9, <2>13, <2>14, <2>15 DEF GroundingInv
<1> QED
  BY <1>3, <1>4, <1>5, <1>6, <1>7 DEF PeopleOnTarget

\* A job takes a run that waits, unless another publishes.
LEMMA StartKeeps ==
  ASSUME GroundingInv, NEW n \in DOMAIN rounds, PublishStarts(n)
  PROVE  GroundingInv'
<1>1. /\ rounds[n].stage = "waiting" /\ publisher.pc = "idle"
      /\ UNCHANGED <<target, blockers, summary>>
      /\ rounds \in Seq(Round) /\ \A r \in DOMAIN rounds : rounds[r] \in Round
      /\ Len(rounds) \in DOMAIN rounds
  BY DEF PublishStarts, GroundingInv, GroundingTypeOK
<1>2. ASSUME NEW s \in {"cancelled", "publishing"}, Stage(n, s)
      PROVE  /\ rounds' \in Seq(Round) /\ Len(rounds') = Len(rounds)
             /\ DOMAIN rounds' = DOMAIN rounds
             /\ \A r \in DOMAIN rounds \ {n} : rounds'[r] = rounds[r]
             /\ rounds'[n] = [rounds[n] EXCEPT !.stage = s]
             /\ rounds'[n].stage = s /\ rounds'[n].head = rounds[n].head
             /\ rounds'[n].outcome = rounds[n].outcome
  <2> DEFINE x == [rounds[n] EXCEPT !.stage = s]
  <2>1. x \in Round /\ x.stage = s /\ x.head = rounds[n].head /\ x.outcome = rounds[n].outcome
    BY <1>1 DEF Round, Stages
  <2>2. rounds' = [rounds EXCEPT ![n] = x]
    BY <1>2 DEF Stage
  <2>3. rounds'[n] = x
    BY <2>2
  <2> HIDE DEF x
  <2>4. rounds' \in Seq(Round) /\ Len(rounds') = Len(rounds) /\ DOMAIN rounds' = DOMAIN rounds
        /\ \A r \in DOMAIN rounds \ {n} : rounds'[r] = rounds[r]
    BY <1>1, <2>1, <2>2
  <2> QED
    BY <2>1, <2>3, <2>4 DEF x
<1>3. CASE rounds[n].outcome = "cancelled"
  <2>1. Stage(n, "cancelled") /\ UNCHANGED publisher
    BY <1>3 DEF PublishStarts
  <2>2. \A r \in DOMAIN rounds :
          /\ rounds'[r].head = rounds[r].head
          /\ rounds[r].stage = "publishing" => rounds'[r] = rounds[r]
          /\ rounds'[r].stage \in {"publishing", "ok"} => rounds'[r] = rounds[r]
    BY <1>1, <1>2, <2>1
  <2> QED
    BY <1>1, <1>2, <2>1, <2>2, RunsGoOn
<1>4. CASE rounds[n].outcome # "cancelled"
  <2>1. /\ Stage(n, "publishing")
        /\ publisher' = [NoPublisher EXCEPT !.round = n,
                             !.pc = IF rounds[n].outcome = "failed" THEN "fallback" ELSE "pull"]
    BY <1>4 DEF PublishStarts
  <2>2. /\ publisher'.round = n /\ publisher'.pc \in {"fallback", "pull"}
        /\ publisher'.todo = {} /\ publisher'.made = {} /\ publisher'.stands = FALSE
        /\ publisher' = [round |-> publisher'.round, pc |-> publisher'.pc, snap |-> publisher'.snap,
                         todo |-> publisher'.todo, made |-> publisher'.made,
                         stands |-> publisher'.stands, gone |-> publisher'.gone]
    BY <2>1 DEF NoPublisher
  <2>3. GroundingTypeOK'
    <3>1. publisher'.todo \subseteq Marks /\ publisher'.made \subseteq Marks
          /\ publisher'.stands \in BOOLEAN
      BY <2>2
    <3>2. rounds' \in Seq(Round) /\ Len(rounds') > 0
      BY <1>2, <2>1 DEF GroundingInv, GroundingTypeOK
    <3> QED
      BY <1>1, <2>2, <3>1, <3>2 DEF GroundingInv, GroundingTypeOK
  <2>4. \A r \in DOMAIN rounds : rounds[r].stage # "publishing"
    BY <1>1 DEF GroundingInv, OnePublishes
  <2>5. OnePublishes'
    BY <1>2, <2>1, <2>2, <2>4 DEF OnePublishes, Now
  <2>6. PlanPosted'
    BY <2>2 DEF PlanPosted
  <2>7. Newest'.head = Newest.head /\ (Newest'.stage = "ok" => Newest' = Newest)
    BY <1>1, <1>2, <2>1 DEF Newest
  <2>8. AboutTarget'
    BY <1>1, <2>2, <2>7 DEF GroundingInv, AboutTarget
  <2>9. SummaryCurrent' /\ BlockersCurrent'
    BY <1>1, <2>7 DEF GroundingInv, SummaryCurrent, BlockersCurrent
  <2> QED
    BY <2>3, <2>5, <2>6, <2>8, <2>9 DEF GroundingInv
<1> QED
  BY <1>3, <1>4

\* The publisher goes on; pull request and runs stay.
LEMMA PublisherGoesOn ==
  ASSUME GroundingInv, publisher.pc # "idle", UNCHANGED <<target, rounds>>,
         UNCHANGED summary \/ SummaryCurrent',
         publisher' = [round |-> publisher.round, pc |-> publisher'.pc, snap |-> publisher'.snap,
                       todo |-> publisher'.todo, made |-> publisher'.made,
                       stands |-> publisher'.stands, gone |-> publisher'.gone],
         publisher'.pc # "idle", publisher'.todo \subseteq Marks, publisher'.made \subseteq Marks,
         publisher'.stands \in BOOLEAN, blockers' \in [Marks -> Thread \cup {None}],
         PlanPosted', BlockersCurrent',
         publisher'.pc \notin {"pull", "fallback"} =>
           \/ publisher'.snap = target.refs /\ Now.head = target.head
           \/ publisher.pc \notin {"pull", "fallback"} /\ publisher'.snap = publisher.snap,
         publisher'.pc = "remove" => target.refs = NoReferences,
         publisher'.pc \in {"clear", "remove", "cleared", "raced"} => Now.outcome # "verdict"
  PROVE  GroundingInv'
<1>1. publisher'.round = publisher.round /\ Now' = Now /\ Newest' = Newest
  BY DEF Now, Newest
<1>2. GroundingTypeOK'
  BY <1>1 DEF GroundingInv, GroundingTypeOK
<1>3. OnePublishes'
  BY <1>1 DEF GroundingInv, OnePublishes
<1>4. AboutTarget'
  BY <1>1 DEF GroundingInv, AboutTarget
<1>5. SummaryCurrent'
  BY <1>1 DEF GroundingInv, SummaryCurrent
<1> QED
  BY <1>2, <1>3, <1>4, <1>5 DEF GroundingInv

\* To the fallback, where nothing of the blockers is touched any more.
LEMMA FallbackKeeps ==
  ASSUME GroundingInv, publisher.pc # "idle", UNCHANGED <<target, blockers, rounds>>,
         UNCHANGED summary \/ SummaryCurrent', PublisherTo("fallback")
  PROVE  GroundingInv'
<1>1. /\ publisher'.round = publisher.round /\ publisher'.pc = "fallback"
      /\ publisher'.snap = publisher.snap /\ publisher'.todo = publisher.todo
      /\ publisher'.made = publisher.made /\ publisher'.stands = publisher.stands
      /\ publisher' = [round |-> publisher.round, pc |-> publisher'.pc, snap |-> publisher'.snap,
                       todo |-> publisher'.todo, made |-> publisher'.made,
                       stands |-> publisher'.stands, gone |-> publisher'.gone]
  BY DEF PublisherTo, GroundingInv, GroundingTypeOK
<1>2. Planned' = Planned /\ Newest' = Newest
  BY <1>1 DEF Planned, Now, Newest
<1>3. PlanPosted'
  BY <1>1, <1>2 DEF GroundingInv, PlanPosted, Worded, Seen
<1>4. BlockersCurrent'
  BY <1>2 DEF GroundingInv, BlockersCurrent
<1> QED
  BY <1>1, <1>3, <1>4, PublisherGoesOn DEF GroundingInv, GroundingTypeOK

\* The first look: the pull request is the reviewed one, and its references are kept.
LEMMA ReadsTargetKeeps ==
  ASSUME GroundingInv, ReadsTarget
  PROVE  GroundingInv'
<1>1. publisher.pc = "pull" /\ UNCHANGED <<target, blockers, summary, rounds>>
  BY DEF ReadsTarget, PublisherReads
<1>2. CASE PublisherTo("fallback")
  BY <1>1, <1>2, FallbackKeeps
<1>3. CASE ~PublisherTo("fallback")
  <2> DEFINE todo == IF Proceeds = "clear" THEN Marks ELSE {}
  <2>1. /\ SameRange
        /\ publisher' = [publisher EXCEPT !.pc = Proceeds, !.snap = target.refs, !.todo = todo]
    BY <1>3 DEF ReadsTarget
  <2>2. /\ publisher'.round = publisher.round /\ publisher'.pc = Proceeds
        /\ publisher'.snap = target.refs /\ publisher'.todo = todo
        /\ publisher'.made = publisher.made /\ publisher'.stands = publisher.stands
        /\ publisher' = [round |-> publisher.round, pc |-> publisher'.pc, snap |-> publisher'.snap,
                         todo |-> publisher'.todo, made |-> publisher'.made,
                         stands |-> publisher'.stands, gone |-> publisher'.gone]
    <3> HIDE DEF todo
    <3> QED
      BY <2>1 DEF GroundingInv, GroundingTypeOK
  <2>3. /\ Proceeds \in {"clear", "cleared", "reconcile", "diff"}
        /\ Proceeds \in {"clear", "cleared"} => Now.outcome # "verdict"
        /\ Proceeds = "diff" => planBlockerInlineComments(Now, target.refs) # {}
    BY DEF Proceeds
  <2>4. todo \subseteq Marks
    OBVIOUS
  <2> HIDE DEF todo
  <2>5. publisher.stands = FALSE /\ publisher.made = {}
    BY <1>1 DEF GroundingInv, GroundingTypeOK, PlanPosted
  <2>6. Planned' = planBlockerInlineComments(Now, target.refs) /\ Newest' = Newest
    BY <1>1, <2>2 DEF Planned, Now, Newest
  <2>7. PlanPosted'
    BY <2>2, <2>3, <2>5, <2>6 DEF PlanPosted
  <2>8. BlockersCurrent'
    BY <1>1, <2>6 DEF GroundingInv, BlockersCurrent
  <2>9. Now.head = target.head
    BY <2>1 DEF SameRange
  <2>10. /\ publisher.pc # "idle" /\ publisher'.pc # "idle" /\ publisher'.pc # "remove"
         /\ publisher'.pc \in {"clear", "remove", "cleared", "raced"} => Now.outcome # "verdict"
    BY <1>1, <2>2, <2>3
  <2>11. /\ publisher'.todo \subseteq Marks /\ publisher'.made \subseteq Marks
         /\ publisher'.stands \in BOOLEAN /\ blockers' \in [Marks -> Thread \cup {None}]
    BY <1>1, <2>2, <2>4, <2>5 DEF GroundingInv, GroundingTypeOK
  <2> QED
    BY <1>1, <2>2, <2>7, <2>8, <2>9, <2>10, <2>11, PublisherGoesOn
<1> QED
  BY <1>2, <1>3

\* Later looks: only where the publisher goes on and what it has still to do change.
LEMMA LooksKeep ==
  ASSUME GroundingInv, UNCHANGED <<target, blockers, summary, rounds>>,
         publisher.pc \notin {"idle", "pull", "fallback"},
         NEW pc, pc \in {"post", "reconcile", "check", "verify", "drop", "clear", "remove",
                         "cleared", "raced", "verdict"},
         NEW todo, todo \subseteq Marks, NEW made, made \subseteq Marks,
         NEW stands, stands \in BOOLEAN,
         publisher' = [publisher EXCEPT !.pc = pc, !.todo = todo, !.made = made, !.stands = stands],
         pc \in {"clear", "remove", "cleared", "raced"} =>
           publisher.pc \in {"clear", "remove", "cleared", "raced"},
         pc = "remove" => target.refs = NoReferences,
         pc \in {"post", "clear", "remove"} => stands = FALSE,
         pc = "post" => todo # {} /\ todo = Planned /\ made = {},
         pc \in {"drop", "verify"} =>
           \A m \in todo : \/ m \in Tickets \ Closing(publisher.snap)
                           \/ m = TRUNCATED /\ Closing(publisher.snap) = {},
         stands => \A m \in Planned : Worded(m) /\ Seen(m)
  PROVE  GroundingInv'
<1>1. /\ publisher'.round = publisher.round /\ publisher'.pc = pc
      /\ publisher'.snap = publisher.snap /\ publisher'.todo = todo
      /\ publisher'.made = made /\ publisher'.stands = stands
      /\ publisher' = [round |-> publisher.round, pc |-> publisher'.pc, snap |-> publisher'.snap,
                       todo |-> publisher'.todo, made |-> publisher'.made,
                       stands |-> publisher'.stands, gone |-> publisher'.gone]
  BY DEF GroundingInv, GroundingTypeOK
<1>2. Planned' = Planned /\ Newest' = Newest
  BY <1>1 DEF Planned, Now, Newest
<1>3. PlanPosted'
  BY <1>1, <1>2 DEF PlanPosted, Worded, Seen
<1>4. BlockersCurrent'
  BY <1>2 DEF GroundingInv, BlockersCurrent
<1>5. pc \in {"clear", "remove", "cleared", "raced"} => Now.outcome # "verdict"
  BY DEF GroundingInv, AboutTarget
<1>6. blockers' \in [Marks -> Thread \cup {None}]
  BY DEF GroundingInv, GroundingTypeOK
<1>7. publisher'.pc # "idle" /\ publisher.pc # "idle"
  BY <1>1
<1> QED
  BY <1>1, <1>3, <1>4, <1>5, <1>6, <1>7, PublisherGoesOn

\* The steps that only look.
LEMMA LooksAreSteps ==
  ASSUME GroundingInv,
         \/ Reconciles \/ VerifiesAgain \/ ChecksNoReferences \/ PreWriteCheck
         \/ PublisherReadFails
         \/ \E ok \in BOOLEAN : FetchesDiff(ok) \/ collectUnresolvedPostedMarkers(ok)
  PROVE  GroundingInv'
<1>0. /\ publisher = [round |-> publisher.round, pc |-> publisher.pc, snap |-> publisher.snap,
                      todo |-> publisher.todo, made |-> publisher.made,
                      stands |-> publisher.stands, gone |-> publisher.gone]
      /\ publisher.todo \subseteq Marks /\ publisher.made \subseteq Marks
      /\ publisher.stands \in BOOLEAN
  BY DEF GroundingInv, GroundingTypeOK
<1>1. CASE Reconciles
  <2>1. publisher.pc = "reconcile" /\ UNCHANGED <<target, blockers, summary, rounds>>
    BY <1>1 DEF Reconciles, PublisherReads
  <2>2. CASE PublisherTo("fallback")
    BY <2>1, <2>2, FallbackKeeps
  <2>3. CASE ~PublisherTo("fallback")
    <3>1. PICK pc \in {"check", "verify", "drop"} :
            publisher' = [publisher EXCEPT !.todo = Obsolete, !.pc = pc]
      BY <1>1, <2>3 DEF Reconciles, PublisherTo
    <3>2. publisher' = [publisher EXCEPT !.pc = pc, !.todo = Obsolete,
                          !.made = publisher.made, !.stands = publisher.stands]
      BY <1>0, <3>1
    <3>3. /\ Obsolete \subseteq Marks
          /\ \A m \in Obsolete : \/ m \in Tickets \ Closing(publisher.snap)
                                 \/ m = TRUNCATED /\ Closing(publisher.snap) = {}
      BY DEF Obsolete
    <3>4. publisher.stands => \A m \in Planned : Worded(m) /\ Seen(m)
      BY DEF GroundingInv, PlanPosted
    <3> QED
      BY <1>0, <2>1, <3>2, <3>3, <3>4, LooksKeep
  <2> QED
    BY <2>2, <2>3
<1>2. CASE VerifiesAgain \/ PreWriteCheck
  <2>1. /\ publisher.pc \in {"verify", "check"} /\ UNCHANGED <<target, blockers, summary, rounds>>
        /\ \/ PublisherTo("fallback")
           \/ publisher.pc = "verify" /\ PublisherTo("drop")
           \/ publisher.pc = "check" /\ PublisherTo("verdict")
    BY <1>2 DEF VerifiesAgain, PreWriteCheck, PublisherReads
  <2>2. CASE PublisherTo("fallback")
    BY <2>1, <2>2, FallbackKeeps
  <2>3. CASE ~PublisherTo("fallback")
    <3>1. PICK pc \in {"drop", "verdict"} :
            /\ publisher' = [publisher EXCEPT !.pc = pc] /\ (pc = "drop" => publisher.pc = "verify")
      BY <2>1, <2>3 DEF PublisherTo
    <3>2. publisher' = [publisher EXCEPT !.pc = pc, !.todo = publisher.todo,
                          !.made = publisher.made, !.stands = publisher.stands]
      BY <1>0, <3>1
    <3>3. /\ publisher.stands => \A m \in Planned : Worded(m) /\ Seen(m)
          /\ pc = "drop" =>
               \A m \in publisher.todo :
                 \/ m \in Tickets \ Closing(publisher.snap)
                 \/ m = TRUNCATED /\ Closing(publisher.snap) = {}
      BY <3>1 DEF GroundingInv, PlanPosted
    <3> QED
      BY <1>0, <2>1, <3>2, <3>3, LooksKeep
  <2> QED
    BY <2>2, <2>3
<1>3. CASE ChecksNoReferences
  <2> DEFINE left == {m \in publisher.todo : OfThisOrEarlier(m)}
  <2>1. publisher.pc = "clear" /\ UNCHANGED <<target, blockers, summary, rounds>>
    BY <1>3 DEF ChecksNoReferences, PublisherReads
  <2>2. PICK pc \in {"cleared", "raced", "remove"} :
          /\ publisher' = [publisher EXCEPT !.todo = left, !.pc = pc]
          /\ pc = "remove" => target.refs = NoReferences
    BY <1>3 DEF ChecksNoReferences
  <2>3. left \subseteq Marks
    BY <1>0
  <2> HIDE DEF left
  <2>4. publisher' = [publisher EXCEPT !.pc = pc, !.todo = left,
                        !.made = publisher.made, !.stands = publisher.stands]
    BY <1>0, <2>2
  <2>5. publisher.stands = FALSE
    BY <1>0, <2>1 DEF GroundingInv, PlanPosted
  <2>6. /\ pc \notin {"post", "drop", "verify"}
        /\ publisher.stands => \A m \in Planned : Worded(m) /\ Seen(m)
        /\ publisher.pc \in {"clear", "remove", "cleared", "raced"}
        /\ publisher.pc \notin {"idle", "pull", "fallback"}
        /\ pc \in {"post", "reconcile", "check", "verify", "drop", "clear", "remove",
                   "cleared", "raced", "verdict"}
        /\ pc = "remove" => target.refs = NoReferences
        /\ publisher.made \subseteq Marks /\ publisher.stands \in BOOLEAN
    BY <1>0, <2>1, <2>2, <2>5
  <2> QED
    BY <2>1, <2>3, <2>4, <2>5, <2>6, LooksKeep
<1>4. CASE PublisherReadFails
  BY <1>4, FallbackKeeps DEF PublisherReadFails
<1>5. ASSUME NEW ok \in BOOLEAN, FetchesDiff(ok)
      PROVE  GroundingInv'
  <2>1. publisher.pc = "diff" /\ UNCHANGED <<target, blockers, summary, rounds>>
    BY <1>5 DEF FetchesDiff, PublisherReads
  <2>2. /\ publisher' = [publisher EXCEPT !.pc = IF ok THEN "post" ELSE "reconcile",
                                          !.todo = IF ok THEN Planned ELSE {}]
    BY <1>5 DEF FetchesDiff, Planned
  <2>3. Planned \subseteq Marks /\ Planned # {} /\ publisher.made = {} /\ publisher.stands = FALSE
    BY <1>0, <2>1, PlanOfClosed DEF GroundingInv, PlanPosted, Planned
  <2>4. PICK pc \in {"post", "reconcile"}, todo \in SUBSET Marks :
          /\ publisher' = [publisher EXCEPT !.pc = pc, !.todo = todo,
                             !.made = publisher.made, !.stands = publisher.stands]
          /\ pc = "post" => todo = Planned
    BY <1>0, <2>2, <2>3
  <2>5. /\ pc \notin {"drop", "verify", "clear", "remove", "cleared", "raced"}
        /\ publisher.stands => \A m \in Planned : Worded(m) /\ Seen(m)
        /\ publisher.pc \notin {"idle", "pull", "fallback"}
        /\ pc \in {"post", "reconcile", "check", "verify", "drop", "clear", "remove",
                   "cleared", "raced", "verdict"}
        /\ todo \subseteq Marks
    BY <2>1, <2>3, <2>4
  <2> QED
    BY <1>0, <2>1, <2>3, <2>4, <2>5, LooksKeep
<1>6. ASSUME NEW ok \in BOOLEAN, collectUnresolvedPostedMarkers(ok)
      PROVE  GroundingInv'
  <2> DEFINE open == {m \in Planned \ publisher.todo : m \in publisher.made \/ (ok /\ StillOpen(m))}
             stands == Planned \subseteq open
  <2>1. publisher.pc = "confirm" /\ UNCHANGED <<target, blockers, summary, rounds>>
    BY <1>6 DEF collectUnresolvedPostedMarkers
  <2>2. publisher' = [publisher EXCEPT !.pc = "reconcile", !.todo = {}, !.made = {},
                                       !.stands = stands]
    BY <1>6 DEF collectUnresolvedPostedMarkers, Planned
  <2>3. ASSUME stands, NEW m \in Planned PROVE Worded(m) /\ Seen(m)
    BY <2>1, <2>3 DEF GroundingInv, PlanPosted, StillOpen, Seen
  <2>4. stands \in BOOLEAN
    OBVIOUS
  <2> HIDE DEF stands
  <2> QED
    BY <2>1, <2>2, <2>3, <2>4, LooksKeep
<1> QED
  BY <1>1, <1>2, <1>3, <1>4, <1>5, <1>6

\* A thread gets this run's words and stays resolved, or is new and open.
LEMMA UpsertWords ==
  ASSUME GroundingInv, NEW m \in Marks, upsertInlineComment(m), publisher.round \in Nat
  PROVE  /\ blockers' \in [Marks -> Thread \cup {None}]
         /\ \A o \in Marks \ {m} : blockers'[o] = blockers[o]
         /\ blockers'[m] # None /\ blockers'[m].gen = publisher.round
         /\ blockers[m] = None => blockers'[m].open = TRUE
<1> DEFINE x == IF blockers[m] = None THEN [gen |-> publisher.round, open |-> TRUE, read |-> 0]
                ELSE [blockers[m] EXCEPT !.gen = publisher.round]
<1>1. blockers \in [Marks -> Thread \cup {None}]
  BY DEF GroundingInv, GroundingTypeOK
<1>2. blockers' = [blockers EXCEPT ![m] = x]
  BY DEF upsertInlineComment
<1>3. x \in Thread /\ x.gen = publisher.round /\ (blockers[m] = None => x.open = TRUE)
  <2>1. CASE blockers[m] = None
    BY <2>1 DEF Thread
  <2>2. CASE blockers[m] # None
    <3>1. blockers[m] \in Thread
      BY <1>1, <2>2
    <3> QED
      BY <2>2, <3>1 DEF Thread
  <2> QED
    BY <2>1, <2>2
<1>4. x # None
  BY <1>3, GroundingAssumption DEF Thread
<1> HIDE DEF x
<1> QED
  BY <1>1, <1>2, <1>3, <1>4

LEMMA PostKeeps ==
  ASSUME GroundingInv, NEW result, postInlineCommentPlan(result)
  PROVE  GroundingInv'
<1> DEFINE m == NextPost(publisher.todo)
           created == {o \in {m} : blockers[m] = None}
<1>1. /\ publisher = [round |-> publisher.round, pc |-> publisher.pc, snap |-> publisher.snap,
                      todo |-> publisher.todo, made |-> publisher.made,
                      stands |-> publisher.stands, gone |-> publisher.gone]
      /\ publisher.todo \subseteq Marks /\ publisher.made \subseteq Marks
      /\ blockers \in [Marks -> Thread \cup {None}]
      /\ publisher.pc = "post" /\ UNCHANGED <<target, summary, rounds>>
  BY DEF GroundingInv, GroundingTypeOK, postInlineCommentPlan
<1>2. /\ publisher.todo # {} /\ publisher.made \cap publisher.todo = {}
      /\ publisher.todo \subseteq Planned /\ publisher.stands = FALSE
      /\ \A o \in Planned \ publisher.todo : Worded(o) /\ (o \in publisher.made => Seen(o))
  BY <1>1 DEF GroundingInv, GroundingTypeOK, PlanPosted
<1>3. m \in publisher.todo /\ m \in Marks /\ created \subseteq {m}
  BY <1>1, <1>2, NextPostIsOne
<1>4. publisher.round \in Nat /\ Planned \subseteq Marks
  BY <1>1, PlanOfClosed DEF GroundingInv, OnePublishes, GroundingTypeOK, Planned
<1>5. ASSUME NEW o PROVE o \in created <=> (o = m /\ blockers[m] = None)
  OBVIOUS
<1>6. \/ /\ result = "ok" /\ upsertInlineComment(m)
         /\ publisher' = [publisher EXCEPT !.todo = @ \ {m}, !.made = @ \cup created,
                            !.pc = IF publisher.todo = {m} THEN "confirm" ELSE "post"]
      \/ PublisherTo("confirm") /\ UNCHANGED blockers
      \/ PublisherTo("fallback") /\ upsertInlineComment(m)
      \/ PublisherTo("fallback") /\ UNCHANGED blockers
  BY DEF postInlineCommentPlan
<1> HIDE DEF m, created
<1>7. ASSUME blockers' \in [Marks -> Thread \cup {None}],
             \A o \in Marks : blockers[o] # None => blockers'[o] # None
      PROVE  BlockersCurrent'
  <2>1. planBlockerInlineComments(Newest, target.refs) \subseteq Marks
    BY PlanOfClosed
  <2> QED
    BY <1>1, <1>7, <2>1 DEF GroundingInv, BlockersCurrent, Newest
<1>8. CASE PublisherTo("confirm") /\ UNCHANGED blockers
  <2>1. /\ publisher'.round = publisher.round /\ publisher'.pc = "confirm"
        /\ publisher'.snap = publisher.snap /\ publisher'.todo = publisher.todo
        /\ publisher'.made = publisher.made /\ publisher'.stands = publisher.stands
        /\ publisher' = [round |-> publisher.round, pc |-> publisher'.pc, snap |-> publisher'.snap,
                         todo |-> publisher'.todo, made |-> publisher'.made,
                         stands |-> publisher'.stands, gone |-> publisher'.gone]
    BY <1>1, <1>8 DEF PublisherTo
  <2>2. Planned' = Planned
    BY <1>1, <2>1 DEF Planned, Now
  <2>3. PlanPosted'
    BY <1>2, <1>8, <2>1, <2>2 DEF PlanPosted, Worded, Seen
  <2>4. BlockersCurrent'
    BY <1>1, <1>7, <1>8
  <2> QED
    BY <1>1, <1>2, <1>8, <2>1, <2>3, <2>4, PublisherGoesOn
<1>9. CASE PublisherTo("fallback") /\ UNCHANGED blockers
  BY <1>1, <1>9, FallbackKeeps
<1>10. ASSUME upsertInlineComment(m)
       PROVE  /\ blockers' \in [Marks -> Thread \cup {None}]
              /\ \A o \in Marks \ {m} : blockers'[o] = blockers[o]
              /\ blockers'[m] # None /\ blockers'[m].gen = publisher.round
              /\ blockers[m] = None => blockers'[m].open = TRUE
              /\ BlockersCurrent'
  <2>1. /\ blockers' \in [Marks -> Thread \cup {None}]
        /\ \A o \in Marks \ {m} : blockers'[o] = blockers[o]
        /\ blockers'[m] # None /\ blockers'[m].gen = publisher.round
        /\ blockers[m] = None => blockers'[m].open = TRUE
    BY <1>3, <1>4, <1>10, UpsertWords
  <2> QED
    BY <1>3, <1>7, <2>1
<1>11. CASE PublisherTo("fallback") /\ upsertInlineComment(m)
  <2>1. /\ publisher'.round = publisher.round /\ publisher'.pc = "fallback"
        /\ publisher'.snap = publisher.snap /\ publisher'.todo = publisher.todo
        /\ publisher'.made = publisher.made /\ publisher'.stands = FALSE
        /\ publisher' = [round |-> publisher.round, pc |-> publisher'.pc, snap |-> publisher'.snap,
                         todo |-> publisher'.todo, made |-> publisher'.made,
                         stands |-> publisher'.stands, gone |-> publisher'.gone]
    BY <1>1, <1>2, <1>11 DEF PublisherTo
  <2>2. PlanPosted'
    BY <2>1 DEF PlanPosted
  <2> QED
    BY <1>1, <1>10, <1>11, <2>1, <2>2, PublisherGoesOn
<1>12. CASE /\ upsertInlineComment(m)
            /\ publisher' = [publisher EXCEPT !.todo = @ \ {m}, !.made = @ \cup created,
                               !.pc = IF publisher.todo = {m} THEN "confirm" ELSE "post"]
  <2>1. /\ publisher'.round = publisher.round /\ publisher'.pc \in {"post", "confirm"}
        /\ publisher'.pc = "post" => publisher.todo # {m}
        /\ publisher'.snap = publisher.snap /\ publisher'.todo = publisher.todo \ {m}
        /\ publisher'.made = publisher.made \cup created /\ publisher'.stands = FALSE
        /\ publisher' = [round |-> publisher.round, pc |-> publisher'.pc, snap |-> publisher'.snap,
                         todo |-> publisher'.todo, made |-> publisher'.made,
                         stands |-> publisher'.stands, gone |-> publisher'.gone]
    BY <1>1, <1>2, <1>12
  <2>2. Planned' = Planned
    BY <1>1, <2>1 DEF Planned, Now
  <2>3. /\ publisher'.todo \subseteq Marks /\ publisher'.made \subseteq Marks
        /\ publisher'.todo \subseteq Planned
        /\ publisher'.made \cap publisher'.todo = {}
        /\ publisher'.pc = "post" => publisher'.todo # {}
    BY <1>1, <1>2, <1>3, <2>1
  <2>4. ASSUME NEW o \in Planned \ publisher'.todo
        PROVE  Worded(o)' /\ (o \in publisher'.made => Seen(o)')
    <3>1. CASE o = m
      <4>1. m \notin publisher.made
        BY <1>2, <1>3
      <4>2. m \in publisher'.made => blockers'[m].open = TRUE
        BY <1>5, <1>10, <1>12, <2>1, <4>1
      <4> QED
        BY <1>10, <1>12, <2>1, <3>1, <4>2 DEF Worded, Seen
    <3>2. CASE o # m
      <4>1. o \in Planned \ publisher.todo /\ blockers'[o] = blockers[o]
            /\ (o \in publisher'.made => o \in publisher.made)
        BY <1>3, <1>4, <1>10, <1>12, <2>1, <2>4, <3>2
      <4> QED
        BY <1>2, <2>1, <4>1 DEF Worded, Seen
    <3> QED
      BY <3>1, <3>2
  <2>5. PlanPosted'
    <3>1. \A o \in Planned' \ publisher'.todo : Worded(o)' /\ (o \in publisher'.made => Seen(o)')
      BY <2>2, <2>4
    <3>2. publisher'.todo \subseteq Planned'
      BY <2>2, <2>3
    <3> QED
      BY <2>1, <2>3, <3>1, <3>2 DEF PlanPosted
  <2>6. blockers' \in [Marks -> Thread \cup {None}] /\ BlockersCurrent'
    BY <1>10, <1>12
  <2>7. /\ publisher'.pc \notin {"pull", "fallback", "idle", "remove", "clear", "cleared", "raced"}
        /\ publisher.pc \notin {"pull", "fallback", "idle"}
        /\ publisher'.stands \in BOOLEAN
        /\ UNCHANGED <<target, rounds, summary>>
        /\ publisher'.snap = publisher.snap
    BY <1>1, <2>1
  <2>8. publisher' = [round |-> publisher.round, pc |-> publisher'.pc, snap |-> publisher'.snap,
                       todo |-> publisher'.todo, made |-> publisher'.made,
                       stands |-> publisher'.stands, gone |-> publisher'.gone]
    BY <2>1
  <2> QED
    BY <2>3, <2>5, <2>6, <2>7, <2>8, PublisherGoesOn
<1> QED
  BY <1>6, <1>8, <1>9, <1>11, <1>12

\* A thread that goes is none of the plan's, and none that the newest run needs.
LEMMA DropKeeps ==
  ASSUME GroundingInv, NEW m \in publisher.todo, NEW ok \in BOOLEAN,
         NEW next \in {"check", "verify", "drop", "clear"}, DropsThread(m, ok, next),
         \/ publisher.pc = "drop" /\ next # "clear"
         \/ publisher.pc = "remove" /\ next = "clear"
  PROVE  GroundingInv'
<1>1. /\ publisher = [round |-> publisher.round, pc |-> publisher.pc, snap |-> publisher.snap,
                      todo |-> publisher.todo, made |-> publisher.made,
                      stands |-> publisher.stands, gone |-> publisher.gone]
      /\ publisher.todo \subseteq Marks /\ publisher.made \subseteq Marks
      /\ publisher.stands \in BOOLEAN
      /\ blockers \in [Marks -> Thread \cup {None}]
      /\ UNCHANGED <<target, summary, rounds>>
      /\ blockers' = [blockers EXCEPT ![m] = None] \/ UNCHANGED blockers
      /\ publisher' = [publisher EXCEPT !.todo = IF ok THEN @ \ {m} ELSE {}, !.gone = ok \/ @,
                         !.pc = IF ok THEN next ELSE "fallback"]
  BY DEF GroundingInv, GroundingTypeOK, DropsThread
<1>2. /\ publisher'.round = publisher.round /\ publisher'.pc \in {next, "fallback"}
      /\ publisher'.snap = publisher.snap /\ publisher'.todo \subseteq publisher.todo
      /\ publisher'.made = publisher.made /\ publisher'.stands = publisher.stands
      /\ publisher' = [round |-> publisher.round, pc |-> publisher'.pc, snap |-> publisher'.snap,
                       todo |-> publisher'.todo, made |-> publisher'.made,
                       stands |-> publisher'.stands, gone |-> publisher'.gone]
  BY <1>1
<1>3. /\ blockers' \in [Marks -> Thread \cup {None}]
      /\ \A o \in Marks \ {m} : blockers'[o] = blockers[o]
  BY <1>1
<1>4. Planned' = Planned /\ Newest' = Newest /\ Planned \subseteq Marks
      /\ planBlockerInlineComments(Newest, target.refs) \subseteq Marks
  BY <1>1, <1>2, PlanOfClosed DEF Planned, Now, Newest
<1>5. publisher.stands => m \notin Planned
  <2>1. CASE publisher.pc = "drop"
    BY <2>1, PlanOfClosed DEF GroundingInv, PlanPosted, Planned
  <2>2. CASE publisher.pc = "remove"
    BY <2>2 DEF GroundingInv, PlanPosted
  <2> QED
    BY <2>1, <2>2
<1>6. Newest.stage = "ok" => m \notin planBlockerInlineComments(Newest, target.refs)
  <2>1. SUFFICES ASSUME Newest.stage = "ok", m \in planBlockerInlineComments(Newest, target.refs)
                 PROVE  FALSE
    OBVIOUS
  <2>2. m \notin Tickets \ Closing(target.refs) /\ Closing(target.refs) # {}
    BY <2>1, PlanOfClosed
  <2>3. /\ publisher.snap = target.refs
        /\ publisher.pc = "remove" => target.refs = NoReferences
    BY <2>1 DEF GroundingInv, AboutTarget
  <2>4. CASE publisher.pc = "drop"
    BY <2>2, <2>3, <2>4 DEF GroundingInv, PlanPosted
  <2>5. CASE publisher.pc = "remove"
    BY <2>2, <2>3, <2>5 DEF NoReferences, Closing
  <2> QED
    BY <2>4, <2>5
<1>7. BlockersCurrent'
  BY <1>1, <1>3, <1>4, <1>6 DEF GroundingInv, BlockersCurrent
<1>8. PlanPosted'
  <2>1. publisher.stands => \A o \in Planned : Worded(o)' /\ Seen(o)'
    BY <1>2, <1>3, <1>4, <1>5 DEF GroundingInv, PlanPosted, Worded, Seen
  <2>2. publisher'.pc = "clear" => publisher.stands = FALSE
    BY <1>1, <1>2 DEF GroundingInv, PlanPosted
  <2>3. publisher'.pc \in {"drop", "verify"} =>
          \A o \in publisher'.todo :
            \/ o \in Tickets \ Closing(publisher'.snap)
            \/ o = TRUNCATED /\ Closing(publisher'.snap) = {}
    BY <1>2 DEF GroundingInv, PlanPosted
  <2>4. publisher'.pc \in {"check", "verify", "drop", "clear", "fallback"}
    BY <1>2
  <2> QED
    BY <1>2, <1>4, <2>1, <2>2, <2>3, <2>4 DEF PlanPosted
<1>9. publisher'.pc \in {"clear", "remove", "cleared", "raced"} => Now.outcome # "verdict"
  BY <1>2 DEF GroundingInv, AboutTarget
<1>10. publisher'.pc \in {"check", "verify", "drop", "clear", "fallback"}
  BY <1>2
<1> QED
  BY <1>1, <1>2, <1>3, <1>7, <1>8, <1>9, <1>10, PublisherGoesOn

LEMMA DropsKeep ==
  ASSUME GroundingInv, NEW ok \in BOOLEAN,
         reconcileObsoleteInlineBlockerComments(ok) \/ clearStaleInlineBlockerComments(ok)
  PROVE  GroundingInv'
<1>1. CASE reconcileObsoleteInlineBlockerComments(ok)
  <2>1. PICK m \in publisher.todo, next \in {"check", "verify", "drop"} : DropsThread(m, ok, next)
    BY <1>1 DEF reconcileObsoleteInlineBlockerComments
  <2>2. publisher.pc = "drop"
    BY <1>1 DEF reconcileObsoleteInlineBlockerComments
  <2> QED
    BY <2>1, <2>2, DropKeeps
<1>2. CASE clearStaleInlineBlockerComments(ok)
  BY <1>2, DropKeeps DEF clearStaleInlineBlockerComments
<1> QED
  BY <1>1, <1>2

\* A job that ends leaves its run done or red; it takes the newest for done only when what that
\* run found has its threads.
LEMMA PublishingEnds ==
  ASSUME GroundingInv, publisher.pc # "idle", UNCHANGED <<target, blockers>>,
         publisher' = NoPublisher, NEW s \in {"ok", "red"}, Stage(publisher.round, s),
         Newest'.stage = "ok" => SummaryCurrent',
         s = "ok" /\ publisher.round = Len(rounds) /\ Now.outcome = "verdict" =>
           \A m \in planBlockerInlineComments(Now, target.refs) : blockers[m] # None
  PROVE  GroundingInv'
<1> DEFINE n == publisher.round
           x == [Now EXCEPT !.stage = s]
<1>1. /\ rounds \in Seq(Round) /\ n \in DOMAIN rounds /\ Len(rounds) \in DOMAIN rounds
      /\ Now \in Round /\ Now = rounds[n]
      /\ \A r \in DOMAIN rounds : rounds[r].stage = "publishing" => r = n
  BY DEF GroundingInv, GroundingTypeOK, OnePublishes, Now
<1>2. /\ x \in Round /\ x.stage = s /\ x.head = Now.head /\ x.outcome = Now.outcome
      /\ x.unmet = Now.unmet /\ x.spine = Now.spine
  BY <1>1 DEF Round, Stages
<1>3. rounds' = [rounds EXCEPT ![n] = x]
  BY <1>1 DEF Stage
<1> HIDE DEF x
<1>4. /\ rounds' \in Seq(Round) /\ Len(rounds') = Len(rounds) /\ DOMAIN rounds' = DOMAIN rounds
      /\ rounds'[n] = x /\ \A r \in DOMAIN rounds \ {n} : rounds'[r] = rounds[r]
  <2> HIDE DEF n
  <2> QED
    BY <1>1, <1>2, <1>3
<1>5. /\ publisher'.pc = "idle" /\ publisher'.todo = {} /\ publisher'.made = {}
      /\ publisher'.stands = FALSE
      /\ publisher' = [round |-> publisher'.round, pc |-> publisher'.pc, snap |-> publisher'.snap,
                       todo |-> publisher'.todo, made |-> publisher'.made,
                       stands |-> publisher'.stands, gone |-> publisher'.gone]
  BY DEF NoPublisher
<1>6. GroundingTypeOK'
  <2>1. publisher'.todo \subseteq Marks /\ publisher'.made \subseteq Marks
        /\ publisher'.stands \in BOOLEAN
    BY <1>5
  <2>2. rounds' \in Seq(Round) /\ Len(rounds') > 0
    BY <1>4 DEF GroundingInv, GroundingTypeOK
  <2> QED
    BY <1>5, <2>1, <2>2 DEF GroundingInv, GroundingTypeOK
<1>7. OnePublishes'
  <2>1. \A r \in DOMAIN rounds' : rounds'[r].stage # "publishing"
    BY <1>1, <1>2, <1>4
  <2> QED
    BY <1>5, <2>1 DEF OnePublishes
<1>8. PlanPosted'
  BY <1>5 DEF PlanPosted
<1>9. /\ n = Len(rounds) => Newest' = x /\ Newest = Now
      /\ n # Len(rounds) => Newest' = Newest
  BY <1>1, <1>4 DEF Newest
<1>10. AboutTarget'
  <2>1. Newest'.head = target'.head
    BY <1>2, <1>9 DEF GroundingInv, AboutTarget
  <2> QED
    BY <1>5, <2>1 DEF AboutTarget
<1>11. SummaryCurrent'
  BY DEF SummaryCurrent
<1>12. BlockersCurrent'
  <2>1. CASE n = Len(rounds)
    <3>1. planBlockerInlineComments(x, target.refs) = planBlockerInlineComments(Now, target.refs)
      BY <1>2 DEF planBlockerInlineComments, Individual, Applicable,
         isDiffTruncationUnverifiableForClosing
    <3> QED
      BY <1>2, <1>9, <2>1, <3>1 DEF BlockersCurrent
  <2>2. CASE n # Len(rounds)
    BY <1>9, <2>2 DEF GroundingInv, BlockersCurrent
  <2> QED
    BY <2>1, <2>2
<1> QED
  BY <1>6, <1>7, <1>8, <1>10, <1>11, <1>12 DEF GroundingInv

\* The summary a publisher writes is about the pull request as it is, unless a newer run is
\* on its way.
LEMMA WrittenSummary ==
  ASSUME GroundingInv, NEW ok \in BOOLEAN, WritesSummary(ok),
         publisher.round = Len(rounds) \/ Newest.stage = "ok",
         summary' # None, summary'.kind \in {"verdict", "cleared"}
  PROVE  \/ summary' = summary
         \/ summary'.head = target.head /\ summary'.refs = target.refs
<1> DEFINE written == [kind |-> publisher.pc, head |-> Now.head, refs |-> publisher.snap]
<1>1. summary' = summary \/ summary' = written
  BY DEF WritesSummary
<1>2. CASE summary' = written
  <2>1. publisher.pc \in {"verdict", "cleared"} /\ written.head = Now.head
        /\ written.refs = publisher.snap
    BY <1>2
  <2> QED
    BY <1>2, <2>1 DEF GroundingInv, AboutTarget
<1> QED
  BY <1>1, <1>2

\* A verdict passes when each blocker of the plan has its thread.
LEMMA GreenHasThreads ==
  ASSUME GroundingInv, NEW ok \in BOOLEAN, WritesSummary(ok), Successful(publisher.pc),
         NEW m \in Planned
  PROVE  \/ publisher.pc # "verdict" /\ Now.outcome # "verdict"
         \/ publisher.pc = "verdict" /\ Worded(m) /\ Seen(m)
<1>1. CASE publisher.pc \in {"cleared", "raced"}
  BY <1>1 DEF GroundingInv, AboutTarget
<1>2. CASE publisher.pc = "verdict" /\ (Planned = {} \/ publisher.stands)
  BY <1>2 DEF GroundingInv, PlanPosted
<1> QED
  BY <1>1, <1>2 DEF Successful, Planned

LEMMA WritesKeep ==
  ASSUME GroundingInv, NEW ok \in BOOLEAN, WritesSummary(ok)
  PROVE  GroundingInv'
<1>1. /\ publisher.pc \in {"verdict", "cleared", "raced", "fallback"} /\ publisher.pc # "idle"
      /\ UNCHANGED <<target, blockers>>
  BY DEF WritesSummary
<1>2. CASE ok \/ publisher.pc = "fallback"
  <2>1. PICK s \in {"ok", "red"} :
          /\ publisher' = NoPublisher /\ Stage(publisher.round, s)
          /\ s = "ok" => ok /\ Successful(publisher.pc)
    BY <1>2 DEF WritesSummary
  <2>2. /\ rounds \in Seq(Round) /\ Len(rounds) \in DOMAIN rounds
        /\ publisher.round \in DOMAIN rounds /\ Now = rounds[publisher.round]
    BY <1>1 DEF GroundingInv, GroundingTypeOK, OnePublishes, Now
  <2>3. Len(rounds') = Len(rounds)
        /\ (publisher.round = Len(rounds) \/ Newest' = Newest)
    BY <2>1, <2>2 DEF Stage, Newest
  <2>4. Newest'.stage = "ok" => SummaryCurrent'
    <3>1. SUFFICES ASSUME Newest'.stage = "ok", summary' # None,
                          summary'.kind \in {"verdict", "cleared"}
                   PROVE  summary'.head = target.head /\ summary'.refs = target.refs
      BY <1>1 DEF SummaryCurrent
    <3>2. \/ summary' = summary
          \/ summary'.head = target.head /\ summary'.refs = target.refs
      BY <2>3, <3>1, WrittenSummary
    <3>3. CASE publisher.round # Len(rounds)
      <4>1. Newest.stage = "ok" /\ Newest' = Newest
        BY <2>3, <3>1, <3>3
      <4> QED
        BY <3>1, <3>2, <4>1 DEF GroundingInv, SummaryCurrent
    <3>4. CASE publisher.round = Len(rounds)
      <4>1. s = "ok"
        <5>1. Newest' = rounds'[publisher.round]
          BY <2>3, <3>4 DEF Newest
        <5>2. rounds[publisher.round] \in Round
          BY <2>2
        <5>3. rounds'[publisher.round] = [rounds[publisher.round] EXCEPT !.stage = s]
          BY <2>1, <2>2 DEF Stage
        <5>4. rounds'[publisher.round].stage = s
          BY <5>2, <5>3 DEF Round
        <5> QED
          BY <3>1, <5>1, <5>4
      <4>2. summary' = [kind |-> publisher.pc, head |-> Now.head, refs |-> publisher.snap]
        BY <2>1, <3>1, <4>1 DEF WritesSummary, Mentioned
      <4>3. /\ summary'.kind = publisher.pc /\ summary'.head = Now.head
            /\ summary'.refs = publisher.snap
        BY <4>2
      <4> QED
        BY <3>1, <3>4, <4>3 DEF GroundingInv, AboutTarget
    <3> QED
      BY <3>3, <3>4
  <2>5. (s = "ok" /\ publisher.round = Len(rounds) /\ Now.outcome = "verdict") =>
          \A m \in planBlockerInlineComments(Now, target.refs) : blockers[m] # None
    <3>1. SUFFICES ASSUME s = "ok", publisher.round = Len(rounds), Now.outcome = "verdict",
                          NEW m \in planBlockerInlineComments(Now, target.refs)
                   PROVE  blockers[m] # None
      OBVIOUS
    <3>2. Successful(publisher.pc)
      BY <2>1, <3>1
    <3>3. publisher.pc = "verdict"
      BY <3>1, <3>2 DEF Successful, GroundingInv, AboutTarget
    <3>4. publisher.snap = target.refs
      BY <3>1, <3>3 DEF GroundingInv, AboutTarget
    <3>5. m \in Planned
      BY <3>4 DEF Planned
    <3> QED
      BY <3>2, <3>3, <3>5, GreenHasThreads DEF Worded
  <2> QED
    BY <1>1, <2>1, <2>4, <2>5, PublishingEnds
<1>3. CASE ~ok /\ publisher.pc # "fallback"
  <2>1. PublisherTo("fallback") /\ UNCHANGED rounds
    BY <1>3 DEF WritesSummary
  <2>2. SummaryCurrent'
    <3>1. SUFFICES ASSUME Newest.stage = "ok", summary' # None,
                          summary'.kind \in {"verdict", "cleared"}
                   PROVE  summary'.head = target.head /\ summary'.refs = target.refs
      BY <1>1, <2>1 DEF SummaryCurrent, Newest
    <3>2. \/ summary' = summary
          \/ summary'.head = target.head /\ summary'.refs = target.refs
      BY <3>1, WrittenSummary
    <3> QED
      BY <3>1, <3>2 DEF GroundingInv, SummaryCurrent
  <2> QED
    BY <1>1, <2>1, <2>2, FallbackKeeps
<1> QED
  BY <1>2, <1>3

\* A publisher that dies leaves its run red.
LEMMA PublisherDiesKeeps ==
  ASSUME GroundingInv, PublisherDies
  PROVE  GroundingInv'
<1>1. /\ publisher.pc # "idle" /\ publisher' = NoPublisher /\ Stage(publisher.round, "red")
      /\ UNCHANGED <<target, blockers, summary>>
  BY DEF PublisherDies
<1>2. rounds \in Seq(Round) /\ Len(rounds) \in DOMAIN rounds /\ publisher.round \in DOMAIN rounds
  BY <1>1 DEF GroundingInv, GroundingTypeOK, OnePublishes
<1>3. Newest'.stage = "ok" => SummaryCurrent'
  <2>1. SUFFICES ASSUME Newest'.stage = "ok" PROVE Newest' = Newest
    BY <1>1 DEF GroundingInv, SummaryCurrent
  <2>2. Len(rounds') = Len(rounds)
    BY <1>1, <1>2 DEF Stage
  <2>3. CASE publisher.round = Len(rounds)
    <3>1. rounds'[publisher.round] = [rounds[publisher.round] EXCEPT !.stage = "red"]
      BY <1>1, <1>2 DEF Stage
    <3>2. rounds'[publisher.round].stage = "red"
      BY <1>2, <3>1 DEF Round
    <3> QED
      BY <2>1, <2>2, <2>3, <3>2 DEF Newest
  <2>4. CASE publisher.round # Len(rounds)
    BY <1>1, <1>2, <2>2, <2>4 DEF Stage, Newest
  <2> QED
    BY <2>3, <2>4
<1> QED
  BY <1>1, <1>3, PublishingEnds

\* Every step keeps the invariant.
LEMMA GroundingSteps ==
  ASSUME GroundingInv, [GroundingNext]_groundingVars
  PROVE  GroundingInv'
<1>1. ASSUME NEW n \in DOMAIN rounds, ReviewNext(n) \/ RerunReview(n) \/ RerunPublish(n)
      PROVE  GroundingInv'
  BY <1>1, ReviewsKeep, StartKeeps DEF ReviewNext
<1>2. CASE PublishNext
  <2>1. CASE ReadsTarget
    BY <2>1, ReadsTargetKeeps
  <2>2. CASE Reconciles \/ VerifiesAgain \/ ChecksNoReferences \/ PreWriteCheck
    BY <2>2, LooksAreSteps
  <2>3. ASSUME NEW result, postInlineCommentPlan(result)
        PROVE  GroundingInv'
    BY <2>3, PostKeeps
  <2>4. ASSUME NEW ok \in BOOLEAN, FetchesDiff(ok) \/ collectUnresolvedPostedMarkers(ok)
        PROVE  GroundingInv'
    BY <2>4, LooksAreSteps
  <2>5. ASSUME NEW ok \in BOOLEAN, WritesSummary(ok)
        PROVE  GroundingInv'
    BY <2>5, WritesKeep
  <2>6. ASSUME NEW ok \in BOOLEAN,
               reconcileObsoleteInlineBlockerComments(ok) \/ clearStaleInlineBlockerComments(ok)
        PROVE  GroundingInv'
    BY <2>6, DropsKeep
  <2> QED
    BY <1>2, <2>1, <2>2, <2>3, <2>4, <2>5, <2>6 DEF PublishNext
<1>3. CASE PublisherReadFails
  BY <1>3, LooksAreSteps
<1>4. CASE PublisherDies
  BY <1>4, PublisherDiesKeeps
<1>5. CASE PeopleOnTarget
  BY <1>5, PeopleKeepReview
<1>6. CASE UNCHANGED groundingVars
  <2>1. UNCHANGED <<target, blockers, summary, rounds, publisher>>
    BY <1>6 DEF groundingVars
  <2> QED
    BY <2>1 DEF GroundingInv, GroundingTypeOK, OnePublishes, PlanPosted, AboutTarget,
       SummaryCurrent, BlockersCurrent, Now, Newest, Planned, Worded, Seen
<1> QED
  BY <1>1, <1>2, <1>3, <1>4, <1>5, <1>6 DEF GroundingNext

\* The invariant of the spec-grounded review holds throughout, for any tickets, references,
\* limits and trouble (publish-spec-grounding-verdict.mts, spec-grounding-runner.mts).
THEOREM GroundingInvariance == GroundingSpec => []GroundingInv
<1>1. GroundingInv /\ [GroundingNext]_groundingVars => GroundingInv'
  BY GroundingSteps
<1> QED
  BY <1>1, GroundingStarts, PTL DEF GroundingSpec

\* Once the runs are worked off and the newest went through, summary and threads are about
\* the pull request as it is: GroundingCurrent holds for any tickets, references and trouble.
THEOREM GroundingStaysCurrent == GroundingSpec => []GroundingCurrent
<1>1. ASSUME GroundingInv, Quiet
      PROVE  Newest.stage = "ok"
  BY <1>1 DEF Quiet, Newest
<1>2. GroundingInv => GroundingCurrent
  BY <1>1 DEF GroundingCurrent, GroundingInv, SummaryCurrent, BlockersCurrent, Newest
<1> QED
  BY <1>2, GroundingInvariance, PTL

\* A publishing run turns green only by its publisher writing a summary with success, and
\* a run in any other step keeps its stage, turns red or has not been publishing.
LEMMA OnlyTheWriterPasses ==
  ASSUME GroundingInv, GroundingNext, NEW n \in DOMAIN rounds,
         rounds[n].stage = "publishing", rounds'[n].stage = "ok"
  PROVE  /\ publisher.round = n
         /\ \E ok \in BOOLEAN : WritesSummary(ok) /\ Successful(publisher.pc)
<1>1. rounds \in Seq(Round) /\ publisher.pc # "idle" /\ publisher.round = n
  BY DEF GroundingInv, GroundingTypeOK, OnePublishes
<1>2. rounds'[n] # rounds[n]
  OBVIOUS
<1>3. Superseded[n] = rounds[n]
  BY SupersededRuns
<1>4. ASSUME NEW r \in DOMAIN rounds, ReviewNext(r) \/ RerunReview(r) \/ RerunPublish(r)
      PROVE  FALSE
  <2>1. CASE RunnerReads(r)
    BY <1>1, <1>2, <2>1 DEF RunnerReads
  <2>2. CASE PublishStarts(r)
    BY <1>1, <2>2 DEF PublishStarts
  <2>3. ASSUME NEW unmet, NEW ok, Judged(r, unmet, ok)
        PROVE  FALSE
    BY <1>2, <2>3 DEF Judged
  <2>4. CASE RerunReview(r)
    BY <1>2, <1>3, <2>4, SupersededRuns DEF RerunReview, Finished
  <2>5. CASE RerunPublish(r)
    BY <1>2, <2>5 DEF RerunPublish, Finished
  <2> QED
    BY <1>4, <2>1, <2>2, <2>3, <2>4, <2>5 DEF ReviewNext
<1>5. rounds' # rounds
  BY <1>2
<1>6. ASSUME PublishNext
      PROVE  \E ok \in BOOLEAN : WritesSummary(ok)
  BY <1>5, <1>6 DEF PublishNext, ReadsTarget, Reconciles, VerifiesAgain, ChecksNoReferences,
     PreWriteCheck, PublisherReads, postInlineCommentPlan, FetchesDiff,
     collectUnresolvedPostedMarkers, reconcileObsoleteInlineBlockerComments,
     clearStaleInlineBlockerComments, DropsThread
<1>7. ~PublisherReadFails
  BY <1>5 DEF PublisherReadFails
<1>8. ASSUME NEW s, Stage(n, s)
      PROVE  rounds'[n].stage = s
  <2>1. rounds'[n] = [rounds[n] EXCEPT !.stage = s] /\ rounds[n] \in Round
    BY <1>1, <1>8 DEF Stage
  <2> QED
    BY <2>1 DEF Round
<1>9. ~PublisherDies
  BY <1>1, <1>8 DEF PublisherDies
<1>10. ~PeopleOnTarget
  <2>1. ASSUME NEW head PROVE Append(Superseded, NewRound(head))[n] = rounds[n]
    <3>1. Superseded \in Seq(Round) /\ n \in 1 .. Len(Superseded)
      BY <1>1, RoundsStay, SupersededRuns
    <3> QED
      BY <1>3, <3>1
  <2>2. ASSUME NEW event, Event(event) PROVE FALSE
    BY <1>2, <1>5, <2>1, <2>2 DEF Event
  <2> QED
    BY <1>5, <2>2 DEF PeopleOnTarget, PushesHead, BaseAdvances, TicksBox, EditsReferences,
       ResolvesThread
<1>11. PICK ok \in BOOLEAN : WritesSummary(ok)
  BY <1>4, <1>6, <1>7, <1>9, <1>10 DEF GroundingNext
<1>12. Successful(publisher.pc)
  BY <1>1, <1>2, <1>8, <1>11 DEF WritesSummary
<1> QED
  BY <1>1, <1>11, <1>12

\* A verdict passes only with each of its blockers on a thread that is open, or was
\* resolved by somebody who had this run's words: GreenMeansGated holds for any tickets,
\* references and trouble.
THEOREM GreenIsGated == GroundingSpec => GreenMeansGated
<1>1. ASSUME GroundingInv, [GroundingNext]_groundingVars, NEW n \in DOMAIN rounds,
             rounds[n].stage = "publishing", rounds'[n].stage = "ok", publisher.pc = "verdict",
             NEW m \in planBlockerInlineComments(rounds[n], publisher.snap)
      PROVE  blockers[m] # None /\ (blockers[m].open \/ blockers[m].read = n)
  <2>1. GroundingNext
    BY <1>1 DEF groundingVars
  <2>2. PICK ok \in BOOLEAN : WritesSummary(ok) /\ Successful(publisher.pc)
    BY <1>1, <2>1, OnlyTheWriterPasses
  <2>3. publisher.round = n
    BY <1>1, <2>1, OnlyTheWriterPasses
  <2>4. m \in Planned
    BY <1>1, <2>3 DEF Planned, Now
  <2> QED
    BY <1>1, <2>2, <2>3, <2>4, GreenHasThreads DEF Worded, Seen
<1>2. GroundingInv /\ [GroundingNext]_groundingVars =>
        [\A n \in DOMAIN rounds :
           rounds[n].stage = "publishing" /\ rounds'[n].stage = "ok" /\ publisher.pc = "verdict" =>
             \A m \in planBlockerInlineComments(rounds[n], publisher.snap) :
               blockers[m] # None /\ (blockers[m].open \/ blockers[m].read = n)]_groundingVars
  BY <1>1
<1> QED
  BY <1>2, GroundingInvariance, PTL DEF GroundingSpec, GreenMeansGated

-----------------------------------------------------------------------------
(* The CI gate.                                                            *)

Results == {"waiting", "success", "failure", "cancelled", "skipped"}

GateTypeOK ==
  /\ ci = [event |-> ci.event, head |-> ci.head, into |-> ci.into, base |-> ci.base,
           trusted |-> ci.trusted, mode |-> ci.mode, cancelled |-> ci.cancelled,
           fetched |-> ci.fetched, result |-> ci.result]
  /\ ci.result \in [Jobs -> Results]
  /\ ci.mode \in {"full", "docs-only", None}
  /\ ci.cancelled \in BOOLEAN /\ ci.fetched \in BOOLEAN
  /\ tips = [main |-> tips["main"], stack |-> tips["stack"]]
  /\ tips["main"] \in Line /\ tips["stack"] \in Stacks

\* What a proposal is compared with, and what it is judged by.
Placed ==
  ci.event = "pull_request" =>
    /\ ci.head \in Heads /\ ci.into \in {"main", "stack"} /\ ci.base \in Line \cup Stacks
    /\ ci.into = "main" => ci.base \in Line
    /\ ci.result["resolve-trusted-revision"] = "success" =>
         ci.trusted \in Line /\ (ci.into = "main" => ci.trusted = ci.base)

\* A job ends after all it needs, and those that did not run are accounted for.
JobsInOrder ==
  /\ ci.result["checks"] \in {"waiting", "success", "failure"}
  /\ ci.result["checks"] # "waiting" \/ ci.cancelled => \A j \in Needed : ci.result[j] # "waiting"
  /\ ci.result["resolve-trusted-revision"] = "waiting" => ci.result["classify"] = "waiting"
  /\ ci.result["classify"] = "waiting" => \A j \in Heavy : ci.result[j] = "waiting"
  /\ \A j \in {"gates", "resolve-trusted-revision"} : ci.result[j] # "skipped"
  /\ ci.result["classify"] = "success" => ci.result["resolve-trusted-revision"] = "success"
  /\ ci.result["classify"] = "skipped" =>
       ci.result["resolve-trusted-revision"] \in {"failure", "cancelled"}
  /\ \A j \in Heavy : ci.result[j] = "skipped" =>
       ci.mode = "docs-only" \/ ci.result["classify"] \in {"failure", "cancelled", "skipped"}

\* The mode is what the classifier said; docs-only, it kept the heavy jobs from running.
ModeClassified ==
  /\ ci.mode # None => ci.result["classify"] = "success"
  /\ ci.mode = "docs-only" =>
       /\ ci.trusted \in Scripted \cap Line
       /\ "docs-only" \in classifyChange(ci.event, ci.base, ci.head, ci.trusted)
       /\ \A j \in Heavy : ci.result[j] \notin {"success", "failure"}

\* What the gate let pass was tested, or is docs-only.
PassClassified == Passes => ci.result["gates"] = "success" /\ (Tested \/ ci.mode = "docs-only")

GateInv ==
  /\ GateTypeOK /\ Placed /\ JobsInOrder /\ ModeClassified
  /\ PassClassified /\ SoundRunPasses

\* The run is a record with these fields.
LEMMA GateFields ==
  ASSUME GateTypeOK
  PROVE  /\ DOMAIN ci.result = Jobs /\ \A j \in Jobs : ci.result[j] \in Results
         /\ \A n, v :
              LET next == [ci EXCEPT !.result[n] = v]
              IN /\ next.event = ci.event /\ next.head = ci.head /\ next.into = ci.into
                 /\ next.base = ci.base /\ next.trusted = ci.trusted /\ next.mode = ci.mode
                 /\ next.cancelled = ci.cancelled /\ next.fetched = ci.fetched
                 /\ next.result = [ci.result EXCEPT ![n] = v]
                 /\ next = [event |-> next.event, head |-> next.head, into |-> next.into,
                            base |-> next.base, trusted |-> next.trusted, mode |-> next.mode,
                            cancelled |-> next.cancelled, fetched |-> next.fetched,
                            result |-> next.result]
BY DEF GateTypeOK

LEMMA StartedRunSound ==
  ASSUME NEW event \in {"pull_request", "push"}, NEW head, NEW into, NEW base,
         ci' = StartedRun(event, head, into, base),
         event = "pull_request" =>
           /\ head \in Heads /\ into \in {"main", "stack"} /\ base \in Line \cup Stacks
           /\ into = "main" => base \in Line,
         tips' = [main |-> tips'["main"], stack |-> tips'["stack"]],
         tips'["main"] \in Line, tips'["stack"] \in Stacks
  PROVE  GateInv'
<1>1. ci' = [event |-> event, head |-> head, into |-> into, base |-> base, trusted |-> None,
             mode |-> None, cancelled |-> FALSE, fetched |-> TRUE,
             result |-> [j \in Jobs |-> "waiting"]]
  BY DEF StartedRun
<1>2. \A j \in Jobs : ci'.result[j] = "waiting"
  BY <1>1
<1>3. Heavy \cup {"gates", "classify", "resolve-trusted-revision", "checks"} \subseteq Jobs
      /\ Needed \subseteq Jobs
  BY DEF Jobs, Needed, Heavy, Always
<1>4. GateTypeOK'
  BY <1>1 DEF GateTypeOK, Results
<1>5. Placed'
  BY <1>1, <1>2, <1>3 DEF Placed
<1>6. JobsInOrder' /\ PassClassified' /\ SoundRunPasses'
  BY <1>1, <1>2, <1>3 DEF JobsInOrder, PassClassified, SoundRunPasses, Passes
<1>7. ModeClassified'
  BY <1>1, GateAssumption DEF ModeClassified
<1> QED
  BY <1>4, <1>5, <1>6, <1>7 DEF GateInv

LEMMA GateStarts == GateInit => GateInv
<1> SUFFICES ASSUME GateInit PROVE GateInv
  OBVIOUS
<1>1. PICK c \in Line, s \in Stacks : tips = [main |-> c, stack |-> s]
  BY DEF GateInit
<1>2. PICK event \in {"pull_request", "push"}, head \in Heads \cup Line, into \in {"main", "stack", None},
           base \in Line \cup Stacks \cup {None} :
        /\ ci = StartedRun(event, head, into, base)
        /\ event = "pull_request" =>
             /\ head \in Heads /\ into \in {"main", "stack"} /\ base \in Line \cup Stacks
             /\ into = "main" => base \in Line
  BY <1>1 DEF GateInit
<1>3. ci = [event |-> event, head |-> head, into |-> into, base |-> base, trusted |-> None,
            mode |-> None, cancelled |-> FALSE, fetched |-> TRUE,
            result |-> [j \in Jobs |-> "waiting"]]
  BY <1>2 DEF StartedRun
<1>4. \A j \in Jobs : ci.result[j] = "waiting"
  BY <1>3
<1>5. Heavy \cup {"gates", "classify", "resolve-trusted-revision", "checks"} \subseteq Jobs
      /\ Needed \subseteq Jobs
  BY DEF Jobs, Needed, Heavy, Always
<1>6. GateTypeOK /\ Placed
  BY <1>1, <1>2, <1>3, <1>4, <1>5 DEF GateTypeOK, Results, Placed
<1>7. JobsInOrder /\ PassClassified /\ SoundRunPasses
  BY <1>3, <1>4, <1>5 DEF JobsInOrder, PassClassified, SoundRunPasses, Passes
<1>8. ModeClassified
  BY <1>3, GateAssumption DEF ModeClassified
<1> QED
  BY <1>6, <1>7, <1>8 DEF GateInv

\* While a job waits, the last one does, and nothing is cancelled.
LEMMA NotOverYet ==
  ASSUME GateInv, NEW j \in Needed, Waits(j)
  PROVE  ci.result["checks"] = "waiting" /\ ~ci.cancelled
BY DEF GateInv, JobsInOrder, Waits

\* A job ends.
LEMMA JobEndsKeeps ==
  ASSUME GateInv, NEW j \in Needed, NEW r \in Results \ {"waiting"}, Due(j), Ends(j, r),
         UNCHANGED tips,
         j \in {"gates", "resolve-trusted-revision"} => r # "skipped",
         j = "resolve-trusted-revision" => r # "success",
         j = "classify" /\ r = "success" => ci.result["resolve-trusted-revision"] = "success",
         j = "classify" /\ r = "skipped" =>
           ci.result["resolve-trusted-revision"] \in {"failure", "cancelled"},
         j \in Heavy /\ r = "skipped" =>
           ci.mode = "docs-only" \/ ci.result["classify"] \in {"failure", "cancelled", "skipped"},
         j \in Heavy /\ r \in {"success", "failure"} => ci.mode # "docs-only"
  PROVE  GateInv'
<1>1. ci' = [ci EXCEPT !.result[j] = r]
  BY DEF Ends
<1>2. /\ ci'.event = ci.event /\ ci'.head = ci.head /\ ci'.into = ci.into /\ ci'.base = ci.base
      /\ ci'.trusted = ci.trusted /\ ci'.mode = ci.mode /\ ci'.cancelled = ci.cancelled
      /\ ci'.fetched = ci.fetched /\ ci'.result = [ci.result EXCEPT ![j] = r]
      /\ ci' = [event |-> ci'.event, head |-> ci'.head, into |-> ci'.into, base |-> ci'.base,
                trusted |-> ci'.trusted, mode |-> ci'.mode, cancelled |-> ci'.cancelled,
                fetched |-> ci'.fetched, result |-> ci'.result]
  BY <1>1, GateFields DEF GateInv
<1>3. /\ Needed \subseteq Jobs /\ Heavy \subseteq Needed /\ "checks" \in Jobs \ Needed
      /\ {"gates", "classify", "resolve-trusted-revision"} \subseteq Needed \ Heavy
  BY DEF Jobs, Needed, Heavy, Always
<1>4. ci'.result[j] = r /\ \A n \in Jobs \ {j} : ci'.result[n] = ci.result[n]
  BY <1>2, <1>3 DEF GateInv, GateTypeOK
<1>5. ci.result["checks"] = "waiting" /\ ~ci.cancelled
  BY NotOverYet DEF Due
<1>6. ci.result[j] = "waiting" /\ \A n \in needs(j) : ci.result[n] # "waiting"
  BY DEF Due, Waits
<1>7. GateTypeOK'
  BY <1>2, <1>3 DEF GateInv, GateTypeOK
<1>8. Placed'
  BY <1>2, <1>3, <1>4 DEF GateInv, Placed
<1>9. JobsInOrder'
  <2>1. j = "classify" => ci.result["resolve-trusted-revision"] # "waiting"
    BY <1>6 DEF needs
  <2>2. j \in Heavy => ci.result["classify"] # "waiting"
    BY <1>3, <1>6 DEF needs
  <2>3. j = "resolve-trusted-revision" => ci.result["classify"] = "waiting"
    BY <1>6 DEF GateInv, JobsInOrder
  <2> QED
    BY <1>2, <1>3, <1>4, <1>5, <1>6, <2>1, <2>2, <2>3 DEF GateInv, JobsInOrder
<1>10. ModeClassified'
  <2>1. ci.mode # None => j # "classify"
    BY <1>6 DEF GateInv, ModeClassified
  <2> QED
    BY <1>2, <1>3, <1>4, <2>1, GateAssumption DEF GateInv, ModeClassified
<1>11. PassClassified' /\ SoundRunPasses'
  BY <1>3, <1>4, <1>5 DEF PassClassified, SoundRunPasses, Passes
<1> QED
  BY <1>7, <1>8, <1>9, <1>10, <1>11 DEF GateInv

LEMMA SkipsKeeps ==
  ASSUME GateInv, Skips
  PROVE  GateInv'
<1>1. Heavy \subseteq Needed /\ {"gates", "classify", "resolve-trusted-revision"} \subseteq Needed \ Heavy
      /\ Needed \subseteq Jobs
  BY DEF Needed, Heavy, Always, Jobs
<1>2. CASE /\ Due("classify") /\ ci.result["resolve-trusted-revision"] # "success"
           /\ Ends("classify", "skipped")
  <2>1. ci.result["resolve-trusted-revision"] \in {"failure", "cancelled"}
    BY <1>1, <1>2 DEF Due, Waits, needs, GateInv, GateTypeOK, Results, JobsInOrder
  <2> QED
    BY <1>1, <1>2, <2>1, JobEndsKeeps DEF Skips, Results
<1>3. ASSUME NEW job_ \in Heavy, Due(job_), ci.cancelled \/ ci.mode = "docs-only",
             Ends(job_, "skipped")
      PROVE  GateInv'
  <2>1. ~ci.cancelled
    BY <1>1, <1>3, NotOverYet DEF Due
  <2> QED
    BY <1>1, <1>3, <2>1, JobEndsKeeps DEF Skips, Results
<1> QED
  BY <1>2, <1>3 DEF Skips

LEMMA TestsKeep ==
  ASSUME GateInv, Gates \/ Tests
  PROVE  GateInv'
<1>1. Heavy \subseteq Needed /\ {"gates", "classify", "resolve-trusted-revision"} \subseteq Needed \ Heavy
  BY DEF Needed, Heavy, Always
<1>2. CASE Gates
  BY <1>1, <1>2, JobEndsKeeps DEF Gates, Results
<1>3. CASE Tests
  BY <1>1, <1>3, JobEndsKeeps DEF Tests, Results
<1> QED
  BY <1>2, <1>3

LEMMA ResolvesKeeps ==
  ASSUME GateInv, Resolves
  PROVE  GateInv'
<1> DEFINE t == "resolve-trusted-revision"
<1>1. /\ Heavy \subseteq Needed /\ Needed \subseteq Jobs /\ "checks" \in Jobs \ Needed
      /\ {"gates", "classify", t} \subseteq Needed \ Heavy
  BY DEF Needed, Heavy, Always, Jobs
<1>2. CASE Ends(t, "failure")
  BY <1>1, <1>2, JobEndsKeeps DEF Resolves, Results
<1>3. CASE ci' = [ci EXCEPT !.result[t] = "success",
                            !.trusted = IF ci.into = "main" THEN ci.base ELSE tips["main"]]
  <2>1. /\ ci'.event = ci.event /\ ci'.head = ci.head /\ ci'.into = ci.into /\ ci'.base = ci.base
        /\ ci'.mode = ci.mode /\ ci'.cancelled = ci.cancelled
        /\ ci'.fetched = ci.fetched /\ ci'.result = [ci.result EXCEPT ![t] = "success"]
        /\ ci' = [event |-> ci'.event, head |-> ci'.head, into |-> ci'.into, base |-> ci'.base,
                  trusted |-> ci'.trusted, mode |-> ci'.mode, cancelled |-> ci'.cancelled,
                  fetched |-> ci'.fetched, result |-> ci'.result]
    BY <1>3 DEF GateInv, GateTypeOK
  <2>2. ci'.result[t] = "success" /\ \A n \in Jobs \ {t} : ci'.result[n] = ci.result[n]
    BY <1>1, <2>1 DEF GateInv, GateTypeOK
  <2>3. Waits(t)
    BY DEF Resolves, Due
  <2>4. ci.result["checks"] = "waiting" /\ ~ci.cancelled
    BY <1>1, <2>3, NotOverYet
  <2>5. ci.result[t] = "waiting" /\ ci.result["classify"] = "waiting" /\ ci.mode = None
    BY <2>3 DEF Waits, GateInv, JobsInOrder, ModeClassified
  <2>6. GateTypeOK'
    BY <1>1, <2>1 DEF GateInv, GateTypeOK, Resolves, Results
  <2>7. Placed'
    <3>1. ci.event = "pull_request" =>
            ci'.trusted \in Line /\ (ci.into = "main" => ci'.trusted = ci.base)
      <4>1. ci'.trusted = IF ci.into = "main" THEN ci.base ELSE tips["main"]
        BY <1>3 DEF GateInv, GateTypeOK
      <4> QED
        BY <4>1 DEF GateInv, GateTypeOK, Placed
    <3> QED
      BY <2>1, <3>1 DEF GateInv, Placed
  <2>8. JobsInOrder'
    BY <1>1, <2>1, <2>2, <2>4, <2>5 DEF GateInv, JobsInOrder
  <2>9. ModeClassified'
    BY <2>1, <2>5, GateAssumption DEF ModeClassified
  <2>10. PassClassified' /\ SoundRunPasses'
    BY <1>1, <2>2, <2>4 DEF PassClassified, SoundRunPasses, Passes
  <2> QED
    BY <2>6, <2>7, <2>8, <2>9, <2>10 DEF GateInv
<1> QED
  BY <1>2, <1>3 DEF Resolves

\* The classifier's job succeeds, with the mode given.
LEMMA ClassifiedKeeps ==
  ASSUME GateInv, NEW m \in {"full", "docs-only", None}, Due("classify"),
         ci.result["resolve-trusted-revision"] = "success",
         ci' = [ci EXCEPT !.result["classify"] = "success", !.mode = m], UNCHANGED tips,
         m = "docs-only" =>
           /\ ci.trusted \in Scripted \cap Line
           /\ "docs-only" \in classifyChange(ci.event, ci.base, ci.head, ci.trusted)
  PROVE  GateInv'
<1>1. /\ Heavy \subseteq Needed /\ Needed \subseteq Jobs /\ "checks" \in Jobs \ Needed
      /\ {"gates", "classify", "resolve-trusted-revision"} \subseteq Needed \ Heavy
  BY DEF Needed, Heavy, Always, Jobs
<1>2. /\ ci'.event = ci.event /\ ci'.head = ci.head /\ ci'.into = ci.into /\ ci'.base = ci.base
      /\ ci'.mode = m /\ ci'.cancelled = ci.cancelled /\ ci'.trusted = ci.trusted
      /\ ci'.fetched = ci.fetched /\ ci'.result = [ci.result EXCEPT !["classify"] = "success"]
      /\ ci' = [event |-> ci'.event, head |-> ci'.head, into |-> ci'.into, base |-> ci'.base,
                trusted |-> ci'.trusted, mode |-> ci'.mode, cancelled |-> ci'.cancelled,
                fetched |-> ci'.fetched, result |-> ci'.result]
  BY DEF GateInv, GateTypeOK
<1>3. ci'.result["classify"] = "success" /\ \A n \in Jobs \ {"classify"} : ci'.result[n] = ci.result[n]
  BY <1>1, <1>2 DEF GateInv, GateTypeOK
<1>4. Waits("classify")
  BY DEF Due
<1>5. ci.result["checks"] = "waiting" /\ ~ci.cancelled
  BY <1>1, <1>4, NotOverYet
<1>6. \A j \in Heavy : ci.result[j] = "waiting"
  BY <1>4 DEF Waits, GateInv, JobsInOrder
<1>7. GateTypeOK'
  BY <1>1, <1>2 DEF GateInv, GateTypeOK, Results
<1>8. Placed'
  BY <1>1, <1>2, <1>3 DEF GateInv, Placed
<1>9. JobsInOrder'
  BY <1>1, <1>2, <1>3, <1>5, <1>6 DEF GateInv, JobsInOrder
<1>10. ModeClassified'
  BY <1>1, <1>2, <1>3, <1>6 DEF ModeClassified
<1>11. PassClassified' /\ SoundRunPasses'
  BY <1>1, <1>3, <1>5 DEF PassClassified, SoundRunPasses, Passes
<1> QED
  BY <1>7, <1>8, <1>9, <1>10, <1>11 DEF GateInv

\* Only pull requests are classified docs-only.
LEMMA ModesOfClassifier ==
  ASSUME NEW event, NEW base, NEW head, NEW cut, NEW m \in classifyChange(event, base, head, cut)
  PROVE  m \in {"full", "docs-only"} /\ (m = "docs-only" => event = "pull_request")
BY DEF classifyChange

LEMMA ClassifiesKeeps ==
  ASSUME GateInv, Classifies
  PROVE  GateInv'
<1>1. /\ Due("classify") /\ ci.result["resolve-trusted-revision"] = "success" /\ UNCHANGED tips
  BY DEF Classifies
<1>2. ASSUME NEW m \in IF ci.trusted \in Scripted
                      THEN classifyChange(ci.event, ci.base, ci.head, ci.trusted) ELSE {"full"},
             ci' = [ci EXCEPT !.result["classify"] = "success", !.mode = m]
      PROVE  GateInv'
  <2>1. m \in {"full", "docs-only"}
        /\ (m = "docs-only" =>
              /\ ci.event = "pull_request" /\ ci.trusted \in Scripted
              /\ "docs-only" \in classifyChange(ci.event, ci.base, ci.head, ci.trusted))
    <3>1. CASE ci.trusted \in Scripted
      <4>1. m \in classifyChange(ci.event, ci.base, ci.head, ci.trusted)
        BY <1>2, <3>1
      <4> QED
        BY <3>1, <4>1, ModesOfClassifier
    <3>2. CASE ci.trusted \notin Scripted
      BY <1>2, <3>2
    <3> QED
      BY <3>1, <3>2
  <2>2. m = "docs-only" => ci.trusted \in Line
    BY <1>1, <2>1 DEF GateInv, Placed
  <2> QED
    BY <1>1, <1>2, <2>1, <2>2, ClassifiedKeeps
<1>3. ASSUME NEW m \in {"full", None},
             ci' = [ci EXCEPT !.result["classify"] = "success", !.mode = m]
      PROVE  GateInv'
  <2>1. m # "docs-only"
    BY GateAssumption
  <2> QED
    BY <1>1, <1>3, <2>1, ClassifiedKeeps
<1>4. CASE Ends("classify", "failure")
  <2>1. "classify" \in Needed /\ "classify" \notin Heavy
    BY DEF Needed, Heavy, Always
  <2> QED
    BY <1>1, <1>4, <2>1, JobEndsKeeps DEF Results
<1> QED
  BY <1>2, <1>3, <1>4 DEF Classifies

LEMMA ConcludesKeeps ==
  ASSUME GateInv, Concludes
  PROVE  GateInv'
<1>1. /\ Heavy \subseteq Needed /\ Needed \subseteq Jobs /\ "checks" \in Jobs \ Needed
      /\ {"gates", "classify", "resolve-trusted-revision"} \subseteq Needed \ Heavy
      /\ Needed = Heavy \cup {"gates", "classify", "resolve-trusted-revision"}
  BY DEF Needed, Heavy, Always, Jobs
<1>2. ci.result["checks"] = "waiting" /\ \A j \in Needed : ci.result[j] # "waiting"
  BY DEF Concludes, Due, Waits, needs, Heavy
<1> DEFINE passes(got) ==
      IF got /\ ci.trusted \in Scripted
      THEN evaluate(ci.mode, ci.result) ELSE bootstrapFallback(ci.mode, ci.result)
<1>3. PICK got \in BOOLEAN :
        ci' = [ci EXCEPT !.fetched = got,
                         !.result["checks"] = IF passes(got) THEN "success" ELSE "failure"]
  BY DEF Concludes
<1>4. passes(got) =>
        /\ ci.result["gates"] = "success"
        /\ (\A j \in Heavy : ci.result[j] = "success") \/ ci.mode = "docs-only"
  BY <1>1 DEF evaluate, bootstrapFallback, expectedResult
<1>5. ASSUME got, ci.mode # None, \A j \in Needed : ci.result[j] \notin {"failure", "cancelled"}
      PROVE  passes(got)
  <2>1. \A j \in Needed : ci.result[j] \in {"success", "skipped"}
    BY <1>1, <1>2, <1>5 DEF GateInv, GateTypeOK, Results
  <2>2. ci.result["classify"] = "success" /\ ci.result["resolve-trusted-revision"] = "success"
        /\ ci.result["gates"] = "success"
    BY <1>1, <1>5, <2>1 DEF GateInv, ModeClassified, JobsInOrder
  <2>3. CASE ci.mode = "docs-only"
    <3>1. ci.trusted \in Scripted /\ \A j \in Heavy : ci.result[j] = "skipped"
      BY <1>1, <2>1, <2>3 DEF GateInv, ModeClassified
    <3> QED
      BY <1>1, <1>5, <2>2, <2>3, <3>1 DEF evaluate, expectedResult
  <2>4. CASE ci.mode = "full"
    <3>1. \A j \in Heavy : ci.result[j] = "success"
      BY <1>1, <2>1, <2>2, <2>4 DEF GateInv, JobsInOrder
    <3> QED
      BY <1>1, <2>2, <2>4, <3>1 DEF evaluate, expectedResult, bootstrapFallback
  <2> QED
    BY <1>5, <2>3, <2>4 DEF GateInv, GateTypeOK
<1> HIDE DEF passes
<1>6. /\ ci'.event = ci.event /\ ci'.head = ci.head /\ ci'.into = ci.into /\ ci'.base = ci.base
      /\ ci'.mode = ci.mode /\ ci'.cancelled = ci.cancelled /\ ci'.trusted = ci.trusted
      /\ ci'.fetched = got
      /\ ci'.result = [ci.result EXCEPT !["checks"] = IF passes(got) THEN "success" ELSE "failure"]
      /\ ci' = [event |-> ci'.event, head |-> ci'.head, into |-> ci'.into, base |-> ci'.base,
                trusted |-> ci'.trusted, mode |-> ci'.mode, cancelled |-> ci'.cancelled,
                fetched |-> ci'.fetched, result |-> ci'.result]
  BY <1>3 DEF GateInv, GateTypeOK
<1>7. ci'.result["checks"] = (IF passes(got) THEN "success" ELSE "failure")
      /\ \A n \in Needed : ci'.result[n] = ci.result[n]
  BY <1>1, <1>6 DEF GateInv, GateTypeOK
<1>8. UNCHANGED tips
  BY DEF Concludes
<1>9. GateTypeOK'
  BY <1>1, <1>6, <1>8 DEF GateInv, GateTypeOK, Results
<1>10. Placed' /\ ModeClassified'
  BY <1>1, <1>6, <1>7 DEF GateInv, Placed, ModeClassified
<1>11. JobsInOrder'
  BY <1>1, <1>2, <1>6, <1>7 DEF GateInv, JobsInOrder
<1>12. PassClassified'
  BY <1>1, <1>4, <1>6, <1>7 DEF PassClassified, Passes, Tested
<1>13. SoundRunPasses'
  BY <1>1, <1>5, <1>6, <1>7 DEF SoundRunPasses
<1> QED
  BY <1>9, <1>10, <1>11, <1>12, <1>13 DEF GateInv

LEMMA PeopleKeepGate ==
  ASSUME GateInv, Proposes \/ MainAdvances
  PROVE  GateInv'
<1>1. CASE Proposes
  <2>1. PICK h \in Heads : ci' = StartedRun("pull_request", h, ci.into, tips[ci.into])
    BY <1>1 DEF Proposes
  <2>2. ci.into \in {"main", "stack"} /\ UNCHANGED tips
    BY <1>1 DEF Proposes, GateInv, Placed
  <2>3. /\ tips["main"] \in Line /\ tips["stack"] \in Stacks
        /\ tips = [main |-> tips["main"], stack |-> tips["stack"]]
    BY DEF GateInv, GateTypeOK
  <2> QED
    BY <2>1, <2>2, <2>3, StartedRunSound
<1>2. CASE MainAdvances
  <2>1. PICK c \in Line :
          /\ tips' = [tips EXCEPT !["main"] = c]
          /\ \/ ci.event = "push" /\ ci' = StartedRun("push", c, None, None)
             \/ ci.event # "push" /\ UNCHANGED ci
    BY <1>2 DEF MainAdvances
  <2>2. /\ tips' = [main |-> tips'["main"], stack |-> tips'["stack"]]
        /\ tips'["main"] \in Line /\ tips'["stack"] \in Stacks
    <3>1. /\ tips = [main |-> tips["main"], stack |-> tips["stack"]]
          /\ tips["stack"] \in Stacks
      BY DEF GateInv, GateTypeOK
    <3>2. ASSUME NEW a, NEW b PROVE [[main |-> a, stack |-> b] EXCEPT !["main"] = c]
                                     = [main |-> c, stack |-> b]
      OBVIOUS
    <3>3. tips' = [main |-> c, stack |-> tips["stack"]]
      <4>1. tips' = [[main |-> tips["main"], stack |-> tips["stack"]] EXCEPT !["main"] = c]
        BY <2>1, <3>1, Zenon
      <4> QED
        BY <3>2, <4>1, Zenon
    <3> QED
      BY <2>1, <3>1, <3>3
  <2>3. CASE ci' = StartedRun("push", c, None, None)
    BY <2>2, <2>3, StartedRunSound
  <2>4. CASE UNCHANGED ci
    BY <2>2, <2>4 DEF GateInv, GateTypeOK, Placed, JobsInOrder, ModeClassified, PassClassified,
       Passes, Tested, SoundRunPasses
  <2> QED
    BY <2>1, <2>3, <2>4
<1> QED
  BY <1>1, <1>2

LEMMA CancelsKeeps ==
  ASSUME GateInv, Cancels
  PROVE  GateInv'
<1> DEFINE R == [j \in Jobs |-> IF j = "checks" \/ ~Waits(j) THEN ci.result[j]
                                ELSE IF Due(j) THEN "cancelled" ELSE "skipped"]
           t == "resolve-trusted-revision"
<1>1. /\ Heavy \subseteq Needed /\ Needed \subseteq Jobs /\ "checks" \in Jobs \ Needed
      /\ {"gates", "classify", t} \subseteq Needed \ Heavy
  BY DEF Needed, Heavy, Always, Jobs
<1>2. ci' = [ci EXCEPT !.cancelled = TRUE, !.result = R] /\ UNCHANGED tips
      /\ ci.result["checks"] = "waiting"
  BY DEF Cancels, Waits
<1>3. R["checks"] = "waiting"
  BY <1>1, <1>2
<1>4. \A j \in Needed :
        /\ ~Waits(j) => R[j] = ci.result[j]
        /\ Waits(j) /\ Due(j) => R[j] = "cancelled"
        /\ Waits(j) /\ ~Due(j) => R[j] = "skipped"
  BY <1>1
<1>5. R \in [Jobs -> Results]
  <2>1. \A j \in Jobs : ci.result[j] \in Results
    BY DEF GateInv, GateTypeOK
  <2>2. \A j \in Jobs : R[j] \in Results
    BY <1>3, <1>4, <2>1 DEF Results, Jobs
  <2> QED
    BY <2>2
<1> HIDE DEF R
<1>6. /\ ci'.event = ci.event /\ ci'.head = ci.head /\ ci'.into = ci.into /\ ci'.base = ci.base
      /\ ci'.mode = ci.mode /\ ci'.cancelled = TRUE /\ ci'.trusted = ci.trusted
      /\ ci'.fetched = ci.fetched /\ ci'.result = R
      /\ ci' = [event |-> ci'.event, head |-> ci'.head, into |-> ci'.into, base |-> ci'.base,
                trusted |-> ci'.trusted, mode |-> ci'.mode, cancelled |-> ci'.cancelled,
                fetched |-> ci'.fetched, result |-> ci'.result]
  BY <1>2 DEF GateInv, GateTypeOK
<1>7. \A j \in Needed : R[j] # "waiting"
  BY <1>4 DEF Waits
<1>8. /\ Waits(t) => Due(t)
      /\ Waits("gates") => Due("gates")
      /\ Waits("classify") /\ ~Due("classify") => Waits(t)
      /\ \A j \in Heavy : Waits(j) /\ ~Due(j) => Waits("classify")
  BY DEF Due, needs, Heavy
<1>9. /\ R[t] = "success" <=> ci.result[t] = "success"
      /\ R["classify"] = "success" <=> ci.result["classify"] = "success"
      /\ \A j \in Heavy : R[j] \in {"success", "failure"} <=> ci.result[j] \in {"success", "failure"}
  BY <1>1, <1>4 DEF Waits
<1>10. JobsInOrder'
  <2>1. \A j \in {"gates", t} : R[j] # "skipped"
    BY <1>1, <1>4, <1>8 DEF Waits, GateInv, JobsInOrder
  <2>2. R["classify"] = "skipped" => R[t] \in {"failure", "cancelled"}
    <3>1. CASE Waits("classify")
      BY <1>1, <1>4, <1>8, <3>1
    <3>2. CASE ~Waits("classify")
      BY <1>1, <1>4, <3>2 DEF Waits, GateInv, JobsInOrder
    <3> QED
      BY <3>1, <3>2
  <2>3. ASSUME NEW j \in Heavy, R[j] = "skipped", ci.mode # "docs-only"
        PROVE  R["classify"] \in {"failure", "cancelled", "skipped"}
    <3>1. CASE Waits(j)
      BY <1>1, <1>4, <1>8, <2>3, <3>1
    <3>2. CASE ~Waits(j)
      BY <1>1, <1>4, <2>3, <3>2 DEF Waits, GateInv, JobsInOrder
    <3> QED
      BY <3>1, <3>2
  <2>4. R["classify"] = "success" => R[t] = "success"
    BY <1>9 DEF GateInv, JobsInOrder
  <2> QED
    BY <1>1, <1>3, <1>6, <1>7, <2>1, <2>2, <2>3, <2>4 DEF JobsInOrder
<1>11. GateTypeOK' /\ Placed' /\ ModeClassified'
  <2>1. GateTypeOK'
    BY <1>2, <1>5, <1>6 DEF GateInv, GateTypeOK
  <2>2. Placed'
    BY <1>6, <1>9 DEF GateInv, Placed
  <2>3. ModeClassified'
    BY <1>6, <1>9 DEF GateInv, ModeClassified
  <2> QED
    BY <2>1, <2>2, <2>3
<1>12. PassClassified' /\ SoundRunPasses'
  BY <1>3, <1>6 DEF PassClassified, SoundRunPasses, Passes
<1> QED
  BY <1>10, <1>11, <1>12 DEF GateInv

LEMMA RerunsKeeps ==
  ASSUME GateInv, Reruns
  PROVE  GateInv'
<1> DEFINE failed == {j \in Jobs : ci.result[j] \in {"failure", "cancelled"}}
           second == failed \cup {j \in Jobs : needs(j) \cap failed # {}}
           again == second \cup {j \in Jobs : needs(j) \cap second # {}}
           R == [j \in Jobs |-> IF j \in again THEN "waiting" ELSE ci.result[j]]
           t == "resolve-trusted-revision"
<1>1. /\ Heavy \subseteq Needed /\ Needed \subseteq Jobs /\ "checks" \in Jobs \ Needed
      /\ {"gates", "classify", t} \subseteq Needed \ Heavy
  BY DEF Needed, Heavy, Always, Jobs
<1>2. ci' = [ci EXCEPT
          !.cancelled = FALSE, !.fetched = TRUE,
          !.trusted = IF t \in again THEN None ELSE @,
          !.mode = IF "classify" \in again THEN None ELSE @,
          !.result = R]
      /\ UNCHANGED tips /\ ci.result["checks"] = "failure"
  BY DEF Reruns
<1>3. /\ \A j \in failed : j \in again
      /\ t \in again <=> t \in failed
      /\ t \in again => "classify" \in second
      /\ "classify" \in again <=> "classify" \in second
      /\ "classify" \in second => \A j \in Heavy : j \in again
      /\ "checks" \in again
  <2>1. /\ needs(t) = {} /\ needs("classify") = {t}
        /\ \A j \in Heavy : needs(j) = {"classify"}
    BY DEF needs, Heavy
  <2> QED
    BY <1>1, <1>2, <2>1
<1>4. \A j \in Jobs : R[j] = IF j \in again THEN "waiting" ELSE ci.result[j]
  OBVIOUS
<1>5. \A j \in Jobs : ci.result[j] \in {"failure", "cancelled"} => j \in again
  BY <1>3
<1>6. R \in [Jobs -> Results]
  BY DEF GateInv, GateTypeOK, Results
<1> HIDE DEF R, again, second, failed
<1>7. /\ ci'.event = ci.event /\ ci'.head = ci.head /\ ci'.into = ci.into /\ ci'.base = ci.base
      /\ ci'.mode = (IF "classify" \in again THEN None ELSE ci.mode)
      /\ ci'.cancelled = FALSE
      /\ ci'.trusted = (IF t \in again THEN None ELSE ci.trusted)
      /\ ci'.fetched = TRUE /\ ci'.result = R
      /\ ci' = [event |-> ci'.event, head |-> ci'.head, into |-> ci'.into, base |-> ci'.base,
                trusted |-> ci'.trusted, mode |-> ci'.mode, cancelled |-> ci'.cancelled,
                fetched |-> ci'.fetched, result |-> ci'.result]
  BY <1>2 DEF GateInv, GateTypeOK
<1>8. R["checks"] = "waiting"
  BY <1>1, <1>3, <1>4
<1>9. GateTypeOK'
  BY <1>2, <1>6, <1>7 DEF GateInv, GateTypeOK
<1>10. Placed'
  <2>1. R[t] = "success" => t \notin again /\ ci.result[t] = "success"
    BY <1>1, <1>4
  <2> QED
    BY <1>7, <2>1 DEF GateInv, Placed
<1>11. JobsInOrder'
  <2>1. \A j \in {"gates", t} : R[j] # "skipped"
    BY <1>1, <1>4 DEF GateInv, JobsInOrder
  <2>2. R["classify"] # "waiting" => R[t] = ci.result[t] /\ R["classify"] = ci.result["classify"]
    BY <1>1, <1>3, <1>4
  <2>3. R["classify"] = "success" => R[t] = "success"
    BY <2>2 DEF GateInv, JobsInOrder
  <2>4. R["classify"] # "skipped"
    <3>1. ASSUME R["classify"] = "skipped" PROVE FALSE
      <4>1. ci.result["classify"] = "skipped" /\ t \notin again
        BY <1>1, <1>3, <1>4, <3>1
      <4> QED
        BY <1>1, <1>5, <4>1 DEF GateInv, JobsInOrder
    <3> QED
      BY <3>1
  <2>5. R[t] = "waiting" => R["classify"] = "waiting"
    BY <1>1, <1>3, <1>4 DEF GateInv, JobsInOrder
  <2>6. R["classify"] = "waiting" => \A j \in Heavy : R[j] = "waiting"
    BY <1>1, <1>3, <1>4 DEF GateInv, JobsInOrder
  <2>7. ASSUME NEW j \in Heavy, R[j] = "skipped"
        PROVE  ci'.mode = "docs-only" \/ R["classify"] \in {"failure", "cancelled", "skipped"}
    <3>1. j \notin again /\ ci.result[j] = "skipped"
      BY <1>1, <1>4, <2>7
    <3>2. "classify" \notin again
      BY <1>3, <3>1
    <3>3. R["classify"] = ci.result["classify"] /\ ci'.mode = ci.mode
      BY <1>1, <1>4, <1>7, <3>2
    <3> QED
      BY <3>1, <3>3 DEF GateInv, JobsInOrder
  <2> QED
    BY <1>7, <1>8, <2>1, <2>3, <2>4, <2>5, <2>6, <2>7 DEF JobsInOrder
<1>12. ModeClassified'
  <2>1. ASSUME ci'.mode # None
        PROVE  /\ ci'.mode = ci.mode /\ ci'.trusted = ci.trusted
               /\ R["classify"] = ci.result["classify"]
    BY <1>1, <1>3, <1>4, <1>7, <2>1
  <2>2. \A j \in Heavy : R[j] \in {"waiting", ci.result[j]}
    BY <1>1, <1>4
  <2> QED
    BY <1>7, <2>1, <2>2, GateAssumption DEF GateInv, ModeClassified
<1>13. PassClassified' /\ SoundRunPasses'
  BY <1>7, <1>8 DEF PassClassified, SoundRunPasses, Passes
<1> QED
  BY <1>9, <1>10, <1>11, <1>12, <1>13 DEF GateInv

LEMMA GateSteps ==
  ASSUME GateInv, [GateNext]_gateVars
  PROVE  GateInv'
<1>1. CASE UNCHANGED gateVars
  BY <1>1 DEF gateVars, GateInv, GateTypeOK, Placed, JobsInOrder, ModeClassified, PassClassified,
     Passes, Tested, SoundRunPasses
<1> QED
  BY <1>1, SkipsKeeps, ResolvesKeeps, ClassifiesKeeps, TestsKeep, ConcludesKeeps, PeopleKeepGate,
     CancelsKeeps, RerunsKeeps DEF GateNext, JobsRun

\* A diff that parses, and whose entries are all docs, changes something, and every path it
\* changes is documentation on both sides: an entry names the path, a renamed one too.
LEMMA DocsEntries ==
  ASSUME NEW m, NEW head, NEW e \in Diffs(m, head), parses(e), entriesAreDocsOnly(e, m, head)
  PROVE  DocsSince(m, head)
<1> DEFINE was == Trees[m]
           is == Trees[head]
           changed == changedPaths(m, head)
           gone == {p \in changed : is[p] = None}
           come == {p \in changed : was[p] = None}
           kept == changed \ (gone \cup come)
           Kept(p) == [status |-> IF was[p].kind = is[p].kind THEN "M" ELSE "T", paths |-> <<p>>]
<1>1. PICK r \in SUBSET (gone \X come) :
        e = {[status |-> "R", paths |-> pair] : pair \in r}
            \cup {[status |-> "D", paths |-> <<p>>] : p \in gone \ {pair[1] : pair \in r}}
            \cup {[status |-> "A", paths |-> <<p>>] : p \in come \ {pair[2] : pair \in r}}
            \cup {Kept(p) : p \in kept}
  BY Zenon DEF Diffs
<1>2. changed # {}
  <2>1. SUFFICES ASSUME changed = {} PROVE FALSE
    OBVIOUS
  <2>2. gone = {} /\ come = {} /\ kept = {}
    BY <2>1
  <2>3. r = {}
    BY <2>2
  <2>4. e = {}
    BY <1>1, <2>2, <2>3
  <2> QED
    BY <2>4 DEF parses
<1> HIDE DEF changed
<1>3. ASSUME NEW x \in e
      PROVE  /\ \A k \in DOMAIN x.paths : isDocsMarkdownPath(x.paths[k])
             /\ x.status # "A" => isRegularFile(m, x.paths[1])
             /\ x.status # "D" => isRegularFile(head, Last(x.paths))
             /\ x.status # "T"
  BY <1>3 DEF entriesAreDocsOnly, parses
<1>4. ASSUME NEW p
      PROVE  Last(<<p>>) = p /\ DOMAIN <<p>> = {1} /\ <<p>>[1] = p
  BY DEF Last
<1>5. ASSUME NEW pair \in r
      PROVE  /\ isDocsMarkdownPath(pair[1]) /\ isRegularFile(m, pair[1])
             /\ isDocsMarkdownPath(pair[2]) /\ isRegularFile(head, pair[2])
  <2> DEFINE x == [status |-> "R", paths |-> pair]
  <2>0. x \in {[status |-> "R", paths |-> q] : q \in r}
    OBVIOUS
  <2>1. x \in e
    <3> HIDE DEF x
    <3> QED
      BY <1>1, <2>0, Zenon
  <2>2. x.status = "R" /\ x.paths = pair
    OBVIOUS
  <2>3. pair = <<pair[1], pair[2]>>
    OBVIOUS
  <2>4. DOMAIN pair = {1, 2} /\ Len(pair) = 2
    BY <2>3
  <2>5. Last(pair) = pair[2]
    BY <2>4 DEF Last
  <2> HIDE DEF x
  <2> QED
    BY <1>3, <2>1, <2>2, <2>4, <2>5
<1>6. ASSUME NEW p \in gone
      PROVE  isDocsMarkdownPath(p) /\ isRegularFile(m, p) /\ Trees[head][p] = None
  <2>1. CASE \E pair \in r : p = pair[1]
    BY <1>5, <2>1
  <2>2. CASE ~\E pair \in r : p = pair[1]
    <3> DEFINE x == [status |-> "D", paths |-> <<p>>]
    <3>0. x \in {[status |-> "D", paths |-> <<q>>] : q \in gone \ {pair[1] : pair \in r}}
      BY <2>2
    <3>1. x \in e
      <4> HIDE DEF x
      <4> QED
        BY <1>1, <3>0, Zenon
    <3>2. x.status = "D" /\ x.paths = <<p>>
      OBVIOUS
    <3> HIDE DEF x
    <3> QED
      BY <1>3, <1>4, <3>1, <3>2
  <2> QED
    BY <2>1, <2>2
<1>7. ASSUME NEW p \in come
      PROVE  isDocsMarkdownPath(p) /\ isRegularFile(head, p) /\ Trees[m][p] = None
  <2>1. CASE \E pair \in r : p = pair[2]
    BY <1>5, <2>1
  <2>2. CASE ~\E pair \in r : p = pair[2]
    <3> DEFINE x == [status |-> "A", paths |-> <<p>>]
    <3>0. x \in {[status |-> "A", paths |-> <<q>>] : q \in come \ {pair[2] : pair \in r}}
      BY <2>2
    <3>1. x \in e
      <4> HIDE DEF x
      <4> QED
        BY <1>1, <3>0, Zenon
    <3>2. x.status = "A" /\ x.paths = <<p>>
      OBVIOUS
    <3> HIDE DEF x
    <3>3. Last(x.paths) = p /\ x.paths[1] = p /\ 1 \in DOMAIN x.paths
      <4>1. Last(<<p>>) = p
        BY <1>4, Zenon
      <4> QED
        BY <1>4, <3>2, <4>1
    <3> QED
      BY <1>3, <3>1, <3>2, <3>3
  <2> QED
    BY <2>1, <2>2
<1>8. ASSUME NEW p \in kept
      PROVE  isDocsMarkdownPath(p) /\ isRegularFile(m, p) /\ isRegularFile(head, p)
  <2> DEFINE x == Kept(p)
  <2>1. x \in e
    BY <1>1
  <2>2. x.status \in {"M", "T"} /\ x.paths = <<p>>
    OBVIOUS
  <2> HIDE DEF x
  <2>3. Last(x.paths) = p /\ x.paths[1] = p /\ 1 \in DOMAIN x.paths
    <3>1. Last(<<p>>) = p
      BY <1>4, Zenon
    <3> QED
      BY <1>4, <2>2, <3>1
  <2> QED
    BY <1>3, <2>1, <2>2, <2>3
<1>9. ASSUME NEW p \in changed
      PROVE  /\ isDocsMarkdownPath(p)
             /\ \A c \in {m, head} : Trees[c][p] # None => Trees[c][p].kind = "regular"
  BY <1>6, <1>7, <1>8, <1>9 DEF isRegularFile
<1> QED
  BY <1>2, <1>9 DEF changed, isDocsMarkdownPath, DocsSince

\* What a clone shows behind a commit is the least set that is closed under parents, but
\* those of the cut.
LEMMA Behind ==
  ASSUME NEW cut \in Line \cup {None}, NEW c \in Commits
  PROVE  /\ ancestors(c, cut) \subseteq Commits
         /\ c \in ancestors(c, cut)
         /\ \A x \in ancestors(c, cut) \ {cut} : Parents[x] \subseteq ancestors(c, cut)
         /\ \A C \in SUBSET Commits :
              c \in C /\ (\A x \in C \ {cut} : Parents[x] \subseteq C) => ancestors(c, cut) \subseteq C
<1> DEFINE closed == {C \in SUBSET Commits : \A x \in C \ {cut} : Parents[x] \subseteq C}
           A == ancestors(c, cut)
<1>1. A = {a \in Commits : \A C \in closed : c \in C => a \in C}
  BY DEF ancestors, History
<1>2. A \subseteq Commits /\ c \in A /\ \A C \in closed : c \in C => A \subseteq C
  BY <1>1
<1>3. ASSUME NEW x \in A \ {cut}, NEW p \in Parents[x]
      PROVE  p \in A
  <2>1. p \in Commits
    BY <1>2, GateAssumption
  <2>2. ASSUME NEW C \in closed, c \in C PROVE p \in C
    BY <1>1, <1>3, <2>2
  <2> QED
    BY <1>1, <2>1, <2>2
<1>4. \A C \in SUBSET Commits : (\A x \in C \ {cut} : Parents[x] \subseteq C) => C \in closed
  OBVIOUS
<1> HIDE DEF A, closed
<1>5. /\ A \subseteq Commits /\ c \in A
      /\ \A x \in A \ {cut} : Parents[x] \subseteq A
      /\ \A C \in SUBSET Commits :
           c \in C /\ (\A x \in C \ {cut} : Parents[x] \subseteq C) => A \subseteq C
  BY <1>2, <1>3, <1>4
<1> QED
  BY <1>5 DEF A

\* What is behind a commit has its own ancestors behind it too; a cut takes ancestors
\* away, all of the commit it is at, none of one that the cut is not behind.
LEMMA BehindACut ==
  ASSUME NEW cut \in Line, NEW c \in Commits
  PROVE  /\ ancestors(c, cut) \subseteq ancestors(c, None)
         /\ c = cut => ancestors(c, cut) = {c}
         /\ \A d \in ancestors(c, None) : ancestors(d, None) \subseteq ancestors(c, None)
         /\ cut \notin ancestors(c, None) => ancestors(c, cut) = ancestors(c, None)
<1>1. cut \in Line \cup {None} /\ None \in Line \cup {None} /\ None \notin Commits
  BY GateAssumption
<1> DEFINE A == ancestors(c, cut)
           B == ancestors(c, None)
<1>2. /\ A \subseteq Commits /\ c \in A
      /\ \A x \in A \ {cut} : Parents[x] \subseteq A
      /\ \A C \in SUBSET Commits :
           c \in C /\ (\A x \in C \ {cut} : Parents[x] \subseteq C) => A \subseteq C
  BY <1>1, Behind
<1>3. /\ B \subseteq Commits /\ c \in B
      /\ \A x \in B : Parents[x] \subseteq B
      /\ \A C \in SUBSET Commits :
           c \in C /\ (\A x \in C : Parents[x] \subseteq C) => B \subseteq C
  BY <1>1, Behind
<1>4. ASSUME NEW d \in B PROVE ancestors(d, None) \subseteq B
  <2>1. \A C \in SUBSET Commits :
          d \in C /\ (\A x \in C \ {None} : Parents[x] \subseteq C) => ancestors(d, None) \subseteq C
    BY <1>1, <1>3, Behind
  <2> QED
    BY <1>3, <2>1
<1> HIDE DEF A, B
<1>5. A \subseteq B
  BY <1>2, <1>3
<1>6. c = cut => A = {c}
  BY <1>2
<1>7. cut \notin B => A = B
  BY <1>2, <1>3, <1>5
<1> QED
  BY <1>4, <1>5, <1>6, <1>7 DEF A, B

\* The merge base of a clone that is cut at the base, or aside, is one of the history.
LEMMA ShownMergeBases ==
  ASSUME NEW cut \in Line, NEW base \in Commits, NEW head \in Commits,
         NEW m \in MergeBases(base, head, cut)
  PROVE  /\ m \in ancestors(base, None) \cap ancestors(head, None)
         /\ base = cut \/ cut \notin ancestors(base, None) \cup ancestors(head, None) =>
              m \in MergeBases(base, head, None)
<1>1. /\ m \in ancestors(base, cut) /\ m \in ancestors(head, cut)
      /\ \A d \in (ancestors(base, cut) \cap ancestors(head, cut)) \ {m} : m \notin ancestors(d, cut)
  BY DEF MergeBases
<1>2. m \in ancestors(base, None) \cap ancestors(head, None)
  BY <1>1, BehindACut
<1>3. /\ ancestors(base, None) \subseteq Commits /\ ancestors(head, None) \subseteq Commits
      /\ None \in Line \cup {None}
  BY Behind
<1>4. SUFFICES ASSUME base = cut \/ cut \notin ancestors(base, None) \cup ancestors(head, None),
                      NEW d \in (ancestors(base, None) \cap ancestors(head, None)) \ {m}
               PROVE  m \notin ancestors(d, None)
  BY <1>2 DEF MergeBases
<1>5. CASE base = cut
  <2>1. m = base
    BY <1>1, <1>5, BehindACut
  <2> QED
    BY <1>3, <1>4, <2>1, HistoryAssumption
<1>6. CASE cut \notin ancestors(base, None) \cup ancestors(head, None)
  <2>1. ancestors(base, cut) = ancestors(base, None) /\ ancestors(head, cut) = ancestors(head, None)
    BY <1>6, BehindACut
  <2>2. d \in Commits /\ cut \notin ancestors(d, None)
    BY <1>3, <1>4, <1>6, BehindACut
  <2>3. ancestors(d, cut) = ancestors(d, None)
    BY <2>2, BehindACut
  <2> QED
    BY <1>1, <1>4, <2>1, <2>3
<1> QED
  BY <1>4, <1>5, <1>6

\* Docs-only is said of a pull request that changes documentation only since a commit the
\* clone shows as a merge base.
LEMMA DocsOnlyIsDocs ==
  ASSUME NEW event, NEW base, NEW head, NEW cut,
         "docs-only" \in classifyChange(event, base, head, cut)
  PROVE  event = "pull_request" /\ \E m \in MergeBases(base, head, cut) : DocsSince(m, head)
<1>1. /\ event = "pull_request"
      /\ \E m \in MergeBases(base, head, cut) :
           \E e \in Diffs(m, head) : parses(e) /\ entriesAreDocsOnly(e, m, head)
  BY DEF classifyChange
<1>2. PICK m \in MergeBases(base, head, cut) :
        \E e \in Diffs(m, head) : parses(e) /\ entriesAreDocsOnly(e, m, head)
  BY <1>1
<1> QED
  BY <1>1, <1>2, DocsEntries

-----------------------------------------------------------------------------
\* GateInv holds at all times: the jobs of a run of ci.yml end in the order of their needs,
\* and the mode on which the heavy ones were kept from running is what classify_change
\* said of the very commits the run is about.
THEOREM GateInvariance == GateSpec => []GateInv
<1>1. GateInv /\ [GateNext]_gateVars => GateInv'
  BY GateSteps
<1> QED
  BY <1>1, GateStarts, PTL DEF GateSpec

\* GateHonest: what the gate lets pass was linted and unit-tested, and went through the
\* heavy jobs or is a pull request that changes documentation only since a commit its base
\* shares, which is the merge base if the pull request is to the default branch or the cut
\* of the classifier's clone hides nothing; and it refuses only when a job failed or was
\* cancelled or the mode or the script was lost.
THEOREM GateStaysHonest == GateSpec => []GateHonest
<1>1. GateInv => GateHonest
  <2> SUFFICES ASSUME GateInv PROVE GateHonest
    OBVIOUS
  <2>1. SoundRunPasses
    BY DEF GateInv
  <2>2. ASSUME Passes, ~Tested
        PROVE  ci.event = "pull_request" /\ DocsSinceShared
    <3>1. ci.mode = "docs-only"
      BY <2>2 DEF GateInv, PassClassified
    <3>2. /\ ci.result["classify"] = "success"
          /\ ci.result["resolve-trusted-revision"] = "success"
          /\ ci.trusted \in Line
          /\ "docs-only" \in classifyChange(ci.event, ci.base, ci.head, ci.trusted)
      BY <3>1, GateAssumption DEF GateInv, ModeClassified, JobsInOrder
    <3>3. /\ ci.event = "pull_request"
          /\ \E m \in MergeBases(ci.base, ci.head, ci.trusted) : DocsSince(m, ci.head)
      BY <3>2, DocsOnlyIsDocs
    <3>4. /\ ci.head \in Commits /\ ci.base \in Commits
          /\ ci.into = "main" => ci.base = ci.trusted
      BY <3>2, <3>3, GateAssumption DEF GateInv, Placed
    <3>5. PICK m \in MergeBases(ci.base, ci.head, ci.trusted) : DocsSince(m, ci.head)
      BY <3>3
    <3>6. /\ m \in ancestors(ci.base, None) \cap ancestors(ci.head, None)
          /\ CutHidesNothing => m \in MergeBases(ci.base, ci.head, None)
      BY <3>2, <3>4, ShownMergeBases DEF CutHidesNothing
    <3> QED
      BY <3>3, <3>5, <3>6 DEF DocsSinceShared
  <2>3. Passes => ci.result["gates"] = "success"
    BY DEF GateInv, PassClassified
  <2> QED
    BY <2>1, <2>2, <2>3 DEF GateHonest, PassMeansTested
<1> QED
  BY <1>1, GateInvariance, PTL
=============================================================================

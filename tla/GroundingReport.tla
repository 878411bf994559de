-------------------------- MODULE GroundingReport ---------------------------
(***************************************************************************)
(* What a pull request shows of its spec-grounded review: the check of the *)
(* agent's verdict, the blockers of the spine, the inline comments planned *)
(* for them and where they are anchored, the summary with what those leave *)
(* over, and the notes on threads whose criterion is gone                  *)
(* (scripts/factory/spec-grounding-verdict-schema.mts,                     *)
(* publish-spec-grounding-verdict-logic.mts, -blocker-logic.mts,           *)
(* -verdict.mts and -inline-comment-io.mts).  Calls and races are in       *)
(* GroundingVerdict; here is what is said, of everything at once.          *)
(*                                                                         *)
(* A verdict is [form, findings]; form is "object", "extra key", or a form *)
(* that is refused as a whole.  A finding is [form, criterionId,           *)
(* satisfied, rationale]: None for a criterionId of the wrong shape,       *)
(* "yes", "no" or "odd", and "text", "long text" or a text that is not     *)
(* shown.  now is what the pull request refers to when its verdict is      *)
(* published: [closing, referenced].  posted is what became of the inline  *)
(* comments: [ok, unresolved, advice], the markers of those in open        *)
(* threads, and the lines about the notes.                                 *)
(* Texts are as long as their lines, but lists of issues, whose characters *)
(* are counted.                                                            *)
(***************************************************************************)
EXTENDS CriteriaSpine

CONSTANTS
  MAX_FINDINGS,
  MAX_INDIVIDUAL_CRITERION_BLOCKER_COMMENTS, MAX_INDIVIDUAL_UNREVIEWED_ISSUE_COMMENTS,
  MAX_AGGREGATE_LISTED,
  MAX_RATIONALE_DISPLAY_LENGTH, MAX_FINDINGS_LIST_LENGTH, MAX_PROVENANCE_LIST_LENGTH,
  MAX_REASONS_LIST_LENGTH, MAX_SPEC_GROUNDING_SUMMARY_COMMENT_LENGTH,
  MAX_SKIPPED_BLOCKER_ISSUE_NUMBERS_LIST_LENGTH,
  MAX_ANNOTATION_SCAN_LINES, MAX_ANNOTATION_ISSUE_FETCHES, MAX_ANNOTATION_PATCHES

ASSUME ReportAssumption ==
  /\ MAX_INDIVIDUAL_CRITERION_BLOCKER_COMMENTS \in Nat
  /\ MAX_INDIVIDUAL_UNREVIEWED_ISSUE_COMMENTS \in Nat
  /\ MAX_REASONS_LIST_LENGTH \in Nat \ {0}

Places(s) == [k \in DOMAIN s |-> k]
Upto(s, n) == SubSeq(s, 1, IF Len(s) < n THEN Len(s) ELSE n)
Beyond(s, n) == SubSeq(s, n + 1, Len(s))
Total(s, Size(_)) == FoldLeft(LAMBDA n, x : n + Size(x), 0, s)

\* As many of a list, from its first, as a budget has room for; each ends its line.
Fitting(s, Size(_), budget) ==
  LET room == {k \in 0 .. Len(s) : Total(Upto(s, k), Size) + k <= budget}
  IN Upto(s, CHOOSE k \in room : \A h \in room : h <= k)

-----------------------------------------------------------------------------
(* The agent's verdict.                                                    *)

validateFinding(f) ==
  f.form # "no object" /\ f.criterionId # None /\ f.satisfied # "odd"
    /\ f.rationale \in {"text", "long text"}

FindingErrors(f) ==
  IF f.form = "no object" THEN 1
  ELSE Cardinality({x \in {"form", "id", "satisfied", "rationale"} :
         CASE x = "form" -> f.form = "extra key"
           [] x = "id" -> f.criterionId = None
           [] x = "satisfied" -> f.satisfied = "odd"
           [] OTHER -> f.rationale \notin {"text", "long text"}})

\* A form that is refused as a whole has no other error.
parseAndValidateVerdict(raw) ==
  LET findings == raw.findings
      Duplicate(k) ==
        /\ validateFinding(findings[k])
        /\ \E h \in 1 .. k - 1 : /\ validateFinding(findings[h])
                                 /\ findings[h].criterionId = findings[k].criterionId
      errors == Total(Places(findings),
                      LAMBDA k : FindingErrors(findings[k]) + IF Duplicate(k) THEN 1 ELSE 0)
      extra == IF raw.form = "extra key" THEN 1 ELSE 0
  IN IF raw.form \notin {"object", "extra key"} THEN 1
     ELSE IF Len(findings) > MAX_FINDINGS THEN extra + 1 ELSE extra + errors

\* A criterion the agent does not mention is not satisfied; what else it mentions is dropped.
joinFindingsToSpine(spine, findings) ==
  LET Join(e) ==
        LET of == {f \in ToSet(findings) : f.criterionId = e.criterionId}
            finding == CHOOSE f \in of : TRUE
        IN [issueNumber |-> e.issueNumber, kind |-> e.kind, criterionId |-> e.criterionId,
            criterionDigest |-> e.criterionDigest,
            satisfied |-> of # {} /\ finding.satisfied = "yes",
            rationale |-> IF of = {} THEN None ELSE finding.rationale,
            addressedByReviewer |-> of # {}]
  IN [k \in DOMAIN spine |-> Join(spine[k])]

\* FAULT: a criterion that the agent passes over in silence blocks nothing.
SilencePasses(e) ==
  IF e.kind = "closing" /\ e.addressedByReviewer /\ ~e.satisfied THEN "blocker"
  ELSE "non-blocking"

deriveSeverity(e) == IF e.kind = "closing" /\ ~e.satisfied THEN "blocker" ELSE "non-blocking"

formatRationaleForDisplay(e) ==
  IF e.addressedByReviewer /\ e.rationale = "long text" THEN MAX_RATIONALE_DISPLAY_LENGTH ELSE 1

-----------------------------------------------------------------------------
(* Where inline comments go.  A line of a diff is [mark, looks, path, old, *)
(* start, new]; looks is "file" or "hunk" if it reads as the header of a   *)
(* new file, whose path is None if it is deleted, or of a hunk.            *)

selectDeterministicBlockerAnchor(lines) ==
  LET Outside(s, l) ==
        CASE l.looks = "file" -> [s EXCEPT !.path = l.path]
          [] l.looks = "hunk" -> [s EXCEPT !.old = l.old, !.new = l.new, !.line = l.start]
          [] OTHER -> s
      Inside(s, l) ==
        CASE l.mark = "+" /\ s.path # None ->
               [s EXCEPT !.found = [path |-> s.path, line |-> s.line]]
          [] l.mark = "+" /\ s.path = None -> [s EXCEPT !.line = @ + 1, !.new = @ - 1]
          [] l.mark = "-" -> [s EXCEPT !.old = @ - 1]
          [] l.mark = " " -> [s EXCEPT !.line = @ + 1, !.new = @ - 1, !.old = @ - 1]
          [] l.mark = "no newline" -> s
          [] OTHER -> Outside([s EXCEPT !.old = 0, !.new = 0], l)
      Step(s, l) == IF s.found # None THEN s
                    ELSE IF s.old > 0 \/ s.new > 0 THEN Inside(s, l) ELSE Outside(s, l)
  IN FoldLeft(Step, [path |-> None, old |-> 0, new |-> 0, line |-> 0, found |-> None], lines).found

-----------------------------------------------------------------------------
(* Inline comments: [marker, about, listed].                               *)

criterionBlockerCommentMarker(e) ==
  IF e.criterionDigest # None THEN <<"criterion-digest", e.issueNumber, e.criterionDigest>>
  ELSE <<"criterion", e.criterionId>>
unreviewedClosingIssueCommentMarker(u) == <<"issue", u.issueNumber>>

OfCriterion(e) == <<"criterion", e.criterionId>>
OfIssue(u) == <<"issue", u.issueNumber>>
Those(s, Of(_)) == {Of(s[k]) : k \in DOMAIN s}

\* The first of each kind have a comment of their own, the rest one together.
Comments(s, limit, Marker(_), aggregate, Of(_)) ==
  LET own == Upto(s, limit)
      rest == Beyond(s, limit)
  IN {[marker |-> Marker(x), about |-> {Of(x)}, listed |-> {Of(x)}] : x \in ToSet(own)}
       \cup IF rest = <<>> THEN {}
            ELSE {[marker |-> <<aggregate>>, about |-> Those(rest, Of),
                   listed |-> Those(Upto(rest, MAX_AGGREGATE_LISTED), Of)]}

isDiffTruncationUnverifiableForClosing(joined, unreviewed, diffTruncated) ==
  diffTruncated /\ (unreviewed # <<>> \/ \E e \in ToSet(joined) : e.kind = "closing")

CriterionComments(criteria) ==
  Comments(criteria, MAX_INDIVIDUAL_CRITERION_BLOCKER_COMMENTS, criterionBlockerCommentMarker,
           "criteria-aggregate", OfCriterion)
IssueComments(issues) ==
  Comments(issues, MAX_INDIVIDUAL_UNREVIEWED_ISSUE_COMMENTS, unreviewedClosingIssueCommentMarker,
           "issues-aggregate", OfIssue)

planBlockerInlineComments(criteria, issues, diff, truncationBlocks) ==
  LET diffs == {<<"diff">>}
      truncated == [marker |-> <<"diff-truncated">>, about |-> diffs, listed |-> diffs]
      comments == CriterionComments(criteria) \cup IssueComments(issues)
                    \cup IF truncationBlocks THEN {truncated} ELSE {}
  IN [comments |-> IF selectDeterministicBlockerAnchor(diff) = None THEN {} ELSE comments,
      anchorFallbackNeeded |-> comments # {} /\ selectDeterministicBlockerAnchor(diff) = None]

\* What a comment in an open thread covers, by the comment it was planned into.
Covered(plan, posted) ==
  UNION {c.about : c \in {c \in plan.comments : c.marker \in posted.unresolved}}

DegradeReason(plan, posted) ==
  IF plan.anchorFallbackNeeded THEN "no-addable-anchor"
  ELSE IF posted.ok THEN "resolved-or-unknown-patched-thread"
  ELSE "anchor-rejected-422"

Ascending(S) == SetToSortSeq(S, LAMBDA m, n : m < n)

\* What the comments leave over: posted is what became of the plan.
LeftToSummary(criteria, issues, truncation, plan, covered, posted) ==
  LET leftCriteria == SelectSeq(criteria, LAMBDA e : OfCriterion(e) \notin covered)
      leftIssues == SelectSeq(issues, LAMBDA u : OfIssue(u) \notin covered)
      leftTruncation == truncation /\ <<"diff">> \notin covered
      count == Len(criteria) + Len(issues) + IF truncation THEN 1 ELSE 0
      inline == \/ count = 0
                \/ /\ ~plan.anchorFallbackNeeded /\ posted.ok
                   /\ leftCriteria = <<>> /\ leftIssues = <<>> /\ ~leftTruncation
  IN [postedInline |-> inline, plan |-> plan,
      degradeReason |-> IF inline THEN None ELSE DegradeReason(plan, posted),
      currentApplicableBlockerCount |-> count,
      fallbackCriterionBlockers |-> IF inline THEN <<>> ELSE leftCriteria,
      fallbackUnreviewedClosingIssues |-> IF inline THEN <<>> ELSE leftIssues,
      fallbackDiffTruncation |-> ~inline /\ leftTruncation]

PostsPlan(criteria, issues, truncation, plan, posted) ==
  LeftToSummary(criteria, issues, truncation, plan, Covered(plan, posted), posted)

PostsBlockers(criteria, issues, truncation, diff, posted) ==
  PostsPlan(criteria, issues, truncation,
            planBlockerInlineComments(criteria, issues, diff, truncation), posted)

\* The blockers that still apply, those left to the summary, and the issues whose blockers
\* no longer apply.
tryPostBlockersInline(a, joined, diffTruncated, now, diff, posted) ==
  LET Closes(x) == x.issueNumber \in now.closing
      blockers == SelectSeq(joined, LAMBDA e : deriveSeverity(e) = "blocker")
      issues == SelectSeq(a.unreviewedClosingIssues, Closes)
      truncation ==
        isDiffTruncationUnverifiableForClosing(SelectSeq(joined, Closes), issues, diffTruncated)
      gone == (IssuesOf(blockers) \cup IssuesOf(a.unreviewedClosingIssues)) \ now.closing
  IN PostsBlockers(SelectSeq(blockers, Closes), issues, truncation, diff, posted)
       @@ [staleBlockerIssueNumbers |-> Ascending(gone \ now.referenced),
           downgradedClosingBlockerIssueNumbers |-> Ascending(gone \cap now.referenced)]

-----------------------------------------------------------------------------
(* Lists of issues, in characters.                                         *)

Digits(n) == Cardinality({k \in 0 .. 9 : k = 0 \/ n >= 10 ^ k})

\* "#1, #22 (and 3 more)", "(5 issue(s) omitted)", or "#1, #22"
ListLength(numbers, shown) ==
  LET left == Len(numbers) - shown
  IN Total(Upto(numbers, shown), LAMBDA n : Digits(n) + 1)
       + (IF shown > 0 THEN 2 * (shown - 1) ELSE 0)
       + CASE left = 0 -> 0
           [] left > 0 /\ shown = 0 -> 19 + Digits(left)
           [] OTHER -> 12 + Digits(left)

\* The most that has room; None if not even the shortest has.
renderCappedIssueNumberList(numbers, maxLength) ==
  LET room == {k \in 0 .. Len(numbers) : ListLength(numbers, k) <= maxLength}
      shown == CHOOSE k \in room : \A h \in room : h <= k
  IN IF room = {} THEN None
     ELSE [listed |-> Upto(numbers, shown), omitted |-> Len(numbers) - shown,
           usedLength |-> ListLength(numbers, shown)]

\* What is left of the budget is the second list's; its shortest form is set aside first.
splitSkippedBlockerNoteBudget(stale, downgraded) ==
  LET least == IF downgraded = <<>> THEN 0 ELSE 19 + Digits(Len(downgraded))
      staleMax == MAX_SKIPPED_BLOCKER_ISSUE_NUMBERS_LIST_LENGTH - least
      used == renderCappedIssueNumberList(stale, staleMax).usedLength
      rest == MAX_SKIPPED_BLOCKER_ISSUE_NUMBERS_LIST_LENGTH - used
  IN [staleMaxListLength |-> staleMax, downgradedMaxListLength |-> IF rest < 0 THEN 0 ELSE rest]

SkippedNotes(stale, downgraded) ==
  LET budget == splitSkippedBlockerNoteBudget(stale, downgraded)
  IN [stale |-> renderCappedIssueNumberList(stale, budget.staleMaxListLength),
      downgraded |-> renderCappedIssueNumberList(downgraded, budget.downgradedMaxListLength)]

-----------------------------------------------------------------------------
(* The summary.                                                            *)

\* A list with room for some of it: what is listed, and how many are not.
Capped(s, Size(_), budget) ==
  LET listed == Fitting(s, Size, budget)
  IN [listed |-> listed, omitted |-> Len(s) - Len(listed)]

FindingsList(findings, budget) == Capped(findings, formatRationaleForDisplay, budget)
FindingsLength(told) ==
  Total(told.listed, formatRationaleForDisplay) + Len(told.listed)
    + IF told.omitted > 0 THEN 1 ELSE 0

buildAnchorFallbackSummarySupplement(r) ==
  LET criteria == r.fallbackCriterionBlockers
      issues == r.fallbackUnreviewedClosingIssues
      ownCriteria == Upto(criteria, MAX_INDIVIDUAL_CRITERION_BLOCKER_COMMENTS)
      ownIssues == Upto(issues, MAX_INDIVIDUAL_UNREVIEWED_ISSUE_COMMENTS)
      diff == IF r.fallbackDiffTruncation THEN {<<"diff">>} ELSE {}
  IN [listed |-> Those(ownCriteria, OfCriterion) \cup Those(ownIssues, OfIssue) \cup diff,
      moreCriteria |-> Len(criteria) - Len(ownCriteria),
      moreIssues |-> Len(issues) - Len(ownIssues),
      length |-> IF criteria = <<>> /\ issues = <<>> /\ diff = {} THEN 0
                 ELSE 1 + Total(ownCriteria, formatRationaleForDisplay) + Len(ownIssues)
                        + Cardinality(diff) + (IF criteria # ownCriteria THEN 1 ELSE 0)
                        + IF issues # ownIssues THEN 1 ELSE 0]

\* A line to an issue.
buildCriteriaProvenanceSection(provenance) ==
  IF provenance = None THEN None
  ELSE Capped(provenance, LAMBDA n : 1, MAX_PROVENANCE_LIST_LENGTH)

\* What is said where there is nothing to say.
Clear(a, diffTruncated, findings, nothing) ==
  IF findings # <<>> \/ ~nothing THEN None
  ELSE IF a.truncated \/ diffTruncated THEN "not confirmed" ELSE "all"

buildSpecGroundingSummaryCommentBody(a, joined, diffTruncated, r, now, maxFindings) ==
  LET skipped ==
        ToSet(r.staleBlockerIssueNumbers) \cup ToSet(r.downgradedClosingBlockerIssueNumbers)
      Skipped(x) == x.issueNumber \in skipped
      blockers == SelectSeq(joined, LAMBDA e : deriveSeverity(e) = "blocker")
      others == SelectSeq(joined, LAMBDA e : deriveSeverity(e) # "blocker")
      findings == SelectSeq(others, LAMBDA e : e.issueNumber \in now.referenced)
      nothing == /\ r.currentApplicableBlockerCount = 0 /\ skipped = {} /\ others = <<>>
      told == FindingsList(findings, maxFindings)
      fixed == 3 + (IF a.truncated \/ diffTruncated THEN 1 ELSE 0)
                 + IF findings # <<>> \/ nothing THEN 1 ELSE 0
  IN [caution |-> {x \in {"criteria", "diff"} : IF x = "diff" THEN diffTruncated ELSE a.truncated},
      blocking |-> r.currentApplicableBlockerCount,
      where |-> IF r.currentApplicableBlockerCount = 0 THEN None
                ELSE IF r.postedInline THEN "inline" ELSE r.degradeReason,
      skippedCount |-> Len(SelectSeq(blockers, Skipped))
                         + Len(SelectSeq(a.unreviewedClosingIssues, Skipped)),
      findings |-> told,
      clear |-> Clear(a, diffTruncated, findings, nothing),
      length |-> fixed + FindingsLength(told)]

\* The findings give way to the fixed sections; None if those alone are too long.
assembleSpecGroundingSummaryCommentBody(a, joined, diffTruncated, r, now, suffix) ==
  LET Base(b) == buildSpecGroundingSummaryCommentBody(a, joined, diffTruncated, r, now, b)
      limit == MAX_SPEC_GROUNDING_SUMMARY_COMMENT_LENGTH
      Greater(m, n) == IF m > n THEN m ELSE n
      Lesser(m, n) == IF m < n THEN m ELSE n
      budget[b \in Nat] ==
        LET overflow == Base(b).length + suffix - limit
        IN IF overflow <= 0 THEN b
           ELSE budget[Greater(0, b - overflow - MAX_RATIONALE_DISPLAY_LENGTH)]
  IN IF Base(0).length + suffix > limit THEN None
     ELSE Base(budget[Lesser(MAX_FINDINGS_LIST_LENGTH, limit - suffix)])

\* Reasons are of one length.
buildSpecGroundingFallbackCommentBody(count) ==
  LET room == MAX_REASONS_LIST_LENGTH
  IN [listed |-> IF count > room THEN room ELSE count,
      omitted |-> IF count > room THEN count - room ELSE 0]

findUnreviewedNewClosingReferences(a, now) ==
  now.closing \ (ToSet(a.reviewedClosingIssueNumbers) \cup IssuesOf(a.unreviewedClosingIssues))

Fallback(reasons) ==
  [fallback |-> buildSpecGroundingFallbackCommentBody(reasons), exitCode |-> 1]

Suffix(r, supplement, provenance, advice) ==
  supplement.length + advice
    + (IF r.staleBlockerIssueNumbers = <<>> THEN 0 ELSE 1)
    + (IF r.downgradedClosingBlockerIssueNumbers = <<>> THEN 0 ELSE 1)
    + IF provenance = None THEN 1 ELSE 3 + Len(provenance.listed)

WritesSummaryOf(a, joined, diffTruncated, r, now, supplement, provenance, suffix) ==
  [fallback |-> None, inline |-> r,
   body |-> assembleSpecGroundingSummaryCommentBody(a, joined, diffTruncated, r, now, suffix),
   supplement |-> supplement, suffixLength |-> suffix,
   notes |-> SkippedNotes(r.staleBlockerIssueNumbers, r.downgradedClosingBlockerIssueNumbers),
   provenance |-> provenance, exitCode |-> IF r.postedInline THEN 0 ELSE 1]

SummarizesPosts(a, joined, diffTruncated, r, now, advice) ==
  LET supplement == buildAnchorFallbackSummarySupplement(r)
      provenance == buildCriteriaProvenanceSection(a.linkedIssueProvenance)
  IN WritesSummaryOf(a, joined, diffTruncated, r, now, supplement, provenance,
                     Suffix(r, supplement, provenance, advice))

PublishesJoined(a, joined, diffTruncated, now, diff, posted) ==
  SummarizesPosts(a, joined, diffTruncated,
                  tryPostBlockersInline(a, joined, diffTruncated, now, diff, posted),
                  now, posted.advice)

publishSummary(a, diffTruncated, raw, now, diff, posted) ==
  LET errors == parseAndValidateVerdict(raw)
      new == Cardinality(findUnreviewedNewClosingReferences(a, now))
  IN IF errors > 0 THEN Fallback(errors) ELSE IF new > 0 THEN Fallback(new)
     ELSE PublishesJoined(a, joinFindingsToSpine(a.entries, raw.findings), diffTruncated,
                          now, diff, posted)

-----------------------------------------------------------------------------
(* Notes on threads.  A thread is [issueNumber, digest, generation, ours,  *)
(* note, resolved, patch]; note is the activity of the issue it names, or  *)
(* None; patch is what a call to change it answers.  An issue is [body,    *)
(* updatedAt], or None if it cannot be read.                               *)

\* Anywhere in the issue, code and comments too; as many repetitions as may be shown.
computePresentCriterionDigests(body) ==
  LET texts == {extractCheckboxLineText(body.lines[i]) : i \in DOMAIN body.lines} \ {None}
  IN [complete |-> Len(body.lines) <= MAX_ANNOTATION_SCAN_LINES,
      digests |-> (0 .. MAX_CRITERIA_PER_ISSUE - 1) \X texts]

\* The threads that this run may change: not those of a later one.
AnnotationCandidates(threads, closing, generation) ==
  SelectSeq(Places(threads),
    LAMBDA k : /\ threads[k].ours /\ threads[k].generation # None
               /\ threads[k].generation <= generation /\ threads[k].digest # None
               /\ threads[k].issueNumber \in closing)

desiredNote(thread, issue) ==
  IF thread.digest \in computePresentCriterionDigests(issue.body).digests THEN None
  ELSE issue.updatedAt

\* One thread; the pass stops at its first refused call, but for a thread that is gone.
AnnotatesThread(s, k, issue) ==
  LET thread == s.threads[k]
      desired == desiredNote(thread, issue)
      tried == [s EXCEPT !.patches = @ + 1]
  IN IF s.pc # "reads" \/ desired = thread.note THEN s
     ELSE IF s.patches >= MAX_ANNOTATION_PATCHES THEN [s EXCEPT !.pc = "full"]
     ELSE CASE thread.patch = "gone" -> tried
            [] thread.patch = "fails" -> [tried EXCEPT !.pc = "thrown"]
            [] OTHER -> [tried EXCEPT !.threads[k].note = desired]

\* One issue after another, from one that the run's number chooses.
annotateStaleCriterionBlockerComments(threads, issues, closing, generation, found) ==
  LET candidates == AnnotationCandidates(threads, closing, generation)
      unresolved == SelectSeq(candidates, LAMBDA k : ~threads[k].resolved)
      numbers == Ascending({threads[unresolved[h]].issueNumber : h \in DOMAIN unresolved})
      rotation == generation % Len(numbers)
      rotated == Beyond(numbers, rotation) \o Upto(numbers, rotation)
      processed == Upto(rotated, MAX_ANNOTATION_ISSUE_FETCHES)
      Reads(s, n) ==
        LET issue == issues[n]
            own == SelectSeq(unresolved, LAMBDA k : threads[k].issueNumber = n)
            t == FoldLeft(LAMBDA u, k : AnnotatesThread(u, k, issue), s, own)
        IN IF s.pc = "full" THEN [s EXCEPT !.skipped = @ \cup {n}]
           ELSE IF s.pc # "reads" THEN s
           ELSE IF issue = None THEN [s EXCEPT !.skipped = @ \cup {n}]
           ELSE IF ~computePresentCriterionDigests(issue.body).complete
           THEN [s EXCEPT !.skipped = @ \cup {n}]
           ELSE IF t.pc = "full" THEN [t EXCEPT !.skipped = @ \cup {n}] ELSE t
      begun == [threads |-> threads, patches |-> 0, pc |-> "reads",
                skipped |-> ToSet(Beyond(rotated, MAX_ANNOTATION_ISSUE_FETCHES))]
  IN IF ~found THEN [begun EXCEPT !.skipped = {threads[k].issueNumber : k \in ToSet(candidates)}]
     ELSE IF numbers = <<>> THEN [begun EXCEPT !.skipped = {}]
     ELSE FoldLeft(Reads, begun, processed)

-----------------------------------------------------------------------------
(* What a reader of the pull request relies on.                            *)

\* What blocks it, from the verdict itself.
Obligations(a, diffTruncated, raw, now) ==
  LET Met(e) == \E f \in ToSet(raw.findings) : f.criterionId = e.criterionId /\ f.satisfied = "yes"
      criteria == {e \in ToSet(a.entries) : e.kind = "closing" /\ e.issueNumber \in now.closing}
      issues == {u \in ToSet(a.unreviewedClosingIssues) : u.issueNumber \in now.closing}
  IN {OfCriterion(e) : e \in {e \in criteria : ~Met(e)}} \cup {OfIssue(u) : u \in issues}
       \cup IF diffTruncated /\ criteria \cup issues # {} THEN {<<"diff">>} ELSE {}

\* Every blocker that applies is in an open thread, which names it or counts it, or in the
\* summary, and their number is the one the summary says; it says that they are inline, and
\* the job succeeds, only if all of them are.  No two comments are taken for one another.
BlockersShown(a, diffTruncated, raw, now, shown, posted) ==
  LET owed == Obligations(a, diffTruncated, raw, now)
      open == {c \in shown.inline.plan.comments : c.marker \in posted.unresolved}
      inThreads == UNION {c.about : c \in open}
      left == owed \ inThreads
      told == shown.supplement
  IN /\ inThreads \subseteq owed /\ shown.body.blocking = Cardinality(owed)
     /\ shown.exitCode = 0 => left = {}
     /\ shown.body.where = "inline" => left = {} /\ owed # {}
     /\ shown.body.where = None <=> owed = {}
     /\ shown.exitCode # 0 =>
          /\ told.listed \subseteq left
          /\ Cardinality(left) = Cardinality(told.listed) + told.moreCriteria + told.moreIssues
     /\ \A c \in open : c.listed \subseteq c.about /\ c.listed # {}
     /\ \A c, d \in shown.inline.plan.comments : c.marker = d.marker => c = d

\* Every other criterion of an issue that is still referred to is told with its outcome, or
\* counted; the rest of what blocked at the review is told as such, once; all is clear only
\* if there was nothing to review and nothing was cut.
RestTold(a, diffTruncated, raw, now, shown) ==
  LET Finding(e) == \E f \in ToSet(raw.findings) : f.criterionId = e.criterionId
      Met(e) == \E f \in ToSet(raw.findings) : f.criterionId = e.criterionId /\ f.satisfied = "yes"
      blocked == {e \in ToSet(a.entries) : e.kind = "closing" /\ ~Met(e)}
      others == {e \in ToSet(a.entries) \ blocked : e.issueNumber \in now.referenced}
      told == shown.body.findings
      stale == ToSet(shown.inline.staleBlockerIssueNumbers)
      downgraded == ToSet(shown.inline.downgradedClosingBlockerIssueNumbers)
      lapsed == {x \in blocked \cup ToSet(a.unreviewedClosingIssues) :
                   x.issueNumber \notin now.closing}
  IN /\ Len(told.listed) + told.omitted = Cardinality(others)
     /\ \A t \in ToSet(told.listed) :
          \E e \in others : /\ e.criterionId = t.criterionId /\ t.satisfied = Met(e)
                            /\ t.addressedByReviewer = Finding(e)
     /\ stale \cap now.referenced = {} /\ downgraded \subseteq now.referenced \ now.closing
     /\ stale \cup downgraded = {x.issueNumber : x \in lapsed}
     /\ shown.body.skippedCount = Cardinality(lapsed)
     /\ shown.body.clear = "all" =>
          a.entries = <<>> /\ a.unreviewedClosingIssues = <<>> /\ ~a.truncated /\ ~diffTruncated
     /\ shown.body.length + shown.suffixLength <= MAX_SPEC_GROUNDING_SUMMARY_COMMENT_LENGTH

NotesCount(notes, stale, downgraded) ==
  LET Whole(note, numbers) == note # None /\ Len(note.listed) + note.omitted = Len(numbers)
  IN /\ Whole(notes.stale, stale) /\ Whole(notes.downgraded, downgraded)
     /\ notes.stale.usedLength + notes.downgraded.usedLength
          <= MAX_SKIPPED_BLOCKER_ISSUE_NUMBERS_LIST_LENGTH

\* The two lists share their budget, and no issue goes uncounted in either.
NotesFit(stale, downgraded) == NotesCount(SkippedNotes(stale, downgraded), stale, downgraded)

ShownHonestly(a, diffTruncated, raw, now, shown, posted) ==
  LET Sound == /\ raw.form = "object" /\ Len(raw.findings) <= MAX_FINDINGS
               /\ \A f \in ToSet(raw.findings) : f.form = "finding" /\ validateFinding(f)
               /\ NoDuplicates([k \in DOMAIN raw.findings |-> raw.findings[k].criterionId])
      known == IssuesOf(a.unreviewedClosingIssues) \cup ToSet(a.reviewedClosingIssueNumbers)
  IN IF Sound /\ now.closing \subseteq known
     THEN /\ shown.fallback = None /\ shown.body # None
          /\ BlockersShown(a, diffTruncated, raw, now, shown, posted)
          /\ RestTold(a, diffTruncated, raw, now, shown)
          /\ NotesFit(shown.inline.staleBlockerIssueNumbers,
                      shown.inline.downgradedClosingBlockerIssueNumbers)
     ELSE /\ shown.fallback # None /\ shown.fallback.listed > 0 /\ shown.exitCode = 1

\* A verdict with any flaw is shown as none, its flaws all told or counted; nor is one that
\* leaves out an issue closed since.  Whatever else the agent says, the summary is of the
\* spine (publish-spec-grounding-verdict.mts:1549).
ReportHonest(a, diffTruncated, raw, now, diff, posted) ==
  ShownHonestly(a, diffTruncated, raw, now,
                publishSummary(a, diffTruncated, raw, now, diff, posted), posted)

\* The anchor is the first line that the pull request adds, by its place in the new file,
\* whatever that line or those before it look like, and if the diff ends early too.
\* files: [path, hunks]; a hunk is [start, lines].
Rendered(files) ==
  LET Plain(mark) == [mark |-> mark, looks |-> "", path |-> None, old |-> 0, start |-> 0, new |-> 0]
      Count(h, marks) == Len(SelectSeq(h.lines, LAMBDA l : l.mark \in marks))
      Hunk(h) ==
        <<[Plain("@") EXCEPT !.looks = "hunk", !.start = h.start, !.old = Count(h, {" ", "-"}),
                             !.new = Count(h, {" ", "+"})]>> \o h.lines
      File(f) == <<Plain("diff"), Plain("-"),
                   [Plain("+") EXCEPT !.looks = "file", !.path = f.path]>>
                   \o FlattenSeq([k \in DOMAIN f.hunks |-> Hunk(f.hunks[k])])
  IN FlattenSeq([k \in DOMAIN files |-> File(files[k])])

AnchorTrue(files, length) ==
  LET \* <<file, hunk, line>> of every addition to a file that is there
      added == {<<i, h, l>> \in (DOMAIN files) \X (1 .. 3) \X (1 .. 4) :
                  /\ files[i].path # None /\ h \in DOMAIN files[i].hunks
                  /\ l \in DOMAIN files[i].hunks[h].lines
                  /\ files[i].hunks[h].lines[l].mark = "+"}
      Before(p, q) == \/ p[1] < q[1]
                      \/ p[1] = q[1] /\ p[2] < q[2]
                      \/ p[1] = q[1] /\ p[2] = q[2] /\ p[3] < q[3]
      p == CHOOSE p \in added : \A q \in added \ {p} : Before(p, q)
      hunk == files[p[1]].hunks[p[2]]
      place == Len(Rendered(SubSeq(files, 1, p[1] - 1)))
                 + Len(Rendered(<<[files[p[1]] EXCEPT !.hunks = Upto(@, p[2] - 1)]>>)) + 1 + p[3]
      anchor == selectDeterministicBlockerAnchor(Upto(Rendered(files), length))
  IN IF added = {} \/ place > length THEN anchor = None
     ELSE anchor = [path |-> files[p[1]].path,
                    line |-> hunk.start + Len(SelectSeq(Upto(hunk.lines, p[3] - 1),
                                                        LAMBDA l : l.mark \in {"+", " "}))]

PassTrue(pass, threads, issues, closing, generation) ==
  LET Asked(t) == \E i \in DOMAIN issues[t.issueNumber].body.lines :
                    LET line == issues[t.issueNumber].body.lines[i]
                    IN line.kind = "checkbox" /\ line.words = t.digest[2]
      Ours(t) == /\ t.ours /\ t.digest # None /\ ~t.resolved /\ t.issueNumber \in closing
                 /\ t.generation # None /\ t.generation <= generation
  IN /\ pass.patches <= MAX_ANNOTATION_PATCHES
     /\ pass.pc = "full" => pass.patches = MAX_ANNOTATION_PATCHES
     /\ \A k \in DOMAIN threads :
          LET t == pass.threads[k]
          IN /\ [t EXCEPT !.note = None] = [threads[k] EXCEPT !.note = None]
             /\ t.note # threads[k].note => Ours(t)
             /\ Ours(t) /\ t.issueNumber \notin pass.skipped /\ pass.pc # "thrown"
                  /\ t.patch = "ok" => (t.note = None) = Asked(t)

\* After a pass a thread has a note if and only if its text is no longer asked for, but for
\* those of a skipped issue, and other threads are as they were; no more calls than allowed.
NotesTrue(threads, issues, closing, generation, found) ==
  PassTrue(annotateStaleCriterionBlockerComments(threads, issues, closing, generation, found),
           threads, issues, closing, generation)
=============================================================================

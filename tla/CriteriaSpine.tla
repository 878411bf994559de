--------------------------- MODULE CriteriaSpine ----------------------------
(***************************************************************************)
(* What the spec-grounded review is asked, and what its runner tells the   *)
(* publisher (scripts/factory/spec-grounding-logic.mts and                 *)
(* spec-grounding-runner-logic.mts): the issues a pull request refers to,  *)
(* their unmet criteria, the block of text the agent reads, cut at a       *)
(* budget, the spine of criteria that survive the cut, what was left out,  *)
(* and the publisher's check of the artifact that says so.                 *)
(*                                                                         *)
(* A text is [lines, plain]: plain if it is too long for the Markdown      *)
(* parser, or stops it.  A line is [kind, level, checked, words, lost]:    *)
(* kind is "text", "blank", "checkbox", "heading", "ac heading", "fence"   *)
(* or "indented code"; lost if the parser's code spans of its paragraph    *)
(* cannot be found in it.  A word is [sort, code, kind, repo, number]:     *)
(* sort is "prose", "opens" or "closes" for the marks of an HTML comment,  *)
(* or "ref" for a keyword and an issue; code if it is in a code span.      *)
(* Numbers that are no issue's are 0.                                      *)
(***************************************************************************)
EXTENDS Integers, FiniteSets, SequencesExt, Absent

CONSTANTS
  MAX_LINKED_ISSUES,       \* references that are looked up
  MAX_CRITERIA_PER_ISSUE   \* criteria of one issue that are shown

SpineWord(numbers) ==
  [sort : {"prose", "opens", "closes", "ref", "space"}, code : BOOLEAN,
   kind : {"", "closing", "non-closing"}, repo : {"", "this", "other"}, number : {0} \cup numbers]
SpineLine(numbers) ==
  [kind : {"text", "blank", "checkbox", "heading", "ac heading", "fence", "indented code"},
   level : Nat, checked : BOOLEAN, words : Seq(SpineWord(numbers)), lost : BOOLEAN]
SpineText(numbers) == [lines : Seq(SpineLine(numbers)), plain : BOOLEAN]

CriteriaSpineArtifact ==
  [entries : Seq([issueNumber : Nat, kind : {"closing", "non-closing"},
                  criterionId : Nat \X Nat, criterionDigest : Nat \X Seq(SpineWord(Nat))]),
   truncated : BOOLEAN,
   unreviewedClosingIssues :
     Seq([issueNumber : Nat, truncationKind : {"fully-dropped", "partially-truncated"}]),
   reviewedClosingIssueNumbers : Seq(Nat), linkedIssueProvenance : Seq(Nat)]

ASSUME SpineAssumption ==
  /\ MAX_LINKED_ISSUES \in Nat \ {0} /\ MAX_CRITERIA_PER_ISSUE \in Nat \ {0}
  /\ None \notin Seq(SpineWord(Nat)) /\ None \notin CriteriaSpineArtifact

\* A pull request and what the lookup of any number it mentions answers.
ProperInput(pr, issues, budget) ==
  /\ DOMAIN issues \subseteq Nat \ {0}
  /\ issues \in [DOMAIN issues -> SpineText(Nat) \cup {None}]
  /\ pr \in [body : SpineText(DOMAIN issues), sources : Seq(Seq(SpineLine(DOMAIN issues)))]
  /\ budget \in Nat

\* What of a list is in S, in its order.
Only(list, S) == FlattenSeq([k \in DOMAIN list |-> IF list[k] \in S THEN <<list[k]>> ELSE <<>>])

-----------------------------------------------------------------------------
(* The structural view: the text with its code and comments blanked.       *)

Space == [sort |-> "space", code |-> FALSE, kind |-> "", repo |-> "", number |-> 0]

\* A fence covers its lines up to one at least as long, or to the end.
CodeLines(lines) ==
  LET Step(s, i) ==
        IF s.run > 0
        THEN [run |-> IF /\ lines[i].kind = "fence" /\ lines[i].words = <<>>
                         /\ lines[i].level >= s.run
                      THEN 0 ELSE s.run,
              covered |-> s.covered \cup {i}]
        ELSE IF lines[i].kind \in {"fence", "indented code"}
        THEN [run |-> IF lines[i].kind = "fence" THEN lines[i].level ELSE 0,
              covered |-> s.covered \cup {i}]
        ELSE s
  IN FoldLeft(Step, [run |-> 0, covered |-> {}], [i \in DOMAIN lines |-> i]).covered

\* Positions <<line, word>>; word 0 is what makes the line a heading or a checkbox.
Positions(lines) ==
  FlattenSeq([i \in DOMAIN lines |-> [j \in 1 .. Len(lines[i].words) + 1 |-> <<i, j - 1>>]])

CodePositions(lines) ==
  LET covered == CodeLines(lines)
      at == Positions(lines)
  IN {p \in ToSet(at) :
        \/ p[1] \in covered
        \/ p[2] > 0 /\ lines[p[1]].words[p[2]].code /\ ~lines[p[1]].lost}

\* What the k-th position is within.  A comment runs from an opening mark to the next
\* closing one; one that opens on a protected line is left as it is.
Within(lines, code, protected) ==
  LET at == Positions(lines)
      Mark(k, sort) ==
        /\ at[k][2] > 0 /\ at[k] \notin code
        /\ lines[at[k][1]].words[at[k][2]].sort = sort
      Opens(k) == Mark(k, "opens") /\ \E m \in k + 1 .. Len(at) : Mark(m, "closes")
      within[k \in DOMAIN at] ==
        LET before == IF k = 1 \/ Mark(k - 1, "closes") THEN "text" ELSE within[k - 1]
        IN IF before # "text" THEN before
           ELSE IF ~Opens(k) THEN "text"
           ELSE IF at[k][1] \in protected THEN "kept" ELSE "comment"
  IN within

stripUnprotectedHtmlComments(lines, code, protected) ==
  LET at == Positions(lines)
      within == Within(lines, code, protected)
  IN {at[k] : k \in {m \in DOMAIN at : within[m] = "comment"}}

\* Every hidden character becomes a space.
Hide(lines, hidden) ==
  [i \in DOMAIN lines |->
     [lines[i] EXCEPT
        !.kind = IF <<i, 0>> \in hidden THEN "blank" ELSE @,
        !.words = [j \in DOMAIN @ |-> IF <<i, j>> \in hidden THEN Space ELSE @[j]]]]

\* FAULT: comments first, marks in code among them.
CommentsFirst(text) ==
  LET lines == text.lines
      code == IF text.plain THEN {} ELSE CodePositions(lines)
  IN Hide(lines, code \cup stripUnprotectedHtmlComments(lines, {}, {}))

\* Code first, then comments: a mark in code is none.
buildStructuralView(text) ==
  LET lines == text.lines
      code == IF text.plain THEN {} ELSE CodePositions(lines)
      protected == IF text.plain THEN {} ELSE {i \in DOMAIN lines : lines[i].lost}
  IN Hide(lines, code \cup stripUnprotectedHtmlComments(lines, code, protected))

-----------------------------------------------------------------------------
(* References and criteria.                                                *)

\* The references in order of first appearance; one that closes is not weakened by one
\* that does not.
scanIssueReferencesInto(words) ==
  LET Ours(k) == words[k].sort = "ref" /\ words[k].repo \in {"", "this"} /\ words[k].number > 0
      First(k) == Ours(k) /\ \A j \in 1 .. k - 1 : Ours(j) => words[j].number # words[k].number
      Closes(n) == \E k \in DOMAIN words : Ours(k) /\ words[k].number = n /\ words[k].kind = "closing"
      found == Only([k \in DOMAIN words |-> k], {k \in DOMAIN words : First(k)})
  IN [i \in DOMAIN found |->
        LET n == words[found[i]].number
        IN [issueNumber |-> n, kind |-> IF Closes(n) THEN "closing" ELSE "non-closing"]]

WordsOf(lines) == FlattenSeq([i \in DOMAIN lines |-> lines[i].words])

\* The body through its view; commit messages and title as they are.
parseLinkedIssueReferences(body, plainSources) ==
  LET texts == <<buildStructuralView(body)>> \o plainSources
  IN scanIssueReferencesInto(FlattenSeq([k \in DOMAIN texts |-> WordsOf(texts[k])]))

\* The text after a checkbox, if it has any.
extractCheckboxLineText(line) ==
  IF line.kind = "checkbox" /\ line.words # <<>> THEN line.words ELSE None

Least(S) == CHOOSE i \in S : \A j \in S : i <= j

CriteriaAt(lines, boxes) ==
  [k \in DOMAIN boxes |-> [text |-> extractCheckboxLineText(lines[boxes[k]]),
                           checked |-> lines[boxes[k]].checked]]

CriteriaOf(view, lines) ==
  LET heads == {i \in DOMAIN view : view[i].kind = "ac heading"}
      first == Least(heads)
      Ends(i) == view[i].kind \in {"heading", "ac heading"} /\ view[i].level <= view[first].level
      last == Least({i \in first + 1 .. Len(view) : Ends(i)} \cup {Len(view) + 1}) - 1
      boxes == Only([k \in 1 .. last - first |-> first + k],
                    {i \in DOMAIN view : /\ view[i].kind = "checkbox"
                                         /\ extractCheckboxLineText(lines[i]) # None})
  IN IF heads = {} THEN <<>> ELSE CriteriaAt(lines, boxes)

\* The checkboxes between the first acceptance-criteria heading and the next heading
\* of its level or above; their text is the original one.
parseAcceptanceCriteria(body) == CriteriaOf(buildStructuralView(body), body.lines)

selectIssuesToFetch(references) ==
  SubSeq(references, 1, IF Len(references) < MAX_LINKED_ISSUES THEN Len(references)
                        ELSE MAX_LINKED_ISSUES)

TextsOf(criteria) == [k \in DOMAIN criteria |-> criteria[k].text]

Unmet(body) ==
  LET criteria == parseAcceptanceCriteria(body)
  IN TextsOf(Only(criteria, {c \in ToSet(criteria) : ~c.checked}))

Surplus(n, limit) == IF n > limit THEN n - limit ELSE 0

IssueSpec(r, unmet) ==
  LET left == Surplus(Len(unmet), MAX_CRITERIA_PER_ISSUE)
  IN [issueNumber |-> r.issueNumber, kind |-> r.kind,
      unmetCriteria |-> SubSeq(unmet, 1, Len(unmet) - left), truncatedCriteriaCount |-> left]

\* issues: number -> body, None if the lookup answers that there is none.
Fetched(references, issues) ==
  LET asked == selectIssuesToFetch(references)
  IN Only(asked, {r \in ToSet(asked) : issues[r.issueNumber] # None})

IssueSpecs(fetched, issues) ==
  LET asking == Only(fetched, {r \in ToSet(fetched) : Unmet(issues[r.issueNumber]) # <<>>})
  IN [k \in DOMAIN asking |-> IssueSpec(asking[k], Unmet(issues[asking[k].issueNumber]))]

buildLinkedIssueSpecs(references, issues) ==
  [specs |-> IssueSpecs(Fetched(references, issues), issues),
   truncatedIssueCount |-> Surplus(Len(references), MAX_LINKED_ISSUES)]

-----------------------------------------------------------------------------
(* The block the agent reads, in lines of two units each: a budget that is *)
(* odd cuts a line in half.                                                *)

Line(sort) == [line |-> sort, issue |-> 0, index |-> 0, text |-> <<>>]

\* The marker of a criterion is its issue and its place there; criterionId is the same pair.
CriterionLine(n, i, text) == [line |-> "criterion", issue |-> n, index |-> i, text |-> text]

\* The lines before the cut.
BodyLines(result) ==
  LET Section(spec) ==
        <<Line("issue")>>
          \o [i \in DOMAIN spec.unmetCriteria |->
                CriterionLine(spec.issueNumber, i, spec.unmetCriteria[i])]
          \o (IF spec.truncatedCriteriaCount > 0 THEN <<Line("more criteria")>> ELSE <<>>)
          \o <<Line("blank")>>
  IN <<Line("preamble")>>
       \o FlattenSeq([k \in DOMAIN result.specs |-> Section(result.specs[k])])
       \o (IF result.truncatedIssueCount > 0 THEN <<Line("more issues")>> ELSE <<>>)

renderCriteriaDataBlock(result, budget) ==
  LET body == BodyLines(result)
      cut == IF 2 * Len(body) <= budget THEN body
             ELSE SubSeq(body, 1, budget \div 2)
                    \o (IF budget % 2 = 1 THEN <<Line("half")>> ELSE <<>>)
                    \o <<Line("TRUNCATED")>>
  IN IF result.specs = <<>> /\ result.truncatedIssueCount = 0 THEN <<>> ELSE cut

-----------------------------------------------------------------------------
(* The spine: the criteria whose line is in the block as a whole, up to    *)
(* the first that is not.                                                  *)

\* FAULT: repetitions are not told apart.
TextAlone(unmet, i) == <<0, unmet[i]>>

\* A digest tells apart the criteria of one issue, and repetitions of one.
criterionOccurrenceDigest(unmet, i) ==
  <<Cardinality({j \in 1 .. i - 1 : unmet[j] = unmet[i]}), unmet[i]>>

\* All criteria that are asked for, each with the line that shows it.
WantedEntries(specs) ==
  LET Wanted(spec) ==
        [i \in DOMAIN spec.unmetCriteria |->
           [entry |-> [issueNumber |-> spec.issueNumber, kind |-> spec.kind,
                       criterionId |-> <<spec.issueNumber, i>>,
                       criterionDigest |-> criterionOccurrenceDigest(spec.unmetCriteria, i)],
            line |-> CriterionLine(spec.issueNumber, i, spec.unmetCriteria[i])]]
  IN FlattenSeq([k \in DOMAIN specs |-> Wanted(specs[k])])

\* Where the search for the next one starts, 0 once one is not found.
LineCursor(wanted, block) ==
  LET cursor[k \in 0 .. Len(wanted)] ==
        IF k = 0 THEN 1
        ELSE LET from == cursor[k - 1]
                 at == {n \in from .. Len(block) : block[n] = wanted[k].line}
             IN IF from = 0 \/ at = {} THEN 0 ELSE Least(at) + 1
  IN cursor

buildCriteriaSpine(result, block) ==
  LET wanted == WantedEntries(result.specs)
      cursor == LineCursor(wanted, block)
      found == {k \in DOMAIN wanted : cursor[k] # 0}
  IN [k \in 1 .. Cardinality(found) |-> wanted[k].entry]

IssuesOf(entries) == {entries[k].issueNumber : k \in DOMAIN entries}
EntriesOf(entries, n) == {k \in DOMAIN entries : entries[k].issueNumber = n}

Closing(list) == {x \in ToSet(list) : x.kind = "closing"}

\* The closed issues of which nothing, or not everything, is in the spine.
UnreviewedClosing(references, result, spine) ==
  LET fetched == IssuesOf(selectIssuesToFetch(references))
      Short(spec) == Cardinality(EntriesOf(spine, spec.issueNumber))
                       < Len(spec.unmetCriteria) + spec.truncatedCriteriaCount
      neverFetched == Only(references, {r \in Closing(references) : r.issueNumber \notin fetched})
      dropped == Only(result.specs,
                      {s \in Closing(result.specs) : s.issueNumber \notin IssuesOf(spine)})
      partly == Only(result.specs,
                     {s \in Closing(result.specs) : s.issueNumber \in IssuesOf(spine) /\ Short(s)})
      As(kind, s) == [k \in DOMAIN s |-> [issueNumber |-> s[k].issueNumber, truncationKind |-> kind]]
  IN As("fully-dropped", neverFetched) \o As("fully-dropped", dropped)
       \o As("partially-truncated", partly)

computeCriteriaSpineTruncation(references, result, spine) ==
  LET shown == Len(FlattenSeq([k \in DOMAIN result.specs |-> result.specs[k].unmetCriteria]))
  IN [truncated |-> \/ result.truncatedIssueCount > 0
                    \/ \E k \in DOMAIN result.specs : result.specs[k].truncatedCriteriaCount > 0
                    \/ Len(spine) < shown,
      unreviewedClosingIssues |-> UnreviewedClosing(references, result, spine)]

computeReviewedClosingIssueNumbers(references) ==
  LET asked == selectIssuesToFetch(references)
      closing == Only(asked, Closing(asked))
  IN [k \in DOMAIN closing |-> closing[k].issueNumber]

\* The runner's artifact; None without a reference or an unmet criterion.
Artifact(references, result, block, fetched) ==
  LET spine == buildCriteriaSpine(result, block)
      summary == computeCriteriaSpineTruncation(references, result, spine)
  IN IF references = <<>> \/ block = <<>> THEN None
     ELSE [entries |-> spine, truncated |-> summary.truncated,
           unreviewedClosingIssues |-> summary.unreviewedClosingIssues,
           reviewedClosingIssueNumbers |-> computeReviewedClosingIssueNumbers(references),
           linkedIssueProvenance |-> [k \in DOMAIN fetched |-> fetched[k].issueNumber]]

RunnerCuts(references, result, budget, fetched) ==
  Artifact(references, result, renderCriteriaDataBlock(result, budget), fetched)

RunnerReviews(references, issues, budget) ==
  RunnerCuts(references, buildLinkedIssueSpecs(references, issues), budget,
             Fetched(references, issues))

RunnerWrites(pr, issues, budget) ==
  RunnerReviews(parseLinkedIssueReferences(pr.body, pr.sources), issues, budget)

-----------------------------------------------------------------------------
(* The publisher's check of the artifact.  It accepts an artifact if it    *)
(* finds no error; the shapes of JSON values are not modelled.             *)

validateCriteriaSpineEntry(entry) ==
  /\ entry.issueNumber > 0
  /\ entry.kind \in {"closing", "non-closing"}
  /\ entry.criterionId[1] = entry.issueNumber

validateUnreviewedClosingIssue(u) ==
  u.issueNumber > 0 /\ u.truncationKind \in {"fully-dropped", "partially-truncated"}

NoDuplicates(s) == \A j, k \in DOMAIN s : s[j] = s[k] => j = k
EntryIds(entries) == [k \in DOMAIN entries |-> entries[k].criterionId]
EntryDigests(entries) ==
  [k \in DOMAIN entries |-> <<entries[k].issueNumber, entries[k].criterionDigest>>]

Contiguous(entries) ==
  \A n \in IssuesOf(entries) :
    {entries[k].criterionId[2] : k \in EntriesOf(entries, n)} = 1 .. Cardinality(EntriesOf(entries, n))

OneKindEach(entries) ==
  \A j, k \in DOMAIN entries :
    entries[j].issueNumber = entries[k].issueNumber => entries[j].kind = entries[k].kind

\* A dropped issue has no entry; one that was cut short has one, which closes it.
AgreesWith(entries, u) ==
  IF u.truncationKind = "fully-dropped" THEN u.issueNumber \notin IssuesOf(entries)
  ELSE /\ u.issueNumber \in IssuesOf(entries)
       /\ \A k \in EntriesOf(entries, u.issueNumber) : entries[k].kind = "closing"

validateCrossEntryInvariants(a) ==
  LET reviewed == ToSet(a.reviewedClosingIssueNumbers)
      unreviewed == ToSet(a.unreviewedClosingIssues)
  IN /\ OneKindEach(a.entries) /\ Contiguous(a.entries)
     /\ IssuesOf(a.entries) \subseteq ToSet(a.linkedIssueProvenance)
     /\ \A u \in unreviewed : AgreesWith(a.entries, u)
     /\ unreviewed # {} => a.truncated
     /\ a.entries = <<>> => a.truncated \/ unreviewed # {}
     /\ \A k \in DOMAIN a.entries :
          a.entries[k].kind = "closing" => a.entries[k].issueNumber \in reviewed
     /\ \A u \in unreviewed :
          u.truncationKind = "partially-truncated" => u.issueNumber \in reviewed

parseCriteriaSpineArtifact(a) ==
  /\ \A k \in DOMAIN a.entries : validateCriteriaSpineEntry(a.entries[k])
  /\ NoDuplicates(EntryIds(a.entries)) /\ NoDuplicates(EntryDigests(a.entries))
  /\ \A k \in DOMAIN a.unreviewedClosingIssues :
       validateUnreviewedClosingIssue(a.unreviewedClosingIssues[k])
  /\ NoDuplicates([k \in DOMAIN a.unreviewedClosingIssues |->
                     a.unreviewedClosingIssues[k].issueNumber])
  /\ NoDuplicates(a.reviewedClosingIssueNumbers)
  /\ \A k \in DOMAIN a.reviewedClosingIssueNumbers : a.reviewedClosingIssueNumbers[k] > 0
  /\ NoDuplicates(a.linkedIssueProvenance)
  /\ validateCrossEntryInvariants(a)

-----------------------------------------------------------------------------
(* What the review relies on.                                              *)

\* What a reader sees: neither code nor between the marks of a comment.  In a plain text
\* the program knows no code, which its comments accept (spec-grounding-logic.mts:484), and
\* nothing more is asked of it: marks that are code there count as marks.
Openly(text, p) ==
  LET lines == text.lines
      Before(q, r) == q[1] < r[1] \/ (q[1] = r[1] /\ q[2] < r[2])
      MarkAt(q, sort) == q[2] > 0 /\ lines[q[1]].words[q[2]].sort = sort
      Code(q) == ~text.plain /\ (q[1] \in CodeLines(lines) \/ (q[2] > 0 /\ lines[q[1]].words[q[2]].code))
      all == ToSet(Positions(lines))
  IN /\ ~Code(p)
     /\ \A o, c \in all : ~(/\ MarkAt(o, "opens") /\ ~Code(o) /\ MarkAt(c, "closes")
                            /\ ~Before(p, o) /\ ~Before(c, p))

ClosedBy(pr, numbers) ==
  LET Says(w, n) == w.sort = "ref" /\ w.kind = "closing" /\ w.repo # "other" /\ w.number = n
      InBody(n) == \E p \in ToSet(Positions(pr.body.lines)) :
                     /\ p[2] > 0 /\ Says(pr.body.lines[p[1]].words[p[2]], n) /\ Openly(pr.body, p)
      InSources(n) == \E s \in ToSet(pr.sources) : \E line \in ToSet(s) :
                        \E w \in ToSet(line.words) : Says(w, n)
  IN {n \in numbers : InBody(n) \/ InSources(n)}

\* The lines that ask for something: open checkboxes under the first heading of the kind.
Owed(body) ==
  LET lines == body.lines
      Section(h, i) ==
        /\ h < i /\ lines[h].kind = "ac heading" /\ Openly(body, <<h, 0>>)
        /\ \A g \in 1 .. h - 1 : lines[g].kind # "ac heading"
        /\ \A g \in h + 1 .. i - 1 :
             lines[g].kind \in {"heading", "ac heading"} => lines[g].level > lines[h].level
  IN {i \in DOMAIN lines :
        /\ lines[i].kind = "checkbox" /\ ~lines[i].checked /\ lines[i].words # <<>>
        /\ Openly(body, <<i, 0>>) /\ \E h \in DOMAIN lines : Section(h, i)}

\* The artifact has the text as a criterion of the closed issue, or reports the issue.
Tells(a, n, text) ==
  /\ a # None
  /\ \/ \E u \in ToSet(a.unreviewedClosingIssues) : u.issueNumber = n
     \/ \E e \in ToSet(a.entries) :
          e.issueNumber = n /\ e.kind = "closing" /\ e.criterionDigest[2] = text

\* What an issue that the pull request closes still asks for is on the spine, as a
\* criterion of a closed issue, or the issue is reported as not reviewed: whatever is cut,
\* by a count or by the budget in the middle of a line, and wherever code and comments
\* begin and end (spec-grounding-runner-logic.mts:252).
NothingLost(pr, issues, budget) ==
  LET a == RunnerWrites(pr, issues, budget)
  IN \A n \in ClosedBy(pr, DOMAIN issues) :
       issues[n] # None => \A i \in Owed(issues[n]) : Tells(a, n, issues[n].lines[i].words)

AcceptedIfAny(a) == a # None => parseCriteriaSpineArtifact(a)

\* The publisher, which refuses the whole artifact for one contradiction, accepts every
\* artifact that the runner can write (spec-grounding-runner-logic.mts:1192).
ArtifactAccepted(pr, issues, budget) == AcceptedIfAny(RunnerWrites(pr, issues, budget))
=============================================================================

----------------------------- MODULE IssueText ------------------------------
(***************************************************************************)
(* What the triage job reads out of an issue's body without an agent: the  *)
(* acceptance criteria, and whether one delegates what it asks for to      *)
(* another document (scripts/factory/diff-verifiable-ac.mts).              *)
(*                                                                         *)
(* A body is a sequence of lines [kind, level, words].  kind is "text",    *)
(* "blank", "checkbox", "heading", "ac heading", "bold label",             *)
(* "ac bold label", "fence", "comment opens" or "comment closes"; level is *)
(* the number of # of a heading or the run length of a fence; words is the *)
(* sequence of the line's words outside parentheses that the patterns tell *)
(* apart: "relation" for matches, per, see, as defined in..., "reference"  *)
(* for a section, a plan or a file, "code" for a code span, "prose" for    *)
(* any other.                                                              *)
(***************************************************************************)
EXTENDS Integers, Sequences, SequencesExt

Blank == [kind |-> "blank", level |-> 0, words |-> <<>>]

\* A code span becomes spaces, and so hides the words in it.
maskInlineCodeSpans(line) ==
  [line EXCEPT !.words = SelectSeq(line.words, LAMBDA w : w # "code")]

\* A fence hides its lines up to one at least as long, or to the end.
maskFencedCodeBlocks(body) ==
  LET Mask(s, line) ==
        IF s.fence > 0
        THEN [fence |-> IF line.kind = "fence" /\ line.level >= s.fence /\ line.words = <<>>
                        THEN 0 ELSE s.fence,
              out |-> Append(s.out, Blank)]
        ELSE IF line.kind = "fence" THEN [fence |-> line.level, out |-> Append(s.out, Blank)]
        ELSE [s EXCEPT !.out = Append(@, line)]
  IN FoldLeft(Mask, [fence |-> 0, out |-> <<>>], body).out

\* An HTML comment hides its lines up to the next "-->", or to the end.
maskHtmlComments(body) ==
  LET Mask(s, line) ==
        [hidden |-> CASE line.kind = "comment opens" -> TRUE
                      [] line.kind = "comment closes" -> FALSE
                      [] OTHER -> s.hidden,
         out |-> Append(s.out, IF s.hidden \/ line.kind = "comment opens"
                               THEN Blank ELSE line)]
  IN FoldLeft(Mask, [hidden |-> FALSE, out |-> <<>>], body).out

\* Fences are masked before comments: one inside a comment still hides what follows it.
buildNormalisedBodyLines(body) ==
  maskHtmlComments(maskFencedCodeBlocks([i \in DOMAIN body |-> maskInlineCodeSpans(body[i])]))

Headings == {"heading", "ac heading"}
BoldLabels == {"bold label", "ac bold label"}

\* A heading of the section's level or above ends a section under a heading, a
\* heading or a label one under a bold label.
EndsSection(section, line) ==
  \/ section.kind = "ac heading" /\ line.kind \in Headings /\ line.level <= section.level
  \/ section.kind = "ac bold label" /\ line.kind \in Headings \cup BoldLabels

\* The criteria of the first acceptance-criteria section, each the words of a
\* checkbox and of the lines that continue it.
extractAcceptanceCriteria(body) ==
  LET lines == buildNormalisedBodyLines(body)
      heads == {i \in DOMAIN lines : lines[i].kind \in {"ac heading", "ac bold label"}}
      first == CHOOSE i \in heads : \A j \in heads : i <= j
      Read(s, line) ==
        CASE s.ended -> s
          [] ~s.ended /\ line.kind = "checkbox" ->
               IF line.words = <<>> THEN [s EXCEPT !.open = FALSE]
               ELSE [s EXCEPT !.criteria = Append(@, line.words), !.open = TRUE]
          [] ~s.ended /\ line.kind \in Headings \cup BoldLabels ->
               [s EXCEPT !.open = FALSE, !.ended = EndsSection(lines[first], line)]
          [] ~s.ended /\ line.kind = "blank" -> [s EXCEPT !.open = FALSE]
          [] OTHER ->
               IF s.open THEN [s EXCEPT !.criteria[Len(s.criteria)] = @ \o line.words] ELSE s
  IN IF heads = {} THEN <<>>
     ELSE FoldLeft(Read, [criteria |-> <<>>, open |-> FALSE, ended |-> FALSE],
                   SubSeq(lines, first + 1, Len(lines))).criteria

\* A relation word close before a reference delegates the criterion's content.
findDelegationPattern(criterion) ==
  \E i \in 1 .. Len(criterion) - 1 :
    criterion[i] = "relation" /\ criterion[i + 1] = "reference"

Delegates(body) ==
  LET criteria == extractAcceptanceCriteria(body)
  IN \E i \in DOMAIN criteria : findDelegationPattern(criteria[i])

\* A criterion nobody can check from the diff sends the issue back to planning.
enforceDiffVerifiableAc(readiness, body) ==
  IF /\ readiness \in {"ready-to-implement", "ready-for-conventional-implementation"}
     /\ Delegates(body)
  THEN "ready-to-spec"
  ELSE readiness
=============================================================================

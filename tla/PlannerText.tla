---------------------------- MODULE PlannerText -----------------------------
(***************************************************************************)
(* What the story planner's publisher demands of the text an agent wrote   *)
(* (scripts/factory/post-story-planner-contract.mts).                      *)
(*                                                                         *)
(* A text is a sequence of tokens: a marker "spec", "tests", "pr-plan",    *)
(* "routing" or "question", "complete" for the sentinel of this issue,     *)
(* "reserved" for a marker only the publisher may write, "<!--", "-->",    *)
(* "bullet" for the start of a Markdown bullet, "negative" for a word that *)
(* names a rejection, and other words.  A line break is not a token: the   *)
(* sentinel is the last line if it is the last token.                      *)
(***************************************************************************)
EXTENDS Integers, Sequences, SequencesExt, FiniteSets

MARKERS == <<"spec", "tests", "pr-plan", "routing">>

Occurrences(text, token) == {n \in DOMAIN text : text[n] = token}

\* A comment hides what is in it; an unmatched end is no word.
stripHtmlComments(region) ==
  LET Strip(s, token) ==
        CASE token = "<!--" /\ ~s.inComment -> [s EXCEPT !.inComment = TRUE]
          [] token = "-->" -> [s EXCEPT !.inComment = FALSE]
          [] s.inComment /\ token # "-->" -> s
          [] OTHER -> [s EXCEPT !.out = Append(@, token)]
  IN FoldLeft(Strip, [inComment |-> FALSE, out |-> <<>>], region).out

\* At least three different words.
isSubstantive(region) ==
  Cardinality(ToSet(stripHtmlComments(region)) \ {"bullet"}) >= 3

\* The sentinel is there once, and last.
EndsWithSentinel(text) == Occurrences(text, "complete") = {Len(text)}

\* Each of the markers is there once, in their order; region n follows marker n.
InOrder(text, markers) ==
  /\ \A n \in DOMAIN markers : Cardinality(Occurrences(text, markers[n])) = 1
  /\ \A n \in 1 .. Len(markers) - 1 :
       \A p \in Occurrences(text, markers[n]), q \in Occurrences(text, markers[n + 1]) : p < q

Region(text, markers, n) ==
  LET start(k) == CHOOSE p \in Occurrences(text, markers[k]) : TRUE
  IN SubSeq(text, start(n) + 1,
            IF n = Len(markers) THEN Len(text) - 1 ELSE start(n + 1) - 1)

validateStoryPlannerContract(text) ==
  /\ Occurrences(text, "reserved") = {} /\ Occurrences(text, "question") = {}
  /\ EndsWithSentinel(text)
  /\ InOrder(text, MARKERS)
  /\ \A n \in DOMAIN MARKERS : isSubstantive(Region(text, MARKERS, n))
  /\ {"bullet", "negative"} \subseteq ToSet(stripHtmlComments(Region(text, MARKERS, 2)))

validateStoryPlannerEscalation(text) ==
  /\ Occurrences(text, "reserved") = {} /\ ToSet(text) \cap ToSet(MARKERS) = {}
  /\ InOrder(text, <<"question">>)
  /\ EndsWithSentinel(text)
  /\ isSubstantive(Region(text, <<"question">>, 1))
=============================================================================

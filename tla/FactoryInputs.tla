---------------------------- MODULE FactoryInputs ---------------------------
(***************************************************************************)
(* One input of an algorithm of the factory: a pull request with its       *)
(* issues, whose criteria a review is asked about, or the syntax tree of   *)
(* a program.  It is chosen at first and never changes.                    *)
(***************************************************************************)
EXTENDS CriteriaSpine, RuntimeSource

VARIABLES
  lane,    \* whose input it is
  given    \* "spine": [pr, issues, budget]; "source": a tree

\* What GitHub and the parsers may answer.
ProperGiven ==
  /\ lane = "spine" => ProperInput(given.pr, given.issues, given.budget)
  /\ lane = "source" => ProperTree(given)

-----------------------------------------------------------------------------
\* No unmet criterion of an issue that the pull request closes goes missing unreported
\* (spec-grounding-runner-logic.mts:252).
CriteriaKept == lane = "spine" => NothingLost(given.pr, given.issues, given.budget)

\* The publisher accepts every artifact that the runner writes
\* (spec-grounding-runner-logic.mts:1192).
ArtifactsAgree == lane = "spine" => ArtifactAccepted(given.pr, given.issues, given.budget)

\* Shadowing hides no use of a dangerous global (node-import-closure-verifier.mts:432).
GlobalsKept == lane = "source" => NoGlobalEscapes(given)
=============================================================================

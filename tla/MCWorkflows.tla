---------------------------- MODULE MCWorkflows -----------------------------
(***************************************************************************)
(* Small instances for TLC of the workflows that share nothing but GitHub: *)
(* the story planner, the owner's commands, the Codex status, the          *)
(* spec-grounded review and the CI gate.  None reads what another writes,  *)
(* so that each runs in a lane of its own, the others standing still: the  *)
(* state spaces add up and are not multiplied.                             *)
(***************************************************************************)
EXTENDS StoryPlanner, OwnerCommand, CodexStatus, GroundingVerdict, MCChangeGate

VARIABLE lane

-----------------------------------------------------------------------------
(* The planner's answers: a good contract, one whose tests are commented   *)
(* out, a question, and both at once.                                      *)

Words == <<"the", "form", "saves">>
Contract(tests) ==
  <<"spec">> \o Words \o tests \o <<"pr-plan">> \o Words \o <<"routing">> \o Words \o <<"complete">>
Good == Contract(<<"tests", "bullet", "negative", "words", "more">>)
Hollow == Contract(<<"tests", "<!--", "bullet", "negative", "-->">> \o Words)

MCAnswers == {"contract", "hollow", "question", "both"}
MCContractOf ==
  [a \in MCAnswers |-> CASE a = "hollow" -> Hollow [] a = "question" -> None [] OTHER -> Good]
MCEscalationOf ==
  [a \in MCAnswers |->
     IF a \in {"question", "both"} THEN <<"question">> \o Words \o <<"complete">> ELSE None]

-----------------------------------------------------------------------------
(* The owner's comments: a task, a question, a blank one, one whose text   *)
(* the API truncated; and a patch within the rules and one that moves a    *)
(* file from under .github.                                                *)

Body(verb, blank, truncated) ==
  [verb |-> verb, blank |-> blank, truncated |-> truncated, payload |-> "p"]
MCBodies ==
  {Body("task", FALSE, FALSE), Body("question", FALSE, FALSE),
   Body("task", TRUE, FALSE), Body("task", FALSE, TRUE)}

File(path, source, n) == [path |-> path, source |-> source, lines |-> n, binary |-> FALSE]
MCStats ==
  [p \in {"good", "bad"} |->
     IF p = "good" THEN <<File(<<"src", "a.ts">>, <<>>, 3)>>
     ELSE <<File(<<"src", "x.md">>, <<"docs", "..", ".github", "x.md">>, 1)>>]
MCPatches == {"good", "bad", None}

-----------------------------------------------------------------------------
(* Comments on the pull request: Codex's clean one, its findings, one with *)
(* two commits in it, and a trigger by the owner and by a stranger.        *)

Form(by, title, reviewed, trigger) ==
  [by |-> by, title |-> title, reviewed |-> reviewed, notice |-> FALSE, trigger |-> trigger]
MCForms ==
  {Form("codex", TRUE, "a", FALSE), Form("codex", FALSE, "a", FALSE),
   Form("codex", FALSE, "conflicting", FALSE),
   Form("owner", FALSE, None, TRUE), Form("stranger", FALSE, None, TRUE)}

\* A beginning that more pushes reach: the head was reviewed, forced away and forced back
\* within one second.
ForcedBack ==
  /\ now = 0 /\ pr = [head |-> "a", draft |-> FALSE, era |-> 2]
  /\ timeline = {[event |-> "head_ref_force_pushed", at |-> 0]}
  /\ comments = {[by |-> "codex", title |-> TRUE, reviewed |-> "a", notice |-> FALSE,
                  trigger |-> FALSE, id |-> 1, at |-> 0, era |-> 0]}
  /\ reviews = {} /\ reactions = {}
  /\ status = [s \in Shas |-> IF s = "a" THEN [state |-> "success", advice |-> None] ELSE None]
  /\ job = [NoJob EXCEPT !.waits = TRUE]

-----------------------------------------------------------------------------
(* A pull request that closes two issues, or one, or refers to none.       *)

MCReferences ==
  {<<"closing", "closing">>, <<"closing", "mention">>, <<"none", "none">>}

-----------------------------------------------------------------------------
storyOnly == <<story, notes, planner, sweep>>
ownerOnly == <<pull, commits, said, thread, run, applies>>
codexOnly == <<now, pr, timeline, reviews, comments, reactions, status, job>>
groundingOnly == <<target, blockers, summary, rounds, publisher>>
gateOnly == <<tips, ci>>

\* What may go wrong in the lanes with many interleavings.
LessTrouble == 2

\* The one beginning of a lane that stands still.
StoryRests == StoryInit /\ \A i \in Issues : ~story[i].ready /\ story[i].text = "v1"
OwnerRests ==
  OwnerInit /\ ~pull.open /\ ~applies /\ \A c \in Commands : said[c] = Body("task", FALSE, FALSE)
CodexRests == CodexInit /\ pr.draft /\ pr.head = "a"
GroundingRests == GroundingInit /\ target.refs = NoReferences
GateRests == GateInit /\ ci.event = "push" /\ tips = [main |-> "m1", stack |-> "stack"]

MCInit ==
  \/ /\ lane = "story" /\ StoryInit
     /\ OwnerRests /\ CodexRests /\ GroundingRests /\ GateRests
  \/ /\ lane = "owner" /\ OwnerInit
     /\ StoryRests /\ CodexRests /\ GroundingRests /\ GateRests
  \/ /\ lane = "codex" /\ (CodexInit \/ ForcedBack)
     /\ StoryRests /\ OwnerRests /\ GroundingRests /\ GateRests
  \/ /\ lane = "grounding" /\ GroundingInit
     /\ StoryRests /\ OwnerRests /\ CodexRests /\ GateRests
  \/ /\ lane = "gate" /\ GateInit
     /\ StoryRests /\ OwnerRests /\ CodexRests /\ GroundingRests

MCNext ==
  \/ /\ lane = "story" /\ StoryNext /\ trouble' <= LessTrouble
     /\ UNCHANGED <<lane, ownerOnly, codexOnly, groundingOnly, gateOnly>>
  \/ /\ lane = "owner" /\ OwnerNext
     /\ UNCHANGED <<lane, storyOnly, codexOnly, groundingOnly, gateOnly>>
  \/ /\ lane = "codex" /\ CodexNext /\ trouble' <= LessTrouble
     /\ UNCHANGED <<lane, storyOnly, ownerOnly, groundingOnly, gateOnly>>
  \/ /\ lane = "grounding" /\ GroundingNext /\ trouble' <= LessTrouble
     /\ UNCHANGED <<lane, storyOnly, ownerOnly, codexOnly, gateOnly>>
  \/ /\ lane = "gate" /\ GateNext /\ trouble' <= LessTrouble
     /\ UNCHANGED <<lane, storyOnly, ownerOnly, codexOnly, groundingOnly>>

MCSpec ==
  MCInit /\ [][MCNext]_<<lane, trouble, storyOnly, ownerOnly, codexOnly, groundingOnly, gateOnly>>
=============================================================================

---------------------------- MODULE StoryPlanner ----------------------------
(***************************************************************************)
(* The story planner: story-planner.yml with its publisher                 *)
(* (scripts/factory/post-story-planner-contract.mts), and the sweep an     *)
(* operator dispatches for issues whose planning was missed                *)
(* (story-planner-sweep.mts).                                              *)
(*                                                                         *)
(* A run is queued by the event of the label ready-to-spec being put on;   *)
(* the runs of one issue share a concurrency group with room for one that  *)
(* waits.  Publisher and sweep make one API call a step, between which     *)
(* people edit, label and close.  The sweep only waits for the planner by  *)
(* reading comments.                                                       *)
(***************************************************************************)
EXTENDS PlannerText, Faults

CONSTANTS
  Issues,
  Texts,        \* the texts of an issue (title and body)
  Answers,      \* what the agent may leave
  ContractOf,   \* answer -> the contract file it left, None if none
  EscalationOf  \* answer -> the escalation file it left, None if none

ASSUME StoryPlannerAssumption == None \notin Texts \cup Issues

MAX_LABEL_READD_ATTEMPTS == 3

VARIABLES
  story,    \* issue -> [open, ready, text]: ready is the label ready-to-spec
  notes,    \* issue -> [contracts: text -> how many name its revision, escalations]
  planner,  \* issue -> the run that holds its group, and whether one waits
  sweep     \* the sweep's position and what it has read

storyVars == <<story, notes, planner, sweep, trouble>>

\* touched: the issue's updated_at is no longer the one of the snapshot.
NotPlanned == [pc |-> "idle", waits |-> FALSE, text |-> None, touched |-> FALSE, answer |-> None]

NoSweep == [pc |-> "idle", open |-> {}, closed |-> {}, issue |-> None, tries |-> 0]

StoryInit ==
  /\ \E waits \in [Issues -> BOOLEAN], ready \in [Issues -> BOOLEAN], t \in Texts :
       /\ \A i \in Issues : waits[i] => ready[i]
       /\ story = [i \in Issues |-> [open |-> TRUE, ready |-> ready[i], text |-> t]]
       /\ planner = [i \in Issues |-> [NotPlanned EXCEPT !.waits = waits[i]]]
  /\ notes = [i \in Issues |-> [contracts |-> [t \in Texts |-> 0], escalations |-> 0]]
  /\ sweep = NoSweep
  /\ trouble = 0

\* Whatever happens to an issue moves its updated_at, unless within the same second.
Touch(i) == \E later \in BOOLEAN : planner' = [planner EXCEPT ![i].touched = @ \/ later]

\* Putting the label on an issue that lacks it fires the event; a run that waits already
\* gives way to the new one.
Label(i) ==
  /\ story' = [story EXCEPT ![i].ready = TRUE]
  /\ IF story[i].ready THEN UNCHANGED planner
     ELSE \E later \in BOOLEAN :
            planner' = [planner EXCEPT ![i].waits = TRUE, ![i].touched = @ \/ later]

Unlabel(i) == story' = [story EXCEPT ![i].ready = FALSE] /\ Touch(i)

-----------------------------------------------------------------------------
(* People.                                                                 *)

PeopleLabel(i) == ~story[i].ready /\ Trouble /\ Label(i) /\ UNCHANGED <<notes, sweep>>
PeopleUnlabel(i) == story[i].ready /\ Trouble /\ Unlabel(i) /\ UNCHANGED <<notes, sweep>>

Edit(i, text) ==
  /\ text # story[i].text
  /\ Trouble
  /\ story' = [story EXCEPT ![i].text = text] /\ Touch(i)
  /\ UNCHANGED <<notes, sweep>>

Close(i) ==
  /\ story[i].open
  /\ Trouble
  /\ story' = [story EXCEPT ![i].open = FALSE] /\ Touch(i)
  /\ UNCHANGED <<notes, sweep>>

-----------------------------------------------------------------------------
(* A run of the planner.                                                   *)

PlannerTo(i, pc) == planner' = [planner EXCEPT ![i].pc = pc]
PlannerEnds(i) == planner' = [planner EXCEPT ![i] = [NotPlanned EXCEPT !.waits = planner[i].waits]]
Reading == UNCHANGED <<story, notes, sweep, trouble>>

\* A job that fails may be run again as long as no later run has begun.
FailsUnless(i, ok, pc) == PlannerTo(i, IF ok THEN pc ELSE "failed")

Plan(i) ==
  /\ planner[i].waits /\ planner[i].pc \in {"idle", "failed"}
  /\ planner' = [planner EXCEPT ![i] = [NotPlanned EXCEPT !.pc = "snapshot"]]
  /\ Reading

\* The plan job binds the text and updated_at it was given.
PreparesRevision(i) ==
  /\ planner[i].pc = "snapshot"
  /\ planner' = [planner EXCEPT ![i].pc = "agent", ![i].text = story[i].text,
                                ![i].touched = FALSE]
  /\ Reading

\* The agent leaves files; the publisher validates the one that is there.
PlannerAgent(i, answer) ==
  /\ planner[i].pc = "agent"
  /\ LET contract == ContractOf[answer]
         escalation == EscalationOf[answer]
     IN planner' = [planner EXCEPT ![i].answer = answer,
          ![i].pc = CASE contract # None /\ escalation = None
                           /\ validateStoryPlannerContract(contract) -> "issue"
                      [] contract = None /\ escalation # None
                           /\ validateStoryPlannerEscalation(escalation) -> "asked"
                      [] OTHER -> "failed"]
  /\ Reading

\* Labelled, not moved since the snapshot, and of the same text.  Whether the issue is
\* open does not matter.
RevisionHolds(i) == story[i].ready /\ ~planner[i].touched /\ story[i].text = planner[i].text

ReadsIssue(i) ==
  /\ planner[i].pc = "issue"
  /\ FailsUnless(i, RevisionHolds(i), "comments")
  /\ Reading

\* Fault: only comments newer than the snapshot are read.
PostedSinceSnapshot(i) == planner[i].touched /\ notes[i].contracts[planner[i].text] > 0

\* Any comment of the bot whose marker names this revision.
hasExistingBotMarkerComment(i) == notes[i].contracts[planner[i].text] > 0

FindsContract(i) ==
  /\ planner[i].pc = "comments"
  /\ IF hasExistingBotMarkerComment(i) THEN PlannerEnds(i) ELSE PlannerTo(i, "again")
  /\ Reading

ReadsAgain(i) ==
  /\ planner[i].pc = "again"
  /\ FailsUnless(i, RevisionHolds(i), "post")
  /\ Reading

\* The answer of a call that writes may be lost.
Posts(i, ok, note) ==
  /\ \/ notes' = [notes EXCEPT ![i] = note]
     \/ ~ok /\ UNCHANGED notes
  /\ IF ok THEN PlannerEnds(i)
     ELSE \E later \in BOOLEAN :
            planner' = [planner EXCEPT ![i].pc = "failed", ![i].touched = @ \/ later]
  /\ MayFail(ok)
  /\ UNCHANGED <<story, sweep>>

PostsContract(i, ok) ==
  /\ planner[i].pc = "post"
  /\ Posts(i, ok, [notes[i] EXCEPT !.contracts[planner[i].text] = @ + 1])

\* An escalation looks for any earlier one, whatever the text, and then for the label.
FindsEscalation(i) ==
  /\ planner[i].pc = "asked"
  /\ IF notes[i].escalations > 0 THEN PlannerEnds(i) ELSE PlannerTo(i, "label")
  /\ Reading

ReadsLabel(i) ==
  /\ planner[i].pc = "label"
  /\ FailsUnless(i, story[i].ready, "ask")
  /\ Reading

PostsEscalation(i, ok) ==
  /\ planner[i].pc = "ask"
  /\ Posts(i, ok, [notes[i] EXCEPT !.escalations = @ + 1])

\* A call fails or the runner dies.
PlannerFails(i) ==
  /\ planner[i].pc \notin {"idle", "failed"}
  /\ Trouble
  /\ PlannerTo(i, "failed")
  /\ UNCHANGED <<story, notes, sweep>>

\* "Re-run failed jobs": the publish job with the same files.
RerunPublisher(i) ==
  /\ planner[i].pc = "failed" /\ planner[i].answer # None
  /\ Trouble
  /\ PlannerTo(i, IF ContractOf[planner[i].answer] # None THEN "issue" ELSE "asked")
  /\ UNCHANGED <<story, notes, sweep>>

-----------------------------------------------------------------------------
(* The sweep.                                                              *)

SweepTo(pc) == sweep' = [sweep EXCEPT !.pc = pc]
Unswept == UNCHANGED <<story, notes, planner, trouble>>

SweepStarts ==
  /\ sweep.pc = "idle"
  /\ SweepTo("open")
  /\ Unswept

\* Open issues first, closed ones in a second call: one closed meanwhile is in both.
enumerateReadyToSpecIssues(state) ==
  {[issue |-> i, text |-> story[i].text] :
     i \in {j \in Issues : story[j].ready /\ (story[j].open <=> state = "open")}}

SweepReadsOpen ==
  /\ sweep.pc = "open"
  /\ sweep' = [sweep EXCEPT !.pc = "closed", !.open = enumerateReadyToSpecIssues("open")]
  /\ Unswept

SweepReadsClosed ==
  /\ sweep.pc = "closed"
  /\ sweep' = [sweep EXCEPT !.pc = "next", !.closed = enumerateReadyToSpecIssues("closed")]
  /\ Unswept

\* A contract for the text the issue had when it was listed, or any escalation.
isIssueHandled(entry) ==
  notes[entry.issue].contracts[entry.text] > 0 \/ notes[entry.issue].escalations > 0

decideSweepIssue(entry, state) ==
  IF isIssueHandled(entry) THEN "skip-handled"
  ELSE IF state = "closed" THEN "log-closed"
  ELSE "relabel"

\* Closed issues come first; of the sweep's decisions only "relabel" writes.
SweepDecides ==
  /\ sweep.pc = "next"
  /\ LET state == IF sweep.closed # {} THEN "closed" ELSE "open"
         list == IF sweep.closed # {} THEN sweep.closed ELSE sweep.open
     IN IF list = {} THEN sweep' = NoSweep
        ELSE \E entry \in list :
               sweep' = [sweep EXCEPT !.open = @ \ {entry}, !.closed = @ \ {entry},
                 !.issue = entry.issue,
                 !.pc = IF decideSweepIssue(entry, state) = "relabel" THEN "check" ELSE "next"]
  /\ Unswept

\* An issue closed by now is skipped, one without the label ends the sweep.
SweepChecks ==
  /\ sweep.pc = "check"
  /\ LET s == story[sweep.issue]
     IN SweepTo(IF ~s.open THEN "next" ELSE IF s.ready THEN "delete" ELSE "failed")
  /\ Unswept

\* The label goes; deleting one that is gone, or a lost answer, ends the sweep.
SweepDeletes(ok) ==
  /\ sweep.pc = "delete"
  /\ ok => story[sweep.issue].ready
  /\ \/ Unlabel(sweep.issue)
     \/ ~ok /\ UNCHANGED <<story, planner>>
  /\ sweep' = [sweep EXCEPT !.pc = IF ok THEN "readd" ELSE "failed", !.tries = 0]
  /\ IF ok \/ ~story[sweep.issue].ready THEN UNCHANGED trouble ELSE Trouble
  /\ UNCHANGED notes

\* Before each attempt the issue is read; a closed one keeps no label.
SweepReadsBeforeReadd ==
  /\ sweep.pc = "readd"
  /\ SweepTo(IF story[sweep.issue].open THEN "put" ELSE "next")
  /\ Unswept

\* Fault: a failed attempt is taken for the last.
GivesUpQuietly(tries) == IF tries <= MAX_LABEL_READD_ATTEMPTS THEN "next" ELSE "failed"

\* After the last attempt the sweep fails, and asks the operator to put the label back.
AfterFailedAttempt(tries) == IF tries = MAX_LABEL_READD_ATTEMPTS THEN "failed" ELSE "readd"

readdReadyToSpecWithRetries(ok) ==
  /\ sweep.pc = "put"
  /\ \/ Label(sweep.issue)
     \/ ~ok /\ UNCHANGED <<story, planner>>
  /\ sweep' = [sweep EXCEPT !.tries = @ + 1,
                            !.pc = IF ok THEN "confirm" ELSE AfterFailedAttempt(sweep.tries + 1)]
  /\ MayFail(ok)
  /\ UNCHANGED notes

\* Three looks at the comments; what they show is only logged.
confirmHandled ==
  /\ sweep.pc = "confirm"
  /\ SweepTo("next")
  /\ Unswept

\* Any read that fails ends the sweep, between the label's two writes as well.
SweepFails ==
  /\ sweep.pc \notin {"idle", "failed"}
  /\ Trouble
  /\ SweepTo("failed")
  /\ UNCHANGED <<story, notes, planner>>

SweepAgain ==
  /\ sweep.pc = "failed"
  /\ sweep' = [NoSweep EXCEPT !.pc = "open"]
  /\ Unswept

-----------------------------------------------------------------------------
PlannerNext(i) ==
  \/ Plan(i) \/ PreparesRevision(i) \/ ReadsIssue(i) \/ FindsContract(i) \/ ReadsAgain(i)
  \/ FindsEscalation(i) \/ ReadsLabel(i)
  \/ \E answer \in Answers : PlannerAgent(i, answer)
  \/ \E ok \in BOOLEAN : PostsContract(i, ok) \/ PostsEscalation(i, ok)

SweepNext ==
  \/ SweepStarts \/ SweepReadsOpen \/ SweepReadsClosed \/ SweepDecides \/ SweepChecks
  \/ SweepReadsBeforeReadd \/ confirmHandled
  \/ \E ok \in BOOLEAN : SweepDeletes(ok) \/ readdReadyToSpecWithRetries(ok)

PeopleOnIssue(i) ==
  PeopleLabel(i) \/ PeopleUnlabel(i) \/ Close(i) \/ (\E t \in Texts : Edit(i, t))

StoryNext ==
  \/ \E i \in Issues : PlannerNext(i) \/ PlannerFails(i) \/ RerunPublisher(i) \/ PeopleOnIssue(i)
  \/ SweepNext \/ SweepFails \/ SweepAgain

StorySpec == StoryInit /\ [][StoryNext]_storyVars

-----------------------------------------------------------------------------
(* Properties.                                                             *)

\* An issue gets at most one contract for one text and one escalation, also when the
\* answer of the post is lost, the job is run again, or a sweep restarts the planner
\* (hasExistingBotMarkerComment and the concurrency group).
ContractOnce ==
  \A i \in Issues :
    notes[i].escalations <= 1 /\ \A t \in Texts : notes[i].contracts[t] <= 1

\* The sweep goes on to another issue, or ends, only when the issue it took the label
\* off has it again or is closed (readdReadyToSpecWithRetries).
SweepPutsBack ==
  [][\A i \in Issues :
       sweep.issue = i /\ sweep.pc \in {"readd", "put"} /\ sweep'.pc \in {"next", "confirm", "idle"}
         => story'[i].ready \/ ~story'[i].open]_storyVars
=============================================================================

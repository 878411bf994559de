-------------------------- MODULE Workflows_proofs --------------------------
(***************************************************************************)
(* Proofs about the workflows that share nothing but GitHub: the story     *)
(* planner and its sweep, and the owner's commands.  Each has an inductive *)
(* invariant of its own, proved for any number of issues, texts, commands  *)
(* and commits, and for any bound on trouble.                              *)
(***************************************************************************)
EXTENDS StoryPlanner, OwnerCommand, FiniteSetTheorems, TLAPS

-----------------------------------------------------------------------------
(* The story planner.                                                      *)

PlannerSteps ==
  {"idle", "failed", "snapshot", "agent", "issue", "asked", "comments", "again", "post",
   "label", "ask"}

SweepSteps ==
  {"idle", "failed", "open", "closed", "next", "check", "delete", "readd", "put", "confirm"}

\* The steps of a sweep that are about one issue.
OnIssue == {"check", "delete", "readd", "put", "confirm"}

Stories == [open : BOOLEAN, ready : BOOLEAN, text : Texts]
Notes == [contracts : [Texts -> Nat], escalations : Nat]
Plans == [pc : PlannerSteps, waits : BOOLEAN, text : Texts \cup {None},
          touched : BOOLEAN, answer : Answers \cup {None}]
Listed == SUBSET [issue : Issues, text : Texts]
Sweeps == [pc : SweepSteps, open : Listed, closed : Listed, issue : Issues \cup {None},
           tries : Nat]

StoryTypeOK ==
  /\ story \in [Issues -> Stories]
  /\ notes \in [Issues -> Notes]
  /\ planner \in [Issues -> Plans]
  /\ sweep \in Sweeps

\* A sweep that is about an issue has one.
SweepPlaced == sweep.pc \in OnIssue => sweep.issue \in Issues

\* A run that is about to post has looked, and no other run of the issue posts meanwhile.
AboutToPost ==
  \A i \in Issues :
    /\ planner[i].pc \in {"again", "post"} =>
         \A t \in Texts : planner[i].text = t => notes[i].contracts[t] = 0
    /\ planner[i].pc \in {"label", "ask"} => notes[i].escalations = 0

StoryInv == StoryTypeOK /\ SweepPlaced /\ AboutToPost /\ ContractOnce

LEMMA StoryStarts == StoryInit => StoryInv
<1> SUFFICES ASSUME StoryInit PROVE StoryInv
  OBVIOUS
<1> USE DEF Stories, Notes, Plans, PlannerSteps
<1>1. story \in [Issues -> Stories]
  BY DEF StoryInit
<1>2. notes \in [Issues -> Notes] /\ AboutToPost /\ ContractOnce
  BY DEF StoryInit, AboutToPost, ContractOnce
<1>3. planner \in [Issues -> Plans]
  <2>1. \A w \in BOOLEAN : [NotPlanned EXCEPT !.waits = w] \in Plans
    BY DEF NotPlanned
  <2>2. PICK w \in [Issues -> BOOLEAN] :
          planner = [i \in Issues |-> [NotPlanned EXCEPT !.waits = w[i]]]
    BY Zenon DEF StoryInit
  <2>3. \A i \in Issues : w[i] \in BOOLEAN
    BY <2>2
  <2> HIDE DEF Plans
  <2> QED
    BY <2>1, <2>2, <2>3, Zenon
<1>4. sweep \in Sweeps /\ SweepPlaced
  BY DEF StoryInit, NoSweep, Sweeps, SweepSteps, SweepPlaced, OnIssue, Listed
<1> QED
  BY <1>1, <1>2, <1>3, <1>4 DEF StoryInv, StoryTypeOK

\* The state of a run is replaced, that of the others stays.
RunBecomes(i, run_) == planner' = [planner EXCEPT ![i] = run_]

\* What the steps of the runs that only read keep.
LEMMA ReadingKeeps ==
  ASSUME NEW i \in Issues, NEW q \in Plans, StoryInv, RunBecomes(i, q), Reading,
         q.pc \in {"again", "post"} =>
           \A t \in Texts : q.text = t => notes[i].contracts[t] = 0,
         q.pc \in {"label", "ask"} => notes[i].escalations = 0
  PROVE  StoryInv'
<1>1. planner' \in [Issues -> Plans]
  BY DEF RunBecomes, StoryInv, StoryTypeOK
<1>2. planner'[i] = q /\ \A j \in Issues \ {i} : planner'[j] = planner[j]
  BY DEF RunBecomes, StoryInv, StoryTypeOK
<1>3. AboutToPost'
  BY <1>2 DEF Reading, StoryInv, AboutToPost
<1> QED
  BY <1>1, <1>3 DEF Reading, StoryInv, StoryTypeOK, SweepPlaced, ContractOnce

LEMMA MovingKeeps ==
  ASSUME NEW i \in Issues, NEW pc \in PlannerSteps, StoryInv, PlannerTo(i, pc), Reading,
         pc \in {"again", "post"} =>
           \A t \in Texts : planner[i].text = t => notes[i].contracts[t] = 0,
         pc \in {"label", "ask"} => notes[i].escalations = 0
  PROVE  StoryInv'
<1> DEFINE q == [planner[i] EXCEPT !.pc = pc]
<1>1. q \in Plans /\ q.pc = pc /\ q.text = planner[i].text
  BY DEF StoryInv, StoryTypeOK, Plans
<1>2. RunBecomes(i, q)
  BY DEF RunBecomes, PlannerTo, StoryInv, StoryTypeOK, Plans
<1> HIDE DEF q
<1> QED
  BY <1>1, <1>2, ReadingKeeps

LEMMA EndingKeeps ==
  ASSUME NEW i \in Issues, StoryInv, PlannerEnds(i), Reading
  PROVE  StoryInv'
<1> DEFINE q == [NotPlanned EXCEPT !.waits = planner[i].waits]
<1>1. q \in Plans /\ q.pc = "idle"
  BY DEF StoryInv, StoryTypeOK, Plans, NotPlanned, PlannerSteps
<1>2. RunBecomes(i, q)
  BY DEF RunBecomes, PlannerEnds
<1> HIDE DEF q
<1> QED
  BY <1>1, <1>2, ReadingKeeps

\* The steps of a run up to its post.
LEMMA PlannerReads ==
  ASSUME NEW i \in Issues, StoryInv,
         \/ Plan(i) \/ PreparesRevision(i) \/ ReadsIssue(i) \/ FindsContract(i)
         \/ ReadsAgain(i) \/ FindsEscalation(i) \/ ReadsLabel(i)
         \/ \E answer \in Answers : PlannerAgent(i, answer)
  PROVE  StoryInv'
<1> USE DEF PlannerSteps
<1>1. CASE Plan(i)
  <2> DEFINE q == [NotPlanned EXCEPT !.pc = "snapshot"]
  <2>1. q \in Plans /\ q.pc = "snapshot"
    BY DEF Plans, NotPlanned
  <2>2. RunBecomes(i, q) /\ Reading
    BY <1>1 DEF RunBecomes, Plan
  <2> HIDE DEF q
  <2> QED
    BY <2>1, <2>2, ReadingKeeps
<1>2. CASE PreparesRevision(i)
  <2> DEFINE q == [planner[i] EXCEPT !.pc = "agent", !.text = story[i].text, !.touched = FALSE]
  <2>1. q \in Plans /\ q.pc = "agent"
    BY DEF StoryInv, StoryTypeOK, Plans, Stories
  <2>2. planner' = [planner EXCEPT ![i] = q] /\ Reading
    BY <1>2 DEF PreparesRevision, StoryInv, StoryTypeOK, Plans
  <2> HIDE DEF q
  <2> QED
    BY <2>1, <2>2, ReadingKeeps DEF RunBecomes
<1>3. CASE ReadsIssue(i)
  BY <1>3, MovingKeeps DEF ReadsIssue, FailsUnless
<1>4. CASE FindsContract(i)
  <2>1. CASE hasExistingBotMarkerComment(i)
    BY <1>4, <2>1, EndingKeeps DEF FindsContract
  <2>2. CASE ~hasExistingBotMarkerComment(i)
    <3>1. \A t \in Texts : planner[i].text = t => notes[i].contracts[t] = 0
      BY <2>2 DEF hasExistingBotMarkerComment, StoryInv, StoryTypeOK, Notes
    <3> QED
      BY <1>4, <2>2, <3>1, MovingKeeps DEF FindsContract
  <2> QED
    BY <2>1, <2>2
<1>5. CASE ReadsAgain(i)
  BY <1>5, MovingKeeps DEF ReadsAgain, FailsUnless, StoryInv, AboutToPost
<1>6. CASE FindsEscalation(i)
  <2>1. CASE notes[i].escalations > 0
    BY <1>6, <2>1, EndingKeeps DEF FindsEscalation
  <2>2. CASE ~ notes[i].escalations > 0
    BY <1>6, <2>2, MovingKeeps DEF FindsEscalation, StoryInv, StoryTypeOK, Notes
  <2> QED
    BY <2>1, <2>2
<1>7. CASE ReadsLabel(i)
  BY <1>7, MovingKeeps DEF ReadsLabel, FailsUnless, StoryInv, AboutToPost
<1>8. ASSUME NEW answer \in Answers, PlannerAgent(i, answer)
      PROVE  StoryInv'
  <2>1. PICK pc \in {"issue", "asked", "failed"} :
          planner' = [planner EXCEPT ![i].answer = answer, ![i].pc = pc]
    BY <1>8, Zenon DEF PlannerAgent
  <2> DEFINE q == [planner[i] EXCEPT !.answer = answer, !.pc = pc]
  <2>2. q \in Plans /\ q.pc = pc
    BY DEF StoryInv, StoryTypeOK, Plans
  <2>3. planner' = [planner EXCEPT ![i] = q] /\ Reading
    BY <1>8, <2>1 DEF PlannerAgent, StoryInv, StoryTypeOK, Plans
  <2> HIDE DEF q
  <2> QED
    BY <2>2, <2>3, ReadingKeeps DEF RunBecomes
<1> QED
  BY <1>1, <1>2, <1>3, <1>4, <1>5, <1>6, <1>7, <1>8

\* What changes of an issue leave of the runs: where they are and what text they bound.
RunsKept ==
  /\ planner' \in [Issues -> Plans]
  /\ \A j \in Issues : planner'[j].pc = planner[j].pc /\ planner'[j].text = planner[j].text

LEMMA TouchEffect ==
  ASSUME NEW i \in Issues, StoryTypeOK, Touch(i)
  PROVE  RunsKept
<1>1. PICK later \in BOOLEAN :
        planner' = [planner EXCEPT ![i].touched = planner[i].touched \/ later]
  BY DEF Touch, StoryTypeOK
<1>2. (planner[i].touched \/ later) \in BOOLEAN
  OBVIOUS
<1> QED
  BY <1>1, <1>2 DEF RunsKept, StoryTypeOK, Plans

LEMMA LabelEffect ==
  ASSUME NEW i \in Issues, StoryTypeOK, Label(i)
  PROVE  RunsKept /\ story' \in [Issues -> Stories] /\ story'[i].ready
<1>1. story' \in [Issues -> Stories] /\ story'[i].ready
  BY DEF Label, StoryTypeOK, Stories
<1>2. CASE story[i].ready
  <2>1. UNCHANGED planner
    BY <1>2, Zenon DEF Label
  <2> QED
    BY <1>1, <2>1 DEF RunsKept, StoryTypeOK
<1>3. CASE ~story[i].ready
  <2>1. PICK later \in BOOLEAN :
          planner' = [planner EXCEPT ![i].waits = TRUE,
                                     ![i].touched = planner[i].touched \/ later]
    BY <1>3 DEF Label, StoryTypeOK
  <2>2. (planner[i].touched \/ later) \in BOOLEAN
    OBVIOUS
  <2>3. RunsKept
    BY <2>1, <2>2 DEF RunsKept, StoryTypeOK, Plans
  <2> QED
    BY <1>1, <2>3
<1> QED
  BY <1>1, <1>2, <1>3

LEMMA UnlabelEffect ==
  ASSUME NEW i \in Issues, StoryTypeOK, Unlabel(i)
  PROVE  RunsKept /\ story' \in [Issues -> Stories]
<1>1. story' \in [Issues -> Stories]
  BY DEF Unlabel, StoryTypeOK, Stories
<1> QED
  BY <1>1, TouchEffect DEF Unlabel

\* A step that writes no note and moves no run keeps what the runs have established.
LEMMA StandingKeeps ==
  ASSUME StoryInv, RunsKept, UNCHANGED notes,
         story' \in [Issues -> Stories], sweep' \in Sweeps, SweepPlaced'
  PROVE  StoryInv'
BY DEF StoryInv, StoryTypeOK, RunsKept, AboutToPost, ContractOnce

\* What people do to an issue.
LEMMA PeopleKeep ==
  ASSUME NEW i \in Issues, StoryInv, PeopleOnIssue(i)
  PROVE  StoryInv'
<1>0. StoryTypeOK
  BY DEF StoryInv
<1>1. RunsKept /\ story' \in [Issues -> Stories] /\ UNCHANGED <<notes, sweep>>
  <2>1. CASE PeopleLabel(i)
    BY <1>0, <2>1, LabelEffect DEF PeopleLabel
  <2>2. CASE PeopleUnlabel(i)
    BY <1>0, <2>2, UnlabelEffect DEF PeopleUnlabel
  <2>3. CASE Close(i)
    <3>1. story' \in [Issues -> Stories]
      BY <1>0, <2>3 DEF Close, StoryTypeOK, Stories
    <3> QED
      BY <1>0, <2>3, <3>1, TouchEffect DEF Close
  <2>4. ASSUME NEW t \in Texts, Edit(i, t)
        PROVE  RunsKept /\ story' \in [Issues -> Stories] /\ UNCHANGED <<notes, sweep>>
    <3>1. story' \in [Issues -> Stories]
      BY <1>0, <2>4 DEF Edit, StoryTypeOK, Stories
    <3> QED
      BY <1>0, <2>4, <3>1, TouchEffect DEF Edit
  <2> QED
    BY <2>1, <2>2, <2>3, <2>4 DEF PeopleOnIssue
<1> QED
  BY <1>1, StandingKeeps DEF StoryInv, StoryTypeOK, SweepPlaced

\* A post adds one note, of a kind the run has just found none of, and ends the run.
LEMMA PostsKeep ==
  ASSUME NEW i \in Issues, NEW ok \in BOOLEAN, StoryInv,
         PostsContract(i, ok) \/ PostsEscalation(i, ok)
  PROVE  StoryInv'
<1>1. PICK note \in Notes : /\ Posts(i, ok, note)
                            /\ note.escalations <= 1
                            /\ \A t \in Texts : note.contracts[t] <= 1
  <2>1. CASE PostsContract(i, ok)
    <3> DEFINE note == [notes[i] EXCEPT !.contracts[planner[i].text] = @ + 1]
    <3>1. note \in Notes /\ note.escalations <= 1
      BY DEF StoryInv, StoryTypeOK, Notes, ContractOnce
    <3>2. \A t \in Texts : note.contracts[t] <= 1
      BY <2>1 DEF PostsContract, StoryInv, StoryTypeOK, Notes, ContractOnce, AboutToPost
    <3>3. Posts(i, ok, note)
      BY <2>1 DEF PostsContract
    <3> QED
      BY <3>1, <3>2, <3>3
  <2>2. CASE PostsEscalation(i, ok)
    <3> DEFINE note == [notes[i] EXCEPT !.escalations = @ + 1]
    <3>1. note \in Notes /\ note.escalations <= 1 /\ \A t \in Texts : note.contracts[t] <= 1
      BY <2>2 DEF PostsEscalation, StoryInv, StoryTypeOK, Notes, ContractOnce, AboutToPost
    <3>2. Posts(i, ok, note)
      BY <2>2 DEF PostsEscalation
    <3> QED
      BY <3>1, <3>2
  <2> QED
    BY <2>1, <2>2
<1>2. notes' \in [Issues -> Notes] /\ ContractOnce'
      /\ \A j \in Issues \ {i} : notes'[j] = notes[j]
  BY <1>1 DEF Posts, StoryInv, StoryTypeOK, ContractOnce
<1>3. PICK q \in Plans : planner' = [planner EXCEPT ![i] = q] /\ q.pc \in {"idle", "failed"}
  <2>1. CASE ok
    <3> DEFINE q == [NotPlanned EXCEPT !.waits = planner[i].waits]
    <3>1. q \in Plans /\ q.pc = "idle"
      BY DEF StoryInv, StoryTypeOK, Plans, NotPlanned, PlannerSteps
    <3>2. planner' = [planner EXCEPT ![i] = q]
      BY <1>1, <2>1 DEF Posts, PlannerEnds
    <3> QED
      BY <3>1, <3>2
  <2>2. CASE ~ok
    <3>1. PICK later \in BOOLEAN :
            planner' = [planner EXCEPT ![i].pc = "failed",
                                       ![i].touched = planner[i].touched \/ later]
      BY <1>1, <2>2 DEF Posts, StoryInv, StoryTypeOK
    <3> DEFINE b == planner[i].touched \/ later
               q == [planner[i] EXCEPT !.pc = "failed", !.touched = b]
    <3>2. b \in BOOLEAN
      OBVIOUS
    <3>3. planner' = [planner EXCEPT ![i] = [planner[i] EXCEPT !.pc = "failed", !.touched = b]]
      BY <3>1 DEF StoryInv, StoryTypeOK, Plans
    <3> HIDE DEF b
    <3>4. q \in Plans /\ q.pc = "failed"
      BY <3>2 DEF StoryInv, StoryTypeOK, Plans, PlannerSteps
    <3> QED
      BY <3>3, <3>4
  <2> QED
    BY <2>1, <2>2
<1>4. planner' \in [Issues -> Plans] /\ AboutToPost'
  BY <1>2, <1>3 DEF StoryInv, StoryTypeOK, AboutToPost
<1> QED
  BY <1>1, <1>2, <1>4 DEF Posts, StoryInv, StoryTypeOK, SweepPlaced

\* Of a sweep's steps, two write, and only the label.
LEMMA SweepKeeps ==
  ASSUME StoryInv, SweepNext \/ SweepFails \/ SweepAgain
  PROVE  StoryInv'
<1> USE DEF SweepSteps, OnIssue
<1>1. ASSUME UNCHANGED <<story, notes, planner>>, sweep' \in Sweeps, SweepPlaced'
      PROVE  StoryInv'
  BY <1>1, StandingKeeps DEF RunsKept, StoryInv, StoryTypeOK
<1>2. ASSUME NEW pc \in SweepSteps, SweepTo(pc), UNCHANGED <<story, notes, planner>>,
             pc \in OnIssue => sweep.issue \in Issues
      PROVE  StoryInv'
  BY <1>1, <1>2 DEF SweepTo, StoryInv, StoryTypeOK, Sweeps, SweepPlaced
<1>3. CASE SweepStarts
  BY <1>2, <1>3 DEF SweepStarts, Unswept
<1>4. \A state : enumerateReadyToSpecIssues(state) \in Listed
  BY DEF enumerateReadyToSpecIssues, Listed, StoryInv, StoryTypeOK, Stories
<1>5. CASE SweepReadsOpen
  BY <1>1, <1>4, <1>5 DEF SweepReadsOpen, Unswept, StoryInv, StoryTypeOK, Sweeps, SweepPlaced
<1>6. CASE SweepReadsClosed
  BY <1>1, <1>4, <1>6 DEF SweepReadsClosed, Unswept, StoryInv, StoryTypeOK, Sweeps, SweepPlaced
<1>7. CASE SweepDecides
  <2>1. CASE sweep' = NoSweep
    <3>1. sweep' \in Sweeps /\ SweepPlaced'
      BY <2>1 DEF NoSweep, Sweeps, SweepPlaced, Listed
    <3> QED
      BY <1>1, <1>7, <3>1 DEF SweepDecides, Unswept
  <2>2. ASSUME sweep' # NoSweep
        PROVE  StoryInv'
    <3>1. PICK entry \in sweep.closed \cup sweep.open, pc \in {"check", "next"} :
            sweep' = [sweep EXCEPT !.open = sweep.open \ {entry},
                                   !.closed = sweep.closed \ {entry},
                                   !.issue = entry.issue, !.pc = pc]
      BY <1>7, <2>2 DEF SweepDecides, StoryInv, StoryTypeOK, Sweeps
    <3>2. entry.issue \in Issues
      BY DEF StoryInv, StoryTypeOK, Sweeps, Listed
    <3>3. sweep' \in Sweeps /\ SweepPlaced'
      BY <3>1, <3>2 DEF StoryInv, StoryTypeOK, Sweeps, SweepPlaced, Listed
    <3> QED
      BY <1>1, <1>7, <3>3 DEF SweepDecides, Unswept
  <2> QED
    BY <2>1, <2>2
<1>8. CASE SweepChecks
  BY <1>2, <1>8 DEF SweepChecks, Unswept, StoryInv, SweepPlaced
<1>9. ASSUME NEW ok \in BOOLEAN, SweepDeletes(ok)
      PROVE  StoryInv'
  <2>1. sweep.issue \in Issues
    BY <1>9 DEF SweepDeletes, StoryInv, SweepPlaced
  <2>2. sweep' \in Sweeps /\ SweepPlaced'
    BY <1>9, <2>1 DEF SweepDeletes, StoryInv, StoryTypeOK, Sweeps, SweepPlaced
  <2>3. CASE Unlabel(sweep.issue)
    BY <1>9, <2>1, <2>2, <2>3, UnlabelEffect, StandingKeeps DEF SweepDeletes, StoryInv
  <2>4. CASE UNCHANGED <<story, planner>>
    BY <1>1, <1>9, <2>2, <2>4 DEF SweepDeletes
  <2> QED
    BY <1>9, <2>3, <2>4 DEF SweepDeletes
<1>10. CASE SweepReadsBeforeReadd
  BY <1>2, <1>10 DEF SweepReadsBeforeReadd, Unswept, StoryInv, SweepPlaced
<1>11. ASSUME NEW ok \in BOOLEAN, readdReadyToSpecWithRetries(ok)
       PROVE  StoryInv'
  <2>1. sweep.issue \in Issues
    BY <1>11 DEF readdReadyToSpecWithRetries, StoryInv, SweepPlaced
  <2>2. sweep' \in Sweeps /\ SweepPlaced'
    <3>1. PICK pc \in {"confirm", "failed", "readd"} :
            sweep' = [sweep EXCEPT !.tries = sweep.tries + 1, !.pc = pc]
      <4> DEFINE next == IF ok THEN "confirm" ELSE AfterFailedAttempt(sweep.tries + 1)
      <4>1. next \in {"confirm", "failed", "readd"}
        BY DEF AfterFailedAttempt
      <4>2. sweep' = [sweep EXCEPT !.tries = sweep.tries + 1, !.pc = next]
        BY <1>11, Zenon DEF readdReadyToSpecWithRetries
      <4> HIDE DEF next
      <4> QED
        BY <4>1, <4>2, Zenon
    <3>2. sweep.tries + 1 \in Nat /\ pc \in SweepSteps
      BY DEF StoryInv, StoryTypeOK, Sweeps
    <3>3. sweep' \in Sweeps /\ sweep'.issue = sweep.issue
      BY <3>1, <3>2 DEF StoryInv, StoryTypeOK, Sweeps
    <3> QED
      BY <2>1, <3>3 DEF SweepPlaced
  <2>3. CASE Label(sweep.issue)
    BY <1>11, <2>1, <2>2, <2>3, LabelEffect, StandingKeeps
    DEF readdReadyToSpecWithRetries, StoryInv
  <2>4. CASE UNCHANGED <<story, planner>>
    BY <1>1, <1>11, <2>2, <2>4 DEF readdReadyToSpecWithRetries
  <2> QED
    BY <1>11, <2>3, <2>4 DEF readdReadyToSpecWithRetries
<1>12. CASE confirmHandled
  BY <1>2, <1>12 DEF confirmHandled, Unswept
<1>13. CASE SweepFails
  BY <1>2, <1>13 DEF SweepFails
<1>14. CASE SweepAgain
  BY <1>1, <1>14 DEF SweepAgain, Unswept, NoSweep, Sweeps, SweepPlaced, Listed
<1> QED
  BY <1>3, <1>5, <1>6, <1>7, <1>8, <1>9, <1>10, <1>11, <1>12, <1>13, <1>14 DEF SweepNext

LEMMA StorySteps == StoryInv /\ [StoryNext]_storyVars => StoryInv'
<1> SUFFICES ASSUME StoryInv, [StoryNext]_storyVars PROVE StoryInv'
  OBVIOUS
<1>1. ASSUME NEW i \in Issues, PlannerNext(i)
      PROVE  StoryInv'
  BY <1>1, PlannerReads, PostsKeep DEF PlannerNext
<1>2. ASSUME NEW i \in Issues, PlannerFails(i)
      PROVE  StoryInv'
  <2>1. RunBecomes(i, [planner[i] EXCEPT !.pc = "failed"])
    BY <1>2 DEF PlannerFails, PlannerTo, RunBecomes, StoryInv, StoryTypeOK, Plans
  <2> QED
    BY <1>2, <2>1 DEF RunBecomes, PlannerFails, StoryInv, StoryTypeOK, Plans, PlannerSteps,
                      AboutToPost, ContractOnce, SweepPlaced
<1>3. ASSUME NEW i \in Issues, RerunPublisher(i)
      PROVE  StoryInv'
  <2>1. PICK pc \in {"issue", "asked"} : RunBecomes(i, [planner[i] EXCEPT !.pc = pc])
    BY <1>3 DEF RerunPublisher, PlannerTo, RunBecomes, StoryInv, StoryTypeOK, Plans
  <2> QED
    BY <1>3, <2>1 DEF RunBecomes, RerunPublisher, StoryInv, StoryTypeOK, Plans, PlannerSteps,
                      AboutToPost, ContractOnce, SweepPlaced
<1>4. CASE UNCHANGED storyVars
  BY <1>4 DEF storyVars, StoryInv, StoryTypeOK, AboutToPost, ContractOnce, SweepPlaced
<1> QED
  BY <1>1, <1>2, <1>3, <1>4, PeopleKeep, SweepKeeps DEF StoryNext

\* The inductive invariant of the story planner and its sweep.
THEOREM StoryInvariance == StorySpec => []StoryInv
<1> QED
  BY StoryStarts, StorySteps, PTL DEF StorySpec

\* However often the planner and the sweep run, an issue gets one contract for a text and one
\* escalation (post-story-planner-contract.mts): posts that lost their answer, publishers run
\* again and edits between the look and the post included.
THEOREM ContractsStaySingle == StorySpec => []ContractOnce
<1>1. StoryInv => ContractOnce
  BY DEF StoryInv
<1> QED
  BY <1>1, StoryInvariance, PTL

\* The sweep never leaves an open issue without the label it took off and goes on as if
\* nothing had happened (story-planner-sweep.mts).
THEOREM SweepAlwaysPutsBack == StorySpec => SweepPutsBack
<1>1. StoryInv /\ [StoryNext]_storyVars =>
        [\A i \in Issues :
           sweep.issue = i /\ sweep.pc \in {"readd", "put"}
             /\ sweep'.pc \in {"next", "confirm", "idle"}
           => story'[i].ready \/ ~story'[i].open]_storyVars
  <2> SUFFICES ASSUME StoryInv, StoryNext, NEW i \in Issues,
                      sweep.issue = i, sweep.pc \in {"readd", "put"},
                      sweep'.pc \in {"next", "confirm", "idle"}
               PROVE  story'[i].ready \/ ~story'[i].open
    OBVIOUS
  <2>1. sweep' # sweep
    OBVIOUS
  <2>2. SweepNext \/ SweepFails \/ SweepAgain
    BY <2>1 DEF StoryNext, PlannerNext, PeopleOnIssue, Plan, PreparesRevision, ReadsIssue,
                FindsContract, ReadsAgain, FindsEscalation, ReadsLabel, PlannerAgent,
                PostsContract, PostsEscalation, Posts, PlannerFails, RerunPublisher,
                PeopleLabel, PeopleUnlabel, Close, Edit, Reading
  <2>3. SweepReadsBeforeReadd \/ \E ok \in BOOLEAN : readdReadyToSpecWithRetries(ok)
    BY <2>2 DEF SweepNext, SweepStarts, SweepReadsOpen, SweepReadsClosed, SweepDecides,
                SweepChecks, SweepDeletes, confirmHandled, SweepFails, SweepAgain, SweepTo,
                StoryInv, StoryTypeOK, Sweeps
  <2>4. CASE SweepReadsBeforeReadd
    <3>1. ~story[i].open
      BY <2>4 DEF SweepReadsBeforeReadd, SweepTo, StoryInv, StoryTypeOK, Sweeps
    <3> QED
      BY <2>4, <3>1 DEF SweepReadsBeforeReadd, Unswept
  <2>5. ASSUME NEW ok \in BOOLEAN, readdReadyToSpecWithRetries(ok)
        PROVE  story'[i].ready
    <3>1. ok
      BY <2>5 DEF readdReadyToSpecWithRetries, AfterFailedAttempt, StoryInv, StoryTypeOK, Sweeps
    <3>2. Label(i)
      BY <2>5, <3>1 DEF readdReadyToSpecWithRetries
    <3> QED
      BY <3>2, LabelEffect DEF StoryInv
  <2> QED
    BY <2>3, <2>4, <2>5
<1> QED
  BY <1>1, StoryInvariance, PTL DEF StorySpec, SweepPutsBack

-----------------------------------------------------------------------------
(* The history of a branch.  Ancestors is computed by recursion over the   *)
(* commits; the library's induction theorems take an operator, so what it  *)
(* returns is proved by the least counterexample instead.                  *)

LEMMA LeastNumber ==
  ASSUME NEW T, T \subseteq Nat, T # {}
  PROVE  \E n \in T : \A m \in T : n <= m
<1> DEFINE R == StrictSubsetOrdering(Nat)
           D == {0 .. n : n \in T}
<1>1. \A n \in T : (0 .. n) \in SUBSET Nat /\ IsFiniteSet(0 .. n)
  <2>1. \A n \in T : n \in Nat /\ n \in Int /\ (0 .. n) \subseteq Nat
    OBVIOUS
  <2> QED
    BY <2>1, FS_Interval
<1>2. D \subseteq FiniteSubsetsOf(Nat) /\ D # {}
  BY <1>1, Zenon DEF FiniteSubsetsOf
<1>3. \A x, y \in SUBSET Nat : <<y, x>> \in R <=> (y \subseteq x /\ x # y)
  BY DEF StrictSubsetOrdering
<1>4. IsWellFoundedOn(R, FiniteSubsetsOf(Nat))
  BY FS_StrictSubsetOrderingWellFounded
<1> HIDE DEF R
<1>5. PICK x \in D : \A y \in D : ~ (<<y, x>> \in R)
  BY <1>2, <1>4, WFMin
<1>6. PICK n \in T : x = 0 .. n
  BY <1>5
<1>7. ASSUME NEW m \in T, ~ (n <= m)
      PROVE  FALSE
  <2>1. (0 .. m) \subseteq (0 .. n) /\ n \in 0 .. n /\ n \notin 0 .. m
    BY <1>7
  <2>2. (0 .. m) \in D /\ (0 .. m) \in SUBSET Nat /\ (0 .. n) \in SUBSET Nat
    BY <1>1, Zenon
  <2>3. (0 .. m) # (0 .. n)
    BY <2>1, Zenon
  <2>4. <<0 .. m, 0 .. n>> \in R
    BY <1>3, <2>1, <2>2, <2>3, Zenon
  <2> QED
    BY <1>5, <1>6, <2>2, <2>4, Zenon
<1> QED
  BY <1>7

\* The recursive function within Ancestors, of any list of commits.
Lineage(list) ==
  CHOOSE f : f = [m \in 0 .. Len(list) |-> IF m = 0 THEN {} ELSE {m} \cup f[list[m].parent]]

CommitRecords ==
  [parent : Nat, patch : TaskPatches \cup {None}, trailer : Commands \cup {None}]

\* Every parent comes before its child.
Linked(list) ==
  list \in Seq(CommitRecords) /\ \A n \in 1 .. Len(list) : list[n].parent \in 0 .. n - 1

LEMMA LineageRule ==
  ASSUME NEW list, Linked(list)
  PROVE  /\ Lineage(list)[0] = {}
         /\ \A m \in 1 .. Len(list) : Lineage(list)[m] = {m} \cup Lineage(list)[list[m].parent]
<1> DEFINE N == Len(list)
           Upto(n) == \E f : f = [m \in 0 .. n |-> IF m = 0 THEN {} ELSE {m} \cup f[list[m].parent]]
           T == {n \in 0 .. N : ~ Upto(n)}
<1>1. N \in Nat
  BY DEF Linked
<1>2. T = {}
  <2> SUFFICES ASSUME T # {} PROVE FALSE
    OBVIOUS
  <2>1. T \subseteq Nat
    BY <1>1
  <2> HIDE DEF T
  <2>2. PICK n \in T : \A m \in T : n <= m
    BY <2>1, LeastNumber
  <2>3. n \in 0 .. N /\ ~ Upto(n)
    BY <2>2 DEF T
  <2>4. n # 0
    <3>1. Upto(0)
      <4> WITNESS [m \in 0 .. 0 |-> {}]
      <4> QED
        OBVIOUS
    <3> QED
      BY <2>3, <3>1
  <2>5. Upto(n - 1)
    <3>1. n - 1 \in 0 .. N /\ n - 1 \notin T
      BY <1>1, <2>2, <2>3, <2>4
    <3> QED
      BY <3>1 DEF T
  <2>6. PICK f : f = [m \in 0 .. n - 1 |-> IF m = 0 THEN {} ELSE {m} \cup f[list[m].parent]]
    BY <2>5
  <2> DEFINE g == [m \in 0 .. n |-> IF m = n THEN {n} \cup f[list[n].parent] ELSE f[m]]
  <2>7. ASSUME NEW m \in 0 .. n
        PROVE  g[m] = IF m = 0 THEN {} ELSE {m} \cup g[list[m].parent]
    <3>1. m # 0 => list[m].parent \in 0 .. m - 1
      BY <1>1, <2>3 DEF Linked
    <3>2. m # 0 => g[list[m].parent] = f[list[m].parent]
      BY <1>1, <2>3, <3>1
    <3>3. m # n => f[m] = IF m = 0 THEN {} ELSE {m} \cup f[list[m].parent]
      <4>1. m # n => m \in 0 .. n - 1
        BY <2>3
      <4> QED
        BY <2>6, <4>1
    <3> QED
      BY <2>4, <3>2, <3>3
  <2>8. g = [m \in 0 .. n |-> IF m = 0 THEN {} ELSE {m} \cup g[list[m].parent]]
    BY <2>7
  <2> HIDE DEF g
  <2> QED
    BY <2>3, <2>8
<1>3. Upto(N)
  BY <1>1, <1>2
<1> HIDE DEF T
<1>4. Lineage(list) =
        [m \in 0 .. N |-> IF m = 0 THEN {} ELSE {m} \cup Lineage(list)[list[m].parent]]
  BY <1>3, Zenon DEF Lineage
<1> QED
  BY <1>1, <1>4

\* What is behind a commit came before it.
LEMMA LineageBehind ==
  ASSUME NEW list, Linked(list), NEW n \in 0 .. Len(list)
  PROVE  Lineage(list)[n] \subseteq 1 .. n
<1> DEFINE T == {m \in 0 .. Len(list) : ~ (Lineage(list)[m] \subseteq 1 .. m)}
<1>1. Len(list) \in Nat
  BY DEF Linked
<1> SUFFICES ASSUME T # {} PROVE FALSE
  OBVIOUS
<1>2. T \subseteq Nat
  BY <1>1
<1> HIDE DEF T
<1>3. PICK m \in T : \A k \in T : m <= k
  BY <1>2, LeastNumber
<1>4. m \in 0 .. Len(list) /\ ~ (Lineage(list)[m] \subseteq 1 .. m)
  BY <1>3 DEF T
<1>5. m # 0
  BY <1>4, LineageRule
<1> DEFINE parent == list[m].parent
<1>6. parent \in 0 .. m - 1
  BY <1>1, <1>4, <1>5 DEF Linked
<1>7. Lineage(list)[parent] \subseteq 1 .. parent
  <2>1. parent \in 0 .. Len(list) /\ parent \notin T
    BY <1>1, <1>3, <1>4, <1>6
  <2> QED
    BY <2>1 DEF T
<1>8. Lineage(list)[m] = {m} \cup Lineage(list)[parent]
  BY <1>1, <1>4, <1>5, LineageRule
<1> HIDE DEF parent
<1> QED
  BY <1>1, <1>4, <1>5, <1>6, <1>7, <1>8

LEMMA LinkedAppend ==
  ASSUME NEW list, Linked(list), NEW r \in CommitRecords, r.parent \in 0 .. Len(list)
  PROVE  /\ Linked(Append(list, r))
         /\ Len(Append(list, r)) = Len(list) + 1
         /\ Append(list, r)[Len(list) + 1] = r
         /\ \A n \in 1 .. Len(list) : Append(list, r)[n] = list[n]
  BY DEF Linked

\* A commit's history never changes.
LEMMA LineageStays ==
  ASSUME NEW list, Linked(list), NEW r \in CommitRecords, r.parent \in 0 .. Len(list),
         NEW n \in 0 .. Len(list)
  PROVE  Lineage(Append(list, r))[n] = Lineage(list)[n]
<1> DEFINE longer == Append(list, r)
           T == {m \in 0 .. Len(list) : Lineage(longer)[m] # Lineage(list)[m]}
<1>1. Linked(longer) /\ Len(longer) = Len(list) + 1
      /\ \A m \in 1 .. Len(list) : longer[m] = list[m]
  BY LinkedAppend
<1>2. Len(list) \in Nat
  BY DEF Linked
<1> SUFFICES ASSUME T # {} PROVE FALSE
  OBVIOUS
<1>3. T \subseteq Nat
  BY <1>2
<1> HIDE DEF T, longer
<1>4. PICK m \in T : \A k \in T : m <= k
  BY <1>3, LeastNumber
<1>5. m \in 0 .. Len(list) /\ Lineage(longer)[m] # Lineage(list)[m]
  BY <1>4 DEF T
<1>6. m # 0
  BY <1>1, <1>5, LineageRule
<1> DEFINE parent == list[m].parent
<1>7. parent \in 0 .. m - 1
  BY <1>2, <1>5, <1>6 DEF Linked
<1>8. Lineage(longer)[parent] = Lineage(list)[parent]
  <2>1. parent \in 0 .. Len(list) /\ parent \notin T
    BY <1>2, <1>4, <1>5, <1>7
  <2> QED
    BY <2>1 DEF T
<1>9. Lineage(list)[m] = {m} \cup Lineage(list)[parent]
  BY <1>2, <1>5, <1>6, LineageRule
<1>10. Lineage(longer)[m] = {m} \cup Lineage(longer)[parent]
  <2>1. m \in 1 .. Len(longer) /\ longer[m] = list[m]
    BY <1>1, <1>2, <1>5, <1>6
  <2> QED
    BY <1>1, <2>1, LineageRule
<1> QED
  BY <1>5, <1>8, <1>9, <1>10

LEMMA AncestorsLineage ==
  /\ \A n : Ancestors(n) = Lineage(commits)[n]
  /\ \A n : Ancestors(n)' = Lineage(commits')[n]
BY DEF Ancestors, Lineage

-----------------------------------------------------------------------------
(* The owner's commands.                                                   *)

Jobs == {"intake", "agent", "publish", "prepare"}
RunSteps ==
  Jobs \cup {"reply", "decide", "replay", "push", "finalize", "record", "notice", "done", "failed"}

Pulls == [open : BOOLEAN, head : Nat, base : {"default", "other"}, moved : Nat, text : Nat]
Threads == [answers : Nat, notices : Nat, records : Seq(Nat)]
Bindings == [head : Nat, moved : Nat, text : Nat, body : Bodies \cup {None}]
Runs == [pc : RunSteps, job : Jobs, verb : {b.verb : b \in Bodies} \cup {None},
         binding : Bindings \cup {None}, patch : TaskPatches \cup {None}, analysed : BOOLEAN,
         seen : Nat \cup {None}, commit : Nat \cup {None},
         why : {"rejected", "stale", "retargeted", "stale source", None}]

OwnerTypeOK ==
  /\ pull \in Pulls
  /\ said \in [Commands -> Bodies \cup {None}]
  /\ thread \in [Commands -> Threads]
  /\ run \in [Commands -> Runs]
  /\ Linked(commits) /\ pull.head \in DOMAIN commits

\* The head has lost every commit that was recorded for the comment.
Gone(c) ==
  \A i \in DOMAIN thread[c].records : thread[c].records[i] \notin Ancestors(pull.head)

\* The commit is the comment's own, and not recorded yet.
Fresh(c, n) ==
  /\ n \in DOMAIN commits /\ commits[n].trailer = c
  /\ \A i \in DOMAIN thread[c].records : thread[c].records[i] # n

\* Of the recorded commits only the newest can still be in the head: a new one is made or
\* recognised only once the head has lost it.
RecordsSound(c) ==
  \A i \in DOMAIN thread[c].records :
    LET n == thread[c].records[i]
    IN /\ n \in DOMAIN commits /\ commits[n].trailer = c
       /\ i < Len(thread[c].records) => n \notin Ancestors(pull.head)
       /\ \A j \in DOMAIN thread[c].records : n = thread[c].records[j] => i = j

\* What a run has established where it stands.
RunSound(c, r) ==
  /\ r.pc \in {"push", "replay", "finalize", "record"} => Gone(c)
  /\ r.pc = "push" => isRecognizableAppliedAnalysis(r.patch)
  /\ r.pc = "replay" => r.seen \in DOMAIN commits /\ r.commit \in Ancestors(r.seen)
  /\ r.pc \in {"finalize", "record"} => Fresh(c, r.commit)
  /\ r.pc = "reply" => thread[c].answers = 0

CommandSound(c) == RecordsSound(c) /\ RunSound(c, run[c]) /\ thread[c].answers <= 1

OwnerInv == OwnerTypeOK /\ \A c \in Commands : CommandSound(c)

LEMMA OwnerStarts == OwnerInit => OwnerInv
<1> SUFFICES ASSUME OwnerInit PROVE OwnerInv
  OBVIOUS
<1>1. pull \in Pulls /\ pull.head = 1
  BY DEF OwnerInit, Pulls
<1>2. said \in [Commands -> Bodies \cup {None}]
  BY DEF OwnerInit
<1>3. thread \in [Commands -> Threads]
      /\ \A c \in Commands : thread[c].records = <<>> /\ thread[c].answers = 0
  BY DEF OwnerInit, Threads
<1>4. run \in [Commands -> Runs] /\ \A c \in Commands : run[c].pc = "intake"
  BY DEF OwnerInit, NewRun, Runs, RunSteps, Jobs
<1>5. Linked(commits) /\ DOMAIN commits = 1 .. 1
  BY DEF OwnerInit, Linked, CommitRecords
<1>6. \A c \in Commands : CommandSound(c)
  BY <1>3, <1>4 DEF CommandSound, RecordsSound, RunSound
<1> QED
  BY <1>1, <1>2, <1>3, <1>4, <1>5, <1>6 DEF OwnerInv, OwnerTypeOK

\* The history only grows, and of the commits there were the head only loses some.
HistoryGrows ==
  /\ Linked(commits') /\ pull'.head \in DOMAIN commits'
  /\ DOMAIN commits \subseteq DOMAIN commits'
  /\ \A n \in DOMAIN commits : commits'[n] = commits[n] /\ Ancestors(n)' = Ancestors(n)
  /\ \A n \in DOMAIN commits : n \in Ancestors(pull.head)' => n \in Ancestors(pull.head)

LEMMA AncestorsFacts ==
  ASSUME OwnerTypeOK
  PROVE  /\ DOMAIN commits = 1 .. Len(commits) /\ Len(commits) \in Nat
         /\ pull.head \in 1 .. Len(commits)
         /\ \A n \in 1 .. Len(commits) :
              Ancestors(n) = {n} \cup Ancestors(commits[n].parent)
         /\ \A n \in 1 .. Len(commits) : Ancestors(n) \subseteq DOMAIN commits
<1>1. DOMAIN commits = 1 .. Len(commits) /\ Len(commits) \in Nat
  BY DEF OwnerTypeOK, Linked
<1>2. \A n \in 1 .. Len(commits) : Ancestors(n) = {n} \cup Ancestors(commits[n].parent)
  BY AncestorsLineage, LineageRule DEF OwnerTypeOK
<1>3. ASSUME NEW n \in 1 .. Len(commits)
      PROVE  Ancestors(n) \subseteq DOMAIN commits
  BY <1>1, AncestorsLineage, LineageBehind DEF OwnerTypeOK
<1> QED
  BY <1>1, <1>2, <1>3 DEF OwnerTypeOK

\* A push appends a child of the head.
LEMMA PushGrows ==
  ASSUME OwnerTypeOK, NEW r \in CommitRecords, r.parent = pull.head,
         commits' = Append(commits, r), pull' = [pull EXCEPT !.head = Len(commits) + 1]
  PROVE  HistoryGrows /\ pull' \in Pulls
<1> DEFINE new == Len(commits) + 1
<1>1. DOMAIN commits = 1 .. Len(commits) /\ Len(commits) \in Nat /\ pull.head \in 1 .. Len(commits)
  BY AncestorsFacts
<1>2. Linked(commits') /\ Len(commits') = new /\ commits'[new] = r
      /\ \A n \in 1 .. Len(commits) : commits'[n] = commits[n]
  BY <1>1, LinkedAppend DEF OwnerTypeOK
<1>3. DOMAIN commits' = 1 .. new
  BY <1>2 DEF Linked
<1>4. pull' \in Pulls /\ pull'.head = new
  BY <1>1 DEF OwnerTypeOK, Pulls
<1>5. \A n \in 1 .. Len(commits) : Ancestors(n)' = Ancestors(n)
  BY <1>1, LineageStays, AncestorsLineage DEF OwnerTypeOK
<1>6. Lineage(commits')[new] = {new} \cup Lineage(commits')[pull.head]
  <2> DEFINE longer == Append(commits, r)
  <2>1. Linked(longer) /\ new \in 1 .. Len(longer) /\ longer[new].parent = pull.head
    BY <1>1, LinkedAppend DEF OwnerTypeOK
  <2> HIDE DEF new, longer
  <2>2. Lineage(longer)[new] = {new} \cup Lineage(longer)[pull.head]
    BY <2>1, LineageRule
  <2> QED
    BY <2>2 DEF longer
<1>7. Ancestors(pull.head)' = {new} \cup Ancestors(pull.head)
  BY <1>1, <1>4, <1>5, <1>6, AncestorsLineage
<1> HIDE DEF new
<1>8. new \notin DOMAIN commits
  BY <1>1 DEF new
<1> QED
  BY <1>1, <1>2, <1>3, <1>4, <1>5, <1>7, <1>8 DEF HistoryGrows

LEMMA DropGrows ==
  ASSUME OwnerTypeOK, UNCHANGED commits, commits[pull.head].parent # 0,
         pull' = [pull EXCEPT !.head = commits[pull.head].parent]
  PROVE  HistoryGrows /\ pull' \in Pulls
<1> DEFINE parent == commits[pull.head].parent
<1>1. DOMAIN commits = 1 .. Len(commits) /\ Len(commits) \in Nat /\ pull.head \in 1 .. Len(commits)
  BY AncestorsFacts
<1>2. parent \in 1 .. Len(commits) /\ parent \in Nat
  BY <1>1 DEF OwnerTypeOK, Linked
<1>3. pull' \in Pulls /\ pull'.head = parent
  BY <1>2 DEF OwnerTypeOK, Pulls
<1>4. \A n : Ancestors(n)' = Ancestors(n)
  BY AncestorsLineage
<1>5. Ancestors(pull.head) = {pull.head} \cup Ancestors(parent)
  BY <1>1, AncestorsFacts
<1>6. Ancestors(pull.head)' = Ancestors(parent)
  BY <1>3, AncestorsLineage
<1> HIDE DEF parent
<1> QED
  BY <1>1, <1>2, <1>3, <1>4, <1>5, <1>6 DEF HistoryGrows, OwnerTypeOK

LEMMA StandingGrows ==
  ASSUME OwnerTypeOK, UNCHANGED commits, pull'.head = pull.head
  PROVE  HistoryGrows
<1>1. \A n : Ancestors(n)' = Ancestors(n)
  BY AncestorsLineage
<1>2. Ancestors(pull.head)' = Ancestors(pull.head)
  BY AncestorsLineage
<1> QED
  BY <1>1, <1>2 DEF HistoryGrows, OwnerTypeOK

\* What was established of a comment survives the growth of the history.
LEMMA GrowthKeeps ==
  ASSUME NEW c \in Commands, NEW r, OwnerTypeOK, CommandSound(c), HistoryGrows,
         thread'[c] = thread[c]
  PROVE  /\ RecordsSound(c)'
         /\ Gone(c) => Gone(c)'
         /\ \A n : Fresh(c, n) => Fresh(c, n)'
         /\ RunSound(c, r) => RunSound(c, r)'
<1>1. \A i \in DOMAIN thread[c].records : thread[c].records[i] \in DOMAIN commits
  BY DEF CommandSound, RecordsSound
<1>2. RecordsSound(c)'
  BY <1>1 DEF CommandSound, RecordsSound, HistoryGrows
<1>3. Gone(c) => Gone(c)'
  BY <1>1 DEF Gone, HistoryGrows
<1>4. \A n : Fresh(c, n) => Fresh(c, n)'
  BY DEF Fresh, HistoryGrows
<1>5. isRecognizableAppliedAnalysis(r.patch) => isRecognizableAppliedAnalysis(r.patch)'
  BY DEF isRecognizableAppliedAnalysis
<1>6. r.seen \in DOMAIN commits /\ r.commit \in Ancestors(r.seen)
        => (r.seen \in DOMAIN commits /\ r.commit \in Ancestors(r.seen))'
  BY DEF HistoryGrows
<1>7. RunSound(c, r) => RunSound(c, r)'
  BY <1>3, <1>4, <1>5, <1>6 DEF RunSound
<1> QED
  BY <1>2, <1>3, <1>4, <1>7

\* A step of one run that writes nothing.
LEMMA RunMoves ==
  ASSUME NEW c \in Commands, NEW r \in Runs, OwnerInv, Set(c, r), RunSound(c, r),
         UNCHANGED <<pull, commits, said, thread>>
  PROVE  OwnerInv'
<1>1. run' \in [Commands -> Runs] /\ run'[c] = r
      /\ \A d \in Commands \ {c} : run'[d] = run[d]
  BY DEF Set, OwnerInv, OwnerTypeOK
<1>2. HistoryGrows
  BY StandingGrows DEF OwnerInv
<1>3. OwnerTypeOK'
  BY <1>1 DEF OwnerInv, OwnerTypeOK
<1>4. ASSUME NEW d \in Commands
      PROVE  CommandSound(d)'
  <2>1. PICK q : q = IF d = c THEN r ELSE run[d]
    OBVIOUS
  <2>2. RunSound(d, q) /\ CommandSound(d) /\ thread'[d] = thread[d]
    BY <2>1 DEF OwnerInv, CommandSound
  <2>3. RunSound(d, q)' /\ RecordsSound(d)'
    BY <1>2, <2>2, GrowthKeeps DEF OwnerInv
  <2>4. run'[d] = q
    BY <1>1, <2>1
  <2> QED
    BY <2>2, <2>3, <2>4 DEF CommandSound, RunSound
<1> QED
  BY <1>3, <1>4 DEF OwnerInv

\* A step of people, who leave the runs and their responses alone.
LEMMA BystandersKeep ==
  ASSUME OwnerInv, HistoryGrows, pull' \in Pulls, said' \in [Commands -> Bodies \cup {None}],
         UNCHANGED <<thread, run>>
  PROVE  OwnerInv'
<1>1. OwnerTypeOK'
  BY DEF OwnerInv, OwnerTypeOK, HistoryGrows
<1>2. ASSUME NEW c \in Commands
      PROVE  CommandSound(c)'
  <2>1. PICK q : q = run[c]
    OBVIOUS
  <2>2. RunSound(c, q) /\ CommandSound(c) /\ thread'[c] = thread[c] /\ run'[c] = q
    BY <2>1 DEF OwnerInv, CommandSound
  <2>3. RunSound(c, q)' /\ RecordsSound(c)'
    BY <2>2, GrowthKeeps DEF OwnerInv
  <2> QED
    BY <2>2, <2>3 DEF CommandSound, RunSound
<1> QED
  BY <1>1, <1>2 DEF OwnerInv

LEMMA PeopleOnPullKeep ==
  ASSUME OwnerInv, PeopleOnPull
  PROVE  OwnerInv'
<1>0. OwnerTypeOK
  BY DEF OwnerInv
<1>1. CASE PeopleDrop
  BY <1>0, <1>1, DropGrows, BystandersKeep DEF PeopleDrop, Bystanders, OwnerTypeOK
<1>2. CASE PullChanges
  <2>1. pull' \in Pulls /\ pull'.head = pull.head
    <3>1. CASE pull' = [pull EXCEPT !.open = ~ pull.open]
      <4>1. PICK b \in BOOLEAN : b = ~ pull.open
        OBVIOUS
      <4>2. pull' = [pull EXCEPT !.open = b]
        BY <3>1, <4>1, Zenon
      <4> QED
        BY <1>0, <4>2 DEF OwnerTypeOK, Pulls
    <3>2. pull \in Pulls /\ pull.moved + 1 \in Nat /\ pull.text + 1 \in Nat
      BY <1>0 DEF OwnerTypeOK, Pulls
    <3>3. CASE pull' = [pull EXCEPT !.base = "other", !.moved = pull.moved + 1]
      BY <3>2, <3>3 DEF Pulls
    <3>4. CASE pull' = [pull EXCEPT !.moved = pull.moved + 1]
      BY <3>2, <3>4 DEF Pulls
    <3>5. CASE pull' = [pull EXCEPT !.text = pull.text + 1]
      BY <3>2, <3>5 DEF Pulls
    <3> QED
      BY <1>2, <3>1, <3>3, <3>4, <3>5, Zenon DEF PullChanges
  <2> QED
    BY <1>0, <1>2, <2>1, StandingGrows, BystandersKeep DEF PullChanges, Bystanders, OwnerTypeOK
<1>3. ASSUME NEW patch \in TaskPatches \ {None}, PeoplePush(patch)
      PROVE  OwnerInv'
  <2> DEFINE r == [parent |-> pull.head, patch |-> patch, trailer |-> None]
  <2>1. r \in CommitRecords /\ r.parent = pull.head
    BY <1>0 DEF CommitRecords, OwnerTypeOK, Pulls
  <2>2. commits' = Append(commits, r) /\ pull' = [pull EXCEPT !.head = Len(commits) + 1]
    BY <1>3 DEF PeoplePush
  <2> HIDE DEF r
  <2> QED
    BY <1>0, <1>3, <2>1, <2>2, PushGrows, BystandersKeep DEF PeoplePush, Bystanders, OwnerTypeOK
<1>4. ASSUME NEW c \in Commands, NEW body \in Bodies \cup {None}, CommentChanges(c, body)
      PROVE  OwnerInv'
  BY <1>0, <1>4, StandingGrows, BystandersKeep DEF CommentChanges, Bystanders, OwnerTypeOK
<1> QED
  BY <1>1, <1>2, <1>3, <1>4 DEF PeopleOnPull

\* The forms a run takes where nothing is claimed of it.
LEMMA RunForms ==
  ASSUME OwnerTypeOK, NEW c \in Commands
  PROVE  /\ run[c] \in Runs
         /\ Ended(c) \in Runs /\ RunSound(c, Ended(c))
         /\ Failed(c) \in Runs /\ RunSound(c, Failed(c))
         /\ NewRun \in Runs /\ RunSound(c, NewRun)
         /\ \A why \in {"rejected", "stale", "retargeted", "stale source"} :
              Notice(c, why) \in Runs /\ RunSound(c, Notice(c, why))
<1> USE DEF Runs, RunSteps, Jobs
<1>1. run[c] \in Runs
  BY DEF OwnerTypeOK
<1>2. NewRun \in Runs /\ NewRun.pc = "intake"
  BY DEF NewRun
<1>3. Ended(c) \in Runs /\ Ended(c).pc = "done"
  BY DEF Ended, NewRun
<1>4. Failed(c) \in Runs /\ Failed(c).pc = "failed"
  BY <1>1 DEF Failed
<1>5. \A why \in {"rejected", "stale", "retargeted", "stale source"} :
        Notice(c, why) \in Runs /\ Notice(c, why).pc = "notice"
  BY <1>1 DEF Notice
<1> HIDE DEF Runs
<1> QED
  BY <1>1, <1>2, <1>3, <1>4, <1>5 DEF RunSound

\* What the forms have in common: some sound run takes the place of the run.
Proceeds(c) == \E r \in Runs : Set(c, r) /\ RunSound(c, r)

LEMMA ProceedsKeep ==
  ASSUME NEW c \in Commands, OwnerInv, Proceeds(c), UNCHANGED <<pull, commits, said, thread>>
  PROVE  OwnerInv'
BY RunMoves DEF Proceeds

LEMMA IntakeProceeds ==
  ASSUME NEW c \in Commands, OwnerInv, Intake(c)
  PROVE  Proceeds(c)
<1>0. OwnerTypeOK
  BY DEF OwnerInv
<1> DEFINE ends == ~deriveResponseAuthorization(c) \/ (said[c].verb = "task" /\ said[c].blank)
           next == IF said[c].verb = "task" /\ ~applies THEN "publish" ELSE "agent"
           r == [NewRun EXCEPT !.verb = said[c].verb, !.binding = Binding(c), !.pc = next,
                               !.job = next]
<1>1. said[c] # None => r \in Runs /\ r.pc \in {"publish", "agent"}
  <2>1. next \in {"publish", "agent"}
    OBVIOUS
  <2>2. said[c] # None => said[c].verb \in {b.verb : b \in Bodies}
    BY <1>0 DEF OwnerTypeOK
  <2>3. Binding(c) \in Bindings
    BY <1>0 DEF Binding, Bindings, OwnerTypeOK, Pulls
  <2> HIDE DEF next
  <2> QED
    BY <2>1, <2>2, <2>3 DEF NewRun, Runs, RunSteps, Jobs
<1>2. Set(c, IF said[c] = None THEN Failed(c) ELSE IF ends THEN Ended(c) ELSE r)
  BY Zenon DEF Intake
<1> HIDE DEF ends, r
<1>3. said[c] # None => RunSound(c, r)
  BY <1>1 DEF RunSound
<1> QED
  BY <1>0, <1>1, <1>2, <1>3, RunForms DEF Proceeds

LEMMA AgentProceeds ==
  ASSUME NEW c \in Commands, NEW patch \in TaskPatches, OwnerInv, OwnerAgent(c, patch)
  PROVE  Proceeds(c)
<1> DEFINE job == IF run[c].verb = "task" THEN "prepare" ELSE "publish"
           r == [run[c] EXCEPT !.pc = job, !.job = job, !.patch = patch]
<1>1. job \in {"prepare", "publish"}
  OBVIOUS
<1>2. Set(c, r)
  BY Zenon DEF OwnerAgent
<1> HIDE DEF job
<1>3. r \in Runs /\ r.pc = job
  <2>1. run[c] \in Runs
    BY DEF OwnerInv, OwnerTypeOK
  <2> QED
    BY <1>1, <2>1 DEF Runs, RunSteps, Jobs
<1> HIDE DEF r
<1> QED
  BY <1>1, <1>2, <1>3 DEF Proceeds, RunSound

LEMMA PublishProceeds ==
  ASSUME NEW c \in Commands, OwnerInv, PublishReads(c)
  PROVE  Proceeds(c)
<1>0. OwnerTypeOK
  BY DEF OwnerInv
<1> DEFINE r == [run[c] EXCEPT !.pc = "reply"]
<1>1. r \in Runs /\ r.pc = "reply"
  BY <1>0 DEF OwnerTypeOK, Runs, RunSteps
<1>2. \/ Set(c, Failed(c)) \/ Set(c, Ended(c))
      \/ Set(c, r) /\ ~hasExistingResponse(c)
  BY Zenon DEF PublishReads
<1> HIDE DEF r
<1>3. ~hasExistingResponse(c) => thread[c].answers = 0
  BY <1>0 DEF hasExistingResponse, OwnerTypeOK, Threads
<1>4. ~hasExistingResponse(c) => RunSound(c, r)
  BY <1>1, <1>3 DEF RunSound
<1> QED
  BY <1>0, <1>1, <1>2, <1>4, RunForms DEF Proceeds

LEMMA PrepareProceeds ==
  ASSUME NEW c \in Commands, NEW analysed \in BOOLEAN, OwnerInv, prepare(c, analysed)
  PROVE  Proceeds(c)
<1>0. OwnerTypeOK
  BY DEF OwnerInv
<1> DEFINE r == [run[c] EXCEPT !.pc = "decide", !.analysed = analysed]
<1>1. r \in Runs /\ r.pc = "decide"
  BY <1>0 DEF OwnerTypeOK, Runs, RunSteps
<1>2. Set(c, Failed(c)) \/ Set(c, Ended(c)) \/ Set(c, Notice(c, "rejected")) \/ Set(c, r)
  BY Zenon DEF prepare
<1> HIDE DEF r
<1>3. RunSound(c, r)
  BY <1>1 DEF RunSound
<1> QED
  BY <1>0, <1>1, <1>2, <1>3, RunForms DEF Proceeds

\* A head that has not lost the newest recorded commit has been handled; otherwise it has
\* lost them all.
LEMMA UnhandledIsGone ==
  ASSUME NEW c \in Commands, OwnerInv, ~AlreadyHandled(c)
  PROVE  Gone(c)
<1>1. CASE thread[c].records = <<>>
  BY <1>1 DEF Gone
<1>2. CASE thread[c].records # <<>>
  <2> DEFINE records == thread[c].records
  <2>1. records[Len(records)] \notin Ancestors(pull.head)
    BY <1>2 DEF AlreadyHandled, hasExistingTaskApply, markerAppliedCommit,
                checkAppliedCommitReachability
  <2>2. \A i \in DOMAIN records : i < Len(records) => records[i] \notin Ancestors(pull.head)
    BY DEF OwnerInv, CommandSound, RecordsSound
  <2>3. records \in Seq(Nat)
    BY DEF OwnerInv, OwnerTypeOK, Threads
  <2> HIDE DEF records
  <2>4. \A i \in DOMAIN records : i = Len(records) \/ i < Len(records)
    BY <2>3
  <2> QED
    BY <2>1, <2>2, <2>4 DEF Gone, records
<1> QED
  BY <1>1, <1>2

LEMMA DecideProceeds ==
  ASSUME NEW c \in Commands, OwnerInv, decide(c)
  PROVE  Proceeds(c)
<1>0. OwnerTypeOK /\ run[c] \in Runs
  BY DEF OwnerInv, OwnerTypeOK
<1> DEFINE replay == [run[c] EXCEPT !.pc = "replay", !.seen = pull.head,
                                    !.commit = CHOOSE n \in Recognised(c) : TRUE]
           push == [run[c] EXCEPT !.pc = "push"]
<1>1. \/ Set(c, Failed(c)) \/ Set(c, Ended(c)) \/ Set(c, Notice(c, "rejected"))
      \/ Set(c, Notice(c, "stale"))
      \/ Set(c, replay) /\ Recognised(c) # {} /\ ~AlreadyHandled(c)
      \/ Set(c, push) /\ isRecognizableAppliedAnalysis(run[c].patch) /\ ~AlreadyHandled(c)
  BY Zenon DEF decide, decideOwnerTaskPatch
<1>2. ASSUME Recognised(c) # {}, Gone(c)
      PROVE  replay \in Runs /\ RunSound(c, replay)
  <2>1. PICK n : n = CHOOSE k \in Recognised(c) : TRUE
    OBVIOUS
  <2>2. n \in Recognised(c)
    BY <1>2, <2>1
  <2>3. n \in Ancestors(pull.head)
    BY <2>2 DEF Recognised, findContentAppliedCommit
  <2>4. n \in Nat /\ pull.head \in Nat /\ pull.head \in DOMAIN commits
    BY <1>0, <2>3, AncestorsFacts
  <2>5. replay = [run[c] EXCEPT !.pc = "replay", !.seen = pull.head, !.commit = n]
    BY <2>1
  <2> HIDE DEF replay
  <2>6. replay \in Runs /\ replay.pc = "replay" /\ replay.seen = pull.head /\ replay.commit = n
    BY <1>0, <2>4, <2>5 DEF Runs, RunSteps
  <2> QED
    BY <1>2, <2>3, <2>4, <2>6 DEF RunSound
<1>3. ASSUME isRecognizableAppliedAnalysis(run[c].patch), Gone(c)
      PROVE  push \in Runs /\ RunSound(c, push)
  <2>1. push \in Runs /\ push.pc = "push" /\ push.patch = run[c].patch
    BY <1>0 DEF Runs, RunSteps
  <2> HIDE DEF push
  <2> QED
    BY <1>3, <2>1 DEF RunSound
<1> HIDE DEF replay, push
<1> QED
  BY <1>0, <1>1, <1>2, <1>3, UnhandledIsGone, RunForms DEF Proceeds

LEMMA ReplayProceeds ==
  ASSUME NEW c \in Commands, OwnerInv, Replays(c)
  PROVE  Proceeds(c)
<1>0. OwnerTypeOK /\ run[c] \in Runs /\ run[c].pc = "replay"
  BY DEF OwnerInv, OwnerTypeOK, Replays
<1> DEFINE r == [run[c] EXCEPT !.pc = "record"]
<1>1. \/ Set(c, Ended(c)) \/ Set(c, Notice(c, "stale")) \/ Set(c, Notice(c, "retargeted"))
      \/ Set(c, r) /\ pull.head = run[c].seen /\ Recordable(c)
  BY Zenon DEF Replays
<1>2. r \in Runs /\ r.pc = "record" /\ r.commit = run[c].commit
  BY <1>0 DEF Runs, RunSteps
<1> HIDE DEF r
<1>3. Gone(c) /\ run[c].commit \in Ancestors(run[c].seen)
  BY <1>0 DEF OwnerInv, CommandSound, RunSound
<1>4. ASSUME pull.head = run[c].seen, Recordable(c)
      PROVE  RunSound(c, r)
  <2>1. run[c].commit \in Ancestors(pull.head) /\ run[c].commit \in DOMAIN commits
    BY <1>0, <1>3, <1>4, AncestorsFacts
  <2>2. Fresh(c, run[c].commit)
    BY <1>3, <1>4, <2>1 DEF Fresh, Gone, Recordable
  <2> QED
    BY <1>2, <1>3, <2>2 DEF RunSound
<1> QED
  BY <1>0, <1>1, <1>2, <1>4, RunForms DEF Proceeds

LEMMA FinalizeProceeds ==
  ASSUME NEW c \in Commands, OwnerInv, finalize(c)
  PROVE  Proceeds(c)
<1>0. OwnerTypeOK /\ run[c] \in Runs /\ run[c].pc = "finalize"
  BY DEF OwnerInv, OwnerTypeOK, finalize
<1> DEFINE r == [run[c] EXCEPT !.pc = "record"]
<1>1. \/ Set(c, Ended(c)) \/ Set(c, Failed(c)) \/ Set(c, Notice(c, "stale source"))
      \/ Set(c, Notice(c, "retargeted")) \/ Set(c, r)
  BY Zenon DEF finalize
<1>2. r \in Runs /\ r.pc = "record" /\ r.commit = run[c].commit
  BY <1>0 DEF Runs, RunSteps
<1> HIDE DEF r
<1>3. RunSound(c, r)
  BY <1>0, <1>2 DEF OwnerInv, CommandSound, RunSound
<1> QED
  BY <1>0, <1>1, <1>2, <1>3, RunForms DEF Proceeds

\* A failed run is repeated from the beginning of a job, or altogether.
LEMMA EndsProceed ==
  ASSUME NEW c \in Commands, OwnerInv,
         ProtectedHead(c) \/ RunDies(c) \/ RerunFailed(c) \/ RerunAll(c)
  PROVE  Proceeds(c)
<1>0. OwnerTypeOK /\ run[c] \in Runs
  BY DEF OwnerInv, OwnerTypeOK
<1> DEFINE r == [run[c] EXCEPT !.pc = run[c].job]
<1>1. \/ Set(c, Notice(c, "rejected")) \/ Set(c, Failed(c)) \/ Set(c, NewRun) \/ Set(c, r)
  BY Zenon DEF ProtectedHead, RunDies, RerunFailed, RerunAll, To
<1>2. r \in Runs /\ r.pc \in Jobs
  BY <1>0 DEF Runs, RunSteps
<1> HIDE DEF r
<1>3. RunSound(c, r)
  BY <1>2 DEF RunSound, Jobs
<1> QED
  BY <1>0, <1>1, <1>2, <1>3, RunForms DEF Proceeds

\* A step that replaces a run and grows the history or writes a response.
LEMMA RunWrites ==
  ASSUME NEW c \in Commands, NEW r \in Runs, OwnerInv, Set(c, r), HistoryGrows,
         pull' \in Pulls, UNCHANGED said, thread' \in [Commands -> Threads],
         \A d \in Commands \ {c} : thread'[d] = thread[d],
         RecordsSound(c)', RunSound(c, r)', thread'[c].answers <= 1
  PROVE  OwnerInv'
<1>1. run' \in [Commands -> Runs] /\ run'[c] = r
      /\ \A d \in Commands \ {c} : run'[d] = run[d]
  BY DEF Set, OwnerInv, OwnerTypeOK
<1>2. OwnerTypeOK'
  BY <1>1 DEF OwnerInv, OwnerTypeOK, HistoryGrows
<1>3. CommandSound(c)'
  BY <1>1 DEF CommandSound, RunSound
<1>4. ASSUME NEW d \in Commands \ {c}
      PROVE  CommandSound(d)'
  <2>1. PICK q : q = run[d]
    OBVIOUS
  <2>2. RunSound(d, q) /\ CommandSound(d) /\ thread'[d] = thread[d] /\ run'[d] = q
    BY <1>1, <2>1 DEF OwnerInv, CommandSound
  <2>3. RunSound(d, q)' /\ RecordsSound(d)'
    BY <2>2, GrowthKeeps DEF OwnerInv
  <2> QED
    BY <2>2, <2>3 DEF CommandSound, RunSound
<1> QED
  BY <1>2, <1>3, <1>4 DEF OwnerInv

LEMMA PushKeeps ==
  ASSUME NEW c \in Commands, NEW ok \in BOOLEAN, OwnerInv, Pushes(c, ok)
  PROVE  OwnerInv'
<1>0. OwnerTypeOK /\ run[c] \in Runs /\ run[c].pc = "push" /\ CommandSound(c)
  BY DEF OwnerInv, OwnerTypeOK, Pushes
<1>1. PICK new \in Nat : new = Len(commits) + 1 /\ DOMAIN commits = 1 .. new - 1
  BY <1>0, AncestorsFacts
<1>2. CASE Set(c, Failed(c)) /\ UNCHANGED <<pull, commits, said, thread>>
  BY <1>0, <1>2, RunForms, RunMoves
<1> DEFINE child == [parent |-> run[c].binding.head, patch |-> run[c].patch, trailer |-> c]
           pushed == [run[c] EXCEPT !.pc = "finalize", !.commit = new]
<1>3. ASSUME Lease(c), commits' = Append(commits, child), pull' = [pull EXCEPT !.head = new],
             UNCHANGED <<said, thread>>, Set(c, pushed) \/ Set(c, Failed(c))
      PROVE  OwnerInv'
  <2>1. child \in CommitRecords /\ child.parent = pull.head /\ child.trailer = c
    BY <1>0, <1>3 DEF Lease, CommitRecords, OwnerTypeOK, Pulls, Runs
  <2> HIDE DEF child
  <2>2. HistoryGrows /\ pull' \in Pulls
    BY <1>0, <1>1, <1>3, <2>1, PushGrows
  <2>3. RecordsSound(c)' /\ (Gone(c) => Gone(c)')
    BY <1>0, <1>3, <2>2, GrowthKeeps
  <2>4. thread' \in [Commands -> Threads] /\ thread'[c].answers <= 1
    BY <1>0, <1>3 DEF OwnerTypeOK, CommandSound
  <2>5. new \in DOMAIN commits' /\ commits'[new] = child /\ new \notin DOMAIN commits
    BY <1>0, <1>1, <1>3 DEF OwnerTypeOK, Linked
  <2>6. pushed \in Runs /\ pushed.pc = "finalize" /\ pushed.commit = new
    BY <1>0, <1>1 DEF Runs, RunSteps
  <2>7. Failed(c) \in Runs /\ Failed(c).pc = "failed"
    BY <1>0 DEF Failed, Runs, RunSteps
  <2> HIDE DEF pushed
  <2>8. PICK r \in Runs : Set(c, r) /\ (r.pc = "failed" \/ (r.pc = "finalize" /\ r.commit = new))
    BY <1>3, <2>6, <2>7
  <2>9. Fresh(c, new)'
    <3>1. \A i \in DOMAIN thread[c].records : thread[c].records[i] # new
      BY <1>0, <2>5 DEF CommandSound, RecordsSound
    <3> QED
      BY <1>3, <2>1, <2>5, <3>1 DEF Fresh
  <2>10. Gone(c)'
    BY <1>0, <2>3 DEF CommandSound, RunSound
  <2>11. RunSound(c, r)'
    BY <2>8, <2>9, <2>10 DEF RunSound
  <2> QED
    BY <1>3, <2>2, <2>3, <2>4, <2>8, <2>11, RunWrites
<1>4. \/ Set(c, Failed(c)) /\ UNCHANGED <<pull, commits, said, thread>>
      \/ /\ Lease(c)
         /\ commits' = Append(commits, child) /\ pull' = [pull EXCEPT !.head = new]
         /\ UNCHANGED <<said, thread>>
         /\ Set(c, pushed) \/ Set(c, Failed(c))
  BY <1>1, Zenon DEF Pushes
<1> HIDE DEF child, pushed
<1> QED
  BY <1>2, <1>3, <1>4

\* A response is written only if there is none, a record only of a commit that is fresh.
LEMMA WritesKeep ==
  ASSUME NEW c \in Commands, NEW ok \in BOOLEAN, OwnerInv,
         PostsResponse(c, ok) \/ PostsRecord(c, ok) \/ PostsNotice(c, ok)
  PROVE  OwnerInv'
<1>0. OwnerTypeOK /\ run[c] \in Runs /\ CommandSound(c) /\ thread[c] \in Threads
  BY DEF OwnerInv, OwnerTypeOK
<1>1. UNCHANGED <<pull, commits, said>>
  BY DEF PostsResponse, PostsRecord, PostsNotice, Writes
<1>2. HistoryGrows
  BY <1>0, <1>1, StandingGrows
<1>3. PICK r \in Runs : Set(c, r) /\ r.pc \in {"done", "failed"}
  <2>1. Ended(c) \in Runs /\ Ended(c).pc = "done" /\ Failed(c) \in Runs /\ Failed(c).pc = "failed"
    BY <1>0 DEF Ended, NewRun, Failed, Runs, RunSteps, Jobs
  <2>2. Set(c, Ended(c)) \/ Set(c, Failed(c))
    BY Zenon DEF PostsResponse, PostsRecord, PostsNotice, Writes
  <2> QED
    BY <2>1, <2>2
<1>4. RunSound(c, r)'
  BY <1>3 DEF RunSound
<1>5. CASE UNCHANGED thread
  BY <1>0, <1>1, <1>2, <1>3, <1>4, <1>5, GrowthKeeps, RunWrites DEF OwnerTypeOK, CommandSound
<1>6. ASSUME NEW written \in Threads, thread' = [thread EXCEPT ![c] = written],
             RecordsSound(c)', written.answers <= 1
      PROVE  OwnerInv'
  <2>1. /\ thread' \in [Commands -> Threads] /\ thread'[c] = written
        /\ \A d \in Commands \ {c} : thread'[d] = thread[d]
    BY <1>0, <1>6 DEF OwnerTypeOK
  <2> QED
    BY <1>0, <1>1, <1>2, <1>3, <1>4, <1>6, <2>1, RunWrites DEF OwnerTypeOK
<1>7. Ancestors(pull.head)' = Ancestors(pull.head)
  BY <1>1, AncestorsLineage
<1>8. CASE PostsResponse(c, ok) /\ thread' = [thread EXCEPT ![c] = [thread[c] EXCEPT !.answers = @ + 1]]
  <2> DEFINE written == [thread[c] EXCEPT !.answers = @ + 1]
  <2>1. written \in Threads /\ written.answers <= 1 /\ written.records = thread[c].records
    BY <1>0, <1>8 DEF Threads, PostsResponse, CommandSound, RunSound
  <2> HIDE DEF written
  <2>2. thread' = [thread EXCEPT ![c] = written] /\ thread'[c].records = thread[c].records
    BY <1>0, <1>8, <2>1 DEF OwnerTypeOK, written
  <2>3. RecordsSound(c)'
    BY <1>0, <1>1, <1>7, <2>2 DEF CommandSound, RecordsSound
  <2> QED
    BY <1>6, <2>1, <2>2, <2>3
<1>9. CASE PostsNotice(c, ok) /\ thread' = [thread EXCEPT ![c] = [thread[c] EXCEPT !.notices = @ + 1]]
  <2> DEFINE written == [thread[c] EXCEPT !.notices = @ + 1]
  <2>1. written \in Threads /\ written.answers <= 1 /\ written.records = thread[c].records
    BY <1>0 DEF Threads, CommandSound
  <2> HIDE DEF written
  <2>2. thread' = [thread EXCEPT ![c] = written] /\ thread'[c].records = thread[c].records
    BY <1>0, <1>9, <2>1 DEF OwnerTypeOK, written
  <2>3. RecordsSound(c)'
    BY <1>0, <1>1, <1>7, <2>2 DEF CommandSound, RecordsSound
  <2> QED
    BY <1>6, <2>1, <2>2, <2>3
<1>10. CASE /\ PostsRecord(c, ok)
            /\ thread' = [thread EXCEPT ![c] =
                            [thread[c] EXCEPT !.records = Append(@, run[c].commit)]]
  <2> DEFINE records == thread[c].records
             n == run[c].commit
             longer == Append(records, n)
             written == [thread[c] EXCEPT !.records = longer]
  <2>1. Fresh(c, n) /\ Gone(c)
    BY <1>0, <1>10 DEF PostsRecord, CommandSound, RunSound
  <2>2. records \in Seq(Nat) /\ n \in Nat
    BY <1>0, <2>1, AncestorsFacts DEF Fresh, Threads
  <2>3. thread' = [thread EXCEPT ![c] = written]
    BY <1>10
  <2> HIDE DEF n, records
  <2>4. /\ longer \in Seq(Nat) /\ Len(longer) = Len(records) + 1 /\ longer[Len(longer)] = n
        /\ \A i \in DOMAIN longer :
             i = Len(longer) \/ (i \in DOMAIN records /\ longer[i] = records[i])
    BY <2>2
  <2> HIDE DEF longer
  <2>5. written \in Threads /\ written.answers <= 1 /\ written.records = longer
    BY <1>0, <2>4 DEF Threads, CommandSound
  <2>6. thread'[c].records = longer
    BY <1>0, <2>3, <2>5 DEF OwnerTypeOK
  <2> HIDE DEF written
  <2>7. ASSUME NEW i \in DOMAIN longer
        PROVE  /\ longer[i] \in DOMAIN commits /\ commits[longer[i]].trailer = c
               /\ i < Len(longer) => longer[i] \notin Ancestors(pull.head)
               /\ \A j \in DOMAIN longer : longer[i] = longer[j] => i = j
    <3>1. longer[i] \in DOMAIN commits /\ commits[longer[i]].trailer = c
      BY <1>0, <2>1, <2>4 DEF Fresh, CommandSound, RecordsSound, records
    <3>2. i < Len(longer) => longer[i] \notin Ancestors(pull.head)
      BY <2>1, <2>4 DEF Gone, records
    <3>3. ASSUME NEW j \in DOMAIN longer, longer[i] = longer[j]
          PROVE  i = j
      <4>1. \A k \in DOMAIN records : records[k] # n
        BY <2>1 DEF Fresh, records
      <4>2. \A k, l \in DOMAIN records : records[k] = records[l] => k = l
        BY <1>0 DEF CommandSound, RecordsSound, records
      <4>3. CASE i = Len(longer) \/ j = Len(longer)
        BY <2>4, <3>3, <4>1, <4>3
      <4>4. CASE i # Len(longer) /\ j # Len(longer)
        BY <2>4, <3>3, <4>2, <4>4
      <4> QED
        BY <4>3, <4>4
    <3> QED
      BY <3>1, <3>2, <3>3
  <2>8. RecordsSound(c)'
    BY <1>1, <1>7, <2>6, <2>7 DEF RecordsSound
  <2> QED
    BY <1>6, <2>3, <2>5, <2>8
<1> QED
  BY <1>5, <1>8, <1>9, <1>10, Zenon DEF PostsResponse, PostsRecord, PostsNotice, Writes

LEMMA OwnerSteps == OwnerInv /\ [OwnerNext]_ownerVars => OwnerInv'
<1> SUFFICES ASSUME OwnerInv, [OwnerNext]_ownerVars PROVE OwnerInv'
  OBVIOUS
<1>1. ASSUME NEW c \in Commands, Intake(c) \/ PublishReads(c) \/ decide(c) \/ Replays(c) \/ finalize(c)
      PROVE  OwnerInv'
  <2>1. Proceeds(c)
    BY <1>1, IntakeProceeds, PublishProceeds, DecideProceeds, ReplayProceeds, FinalizeProceeds
  <2> QED
    BY <1>1, <2>1, ProceedsKeep
    DEF Intake, PublishReads, decide, Replays, finalize, OwnerReads
<1>2. ASSUME NEW c \in Commands, NEW patch \in TaskPatches, OwnerAgent(c, patch)
      PROVE  OwnerInv'
  BY <1>2, AgentProceeds, ProceedsKeep DEF OwnerAgent, OwnerReads
<1>3. ASSUME NEW c \in Commands, NEW ok \in BOOLEAN, prepare(c, ok)
      PROVE  OwnerInv'
  BY <1>3, PrepareProceeds, ProceedsKeep DEF prepare
<1>4. ASSUME NEW c \in Commands, ProtectedHead(c) \/ RunDies(c) \/ RerunFailed(c) \/ RerunAll(c)
      PROVE  OwnerInv'
  BY <1>4, EndsProceed, ProceedsKeep DEF ProtectedHead, RunDies, RerunFailed, RerunAll
<1>5. ASSUME NEW c \in Commands, RunNext(c)
      PROVE  OwnerInv'
  BY <1>1, <1>2, <1>3, <1>5, PushKeeps, WritesKeep DEF RunNext
<1>6. CASE UNCHANGED ownerVars
  <2>1. HistoryGrows
    BY <1>6, StandingGrows DEF ownerVars, OwnerInv
  <2> QED
    BY <1>6, <2>1, BystandersKeep DEF ownerVars, OwnerInv, OwnerTypeOK
<1> QED
  BY <1>4, <1>5, <1>6, PeopleOnPullKeep DEF OwnerNext

\* The inductive invariant of the owner's commands.
THEOREM OwnerInvariance == OwnerSpec => []OwnerInv
<1> QED
  BY OwnerStarts, OwnerSteps, PTL DEF OwnerSpec

\* A success record names a commit made for that very comment, and no commit twice
\* (finalize, and the recognition in decide), for any number of commits, commands and
\* repeated runs, also when the head is rewritten in between.
THEOREM RecordsStayTrue == OwnerSpec => []RecordsTrue
<1>1. OwnerInv => RecordsTrue
  BY DEF OwnerInv, CommandSound, RecordsSound, RecordsTrue
<1> QED
  BY <1>1, OwnerInvariance, PTL

\* A comment never gets a second response (hasExistingResponse), though the answer of a post
\* may be lost and the run repeated.
THEOREM AnswersStaySingle == OwnerSpec => []AnsweredOnce
<1>1. OwnerInv => AnsweredOnce
  BY DEF OwnerInv, CommandSound, AnsweredOnce
<1> QED
  BY <1>1, OwnerInvariance, PTL

\* A commit of the bot is made on the head it lands on and keeps to the patch rules
\* (commit-tree, push --force-with-lease and the checks of decide).
THEOREM PushesExtendHead == OwnerSpec => PushExtendsHead
<1>1. ASSUME OwnerInv, OwnerNext, NEW n \in DOMAIN commits' \ DOMAIN commits,
             commits'[n].trailer # None
      PROVE  /\ commits'[n].parent = pull.head
             /\ isRecognizableAppliedAnalysis(commits'[n].patch)
  <2>0. commits' # commits
    BY <1>1
  <2>1. ASSUME NEW r, commits' = Append(commits, r)
        PROVE  commits'[n] = r
    BY <1>1, <2>1 DEF OwnerInv, OwnerTypeOK, Linked
  <2>2. ASSUME NEW patch, PeoplePush(patch)
        PROVE  FALSE
    <3> DEFINE r == [parent |-> pull.head, patch |-> patch, trailer |-> None]
    <3>1. commits' = Append(commits, r) /\ r.trailer = None
      BY <2>2 DEF PeoplePush
    <3> HIDE DEF r
    <3> QED
      BY <1>1, <2>1, <3>1
  <2>3. ~PeopleOnPull
    BY <2>0, <2>2 DEF PeopleOnPull, PeopleDrop, PullChanges, CommentChanges
  <2>4. PICK c \in Commands : RunNext(c)
    BY <1>1, <2>0, <2>3 DEF OwnerNext, ProtectedHead, RunDies, RerunFailed, RerunAll
  <2>5. PICK ok \in BOOLEAN : Pushes(c, ok)
    BY <2>0, <2>4
    DEF RunNext, Intake, PublishReads, decide, Replays, finalize, OwnerAgent, prepare,
        PostsResponse, PostsRecord, PostsNotice, Writes, OwnerReads
  <2>6. /\ Lease(c)
        /\ commits' = Append(commits, [parent |-> run[c].binding.head, patch |-> run[c].patch,
                                       trailer |-> c])
    BY <2>0, <2>5, Zenon DEF Pushes
  <2>7. isRecognizableAppliedAnalysis(run[c].patch)
    BY <1>1, <2>5 DEF Pushes, OwnerInv, CommandSound, RunSound
  <2> DEFINE r == [parent |-> run[c].binding.head, patch |-> run[c].patch, trailer |-> c]
  <2>8. r.parent = run[c].binding.head /\ r.patch = run[c].patch
    OBVIOUS
  <2> HIDE DEF r
  <2>9. commits'[n] = r
    BY <2>1, <2>6 DEF r
  <2> QED
    BY <2>6, <2>7, <2>8, <2>9 DEF Lease
<1>2. OwnerInv /\ [OwnerNext]_ownerVars =>
        [\A n \in DOMAIN commits' \ DOMAIN commits :
           commits'[n].trailer # None =>
             commits'[n].parent = pull.head /\ isRecognizableAppliedAnalysis(commits'[n].patch)]_ownerVars
  BY <1>1
<1> QED
  BY <1>2, OwnerInvariance, PTL DEF OwnerSpec, PushExtendsHead

================================================================================

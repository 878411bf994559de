----------------------- MODULE FactoryPublish_proofs -----------------------
(***************************************************************************)
(* Proofs about FactoryPublish, for any number of texts, triage runs,      *)
(* implement runs, patches and faults.                                     *)
(***************************************************************************)
EXTENDS FactoryPublish, FiniteSetTheorems, TLAPS

-----------------------------------------------------------------------------
(* Who works on the issue.                                                 *)

Revisions == Texts \cup {None}

TriagePcs == {"idle", "queued", "agent", "waiting", "done", "failed"} \cup SeedSteps \cup ApplySteps

TriageRecord ==
  [pc : TriagePcs, mode : {"pre-filter", "readiness"}, approved : Revisions,
   verdict : AgentVerdicts \cup {"invalid", None}, text : Revisions, labels : SUBSET Labels]

Verdicts == [run : TriageRuns, held : BOOLEAN, approved : Revisions]

TriageTypeOK ==
  /\ issue \in [open : BOOLEAN, text : Texts, labels : SUBSET Labels]
  /\ comment \in {None} \cup Verdicts
  /\ triage \in [TriageRuns -> TriageRecord]
  /\ order \in [pc : {"none", "said", "read", "dropped", "approved", "dispatched"},
                said : Revisions, text : Revisions, edited : {"before", "same second", "after"}]

\* One job at a time has the issue's group, and it is the one whose steps run.
GroupHeld ==
  /\ \A r \in TriageRuns :
       /\ triage[r].pc \in SeedSteps => holder = <<"seed", r>>
       /\ triage[r].pc \in ApplySteps => holder = <<"apply", r>>
  /\ \A i \in ImplementRuns : implement[i].pc \in PublishSteps => holder = <<"publish", i>>

-----------------------------------------------------------------------------
(* What the triage comment says.                                           *)

\* An apply job past its check of the generation owns the comment, and once it has
\* written its verdict the comment and the labels it will write say the same.
OwnedBy(r) ==
  /\ triage[r].pc \in {"waiting"} \cup ApplySteps => triage[r].verdict \in Answers
  /\ triage[r].pc \in ApplySteps \ {"read", "decide"} => comment # None /\ comment.run = r
  /\ triage[r].pc \in {"comment", "labels", "put", "verify"} => triage[r].verdict \in AgentVerdicts
  /\ triage[r].pc \in {"decide", "comment", "labels", "put", "verify"} => triage[r].text \in Texts
  /\ triage[r].pc \in {"labels", "put", "verify"} =>
       comment = buildVerdictComment(r, Readiness(r), triage[r].approved)
  /\ triage[r].pc \in {"put", "verify"} =>
       triage[r].labels \cap READINESS_LABELS = {Readiness(r)}

CommentOwned == \A r \in TriageRuns : OwnedBy(r)

\* Fallback labels authorize nothing.
FallbackUnready ==
  \A r \in TriageRuns :
    triage[r].pc \in {"fallback put", "fallback check"} => "ready-to-implement" \notin triage[r].labels

\* A run that is done left the labels its comment stands for; people only take readiness off.
DoneAuthorized ==
  comment # None /\ triage[comment.run].pc = "done" =>
    ("ready-to-implement" \in issue.labels => ~comment.held)

\* An approval is the text that the owner's comment stood under, wherever it is carried.
ApprovalCarried ==
  /\ order.pc = "said" /\ order.edited = "before" => issue.text = order.said
  /\ order.pc = "read" /\ order.edited = "before" => order.text = order.said
  /\ order.pc = "approved" => order.text = order.said
  /\ \A r \in TriageRuns :
       triage[r].approved # None => order.pc = "dispatched" /\ triage[r].approved = order.said
  /\ comment # None /\ comment.approved # None =>
       order.pc = "dispatched" /\ comment.approved = order.said

\* The comment of a run that is not done carries the approval of that run.
CommentCarries ==
  comment # None =>
    /\ triage[comment.run].pc # "idle"
    /\ ~comment.held /\ triage[comment.run].pc # "done" =>
         comment.approved = triage[comment.run].approved

-----------------------------------------------------------------------------
(* What the publish job knows.                                             *)

PullRecord == [labels : SUBSET {"no-review-automation", "no-auto-chain"}, notes : SUBSET Patches]
CommitRecord == [by : ImplementRuns, run : TriageRuns, patch : Patches, text : Texts]

ImplementPcs == {"idle", "view", "text", "agent", "queued", "done", "failed"} \cup PublishSteps

Summaries ==
  [says : {"flagged", "clean"}, label : BOOLEAN \cup {None}, note : BOOLEAN \cup {None}]

ImplementRecord ==
  [pc : ImplementPcs, view : Verdicts \cup {None}, text : Revisions,
   patch : Patches \cup {None}, login : Logins, slug : Slugs \cup {None},
   existing : BOOLEAN, pushed : BOOLEAN, labelled : BOOLEAN \cup {None},
   noted : BOOLEAN \cup {None}, removed : {"failed", "removed", None},
   summary : Summaries \cup {None}]

PublishTypeOK ==
  /\ implement \in [ImplementRuns -> ImplementRecord]
  /\ branch \in [Slugs -> {None} \cup CommitRecord]
  /\ pulls \in [Slugs -> {None} \cup PullRecord]

\* The generation that authorized a run's work, and every later reading of it, approve
\* the same text; a patch is there only for the text that was approved.
ViewKept(i) ==
  LET view == implement[i].view
  IN /\ view # None =>
          /\ ~view.held /\ triage[view.run].pc # "idle"
          /\ triage[view.run].pc # "done" => view.approved = triage[view.run].approved
          /\ comment # None /\ comment.run = view.run /\ ~comment.held =>
               comment.approved = view.approved
     /\ implement[i].pc \in {"idle", "view"} => view = None
     /\ implement[i].text # None => view # None /\ view.approved \in {None, implement[i].text}
     /\ implement[i].pc = "text" => view # None /\ implement[i].text = None
     /\ implement[i].pc = "agent" => implement[i].text # None
     /\ implement[i].patch # None /\ implement[i].pc # "done" => implement[i].text # None

Judged == {"issue", "find", "recheck", "last check", "push"}
Pushed == {"open", "fallback", "flag", "annotate", "unflag", "finish"}

\* From its check of the generation to the push, that generation is the comment's.
JudgedAuthorized(i) ==
  implement[i].pc \in Judged =>
    /\ implement[i].patch # None /\ Publishable(implement[i].patch)
    /\ isAuthorizingTriageGeneration(comment)
    /\ comment.run = implement[i].view.run

\* The branch that is chosen is the open pull request's, if there is one.
BranchChosen(i) ==
  /\ implement[i].pc \in {"recheck", "last check", "push", "open"} /\ ~implement[i].existing =>
       \A s \in Slugs : pulls[s] = None
  /\ implement[i].pc = "open" => ~implement[i].existing
  /\ implement[i].pc \in {"last check", "push"} \cup Pushed \cup {"done"} => implement[i].slug \in Slugs
  /\ implement[i].pc = "recheck" /\ implement[i].existing => implement[i].slug \in Slugs

\* A flagged commit's pull request shows what the best-effort calls say they put there.
FlagKept(i) ==
  LET s == implement[i].slug
  IN /\ implement[i].pc \in Pushed => branch[s] = Commit(i) /\ branch[s] \in CommitRecord
     /\ implement[i].pc = "unflag" => ~gamingFlagged(implement[i].patch)
     /\ implement[i].pc \in {"annotate", "finish"} /\ gamingFlagged(implement[i].patch) =>
          /\ implement[i].labelled \in BOOLEAN
          /\ implement[i].labelled = TRUE /\ pulls[s] # None => "no-auto-chain" \in pulls[s].labels
     /\ implement[i].pc = "finish" /\ gamingFlagged(implement[i].patch) =>
          /\ implement[i].noted \in BOOLEAN
          /\ implement[i].noted = TRUE /\ pulls[s] # None => implement[i].patch \in pulls[s].notes

RunKept(i) == ViewKept(i) /\ JudgedAuthorized(i) /\ BranchChosen(i) /\ FlagKept(i)

\* FlagVisible of one run.
FlagSeen(i) ==
  LET s == implement[i].slug
  IN AtStep(i, "done") /\ pulls[s] # None /\ branch[s].by = i /\ gamingFlagged(branch[s].patch)
     => /\ implement[i].summary.says = "flagged"
        /\ \/ "no-auto-chain" \in pulls[s].labels
           \/ branch[s].patch \in pulls[s].notes

OnePull == \A s, t \in Slugs : pulls[s] # None /\ pulls[t] # None => s = t

\* An open pull request has a commit.
PullsHaveCommits == \A s \in Slugs : pulls[s] # None => branch[s] \in CommitRecord

TriageInv ==
  /\ TriageTypeOK /\ GroupHeld
  /\ CommentOwned /\ FallbackUnready /\ DoneAuthorized /\ ApprovalCarried /\ CommentCarries

PublishInv ==
  /\ PublishTypeOK
  /\ \A i \in ImplementRuns : RunKept(i) /\ FlagSeen(i)
  /\ OnePull /\ PullsHaveCommits

FInv == TriageInv /\ PublishInv

-----------------------------------------------------------------------------
(* How a step changes one run of the triage workflow.                      *)

\* Run r is at p then, with the inputs, verdict, text and labels given; the others stay.
Becomes(r, p, mode, approved, verdict, text, labels) ==
  /\ triage' \in [TriageRuns -> TriageRecord]
  /\ \A q \in TriageRuns \ {r} : triage'[q] = triage[q]
  /\ triage'[r].pc = p /\ triage'[r].mode = mode /\ triage'[r].approved = approved
  /\ triage'[r].verdict = verdict /\ triage'[r].text = text /\ triage'[r].labels = labels

\* Run r goes on with its inputs.
With(r, p, verdict, text, labels) ==
  Becomes(r, p, triage[r].mode, triage[r].approved, verdict, text, labels)


\* The types of a run's record.
LEMMA FieldTypes ==
  ASSUME TriageTypeOK, NEW r \in TriageRuns
  PROVE  /\ triage[r] \in TriageRecord
         /\ triage[r].mode \in {"pre-filter", "readiness"} /\ triage[r].approved \in Revisions
         /\ triage[r].verdict \in AgentVerdicts \cup {"invalid", None}
         /\ triage[r].text \in Revisions /\ triage[r].labels \in SUBSET Labels
<1>1. triage[r] \in TriageRecord BY DEF TriageTypeOK
<1> QED BY <1>1 DEF TriageRecord

LEMMA BecomesRecord ==
  ASSUME TriageTypeOK, NEW r \in TriageRuns, NEW u \in TriageRecord,
         triage' = [triage EXCEPT ![r] = u]
  PROVE  Becomes(r, u.pc, u.mode, u.approved, u.verdict, u.text, u.labels)
<1>1. triage \in [TriageRuns -> TriageRecord] BY DEF TriageTypeOK
<1> QED BY <1>1, Zenon DEF Becomes

\* The steps that move a run on, in the forms the actions have.
LEMMA Going ==
  ASSUME TriageTypeOK, NEW r \in TriageRuns, NEW p \in TriagePcs, Goes(r, p)
  PROVE  With(r, p, triage[r].verdict, triage[r].text, triage[r].labels)
<1> DEFINE t == triage[r]
           u == [t EXCEPT !.pc = p]
<1>1. t \in TriageRecord BY FieldTypes
<1>2. /\ u \in TriageRecord /\ u.pc = p /\ u.mode = t.mode /\ u.approved = t.approved
      /\ u.verdict = t.verdict /\ u.text = t.text /\ u.labels = t.labels
  BY <1>1 DEF TriageRecord
<1>3. triage' = [triage EXCEPT ![r] = u] BY Zenon DEF Goes
<1> HIDE DEF u
<1> QED BY <1>2, <1>3, BecomesRecord DEF With

LEMMA ReadingLabels ==
  ASSUME TriageTypeOK, NEW r \in TriageRuns, NEW p \in TriagePcs, NEW l \in SUBSET Labels,
         triage' = [triage EXCEPT ![r].pc = p, ![r].labels = l]
  PROVE  With(r, p, triage[r].verdict, triage[r].text, l)
<1> DEFINE t == triage[r]
           u == [t EXCEPT !.pc = p, !.labels = l]
<1>1. t \in TriageRecord BY FieldTypes
<1>2. /\ u \in TriageRecord /\ u.pc = p /\ u.mode = t.mode /\ u.approved = t.approved
      /\ u.verdict = t.verdict /\ u.text = t.text /\ u.labels = l
  BY <1>1 DEF TriageRecord
<1>3. triage' = [triage EXCEPT ![r] = u]
  BY DEF TriageTypeOK
<1> HIDE DEF u
<1> QED BY <1>2, <1>3, BecomesRecord DEF With

LEMMA ReadingText ==
  ASSUME TriageTypeOK, NEW r \in TriageRuns, NEW p \in TriagePcs, NEW x \in Revisions,
         triage' = [triage EXCEPT ![r].pc = p, ![r].text = x]
  PROVE  With(r, p, triage[r].verdict, x, triage[r].labels)
<1> DEFINE t == triage[r]
           u == [t EXCEPT !.pc = p, !.text = x]
<1>1. t \in TriageRecord BY FieldTypes
<1>2. /\ u \in TriageRecord /\ u.pc = p /\ u.mode = t.mode /\ u.approved = t.approved
      /\ u.verdict = t.verdict /\ u.text = x /\ u.labels = t.labels
  BY <1>1 DEF TriageRecord
<1>3. triage' = [triage EXCEPT ![r] = u]
  BY DEF TriageTypeOK
<1> HIDE DEF u
<1> QED BY <1>2, <1>3, BecomesRecord DEF With

LEMMA Answering ==
  ASSUME TriageTypeOK, NEW r \in TriageRuns, NEW p \in TriagePcs,
         NEW v \in AgentVerdicts \cup {"invalid"},
         triage' = [triage EXCEPT ![r].pc = p, ![r].verdict = v]
  PROVE  With(r, p, v, triage[r].text, triage[r].labels)
<1> DEFINE t == triage[r]
           u == [t EXCEPT !.pc = p, !.verdict = v]
<1>1. t \in TriageRecord BY FieldTypes
<1>2. /\ u \in TriageRecord /\ u.pc = p /\ u.mode = t.mode /\ u.approved = t.approved
      /\ u.verdict = v /\ u.text = t.text /\ u.labels = t.labels
  BY <1>1 DEF TriageRecord
<1>3. triage' = [triage EXCEPT ![r] = u]
  BY DEF TriageTypeOK
<1> HIDE DEF u
<1> QED BY <1>2, <1>3, BecomesRecord DEF With

\* A job that fails, or leaves the run to its agent, forgets what it read; one that is
\* done forgets everything.
LEMMA Leaving ==
  ASSUME TriageTypeOK, NEW r \in TriageRuns, NEW p \in {"failed", "agent", "done"}, Leaves(r, p)
  PROVE  /\ holder' = None
         /\ p # "done" => With(r, p, triage[r].verdict, None, {})
         /\ p = "done" => Becomes(r, p, "pre-filter", None, None, None, {})
<1> DEFINE t == triage[r]
           u == [t EXCEPT !.pc = p, !.text = None, !.labels = {}]
           d == [Idle EXCEPT !.pc = p]
<1>1. t \in TriageRecord BY FieldTypes
<1>2. p \in TriagePcs BY DEF TriagePcs
<1>3. /\ u \in TriageRecord /\ u.pc = p /\ u.mode = t.mode /\ u.approved = t.approved
      /\ u.verdict = t.verdict /\ u.text = None /\ u.labels = {}
  BY <1>1, <1>2 DEF TriageRecord, Revisions
<1>4. /\ d \in TriageRecord /\ d.pc = p /\ d.mode = "pre-filter" /\ d.approved = None
      /\ d.verdict = None /\ d.text = None /\ d.labels = {}
  BY <1>2 DEF TriageRecord, Idle, Revisions
<1>5. p # "done" => triage' = [triage EXCEPT ![r] = u] BY Zenon DEF Leaves
<1>6. p = "done" => triage' = [triage EXCEPT ![r] = d] BY Zenon DEF Leaves
<1>7. holder' = None BY DEF Leaves
<1> HIDE DEF u, d
<1> QED BY <1>3, <1>4, <1>5, <1>6, <1>7, BecomesRecord DEF With

\* A run that is queued, by hand or for an approval.
LEMMA Queueing ==
  ASSUME TriageTypeOK, NEW r \in TriageRuns, NEW mode \in {"pre-filter", "readiness"}, NEW a \in Revisions,
         \/ triage' = [triage EXCEPT ![r] = [Idle EXCEPT !.pc = "queued", !.mode = mode, !.approved = a]]
         \/ a = None /\ triage' = [triage EXCEPT ![r] = [Idle EXCEPT !.pc = "queued", !.mode = mode]]
  PROVE  Becomes(r, "queued", mode, a, None, None, {})
<1> DEFINE u == [Idle EXCEPT !.pc = "queued", !.mode = mode, !.approved = a]
           d == [Idle EXCEPT !.pc = "queued", !.mode = mode]
<1>1. /\ u \in TriageRecord /\ u.pc = "queued" /\ u.mode = mode /\ u.approved = a
      /\ u.verdict = None /\ u.text = None /\ u.labels = {}
  BY DEF TriageRecord, Idle, Revisions, TriagePcs
<1>2. /\ d \in TriageRecord /\ d.pc = "queued" /\ d.mode = mode /\ d.approved = None
      /\ d.verdict = None /\ d.text = None /\ d.labels = {}
  BY DEF TriageRecord, Idle, Revisions, TriagePcs
<1> HIDE DEF u, d
<1>3. triage' = [triage EXCEPT ![r] = u] \/ (a = None /\ triage' = [triage EXCEPT ![r] = d])
  BY DEF u, d
<1> QED BY <1>1, <1>2, <1>3, BecomesRecord

-----------------------------------------------------------------------------
(* What the steps have in common.                                          *)

\* What is not there is not a text, a comment, a patch or the name of a job.
LEMMA Apart ==
  /\ None \notin Texts /\ None \notin Verdicts /\ None \notin Patches
  /\ \A r \in TriageRuns : None # <<"seed", r>> /\ None # <<"apply", r>>
  /\ \A i \in ImplementRuns : None # <<"publish", i>>
BY FactoryIssueAssumption, FactoryPublishAssumption DEF Verdicts, Revisions

\* The invariant's parts, and the types they give.
LEMMA Parts ==
  ASSUME TriageInv
  PROVE  /\ TriageTypeOK /\ GroupHeld /\ CommentOwned /\ FallbackUnready /\ DoneAuthorized
         /\ ApprovalCarried /\ CommentCarries
         /\ comment # None => comment \in Verdicts /\ comment.run \in TriageRuns
                              /\ comment.held \in BOOLEAN /\ comment.approved \in Revisions
         /\ issue \in [open : BOOLEAN, text : Texts, labels : SUBSET Labels]
         /\ issue.text \in Texts /\ issue.labels \in SUBSET Labels
<1>1. TriageTypeOK BY DEF TriageInv
<1>2. comment # None => comment \in Verdicts BY <1>1 DEF TriageTypeOK
<1> QED BY <1>1, <1>2 DEF TriageInv, TriageTypeOK, Verdicts

\* The job that holds the group is alone.
LEMMA Alone ==
  ASSUME GroupHeld, NEW r \in TriageRuns, triage[r].pc \in SeedSteps \cup ApplySteps
  PROVE  /\ \A q \in TriageRuns \ {r} : triage[q].pc \notin SeedSteps \cup ApplySteps
         /\ \A i \in ImplementRuns : implement[i].pc \notin PublishSteps
<1>1. holder = <<"seed", r>> \/ holder = <<"apply", r>> BY DEF GroupHeld
<1>2. ASSUME NEW q \in TriageRuns \ {r}
      PROVE  triage[q].pc \notin SeedSteps \cup ApplySteps
  BY <1>1 DEF GroupHeld
<1>3. ASSUME NEW i \in ImplementRuns
      PROVE  implement[i].pc \notin PublishSteps
  BY <1>1 DEF GroupHeld
<1> QED BY <1>2, <1>3

\* The group changes hands when it is free or its holder leaves.
LEMMA GroupPasses ==
  ASSUME GroupHeld, NEW r \in TriageRuns, implement' = implement,
         \A q \in TriageRuns \ {r} : triage'[q] = triage[q],
         triage'[r].pc \in SeedSteps => holder' = <<"seed", r>>,
         triage'[r].pc \in ApplySteps => holder' = <<"apply", r>>,
         holder' = holder \/ holder = None \/ triage[r].pc \in SeedSteps \cup ApplySteps
  PROVE  GroupHeld'
<1>1. CASE holder' = holder BY <1>1 DEF GroupHeld
<1>2. CASE holder = None BY <1>2, Apart DEF GroupHeld
<1>3. CASE triage[r].pc \in SeedSteps \cup ApplySteps BY <1>3, Alone DEF GroupHeld
<1> QED BY <1>1, <1>2, <1>3

\* A run that stays owns what it owned, if the comment stays or is not its own.
LEMMA OwnersStay ==
  ASSUME CommentOwned, NEW r \in TriageRuns, OwnedBy(r)',
         \A q \in TriageRuns \ {r} : triage'[q] = triage[q],
         \/ comment' = comment
         \/ \A q \in TriageRuns \ {r} : triage[q].pc \notin ApplySteps
  PROVE  CommentOwned'
<1>1. ASSUME NEW q \in TriageRuns \ {r}
      PROVE  OwnedBy(q)'
  <2>1. triage'[q] = triage[q] /\ OwnedBy(q) BY DEF CommentOwned
  <2>2. CASE comment' = comment
    BY <2>1, <2>2 DEF OwnedBy, Readiness
  <2>3. CASE triage[q].pc \notin ApplySteps
    BY <2>1, <2>3 DEF OwnedBy, ApplySteps, FallbackSteps
  <2> QED BY <2>2, <2>3
<1> QED BY <1>1 DEF CommentOwned


\* What run r may write into the comment: its hold, or its verdict.
SaysOf(r, c) ==
  c \in Verdicts /\ c.run = r /\ c.approved = IF c.held THEN None ELSE triage[r].approved

LEMMA SaysOfRun ==
  ASSUME TriageTypeOK, NEW r \in TriageRuns, NEW readiness
  PROVE  /\ SaysOf(r, HoldComment(r))
         /\ SaysOf(r, buildVerdictComment(r, readiness, triage[r].approved))
<1>1. triage[r].approved \in Revisions /\ None \in Revisions BY FieldTypes DEF Revisions
<1> QED BY <1>1 DEF SaysOf, HoldComment, buildVerdictComment, isFactoryAuthorizingReadiness, Verdicts

\* A step that keeps the order and the text, and invents no approval.
LEMMA ApprovalStays ==
  ASSUME ApprovalCarried, NEW r \in TriageRuns, order' = order, issue'.text = issue.text,
         \A q \in TriageRuns \ {r} : triage'[q] = triage[q],
         triage'[r].approved \in {None, triage[r].approved},
         comment' = comment \/ comment'.approved \in {None, triage[r].approved}
  PROVE  ApprovalCarried'
BY DEF ApprovalCarried

\* A job that leaves the group, having written its comment or not, and whether it
\* failed or hands over to the agent.
LEMMA LeaveKeeps ==
  ASSUME TriageInv, NEW r \in TriageRuns, triage[r].pc \in SeedSteps \cup ApplySteps,
         NEW p \in {"failed", "agent"}, Leaves(r, p), UNCHANGED <<issue, order>>, UNCHANGED publishVars,
         comment' = comment \/ SaysOf(r, comment')
  PROVE  TriageInv'
<1>0. TriageTypeOK /\ triage[r] \in TriageRecord BY Parts, FieldTypes
<1>g. GroupHeld /\ implement' = implement BY Parts DEF publishVars
<1>o. CommentOwned BY Parts
<1>d. FallbackUnready /\ DoneAuthorized BY Parts
<1>a. ApprovalCarried BY Parts
<1>c. CommentCarries BY Parts
<1>t. /\ comment # None => comment \in Verdicts /\ comment.run \in TriageRuns
      /\ issue \in [open : BOOLEAN, text : Texts, labels : SUBSET Labels]
      /\ triage[r].labels \in SUBSET Labels
  BY Parts, FieldTypes
<1>1. With(r, p, triage[r].verdict, None, {}) /\ holder' = None
  BY <1>0, Leaving
<1>2. triage[r].pc \notin {"idle", "done"} BY DEF SeedSteps, ApplySteps, FallbackSteps
<1>3. TriageTypeOK'
  BY <1>0, <1>1 DEF With, Becomes, TriageTypeOK, SaysOf
<1>4. GroupHeld'
  BY <1>g, <1>1, GroupPasses DEF With, Becomes, SeedSteps, ApplySteps, FallbackSteps
<1>5. OwnedBy(r)'
  BY <1>1 DEF With, Becomes, OwnedBy, ApplySteps, FallbackSteps
<1>6. CommentOwned'
  BY <1>g, <1>o, <1>1, <1>5, OwnersStay, Alone DEF With, Becomes
<1>7. FallbackUnready'
  BY <1>d, <1>1 DEF With, Becomes, FallbackUnready
<1>8. DoneAuthorized'
  BY <1>d, <1>t, <1>1 DEF With, Becomes, DoneAuthorized, SaysOf
<1>9. ApprovalCarried'
  BY <1>a, <1>1, ApprovalStays DEF With, Becomes, SaysOf
<1>10. CommentCarries'
  BY <1>c, <1>t, <1>1, <1>2 DEF With, Becomes, CommentCarries, SaysOf
<1> QED BY <1>3, <1>4, <1>6, <1>7, <1>8, <1>9, <1>10 DEF TriageInv

-----------------------------------------------------------------------------
(* The seed job keeps the invariant.                                       *)

LEMMA SeedKeeps ==
  ASSUME TriageInv, NEW r \in TriageRuns, SeedStep(r), UNCHANGED publishVars
  PROVE  TriageInv'
<1>0. TriageTypeOK /\ triage[r] \in TriageRecord BY Parts, FieldTypes
<1>g. GroupHeld /\ implement' = implement BY Parts DEF publishVars
<1>o. CommentOwned BY Parts
<1>d. FallbackUnready /\ DoneAuthorized BY Parts
<1>a. ApprovalCarried BY Parts
<1>c. CommentCarries BY Parts
<1>t. /\ comment # None => comment \in Verdicts /\ comment.run \in TriageRuns
      /\ issue \in [open : BOOLEAN, text : Texts, labels : SUBSET Labels]
      /\ triage[r].labels \in SUBSET Labels
  BY Parts, FieldTypes
<1>1. CASE Seed(r)
  <2>1. With(r, "seed", triage[r].verdict, triage[r].text, triage[r].labels)
    BY <1>0, <1>t, <1>1, Going DEF Seed, TriagePcs, SeedSteps
  <2>2. /\ triage[r].pc = "queued" /\ holder = None /\ holder' = <<"seed", r>>
        /\ issue' = issue /\ comment' = comment /\ order' = order
    BY <1>0, <1>t, <1>1 DEF Seed
  <2>3. TriageTypeOK'
    BY <1>0, <2>1, <2>2 DEF With, Becomes, TriageTypeOK
  <2>4. GroupHeld'
    BY <1>g, GroupPasses, <2>1, <2>2 DEF With, Becomes, GroupHeld, SeedSteps, ApplySteps, FallbackSteps
  <2>5. OwnedBy(r)'
    BY <1>o, <2>1, <2>2 DEF With, Becomes, CommentOwned, OwnedBy, ApplySteps, FallbackSteps
  <2>6. CommentOwned'
    BY <1>g, <1>o, <2>1, <2>2, <2>5, OwnersStay DEF With, Becomes
  <2>7. FallbackUnready' /\ DoneAuthorized'
    BY <1>d, <1>t, <2>1, <2>2 DEF With, Becomes, FallbackUnready, DoneAuthorized
  <2>8. ApprovalCarried'
    BY <1>a, ApprovalStays, <2>1, <2>2 DEF With, Becomes, SaysOf
  <2>9. CommentCarries'
    BY <1>c, <1>t, <2>1, <2>2 DEF With, Becomes, CommentCarries
  <2> QED BY <2>3, <2>4, <2>5, <2>6, <2>7, <2>8, <2>9 DEF TriageInv
<1>2. CASE SeedReads(r) /\ issue.open
  <2>1. With(r, "unready", triage[r].verdict, triage[r].text, issue.labels)
    BY <1>0, <1>t, <1>2, ReadingLabels DEF SeedReads, TriagePcs, SeedSteps
  <2>2. /\ triage[r].pc = "seed" /\ holder' = holder
        /\ issue' = issue /\ comment' = comment /\ order' = order
    BY <1>0, <1>t, <1>2 DEF SeedReads
  <2>3. TriageTypeOK'
    BY <1>0, <2>1, <2>2 DEF With, Becomes, TriageTypeOK
  <2>4. GroupHeld'
    BY <1>g, GroupPasses, <2>1, <2>2 DEF With, Becomes, GroupHeld, SeedSteps, ApplySteps, FallbackSteps
  <2>5. OwnedBy(r)'
    BY <1>o, <2>1, <2>2 DEF With, Becomes, CommentOwned, OwnedBy, ApplySteps, FallbackSteps
  <2>6. CommentOwned'
    BY <1>g, <1>o, <2>1, <2>2, <2>5, OwnersStay DEF With, Becomes
  <2>7. FallbackUnready' /\ DoneAuthorized'
    BY <1>d, <1>t, <2>1, <2>2 DEF With, Becomes, FallbackUnready, DoneAuthorized
  <2>8. ApprovalCarried'
    BY <1>a, ApprovalStays, <2>1, <2>2 DEF With, Becomes, SaysOf
  <2>9. CommentCarries'
    BY <1>c, <1>t, <2>1, <2>2 DEF With, Becomes, CommentCarries
  <2> QED BY <2>3, <2>4, <2>5, <2>6, <2>7, <2>8, <2>9 DEF TriageInv
<1>3. CASE SeedReads(r) /\ ~issue.open
  BY <1>3, LeaveKeeps DEF SeedReads, SeedSteps
<1>4. CASE SeedUnreadies(r)
  <2>1. With(r, "relabel", triage[r].verdict, triage[r].text, triage[r].labels)
    BY <1>0, <1>t, <1>4, Going DEF SeedUnreadies, TriagePcs, SeedSteps
  <2>2. /\ triage[r].pc = "unready" /\ holder' = holder /\ comment' = comment /\ order' = order
        /\ issue' \in [open : BOOLEAN, text : Texts, labels : SUBSET Labels] /\ issue'.text = issue.text
        /\ "ready-to-implement" \in issue'.labels => "ready-to-implement" \in issue.labels
    BY <1>0, <1>t, <1>4 DEF SeedUnreadies
  <2>3. TriageTypeOK'
    BY <1>0, <2>1, <2>2 DEF With, Becomes, TriageTypeOK
  <2>4. GroupHeld'
    BY <1>g, GroupPasses, <2>1, <2>2 DEF With, Becomes, GroupHeld, SeedSteps, ApplySteps, FallbackSteps
  <2>5. OwnedBy(r)'
    BY <1>o, <2>1, <2>2 DEF With, Becomes, CommentOwned, OwnedBy, ApplySteps, FallbackSteps
  <2>6. CommentOwned'
    BY <1>g, <1>o, <2>1, <2>2, <2>5, OwnersStay DEF With, Becomes
  <2>7. FallbackUnready' /\ DoneAuthorized'
    BY <1>d, <1>t, <2>1, <2>2 DEF With, Becomes, FallbackUnready, DoneAuthorized
  <2>8. ApprovalCarried'
    BY <1>a, ApprovalStays, <2>1, <2>2 DEF With, Becomes, SaysOf
  <2>9. CommentCarries'
    BY <1>c, <1>t, <2>1, <2>2 DEF With, Becomes, CommentCarries
  <2> QED BY <2>3, <2>4, <2>5, <2>6, <2>7, <2>8, <2>9 DEF TriageInv
<1>5. CASE SeedRelabels(r)
  <2>1. With(r, "check", triage[r].verdict, triage[r].text, triage[r].labels)
    BY <1>0, <1>t, <1>5, Going DEF SeedRelabels, TriagePcs, SeedSteps
  <2>2. /\ triage[r].pc = "relabel" /\ holder' = holder /\ comment' = comment /\ order' = order
        /\ issue' \in [open : BOOLEAN, text : Texts, labels : SUBSET Labels] /\ issue'.text = issue.text
        /\ "ready-to-implement" \in issue'.labels => "ready-to-implement" \in issue.labels
    BY <1>0, <1>t, <1>5 DEF SeedRelabels, READINESS_LABELS, Labels
  <2>3. TriageTypeOK'
    BY <1>0, <2>1, <2>2 DEF With, Becomes, TriageTypeOK
  <2>4. GroupHeld'
    BY <1>g, GroupPasses, <2>1, <2>2 DEF With, Becomes, GroupHeld, SeedSteps, ApplySteps, FallbackSteps
  <2>5. OwnedBy(r)'
    BY <1>o, <2>1, <2>2 DEF With, Becomes, CommentOwned, OwnedBy, ApplySteps, FallbackSteps
  <2>6. CommentOwned'
    BY <1>g, <1>o, <2>1, <2>2, <2>5, OwnersStay DEF With, Becomes
  <2>7. FallbackUnready' /\ DoneAuthorized'
    BY <1>d, <1>t, <2>1, <2>2 DEF With, Becomes, FallbackUnready, DoneAuthorized
  <2>8. ApprovalCarried'
    BY <1>a, ApprovalStays, <2>1, <2>2 DEF With, Becomes, SaysOf
  <2>9. CommentCarries'
    BY <1>c, <1>t, <2>1, <2>2 DEF With, Becomes, CommentCarries
  <2> QED BY <2>3, <2>4, <2>5, <2>6, <2>7, <2>8, <2>9 DEF TriageInv
<1>6. CASE SeedVerifies(r) /\ issue.labels \cap READINESS_LABELS = {"needs-triage"}
  <2>1. With(r, "hold", triage[r].verdict, triage[r].text, triage[r].labels)
    BY <1>0, <1>t, <1>6, Going DEF SeedVerifies, TriagePcs, SeedSteps
  <2>2. /\ triage[r].pc = "check" /\ holder' = holder
        /\ issue' = issue /\ comment' = comment /\ order' = order
    BY <1>0, <1>t, <1>6 DEF SeedVerifies
  <2>3. TriageTypeOK'
    BY <1>0, <2>1, <2>2 DEF With, Becomes, TriageTypeOK
  <2>4. GroupHeld'
    BY <1>g, GroupPasses, <2>1, <2>2 DEF With, Becomes, GroupHeld, SeedSteps, ApplySteps, FallbackSteps
  <2>5. OwnedBy(r)'
    BY <1>o, <2>1, <2>2 DEF With, Becomes, CommentOwned, OwnedBy, ApplySteps, FallbackSteps
  <2>6. CommentOwned'
    BY <1>g, <1>o, <2>1, <2>2, <2>5, OwnersStay DEF With, Becomes
  <2>7. FallbackUnready' /\ DoneAuthorized'
    BY <1>d, <1>t, <2>1, <2>2 DEF With, Becomes, FallbackUnready, DoneAuthorized
  <2>8. ApprovalCarried'
    BY <1>a, ApprovalStays, <2>1, <2>2 DEF With, Becomes, SaysOf
  <2>9. CommentCarries'
    BY <1>c, <1>t, <2>1, <2>2 DEF With, Becomes, CommentCarries
  <2> QED BY <2>3, <2>4, <2>5, <2>6, <2>7, <2>8, <2>9 DEF TriageInv
<1>7. CASE SeedVerifies(r) /\ issue.labels \cap READINESS_LABELS # {"needs-triage"}
  BY <1>7, LeaveKeeps DEF SeedVerifies, SeedSteps
<1>8. CASE SeedRecordsHold(r)
  BY <1>0, <1>8, SaysOfRun, LeaveKeeps DEF SeedRecordsHold, SeedSteps
<1> QED BY <1>1, <1>2, <1>3, <1>4, <1>5, <1>6, <1>7, <1>8 DEF SeedStep, SeedReads, SeedVerifies

-----------------------------------------------------------------------------
(* The apply job keeps the invariant.                                      *)

\* The verdict that is applied is a readiness label.
LEMMA ReadinessLabel ==
  ASSUME NEW r \in TriageRuns, triage[r].verdict \in AgentVerdicts
  PROVE  Readiness(r) \in READINESS_LABELS
BY VerdictAssumption DEF Readiness, EffectiveReadiness, READINESS_LABELS

\* The labels that are written show one readiness.
LEMMA NewLabels ==
  ASSUME NEW l \in SUBSET Labels, NEW readiness \in READINESS_LABELS
  PROVE  /\ computeNewLabelSet(l, readiness) \in SUBSET Labels
         /\ computeNewLabelSet(l, readiness) \cap READINESS_LABELS = {readiness}
BY DEF computeNewLabelSet, Labels

LEMMA ApplyKeeps ==
  ASSUME TriageInv, NEW r \in TriageRuns, ApplyStep(r), UNCHANGED publishVars
  PROVE  TriageInv'
<1>0. TriageTypeOK /\ triage[r] \in TriageRecord BY Parts, FieldTypes
<1>g. GroupHeld /\ implement' = implement BY Parts DEF publishVars
<1>o. CommentOwned BY Parts
<1>d. FallbackUnready /\ DoneAuthorized BY Parts
<1>a. ApprovalCarried BY Parts
<1>c. CommentCarries BY Parts
<1>t. /\ comment # None => comment \in Verdicts /\ comment.run \in TriageRuns
      /\ issue.labels \in SUBSET Labels /\ issue.text \in Texts
      /\ issue \in [open : BOOLEAN, text : Texts, labels : SUBSET Labels]
      /\ triage[r].labels \in SUBSET Labels
  BY Parts, FieldTypes
<1>1. CASE Apply(r)
  <2>1. With(r, "read", triage[r].verdict, triage[r].text, triage[r].labels)
    BY <1>0, <1>t, <1>1, Going DEF Apply, TriagePcs, ApplySteps
  <2>2. /\ triage[r].pc = "waiting" /\ holder = None /\ holder' = <<"apply", r>>
        /\ issue' = issue /\ comment' = comment /\ order' = order
    BY <1>0, <1>t, <1>1 DEF Apply
  <2>3. TriageTypeOK'
    BY <1>0, <2>1, <2>2 DEF With, Becomes, TriageTypeOK
  <2>4. GroupHeld'
    BY <1>g, GroupPasses, <2>1, <2>2 DEF With, Becomes, GroupHeld, SeedSteps, ApplySteps, FallbackSteps
  <2>5. OwnedBy(r)'
    BY <1>o, <2>1, <2>2 DEF With, Becomes, CommentOwned, OwnedBy, ApplySteps, FallbackSteps
  <2>6. CommentOwned'
    BY <1>g, <1>o, <2>1, <2>2, <2>5, OwnersStay DEF With, Becomes
  <2>7. FallbackUnready' /\ DoneAuthorized'
    BY <1>d, <1>t, <2>1, <2>2 DEF With, Becomes, FallbackUnready, DoneAuthorized
  <2>8. ApprovalCarried'
    BY <1>a, ApprovalStays, <2>1, <2>2 DEF With, Becomes, SaysOf
  <2>9. CommentCarries'
    BY <1>c, <1>t, <2>1, <2>2 DEF With, Becomes, CommentCarries
  <2> QED BY <2>3, <2>4, <2>5, <2>6, <2>7, <2>8, <2>9 DEF TriageInv
<1>2. CASE ApplyReadsIssue(r) /\ issue.open
  <2>1. With(r, "decide", triage[r].verdict, issue.text, triage[r].labels)
    BY <1>0, <1>t, <1>2, ReadingText DEF ApplyReadsIssue, TriagePcs, ApplySteps, Revisions
  <2>2. /\ triage[r].pc = "read" /\ holder' = holder
        /\ issue' = issue /\ comment' = comment /\ order' = order
    BY <1>0, <1>t, <1>2 DEF ApplyReadsIssue
  <2>3. TriageTypeOK'
    BY <1>0, <2>1, <2>2 DEF With, Becomes, TriageTypeOK
  <2>4. GroupHeld'
    BY <1>g, GroupPasses, <2>1, <2>2 DEF With, Becomes, GroupHeld, SeedSteps, ApplySteps, FallbackSteps
  <2>5. OwnedBy(r)'
    BY <1>o, <2>1, <2>2, <1>t DEF With, Becomes, CommentOwned, OwnedBy, ApplySteps, FallbackSteps
  <2>6. CommentOwned'
    BY <1>g, <1>o, <2>1, <2>2, <2>5, OwnersStay DEF With, Becomes
  <2>7. FallbackUnready' /\ DoneAuthorized'
    BY <1>d, <1>t, <2>1, <2>2 DEF With, Becomes, FallbackUnready, DoneAuthorized
  <2>8. ApprovalCarried'
    BY <1>a, ApprovalStays, <2>1, <2>2 DEF With, Becomes, SaysOf
  <2>9. CommentCarries'
    BY <1>c, <1>t, <2>1, <2>2 DEF With, Becomes, CommentCarries
  <2> QED BY <2>3, <2>4, <2>5, <2>6, <2>7, <2>8, <2>9 DEF TriageInv
<1>3. CASE ApplyReadsIssue(r) /\ ~issue.open
  BY <1>3, LeaveKeeps DEF ApplyReadsIssue, ApplySteps
<1>4. CASE ApplyDecides(r) /\ ~requireRetryableTriageGeneration(r)
  BY <1>4, LeaveKeeps DEF ApplyDecides, ApplySteps
<1>5. CASE ApplyDecides(r) /\ requireRetryableTriageGeneration(r)
           /\ (triage[r].approved \notin {None, triage[r].text} \/ triage[r].verdict = "invalid")
  <2>1. With(r, "fallback", triage[r].verdict, triage[r].text, triage[r].labels)
    BY <1>0, <1>t, <1>5, Going DEF ApplyDecides, TriagePcs, ApplySteps, FallbackSteps
  <2>2. /\ triage[r].pc = "decide" /\ holder' = holder
        /\ issue' = issue /\ comment' = comment /\ order' = order
        /\ comment # None /\ comment.run = r
    BY <1>0, <1>t, <1>5 DEF ApplyDecides, requireRetryableTriageGeneration
  <2>3. TriageTypeOK'
    BY <1>0, <2>1, <2>2 DEF With, Becomes, TriageTypeOK
  <2>4. GroupHeld'
    BY <1>g, GroupPasses, <2>1, <2>2 DEF With, Becomes, GroupHeld, SeedSteps, ApplySteps, FallbackSteps
  <2>5. OwnedBy(r)'
    BY <1>o, <2>1, <2>2 DEF With, Becomes, CommentOwned, OwnedBy, ApplySteps, FallbackSteps
  <2>6. CommentOwned'
    BY <1>g, <1>o, <2>1, <2>2, <2>5, OwnersStay DEF With, Becomes
  <2>7. FallbackUnready' /\ DoneAuthorized'
    BY <1>d, <1>t, <2>1, <2>2 DEF With, Becomes, FallbackUnready, DoneAuthorized
  <2>8. ApprovalCarried'
    BY <1>a, ApprovalStays, <2>1, <2>2 DEF With, Becomes, SaysOf
  <2>9. CommentCarries'
    BY <1>c, <1>t, <2>1, <2>2 DEF With, Becomes, CommentCarries
  <2> QED BY <2>3, <2>4, <2>5, <2>6, <2>7, <2>8, <2>9 DEF TriageInv
<1>6. CASE ApplyDecides(r) /\ requireRetryableTriageGeneration(r)
           /\ ~(triage[r].approved \notin {None, triage[r].text} \/ triage[r].verdict = "invalid")
  <2>1. With(r, "comment", triage[r].verdict, triage[r].text, triage[r].labels)
    BY <1>0, <1>t, <1>6, Going DEF ApplyDecides, TriagePcs, ApplySteps, FallbackSteps
  <2>2. /\ triage[r].pc = "decide" /\ holder' = holder
        /\ issue' = issue /\ comment' = comment /\ order' = order
        /\ comment # None /\ comment.run = r /\ triage[r].verdict # "invalid"
    BY <1>0, <1>t, <1>6 DEF ApplyDecides, requireRetryableTriageGeneration
  <2>3. TriageTypeOK'
    BY <1>0, <2>1, <2>2 DEF With, Becomes, TriageTypeOK
  <2>4. GroupHeld'
    BY <1>g, GroupPasses, <2>1, <2>2 DEF With, Becomes, GroupHeld, SeedSteps, ApplySteps, FallbackSteps
  <2>5. OwnedBy(r)'
    BY <1>o, <2>1, <2>2 DEF With, Becomes, CommentOwned, OwnedBy, ApplySteps, FallbackSteps, Answers
  <2>6. CommentOwned'
    BY <1>g, <1>o, <2>1, <2>2, <2>5, OwnersStay DEF With, Becomes
  <2>7. FallbackUnready' /\ DoneAuthorized'
    BY <1>d, <1>t, <2>1, <2>2 DEF With, Becomes, FallbackUnready, DoneAuthorized
  <2>8. ApprovalCarried'
    BY <1>a, ApprovalStays, <2>1, <2>2 DEF With, Becomes, SaysOf
  <2>9. CommentCarries'
    BY <1>c, <1>t, <2>1, <2>2 DEF With, Becomes, CommentCarries
  <2> QED BY <2>3, <2>4, <2>5, <2>6, <2>7, <2>8, <2>9 DEF TriageInv
<1>7. CASE ApplyWritesComment(r)
  <2>1. With(r, "labels", triage[r].verdict, triage[r].text, triage[r].labels)
    BY <1>0, <1>t, <1>7, Going DEF ApplyWritesComment, TriagePcs, ApplySteps
  <2>2. /\ triage[r].pc = "comment" /\ holder' = holder
        /\ issue' = issue /\ order' = order
        /\ comment' = buildVerdictComment(r, Readiness(r), triage[r].approved)
        /\ SaysOf(r, comment') /\ comment' # None
    BY <1>0, <1>t, <1>7, SaysOfRun, Apart DEF ApplyWritesComment, SaysOf
  <2>3. TriageTypeOK'
    BY <1>0, <2>1, <2>2 DEF With, Becomes, TriageTypeOK, SaysOf
  <2>4. GroupHeld'
    BY <1>g, GroupPasses, <2>1, <2>2 DEF With, Becomes, GroupHeld, SeedSteps, ApplySteps, FallbackSteps
  <2>5. OwnedBy(r)'
    BY <1>o, <2>1, <2>2 DEF With, Becomes, CommentOwned, OwnedBy, ApplySteps, FallbackSteps, SaysOf, Readiness
  <2>6. CommentOwned'
    BY <1>g, <1>o, <2>1, <2>2, <2>5, OwnersStay, Alone DEF With, Becomes, SeedSteps, ApplySteps, FallbackSteps
  <2>7. FallbackUnready' /\ DoneAuthorized'
    BY <1>d, <1>t, <2>1, <2>2 DEF With, Becomes, FallbackUnready, DoneAuthorized, SaysOf
  <2>8. ApprovalCarried'
    BY <1>a, ApprovalStays, <2>1, <2>2 DEF With, Becomes, SaysOf
  <2>9. CommentCarries'
    BY <1>c, <1>t, <2>1, <2>2 DEF With, Becomes, CommentCarries, SaysOf
  <2> QED BY <2>3, <2>4, <2>5, <2>6, <2>7, <2>8, <2>9 DEF TriageInv
<1>8. CASE ApplyReadsLabels(r)
  <2>1. With(r, "put", triage[r].verdict, triage[r].text, computeNewLabelSet(issue.labels, Readiness(r)))
    BY <1>0, <1>t, <1>o, <1>8, ReadingLabels, NewLabels, ReadinessLabel DEF ApplyReadsLabels, TriagePcs, ApplySteps, ReadsLabels, CommentOwned, OwnedBy
  <2>2. /\ triage[r].pc = "labels" /\ holder' = holder
        /\ issue' = issue /\ comment' = comment /\ order' = order
        /\ computeNewLabelSet(issue.labels, Readiness(r)) \cap READINESS_LABELS = {Readiness(r)}
    BY <1>0, <1>t, <1>o, <1>8, NewLabels, ReadinessLabel DEF ApplyReadsLabels, ReadsLabels, CommentOwned, OwnedBy, ApplySteps
  <2>3. TriageTypeOK'
    BY <1>0, <2>1, <2>2 DEF With, Becomes, TriageTypeOK
  <2>4. GroupHeld'
    BY <1>g, GroupPasses, <2>1, <2>2 DEF With, Becomes, GroupHeld, SeedSteps, ApplySteps, FallbackSteps
  <2>5. OwnedBy(r)'
    BY <1>o, <2>1, <2>2 DEF With, Becomes, CommentOwned, OwnedBy, ApplySteps, FallbackSteps, Readiness
  <2>6. CommentOwned'
    BY <1>g, <1>o, <2>1, <2>2, <2>5, OwnersStay DEF With, Becomes
  <2>7. FallbackUnready' /\ DoneAuthorized'
    BY <1>d, <1>t, <2>1, <2>2 DEF With, Becomes, FallbackUnready, DoneAuthorized
  <2>8. ApprovalCarried'
    BY <1>a, ApprovalStays, <2>1, <2>2 DEF With, Becomes, SaysOf
  <2>9. CommentCarries'
    BY <1>c, <1>t, <2>1, <2>2 DEF With, Becomes, CommentCarries
  <2> QED BY <2>3, <2>4, <2>5, <2>6, <2>7, <2>8, <2>9 DEF TriageInv
<1>9. CASE ApplyPutsLabels(r)
  <2>1. With(r, "verify", triage[r].verdict, triage[r].text, triage[r].labels)
    BY <1>0, <1>t, <1>o, <1>9, Going DEF ApplyPutsLabels, TriagePcs, ApplySteps, PutsLabels
  <2>2. /\ triage[r].pc = "put" /\ holder' = holder /\ comment' = comment /\ order' = order
        /\ issue' \in [open : BOOLEAN, text : Texts, labels : SUBSET Labels] /\ issue'.text = issue.text
        /\ comment.run = r /\ Readiness(r)' = Readiness(r)
    BY <1>0, <1>t, <1>o, <1>9, <2>1 DEF ApplyPutsLabels, PutsLabels, CommentOwned, OwnedBy, ApplySteps, With, Becomes, Readiness
  <2>3. TriageTypeOK'
    BY <1>0, <2>1, <2>2 DEF With, Becomes, TriageTypeOK
  <2>4. GroupHeld'
    BY <1>g, GroupPasses, <2>1, <2>2 DEF With, Becomes, GroupHeld, SeedSteps, ApplySteps, FallbackSteps
  <2>5. OwnedBy(r)'
    BY <1>o, <2>1, <2>2 DEF With, Becomes, CommentOwned, OwnedBy, ApplySteps, FallbackSteps
  <2>6. CommentOwned'
    BY <1>g, <1>o, <2>1, <2>2, <2>5, OwnersStay DEF With, Becomes
  <2>7. FallbackUnready' /\ DoneAuthorized'
    BY <1>d, <1>t, <2>1, <2>2 DEF With, Becomes, FallbackUnready, DoneAuthorized
  <2>8. ApprovalCarried'
    BY <1>a, ApprovalStays, <2>1, <2>2 DEF With, Becomes, SaysOf
  <2>9. CommentCarries'
    BY <1>c, <1>t, <2>1, <2>2 DEF With, Becomes, CommentCarries
  <2> QED BY <2>3, <2>4, <2>5, <2>6, <2>7, <2>8, <2>9 DEF TriageInv
<1>10. CASE ApplyVerifies(r) /\ issue.labels = triage[r].labels
  <2>1. Becomes(r, "done", "pre-filter", None, None, None, {}) /\ holder' = None
    BY <1>0, <1>t, <1>o, <1>10, Leaving DEF ApplyVerifies
  <2>2. /\ triage[r].pc = "verify"
        /\ issue' = issue /\ comment' = comment /\ order' = order
        /\ comment # None /\ comment.run = r
        /\ "ready-to-implement" \in issue.labels => ~comment.held
    <3>1. OwnedBy(r) /\ triage[r].pc = "verify" BY <1>o, <1>10 DEF CommentOwned, ApplyVerifies
    <3>2. /\ comment # None /\ comment.run = r
          /\ comment.held = (Readiness(r) # "ready-to-implement")
          /\ triage[r].labels \cap READINESS_LABELS = {Readiness(r)}
      BY <3>1 DEF OwnedBy, ApplySteps, buildVerdictComment, isFactoryAuthorizingReadiness
    <3> QED BY <1>10, <3>1, <3>2 DEF ApplyVerifies, READINESS_LABELS
  <2>3. TriageTypeOK'
    BY <1>0, <2>1, <2>2 DEF With, Becomes, TriageTypeOK
  <2>4. GroupHeld'
    BY <1>g, GroupPasses, <2>1, <2>2 DEF With, Becomes, GroupHeld, SeedSteps, ApplySteps, FallbackSteps
  <2>5. OwnedBy(r)'
    BY <1>o, <2>1, <2>2 DEF With, Becomes, CommentOwned, OwnedBy, ApplySteps, FallbackSteps
  <2>6. CommentOwned'
    BY <1>g, <1>o, <2>1, <2>2, <2>5, OwnersStay DEF With, Becomes
  <2>7. FallbackUnready' /\ DoneAuthorized'
    BY <1>d, <1>t, <2>1, <2>2 DEF With, Becomes, FallbackUnready, DoneAuthorized
  <2>8. ApprovalCarried'
    BY <1>a, ApprovalStays, <2>1, <2>2 DEF With, Becomes, SaysOf
  <2>9. CommentCarries'
    BY <1>c, <1>t, <2>1, <2>2 DEF With, Becomes, CommentCarries
  <2> QED BY <2>3, <2>4, <2>5, <2>6, <2>7, <2>8, <2>9 DEF TriageInv
<1>11. CASE ApplyVerifies(r) /\ issue.labels # triage[r].labels
  <2>1. With(r, "fallback", triage[r].verdict, triage[r].text, triage[r].labels)
    BY <1>0, <1>t, <1>11, Going DEF ApplyVerifies, TriagePcs, ApplySteps, FallbackSteps
  <2>2. /\ triage[r].pc = "verify" /\ holder' = holder
        /\ issue' = issue /\ comment' = comment /\ order' = order
    BY <1>0, <1>t, <1>11 DEF ApplyVerifies
  <2>3. TriageTypeOK'
    BY <1>0, <2>1, <2>2 DEF With, Becomes, TriageTypeOK
  <2>4. GroupHeld'
    BY <1>g, GroupPasses, <2>1, <2>2 DEF With, Becomes, GroupHeld, SeedSteps, ApplySteps, FallbackSteps
  <2>5. OwnedBy(r)'
    BY <1>o, <2>1, <2>2 DEF With, Becomes, CommentOwned, OwnedBy, ApplySteps, FallbackSteps
  <2>6. CommentOwned'
    BY <1>g, <1>o, <2>1, <2>2, <2>5, OwnersStay DEF With, Becomes
  <2>7. FallbackUnready' /\ DoneAuthorized'
    BY <1>d, <1>t, <2>1, <2>2 DEF With, Becomes, FallbackUnready, DoneAuthorized
  <2>8. ApprovalCarried'
    BY <1>a, ApprovalStays, <2>1, <2>2 DEF With, Becomes, SaysOf
  <2>9. CommentCarries'
    BY <1>c, <1>t, <2>1, <2>2 DEF With, Becomes, CommentCarries
  <2> QED BY <2>3, <2>4, <2>5, <2>6, <2>7, <2>8, <2>9 DEF TriageInv
<1>12. CASE ApplyPutFails(r)
  <2>1. With(r, "fallback", triage[r].verdict, triage[r].text, triage[r].labels)
    BY <1>0, <1>t, <1>o, <1>12, Going DEF ApplyPutFails, TriagePcs, ApplySteps, FallbackSteps
  <2>2. /\ triage[r].pc = "put" /\ holder' = holder /\ comment' = comment /\ order' = order
        /\ issue' \in [open : BOOLEAN, text : Texts, labels : SUBSET Labels] /\ issue'.text = issue.text
        /\ comment.run = r
    BY <1>0, <1>t, <1>o, <1>12 DEF ApplyPutFails, CommentOwned, OwnedBy, ApplySteps
  <2>3. TriageTypeOK'
    BY <1>0, <2>1, <2>2 DEF With, Becomes, TriageTypeOK
  <2>4. GroupHeld'
    BY <1>g, GroupPasses, <2>1, <2>2 DEF With, Becomes, GroupHeld, SeedSteps, ApplySteps, FallbackSteps
  <2>5. OwnedBy(r)'
    BY <1>o, <2>1, <2>2 DEF With, Becomes, CommentOwned, OwnedBy, ApplySteps, FallbackSteps
  <2>6. CommentOwned'
    BY <1>g, <1>o, <2>1, <2>2, <2>5, OwnersStay DEF With, Becomes
  <2>7. FallbackUnready' /\ DoneAuthorized'
    BY <1>d, <1>t, <2>1, <2>2 DEF With, Becomes, FallbackUnready, DoneAuthorized
  <2>8. ApprovalCarried'
    BY <1>a, ApprovalStays, <2>1, <2>2 DEF With, Becomes, SaysOf
  <2>9. CommentCarries'
    BY <1>c, <1>t, <2>1, <2>2 DEF With, Becomes, CommentCarries
  <2> QED BY <2>3, <2>4, <2>5, <2>6, <2>7, <2>8, <2>9 DEF TriageInv
<1>13. CASE FallbackReadsLabels(r)
  <2>1. With(r, "fallback put", triage[r].verdict, triage[r].text, computeNewLabelSet(issue.labels, "needs-triage"))
    BY <1>0, <1>t, <1>13, NewLabels, ReadingLabels DEF FallbackReadsLabels, TriagePcs, ApplySteps, FallbackSteps, ReadsLabels, READINESS_LABELS
  <2>2. /\ triage[r].pc = "fallback" /\ holder' = holder
        /\ issue' = issue /\ comment' = comment /\ order' = order
        /\ "ready-to-implement" \notin computeNewLabelSet(issue.labels, "needs-triage")
    BY <1>0, <1>t, <1>13 DEF FallbackReadsLabels, ReadsLabels, computeNewLabelSet, READINESS_LABELS
  <2>3. TriageTypeOK'
    BY <1>0, <2>1, <2>2 DEF With, Becomes, TriageTypeOK
  <2>4. GroupHeld'
    BY <1>g, GroupPasses, <2>1, <2>2 DEF With, Becomes, GroupHeld, SeedSteps, ApplySteps, FallbackSteps
  <2>5. OwnedBy(r)'
    BY <1>o, <2>1, <2>2 DEF With, Becomes, CommentOwned, OwnedBy, ApplySteps, FallbackSteps
  <2>6. CommentOwned'
    BY <1>g, <1>o, <2>1, <2>2, <2>5, OwnersStay DEF With, Becomes
  <2>7. FallbackUnready' /\ DoneAuthorized'
    BY <1>d, <1>t, <2>1, <2>2 DEF With, Becomes, FallbackUnready, DoneAuthorized
  <2>8. ApprovalCarried'
    BY <1>a, ApprovalStays, <2>1, <2>2 DEF With, Becomes, SaysOf
  <2>9. CommentCarries'
    BY <1>c, <1>t, <2>1, <2>2 DEF With, Becomes, CommentCarries
  <2> QED BY <2>3, <2>4, <2>5, <2>6, <2>7, <2>8, <2>9 DEF TriageInv
<1>14. CASE FallbackPutsLabels(r)
  <2>1. With(r, "fallback check", triage[r].verdict, triage[r].text, triage[r].labels)
    BY <1>0, <1>t, <1>14, Going DEF FallbackPutsLabels, TriagePcs, ApplySteps, FallbackSteps, PutsLabels
  <2>2. /\ triage[r].pc = "fallback put" /\ holder' = holder /\ comment' = comment /\ order' = order
        /\ issue' \in [open : BOOLEAN, text : Texts, labels : SUBSET Labels] /\ issue'.text = issue.text
        /\ "ready-to-implement" \in issue'.labels => "ready-to-implement" \in issue.labels
    BY <1>0, <1>t, <1>d, <1>14 DEF FallbackPutsLabels, PutsLabels, FallbackUnready
  <2>3. TriageTypeOK'
    BY <1>0, <2>1, <2>2 DEF With, Becomes, TriageTypeOK
  <2>4. GroupHeld'
    BY <1>g, GroupPasses, <2>1, <2>2 DEF With, Becomes, GroupHeld, SeedSteps, ApplySteps, FallbackSteps
  <2>5. OwnedBy(r)'
    BY <1>o, <2>1, <2>2 DEF With, Becomes, CommentOwned, OwnedBy, ApplySteps, FallbackSteps
  <2>6. CommentOwned'
    BY <1>g, <1>o, <2>1, <2>2, <2>5, OwnersStay DEF With, Becomes
  <2>7. FallbackUnready' /\ DoneAuthorized'
    BY <1>d, <1>t, <2>1, <2>2 DEF With, Becomes, FallbackUnready, DoneAuthorized
  <2>8. ApprovalCarried'
    BY <1>a, ApprovalStays, <2>1, <2>2 DEF With, Becomes, SaysOf
  <2>9. CommentCarries'
    BY <1>c, <1>t, <2>1, <2>2 DEF With, Becomes, CommentCarries
  <2> QED BY <2>3, <2>4, <2>5, <2>6, <2>7, <2>8, <2>9 DEF TriageInv
<1>15. CASE FallbackVerifies(r) /\ issue.labels = triage[r].labels
  <2>1. With(r, "fallback comment", triage[r].verdict, triage[r].text, triage[r].labels)
    BY <1>0, <1>t, <1>15, Going DEF FallbackVerifies, TriagePcs, ApplySteps, FallbackSteps
  <2>2. /\ triage[r].pc = "fallback check" /\ holder' = holder
        /\ issue' = issue /\ comment' = comment /\ order' = order
    BY <1>0, <1>t, <1>15 DEF FallbackVerifies
  <2>3. TriageTypeOK'
    BY <1>0, <2>1, <2>2 DEF With, Becomes, TriageTypeOK
  <2>4. GroupHeld'
    BY <1>g, GroupPasses, <2>1, <2>2 DEF With, Becomes, GroupHeld, SeedSteps, ApplySteps, FallbackSteps
  <2>5. OwnedBy(r)'
    BY <1>o, <2>1, <2>2 DEF With, Becomes, CommentOwned, OwnedBy, ApplySteps, FallbackSteps
  <2>6. CommentOwned'
    BY <1>g, <1>o, <2>1, <2>2, <2>5, OwnersStay DEF With, Becomes
  <2>7. FallbackUnready' /\ DoneAuthorized'
    BY <1>d, <1>t, <2>1, <2>2 DEF With, Becomes, FallbackUnready, DoneAuthorized
  <2>8. ApprovalCarried'
    BY <1>a, ApprovalStays, <2>1, <2>2 DEF With, Becomes, SaysOf
  <2>9. CommentCarries'
    BY <1>c, <1>t, <2>1, <2>2 DEF With, Becomes, CommentCarries
  <2> QED BY <2>3, <2>4, <2>5, <2>6, <2>7, <2>8, <2>9 DEF TriageInv
<1>16. CASE FallbackVerifies(r) /\ issue.labels # triage[r].labels
  BY <1>16, LeaveKeeps DEF FallbackVerifies, ApplySteps, FallbackSteps
<1>17. CASE FallbackWritesComment(r)
  BY <1>0, <1>17, SaysOfRun, LeaveKeeps DEF FallbackWritesComment, ApplySteps, FallbackSteps
<1> QED
  BY <1>1, <1>2, <1>3, <1>4, <1>5, <1>6, <1>7, <1>8, <1>9, <1>10, <1>11, <1>12, <1>13, <1>14,
     <1>15, <1>16, <1>17
  DEF ApplyStep, ApplyReadsIssue, ApplyDecides, ApplyVerifies, FallbackVerifies

-----------------------------------------------------------------------------
(* The other steps of the triage workflow, and people.                     *)

LEMMA RunKeeps ==
  ASSUME TriageInv, NEW r \in TriageRuns, UNCHANGED publishVars,
         \/ TriageDies(r) \/ RerunApply(r) \/ DispatchApproved(r)
         \/ \E mode \in {"pre-filter", "readiness"} : Dispatch(r, mode)
         \/ \E answer \in Answers : TriageAgent(r, answer)
  PROVE  TriageInv'
<1>0. TriageTypeOK /\ triage[r] \in TriageRecord BY Parts, FieldTypes
<1>g. GroupHeld /\ implement' = implement BY Parts DEF publishVars
<1>o. CommentOwned BY Parts
<1>d. FallbackUnready /\ DoneAuthorized BY Parts
<1>a. ApprovalCarried BY Parts
<1>c. CommentCarries BY Parts
<1>t. /\ comment # None => comment \in Verdicts /\ comment.run \in TriageRuns
      /\ issue \in [open : BOOLEAN, text : Texts, labels : SUBSET Labels]
      /\ triage[r].labels \in SUBSET Labels
  BY Parts, FieldTypes
<1>1. CASE TriageDies(r)
  <2>1. comment' = comment \/ SaysOf(r, comment') BY <1>0, <1>1, SaysOfRun DEF TriageDies
  <2> QED BY <1>1, <2>1, LeaveKeeps DEF TriageDies
<1>2. CASE RerunApply(r)
  <2>1. With(r, "waiting", triage[r].verdict, triage[r].text, triage[r].labels)
    BY <1>0, <1>t, <1>2, Going DEF RerunApply, TriagePcs
  <2>2. /\ triage[r].pc = "failed" /\ holder' = holder
        /\ issue' = issue /\ comment' = comment /\ order' = order
        /\ triage[r].verdict \in Answers
    BY <1>0, <1>t, <1>2 DEF RerunApply, Answers, TriageRecord
  <2>3. TriageTypeOK'
    BY <1>0, <2>1, <2>2 DEF With, Becomes, TriageTypeOK
  <2>4. GroupHeld'
    BY <1>g, GroupPasses, <2>1, <2>2 DEF With, Becomes, GroupHeld, SeedSteps, ApplySteps, FallbackSteps
  <2>5. OwnedBy(r)'
    BY <1>o, <2>1, <2>2 DEF With, Becomes, CommentOwned, OwnedBy, ApplySteps, FallbackSteps
  <2>6. CommentOwned'
    BY <1>g, <1>o, <2>1, <2>2, <2>5, OwnersStay DEF With, Becomes
  <2>7. FallbackUnready' /\ DoneAuthorized'
    BY <1>d, <1>t, <2>1, <2>2 DEF With, Becomes, FallbackUnready, DoneAuthorized
  <2>8. ApprovalCarried'
    BY <1>a, ApprovalStays, <2>1, <2>2 DEF With, Becomes, SaysOf
  <2>9. CommentCarries'
    BY <1>c, <1>t, <2>1, <2>2 DEF With, Becomes, CommentCarries
  <2> QED BY <2>3, <2>4, <2>5, <2>6, <2>7, <2>8, <2>9 DEF TriageInv
<1>3. ASSUME NEW mode \in {"pre-filter", "readiness"}, Dispatch(r, mode)
      PROVE  TriageInv'
  <2>1. Becomes(r, "queued", mode, None, None, None, {})
    BY <1>0, <1>t, <1>3, Queueing DEF Dispatch, Revisions
  <2>2. /\ triage[r].pc = "idle" /\ holder' = holder
        /\ issue' = issue /\ comment' = comment /\ order' = order
    BY <1>0, <1>t, <1>3 DEF Dispatch, NextRun
  <2>3. TriageTypeOK'
    BY <1>0, <2>1, <2>2 DEF With, Becomes, TriageTypeOK
  <2>4. GroupHeld'
    BY <1>g, GroupPasses, <2>1, <2>2 DEF With, Becomes, GroupHeld, SeedSteps, ApplySteps, FallbackSteps
  <2>5. OwnedBy(r)'
    BY <1>o, <2>1, <2>2 DEF With, Becomes, CommentOwned, OwnedBy, ApplySteps, FallbackSteps
  <2>6. CommentOwned'
    BY <1>g, <1>o, <2>1, <2>2, <2>5, OwnersStay DEF With, Becomes
  <2>7. FallbackUnready' /\ DoneAuthorized'
    BY <1>d, <1>t, <2>1, <2>2 DEF With, Becomes, FallbackUnready, DoneAuthorized
  <2>8. ApprovalCarried'
    BY <1>a, ApprovalStays, <2>1, <2>2 DEF With, Becomes, SaysOf
  <2>9. CommentCarries'
    BY <1>c, <1>t, <2>1, <2>2 DEF With, Becomes, CommentCarries
  <2> QED BY <2>3, <2>4, <2>5, <2>6, <2>7, <2>8, <2>9 DEF TriageInv
<1>4. ASSUME NEW answer \in Answers, TriageAgent(r, answer)
      PROVE  TriageInv'
  <2>1. With(r, "waiting", answer, triage[r].text, triage[r].labels)
    BY <1>0, <1>t, <1>4, Answering DEF TriageAgent, TriagePcs, Answers
  <2>2. /\ triage[r].pc = "agent" /\ holder' = holder
        /\ issue' = issue /\ comment' = comment /\ order' = order
    BY <1>0, <1>t, <1>4 DEF TriageAgent
  <2>3. TriageTypeOK'
    BY <1>0, <2>1, <2>2 DEF With, Becomes, TriageTypeOK
  <2>4. GroupHeld'
    BY <1>g, GroupPasses, <2>1, <2>2 DEF With, Becomes, GroupHeld, SeedSteps, ApplySteps, FallbackSteps
  <2>5. OwnedBy(r)'
    BY <1>o, <2>1, <2>2 DEF With, Becomes, CommentOwned, OwnedBy, ApplySteps, FallbackSteps
  <2>6. CommentOwned'
    BY <1>g, <1>o, <2>1, <2>2, <2>5, OwnersStay DEF With, Becomes
  <2>7. FallbackUnready' /\ DoneAuthorized'
    BY <1>d, <1>t, <2>1, <2>2 DEF With, Becomes, FallbackUnready, DoneAuthorized
  <2>8. ApprovalCarried'
    BY <1>a, ApprovalStays, <2>1, <2>2 DEF With, Becomes, SaysOf
  <2>9. CommentCarries'
    BY <1>c, <1>t, <2>1, <2>2 DEF With, Becomes, CommentCarries
  <2> QED BY <2>3, <2>4, <2>5, <2>6, <2>7, <2>8, <2>9 DEF TriageInv
<1>5. CASE DispatchApproved(r)
  <2>1. Becomes(r, "queued", "readiness", order.text, None, None, {})
    BY <1>0, <1>t, <1>5, Queueing DEF DispatchApproved, TriageTypeOK
  <2>2. /\ triage[r].pc = "idle" /\ holder' = holder
        /\ issue' = issue /\ comment' = comment
        /\ order.pc = "approved" /\ order.text = order.said
        /\ order' \in [pc : {"none", "said", "read", "dropped", "approved", "dispatched"},
                     said : Revisions, text : Revisions, edited : {"before", "same second", "after"}]
        /\ order'.pc = "dispatched" /\ order'.said = order.said
    BY <1>0, <1>t, <1>a, <1>5 DEF DispatchApproved, NextRun, TriageTypeOK, ApprovalCarried
  <2>3. TriageTypeOK'
    BY <1>0, <2>1, <2>2 DEF With, Becomes, TriageTypeOK
  <2>4. GroupHeld'
    BY <1>g, GroupPasses, <2>1, <2>2 DEF With, Becomes, GroupHeld, SeedSteps, ApplySteps, FallbackSteps
  <2>5. OwnedBy(r)'
    BY <1>o, <2>1, <2>2 DEF With, Becomes, CommentOwned, OwnedBy, ApplySteps, FallbackSteps
  <2>6. CommentOwned'
    BY <1>g, <1>o, <2>1, <2>2, <2>5, OwnersStay DEF With, Becomes
  <2>7. FallbackUnready' /\ DoneAuthorized'
    BY <1>d, <1>t, <2>1, <2>2 DEF With, Becomes, FallbackUnready, DoneAuthorized
  <2>8. ApprovalCarried'
    <3>1. /\ \A q \in TriageRuns : triage[q].approved = None
          /\ comment # None => comment.approved = None
      BY <1>a, <2>2 DEF ApprovalCarried
    <3>2. \A q \in TriageRuns : triage'[q].approved \in {None, order'.said}
      <4>1. ASSUME NEW q \in TriageRuns \ {r}
            PROVE  triage'[q].approved = None
        BY <2>1, <3>1 DEF Becomes
      <4>2. triage'[r].approved = order'.said BY <2>1, <2>2 DEF Becomes
      <4> QED BY <4>1, <4>2
    <3> QED BY <2>2, <3>1, <3>2 DEF ApprovalCarried
  <2>9. CommentCarries'
    BY <1>c, <1>t, <2>1, <2>2 DEF With, Becomes, CommentCarries
  <2> QED BY <2>3, <2>4, <2>5, <2>6, <2>7, <2>8, <2>9 DEF TriageInv
<1> QED BY <1>1, <1>2, <1>3, <1>4, <1>5


\* People leave the jobs and the comment alone, and put no readiness label on.
LEMMA PeopleKeep ==
  ASSUME TriageInv, UNCHANGED publishVars,
         \/ \E t \in Texts : Edit(t)
         \/ \E l \in Labels : Relabel(l)
         \/ Close \/ Approve \/ IntakeReads \/ IntakeChecksHistory
  PROVE  TriageInv'
<1>0. TriageTypeOK /\ CommentOwned /\ GroupHeld /\ FallbackUnready /\ DoneAuthorized /\ CommentCarries
      /\ ApprovalCarried
  BY Parts
<1>1. triage' = triage /\ comment' = comment /\ holder' = holder /\ implement' = implement
  BY DEF Edit, Relabel, Close, Approve, IntakeReads, IntakeChecksHistory, publishVars
<1>t. issue.labels \in SUBSET Labels /\ issue.text \in Texts
      /\ issue \in [open : BOOLEAN, text : Texts, labels : SUBSET Labels]
      /\ order \in [pc : {"none", "said", "read", "dropped", "approved", "dispatched"},
                      said : Revisions, text : Revisions, edited : {"before", "same second", "after"}]
  BY <1>0, Parts DEF TriageTypeOK
<1> DEFINE Fine ==
      /\ issue' \in [open : BOOLEAN, text : Texts, labels : SUBSET Labels] /\ order' \in [pc : {"none", "said", "read", "dropped", "approved", "dispatched"},
                      said : Revisions, text : Revisions, edited : {"before", "same second", "after"}]
      /\ "ready-to-implement" \in issue'.labels => "ready-to-implement" \in issue.labels
      /\ /\ order'.pc = "said" /\ order'.edited = "before" => issue'.text = order'.said
         /\ order'.pc = "read" /\ order'.edited = "before" => order'.text = order'.said
         /\ order'.pc = "approved" => order'.text = order'.said
         /\ order.pc = "dispatched" => order'.pc = "dispatched" /\ order'.said = order.said
<1>2. Fine
  <2>0. /\ order.pc = "said" /\ order.edited = "before" => issue.text = order.said
        /\ order.pc = "read" /\ order.edited = "before" => order.text = order.said
        /\ order.pc = "approved" => order.text = order.said
    BY <1>0 DEF ApprovalCarried
  <2>1. ASSUME NEW t \in Texts, Edit(t)
        PROVE  Fine
    <3>1. issue' = [issue EXCEPT !.text = t] BY <2>1 DEF Edit
    <3>2. CASE order.pc \in {"said", "read"}
      <4>1. PICK when \in {"same second", "after"} : order' = [order EXCEPT !.edited = when]
        BY <2>1, <3>2 DEF Edit
      <4> QED BY <1>t, <2>0, <3>1, <3>2, <4>1
    <3>3. CASE order.pc \notin {"said", "read"}
      <4>1. order' = order BY <2>1, <3>3 DEF Edit
      <4> QED BY <1>t, <2>0, <3>1, <3>3, <4>1
    <3> QED BY <3>2, <3>3
  <2>2. ASSUME NEW l \in Labels, Relabel(l)
        PROVE  Fine
    BY <1>t, <2>0, <2>2 DEF Relabel, Labels, READINESS_LABELS
  <2>3. CASE Close
    BY <1>t, <2>0, <2>3 DEF Close
  <2>4. CASE Approve
    BY <1>t, <2>0, <2>4 DEF Approve, Revisions
  <2>5. CASE IntakeReads
    BY <1>t, <2>0, <2>5 DEF IntakeReads, Revisions
  <2>6. CASE IntakeChecksHistory
    <3>1. CASE EditedSince(order.edited)
      <4>1. order' = [order EXCEPT !.pc = "dropped"] BY <2>6, <3>1 DEF IntakeChecksHistory
      <4> QED BY <1>t, <2>6, <4>1 DEF IntakeChecksHistory
    <3>2. CASE ~EditedSince(order.edited)
      <4>1. order' = [order EXCEPT !.pc = "approved"] /\ order.edited = "before"
        BY <1>t, <2>6, <3>2 DEF IntakeChecksHistory, EditedSince
      <4> QED BY <1>t, <2>0, <2>6, <4>1 DEF IntakeChecksHistory
    <3> QED BY <3>1, <3>2
  <2> QED BY <2>1, <2>2, <2>3, <2>4, <2>5, <2>6
<1>3. TriageTypeOK' BY <1>0, <1>1, <1>2 DEF TriageTypeOK
<1>4. GroupHeld' BY <1>0, <1>1 DEF GroupHeld
<1>5. CommentOwned' /\ CommentCarries' /\ FallbackUnready'
  BY <1>0, <1>1 DEF CommentOwned, OwnedBy, Readiness, CommentCarries, FallbackUnready
<1>6. DoneAuthorized' BY <1>0, <1>1, <1>2 DEF DoneAuthorized
<1>7. ApprovalCarried' BY <1>0, <1>1, <1>2 DEF ApprovalCarried
<1> QED BY <1>3, <1>4, <1>5, <1>6, <1>7 DEF TriageInv

LEMMA TriageKeeps ==
  ASSUME TriageInv, TriageNext, UNCHANGED publishVars
  PROVE  TriageInv'
BY SeedKeeps, ApplyKeeps, RunKeeps, PeopleKeep DEF TriageNext

-----------------------------------------------------------------------------
(* How a step changes one run of the implement workflow.                   *)

\* Run i goes to p, and the others stay.
Turns(i, p) ==
  /\ implement' \in [ImplementRuns -> ImplementRecord]
  /\ implement'[i].pc = p
  /\ \A j \in ImplementRuns \ {i} : implement'[j] = implement[j]

SameWork(i) ==
  /\ implement'[i].view = implement[i].view /\ implement'[i].text = implement[i].text
  /\ implement'[i].patch = implement[i].patch

SameBranch(i) ==
  implement'[i].slug = implement[i].slug /\ implement'[i].existing = implement[i].existing

SameMarks(i) ==
  implement'[i].labelled = implement[i].labelled /\ implement'[i].noted = implement[i].noted

LEMMA TurnsRecord ==
  ASSUME PublishTypeOK, NEW i \in ImplementRuns, NEW u \in ImplementRecord,
         implement' = [implement EXCEPT ![i] = u]
  PROVE  Turns(i, u.pc) /\ implement'[i] = u
<1>1. implement \in [ImplementRuns -> ImplementRecord] BY DEF PublishTypeOK
<1> QED BY <1>1, Zenon DEF Turns


\* A step that moves the counter only.
LEMMA Stepping ==
  ASSUME PublishTypeOK, NEW i \in ImplementRuns, NEW p \in ImplementPcs,
         To(i, p)
  PROVE  /\ Turns(i, p) /\ SameWork(i) /\ SameBranch(i)
         /\ SameMarks(i)
<1> DEFINE e == implement[i]
           u == [e EXCEPT !.pc = p]
<1>1. e \in ImplementRecord BY DEF PublishTypeOK
<1>2. /\ u \in ImplementRecord /\ u.pc = p /\ u.view = e.view
      /\ u.text = e.text /\ u.patch = e.patch /\ u.slug = e.slug
      /\ u.existing = e.existing /\ u.labelled = e.labelled /\ u.noted = e.noted
  BY <1>1 DEF ImplementRecord
<1>3. implement' = [implement EXCEPT ![i] = u]
  BY Zenon DEF To
<1> HIDE DEF u
<1> QED BY <1>2, <1>3, TurnsRecord DEF SameWork, SameBranch, SameMarks

\* Steps that read the issue, take a patch or a login.
LEMMA Viewing ==
  ASSUME PublishTypeOK, NEW i \in ImplementRuns, NEW p \in ImplementPcs, NEW v \in Verdicts,
         implement' = [implement EXCEPT ![i].pc = p, ![i].view = v]
  PROVE  /\ Turns(i, p) /\ implement'[i].view = v /\ implement'[i].text = implement[i].text
         /\ implement'[i].patch = implement[i].patch /\ SameBranch(i) /\ SameMarks(i)
<1> DEFINE e == implement[i]
           u == [e EXCEPT !.pc = p, !.view = v]
<1>1. e \in ImplementRecord BY DEF PublishTypeOK
<1>2. /\ u \in ImplementRecord /\ u.pc = p /\ u.view = v
      /\ u.text = e.text /\ u.patch = e.patch /\ u.slug = e.slug
      /\ u.existing = e.existing /\ u.labelled = e.labelled /\ u.noted = e.noted
  BY <1>1 DEF ImplementRecord
<1>3. implement' = [implement EXCEPT ![i] = u]
  BY DEF PublishTypeOK
<1> HIDE DEF u
<1> QED BY <1>2, <1>3, TurnsRecord DEF SameWork, SameBranch, SameMarks

LEMMA Texting ==
  ASSUME PublishTypeOK, NEW i \in ImplementRuns, NEW p \in ImplementPcs, NEW x \in Revisions,
         implement' = [implement EXCEPT ![i].pc = p, ![i].text = x]
  PROVE  /\ Turns(i, p) /\ implement'[i].view = implement[i].view /\ implement'[i].text = x
         /\ implement'[i].patch = implement[i].patch /\ SameBranch(i) /\ SameMarks(i)
<1> DEFINE e == implement[i]
           u == [e EXCEPT !.pc = p, !.text = x]
<1>1. e \in ImplementRecord BY DEF PublishTypeOK
<1>2. /\ u \in ImplementRecord /\ u.pc = p /\ u.view = e.view
      /\ u.text = x /\ u.patch = e.patch /\ u.slug = e.slug
      /\ u.existing = e.existing /\ u.labelled = e.labelled /\ u.noted = e.noted
  BY <1>1 DEF ImplementRecord
<1>3. implement' = [implement EXCEPT ![i] = u]
  BY DEF PublishTypeOK
<1> HIDE DEF u
<1> QED BY <1>2, <1>3, TurnsRecord DEF SameWork, SameBranch, SameMarks

LEMMA Patching ==
  ASSUME PublishTypeOK, NEW i \in ImplementRuns, NEW p \in ImplementPcs, NEW c \in Patches \cup {None},
         implement' = [implement EXCEPT ![i].pc = p, ![i].patch = c]
  PROVE  /\ Turns(i, p) /\ implement'[i].view = implement[i].view /\ implement'[i].text = implement[i].text
         /\ implement'[i].patch = c /\ SameBranch(i) /\ SameMarks(i)
<1> DEFINE e == implement[i]
           u == [e EXCEPT !.pc = p, !.patch = c]
<1>1. e \in ImplementRecord BY DEF PublishTypeOK
<1>2. /\ u \in ImplementRecord /\ u.pc = p /\ u.view = e.view
      /\ u.text = e.text /\ u.patch = c /\ u.slug = e.slug
      /\ u.existing = e.existing /\ u.labelled = e.labelled /\ u.noted = e.noted
  BY <1>1 DEF ImplementRecord
<1>3. implement' = [implement EXCEPT ![i] = u]
  BY DEF PublishTypeOK
<1> HIDE DEF u
<1> QED BY <1>2, <1>3, TurnsRecord DEF SameWork, SameBranch, SameMarks

LEMMA LoggingIn ==
  ASSUME PublishTypeOK, NEW i \in ImplementRuns, NEW p \in ImplementPcs, NEW l \in Logins,
         implement' = [implement EXCEPT ![i].pc = p, ![i].login = l]
  PROVE  /\ Turns(i, p) /\ SameWork(i) /\ SameBranch(i)
         /\ SameMarks(i)
<1> DEFINE e == implement[i]
           u == [e EXCEPT !.pc = p, !.login = l]
<1>1. e \in ImplementRecord BY DEF PublishTypeOK
<1>2. /\ u \in ImplementRecord /\ u.pc = p /\ u.view = e.view
      /\ u.text = e.text /\ u.patch = e.patch /\ u.slug = e.slug
      /\ u.existing = e.existing /\ u.labelled = e.labelled /\ u.noted = e.noted
  BY <1>1 DEF ImplementRecord
<1>3. implement' = [implement EXCEPT ![i] = u]
  BY DEF PublishTypeOK
<1> HIDE DEF u
<1> QED BY <1>2, <1>3, TurnsRecord DEF SameWork, SameBranch, SameMarks

\* Steps that choose the branch.
LEMMA Finding ==
  ASSUME PublishTypeOK, NEW i \in ImplementRuns, NEW p \in ImplementPcs, NEW s \in Slugs \cup {None}, NEW b \in BOOLEAN,
         implement' = [implement EXCEPT ![i].pc = p, ![i].slug = s, ![i].existing = b]
  PROVE  /\ Turns(i, p) /\ SameWork(i) /\ implement'[i].slug = s
         /\ implement'[i].existing = b /\ SameMarks(i)
<1> DEFINE e == implement[i]
           u == [e EXCEPT !.pc = p, !.slug = s, !.existing = b]
<1>1. e \in ImplementRecord BY DEF PublishTypeOK
<1>2. /\ u \in ImplementRecord /\ u.pc = p /\ u.view = e.view
      /\ u.text = e.text /\ u.patch = e.patch /\ u.slug = s
      /\ u.existing = b /\ u.labelled = e.labelled /\ u.noted = e.noted
  BY <1>1 DEF ImplementRecord
<1>3. implement' = [implement EXCEPT ![i] = u]
  BY DEF PublishTypeOK
<1> HIDE DEF u
<1> QED BY <1>2, <1>3, TurnsRecord DEF SameWork, SameBranch, SameMarks

LEMMA Naming ==
  ASSUME PublishTypeOK, NEW i \in ImplementRuns, NEW p \in ImplementPcs, NEW s \in Slugs \cup {None},
         implement' = [implement EXCEPT ![i].pc = p, ![i].slug = s]
  PROVE  /\ Turns(i, p) /\ SameWork(i) /\ implement'[i].slug = s
         /\ implement'[i].existing = implement[i].existing /\ SameMarks(i)
<1> DEFINE e == implement[i]
           u == [e EXCEPT !.pc = p, !.slug = s]
<1>1. e \in ImplementRecord BY DEF PublishTypeOK
<1>2. /\ u \in ImplementRecord /\ u.pc = p /\ u.view = e.view
      /\ u.text = e.text /\ u.patch = e.patch /\ u.slug = s
      /\ u.existing = e.existing /\ u.labelled = e.labelled /\ u.noted = e.noted
  BY <1>1 DEF ImplementRecord
<1>3. implement' = [implement EXCEPT ![i] = u]
  BY DEF PublishTypeOK
<1> HIDE DEF u
<1> QED BY <1>2, <1>3, TurnsRecord DEF SameWork, SameBranch, SameMarks

\* Steps that note how a call went.
LEMMA Pushing ==
  ASSUME PublishTypeOK, NEW i \in ImplementRuns, NEW b \in BOOLEAN, NEW p \in ImplementPcs,
         implement' = [implement EXCEPT ![i].pushed = b, ![i].pc = p]
  PROVE  /\ Turns(i, p) /\ SameWork(i) /\ SameBranch(i)
         /\ SameMarks(i)
<1> DEFINE e == implement[i]
           u == [e EXCEPT !.pushed = b, !.pc = p]
<1>1. e \in ImplementRecord BY DEF PublishTypeOK
<1>2. /\ u \in ImplementRecord /\ u.pc = p /\ u.view = e.view
      /\ u.text = e.text /\ u.patch = e.patch /\ u.slug = e.slug
      /\ u.existing = e.existing /\ u.labelled = e.labelled /\ u.noted = e.noted
  BY <1>1 DEF ImplementRecord
<1>3. implement' = [implement EXCEPT ![i] = u]
  BY DEF PublishTypeOK
<1> HIDE DEF u
<1> QED BY <1>2, <1>3, TurnsRecord DEF SameWork, SameBranch, SameMarks

LEMMA Labelling ==
  ASSUME PublishTypeOK, NEW i \in ImplementRuns, NEW p \in ImplementPcs, NEW b \in BOOLEAN,
         implement' = [implement EXCEPT ![i].pc = p, ![i].labelled = b]
  PROVE  /\ Turns(i, p) /\ SameWork(i) /\ SameBranch(i)
         /\ implement'[i].labelled = b /\ implement'[i].noted = implement[i].noted
<1> DEFINE e == implement[i]
           u == [e EXCEPT !.pc = p, !.labelled = b]
<1>1. e \in ImplementRecord BY DEF PublishTypeOK
<1>2. /\ u \in ImplementRecord /\ u.pc = p /\ u.view = e.view
      /\ u.text = e.text /\ u.patch = e.patch /\ u.slug = e.slug
      /\ u.existing = e.existing /\ u.labelled = b /\ u.noted = e.noted
  BY <1>1 DEF ImplementRecord
<1>3. implement' = [implement EXCEPT ![i] = u]
  BY DEF PublishTypeOK
<1> HIDE DEF u
<1> QED BY <1>2, <1>3, TurnsRecord DEF SameWork, SameBranch, SameMarks

LEMMA Noting ==
  ASSUME PublishTypeOK, NEW i \in ImplementRuns, NEW p \in ImplementPcs, NEW b \in BOOLEAN,
         implement' = [implement EXCEPT ![i].pc = p, ![i].noted = b]
  PROVE  /\ Turns(i, p) /\ SameWork(i) /\ SameBranch(i)
         /\ implement'[i].labelled = implement[i].labelled /\ implement'[i].noted = b
<1> DEFINE e == implement[i]
           u == [e EXCEPT !.pc = p, !.noted = b]
<1>1. e \in ImplementRecord BY DEF PublishTypeOK
<1>2. /\ u \in ImplementRecord /\ u.pc = p /\ u.view = e.view
      /\ u.text = e.text /\ u.patch = e.patch /\ u.slug = e.slug
      /\ u.existing = e.existing /\ u.labelled = e.labelled /\ u.noted = b
  BY <1>1 DEF ImplementRecord
<1>3. implement' = [implement EXCEPT ![i] = u]
  BY DEF PublishTypeOK
<1> HIDE DEF u
<1> QED BY <1>2, <1>3, TurnsRecord DEF SameWork, SameBranch, SameMarks

LEMMA Removing ==
  ASSUME PublishTypeOK, NEW i \in ImplementRuns, NEW p \in ImplementPcs, NEW m \in {"failed", "removed", None},
         implement' = [implement EXCEPT ![i].pc = p, ![i].removed = m]
  PROVE  /\ Turns(i, p) /\ SameWork(i) /\ SameBranch(i)
         /\ SameMarks(i)
<1> DEFINE e == implement[i]
           u == [e EXCEPT !.pc = p, !.removed = m]
<1>1. e \in ImplementRecord BY DEF PublishTypeOK
<1>2. /\ u \in ImplementRecord /\ u.pc = p /\ u.view = e.view
      /\ u.text = e.text /\ u.patch = e.patch /\ u.slug = e.slug
      /\ u.existing = e.existing /\ u.labelled = e.labelled /\ u.noted = e.noted
  BY <1>1 DEF ImplementRecord
<1>3. implement' = [implement EXCEPT ![i] = u]
  BY DEF PublishTypeOK
<1> HIDE DEF u
<1> QED BY <1>2, <1>3, TurnsRecord DEF SameWork, SameBranch, SameMarks

\* A job that fails keeps the work for a rerun; a green one keeps what a reader needs.
LEMMA Failing ==
  ASSUME PublishTypeOK, NEW i \in ImplementRuns,
         implement' = [implement EXCEPT ![i] = Failed(i)]
  PROVE  Turns(i, "failed") /\ SameWork(i)
<1> DEFINE e == implement[i]
           u == Failed(i)
<1>1. e \in ImplementRecord BY DEF PublishTypeOK
<1>2. /\ u \in ImplementRecord /\ u.pc = "failed"
      /\ u.view = e.view /\ u.text = e.text /\ u.patch = e.patch
  BY <1>1 DEF ImplementRecord, Failed, Waiting, ImplementPcs, Revisions, Logins
<1> HIDE DEF u
<1>3. implement' = [implement EXCEPT ![i] = u] BY DEF u
<1> QED BY <1>2, <1>3, TurnsRecord DEF SameWork

LEMMA Succeeding ==
  ASSUME PublishTypeOK, NEW i \in ImplementRuns,
         implement' = [implement EXCEPT ![i] = Green(i)]
  PROVE  /\ Turns(i, "done") /\ implement'[i].view = None /\ implement'[i].text = None
         /\ implement'[i].patch = implement[i].patch /\ implement'[i].slug = implement[i].slug
         /\ implement'[i].summary = buildPublishSuccessStepSummary(i)
<1> DEFINE e == implement[i]
           u == Green(i)
<1>1. /\ e.labelled \in BOOLEAN \cup {None} /\ e.noted \in BOOLEAN \cup {None}
      /\ e.patch \in Patches \cup {None} /\ e.slug \in Slugs \cup {None}
  <2>1. e \in ImplementRecord BY DEF PublishTypeOK
  <2> QED BY <2>1 DEF ImplementRecord
<1>2. buildPublishSuccessStepSummary(i) \in Summaries
  <2>1. (e.removed = "failed") \in BOOLEAN BY Zenon
  <2> QED BY <1>1, <2>1, Zenon DEF buildPublishSuccessStepSummary, Summaries
<1>3. /\ u \in ImplementRecord /\ u.pc = "done" /\ u.view = None /\ u.text = None
      /\ u.patch = e.patch /\ u.slug = e.slug /\ u.summary = buildPublishSuccessStepSummary(i)
  <2> DEFINE w == Waiting
             c == e.patch
             s == e.slug
             m == buildPublishSuccessStepSummary(i)
  <2>1. w \in ImplementRecord /\ w.view = None /\ w.text = None
    BY DEF Waiting, ImplementRecord, ImplementPcs, Revisions, Logins
  <2>2. c \in Patches \cup {None} /\ s \in Slugs \cup {None} /\ m \in Summaries
    BY <1>1, <1>2
  <2>3. u = [w EXCEPT !.pc = "done", !.patch = c, !.slug = s, !.summary = m]
    BY Zenon DEF Green
  <2>4. "done" \in ImplementPcs BY DEF ImplementPcs
  <2> HIDE DEF u, w, c, s, m
  <2>5. /\ u \in ImplementRecord /\ u.pc = "done" /\ u.view = None /\ u.text = None
        /\ u.patch = c /\ u.slug = s /\ u.summary = m
    BY <2>1, <2>2, <2>3, <2>4 DEF ImplementRecord
  <2> QED BY <2>5 DEF c, s, m
<1> HIDE DEF u
<1>4. implement' = [implement EXCEPT ![i] = u] BY DEF u
<1> QED BY <1>3, <1>4, TurnsRecord

-----------------------------------------------------------------------------
(* What a step of one run leaves of the others.                            *)

LEMMA PublishParts ==
  ASSUME FInv, NEW i \in ImplementRuns
  PROVE  /\ TriageInv /\ PublishTypeOK /\ OnePull /\ PullsHaveCommits /\ GroupHeld
         /\ ViewKept(i) /\ JudgedAuthorized(i) /\ BranchChosen(i) /\ FlagKept(i) /\ FlagSeen(i)
BY DEF FInv, PublishInv, TriageInv, RunKept

LEMMA PublishAlone ==
  ASSUME GroupHeld, NEW i \in ImplementRuns, implement[i].pc \in PublishSteps
  PROVE  /\ \A r \in TriageRuns : triage[r].pc \notin SeedSteps \cup ApplySteps
         /\ \A j \in ImplementRuns \ {i} : implement[j].pc \notin PublishSteps
<1>1. holder = <<"publish", i>> BY DEF GroupHeld
<1>2. ASSUME NEW r \in TriageRuns
      PROVE  triage[r].pc \notin SeedSteps \cup ApplySteps
  BY <1>1 DEF GroupHeld
<1>3. ASSUME NEW j \in ImplementRuns \ {i}
      PROVE  implement[j].pc \notin PublishSteps
  BY <1>1 DEF GroupHeld
<1> QED BY <1>2, <1>3

LEMMA TriageStands ==
  ASSUME TriageInv, UNCHANGED <<issue, comment, triage, order>>, GroupHeld'
  PROVE  TriageInv'
<1>1. TriageTypeOK' BY Parts DEF TriageTypeOK
<1>2. CommentOwned' BY Parts DEF CommentOwned, OwnedBy, Readiness
<1>3. (FallbackUnready /\ DoneAuthorized /\ ApprovalCarried /\ CommentCarries)'
  BY Parts DEF FallbackUnready, DoneAuthorized, ApprovalCarried, CommentCarries
<1> QED BY <1>1, <1>2, <1>3 DEF TriageInv

\* A run that stays keeps its knowledge: nothing changes but the pull requests of the run
\* that has the group, and that one is another.
LEMMA OthersKeep ==
  ASSUME NEW j \in ImplementRuns, RunKept(j), implement'[j] = implement[j],
         UNCHANGED <<comment, triage>>,
         UNCHANGED <<branch, pulls>> \/ implement[j].pc \notin PublishSteps
  PROVE  RunKept(j)'
<1>1. ViewKept(j)' BY DEF RunKept, ViewKept
<1>2. JudgedAuthorized(j)' BY DEF RunKept, JudgedAuthorized
<1>3. BranchChosen(j)' BY DEF RunKept, BranchChosen, PublishSteps, Pushed
<1>4. FlagKept(j)' BY DEF RunKept, FlagKept, PublishSteps, Pushed, Commit
<1> QED BY <1>1, <1>2, <1>3, <1>4 DEF RunKept

\* The green commits of other runs are seen still: where the branch is not this run's now,
\* the pull request is as it was, or closed.
LEMMA OthersSeen ==
  ASSUME NEW i \in ImplementRuns, NEW j \in ImplementRuns \ {i}, RunKept(j), FlagSeen(j),
         implement'[j] = implement[j],
         \A s \in Slugs : \/ pulls'[s] = pulls[s] /\ branch'[s] = branch[s]
                          \/ pulls'[s] = None
                          \/ branch'[s].by = i
  PROVE  FlagSeen(j)'
<1>1. CASE implement[j].pc # "done" BY <1>1 DEF FlagSeen, AtStep
<1>2. CASE implement[j].pc = "done"
  <2>1. implement[j].slug \in Slugs BY <1>2 DEF RunKept, BranchChosen
  <2> QED BY <1>2, <2>1 DEF FlagSeen, AtStep
<1> QED BY <1>1, <1>2

\* A step of run i keeps the invariant if it keeps the part that is about run i and the
\* shared pull requests.
LEMMA RunStepKeeps ==
  ASSUME FInv, NEW i \in ImplementRuns, NEW p, Turns(i, p),
         UNCHANGED <<issue, comment, triage, order>>,
         p \in PublishSteps => holder' = <<"publish", i>>,
         holder' = holder \/ holder = None \/ implement[i].pc \in PublishSteps,
         UNCHANGED <<branch, pulls>> \/ implement[i].pc \in PublishSteps,
         PublishTypeOK', OnePull', PullsHaveCommits', RunKept(i)', FlagSeen(i)',
         \A s \in Slugs : \/ pulls'[s] = pulls[s] /\ branch'[s] = branch[s]
                          \/ pulls'[s] = None
                          \/ branch'[s].by = i
  PROVE  FInv'
<1>0. TriageInv /\ GroupHeld BY PublishParts
<1>1. GroupHeld'
  <2>1. CASE holder' = holder BY <1>0, <2>1 DEF GroupHeld, Turns
  <2>2. CASE holder = None BY <1>0, <2>2, Apart DEF GroupHeld, Turns
  <2>3. CASE implement[i].pc \in PublishSteps
    BY <1>0, <2>3, PublishAlone DEF GroupHeld, Turns
  <2> QED BY <2>1, <2>2, <2>3
<1>2. TriageInv' BY <1>0, <1>1, TriageStands
<1>3. ASSUME NEW j \in ImplementRuns
      PROVE  RunKept(j)' /\ FlagSeen(j)'
  <2>1. CASE j = i BY <2>1
  <2>2. CASE j # i
    <3>1. implement'[j] = implement[j] /\ RunKept(j) /\ FlagSeen(j)
      BY <2>2, PublishParts DEF Turns, RunKept
    <3>2. UNCHANGED <<branch, pulls>> \/ implement[j].pc \notin PublishSteps
      BY <1>0, <2>2, PublishAlone
    <3> QED BY <2>2, <3>1, <3>2, OthersKeep, OthersSeen
  <2> QED BY <2>1, <2>2
<1> QED BY <1>2, <1>3 DEF FInv, PublishInv

\* So does a step that leaves the pull requests alone.
LEMMA QuietStepKeeps ==
  ASSUME FInv, NEW i \in ImplementRuns, NEW p, Turns(i, p),
         UNCHANGED <<issue, comment, triage, order, branch, pulls>>,
         p \in PublishSteps => holder' = <<"publish", i>>,
         holder' = holder \/ holder = None \/ implement[i].pc \in PublishSteps,
         RunKept(i)', FlagSeen(i)'
  PROVE  FInv'
<1>1. PublishTypeOK' BY PublishParts DEF PublishTypeOK, Turns
<1>2. OnePull' /\ PullsHaveCommits' BY PublishParts DEF OnePull, PullsHaveCommits
<1> QED BY <1>1, <1>2, RunStepKeeps

-----------------------------------------------------------------------------
(* The implement job, and the publish job until its push.                  *)

\* A run that fails, is rejected or waits for its publish job keeps its work.
LEMMA Resting ==
  ASSUME FInv, NEW i \in ImplementRuns,
         NEW p \in {"queued", "failed", "generation", "reject"}, Turns(i, p), SameWork(i),
         implement[i].pc # "done", UNCHANGED <<comment, triage>>
  PROVE  RunKept(i)' /\ FlagSeen(i)'
<1>1. ViewKept(i) BY PublishParts
<1>2. ViewKept(i)' BY <1>1 DEF ViewKept, Turns, SameWork
<1>3. JudgedAuthorized(i)' BY DEF JudgedAuthorized, Judged, Turns
<1>4. BranchChosen(i)' BY DEF BranchChosen, Pushed, Turns
<1>5. FlagKept(i)' BY DEF FlagKept, Pushed, Turns
<1>6. FlagSeen(i)' BY DEF FlagSeen, AtStep, Turns
<1> QED BY <1>2, <1>3, <1>4, <1>5, <1>6 DEF RunKept

\* A job that ends or rests, whatever it noted about its calls, leaves a good state.
LEMMA RestingKeeps ==
  ASSUME FInv, NEW i \in ImplementRuns,
         NEW p \in {"queued", "failed", "generation", "reject"}, Turns(i, p), SameWork(i),
         implement[i].pc # "done", p \in PublishSteps => holder' = <<"publish", i>>,
         holder' = holder \/ holder = None \/ implement[i].pc \in PublishSteps,
         UNCHANGED <<issue, comment, triage, order, branch, pulls>>
  PROVE  FInv'
BY Resting, QuietStepKeeps

\* The job keeps the group while it steps.
LEMMA HoldsGroup ==
  ASSUME FInv, NEW i \in ImplementRuns, implement[i].pc \in PublishSteps
  PROVE  holder = <<"publish", i>>
BY PublishParts DEF GroupHeld

LEMMA ImplementKeeps ==
  ASSUME FInv, NEW i \in ImplementRuns,
         \/ DispatchImplement(i) \/ ImplementViews(i) \/ verifyApprovedRevision(i)
         \/ \E patch \in PatchesOf[i] \cup {None} : ImplementAgent(i, patch)
         \/ \E login \in LoginsOf[i] : Publish(i, login)
  PROVE  FInv'
<1>0. PublishTypeOK /\ ViewKept(i) /\ TriageInv BY PublishParts
<1>1. CASE DispatchImplement(i)
  <2>1. Turns(i, "view") /\ SameWork(i)
    BY <1>0, <1>1, Stepping DEF DispatchImplement, ImplementPcs
  <2>2. /\ implement[i].pc = "idle" /\ UNCHANGED <<issue, comment, triage, order, branch, pulls>>
        /\ holder' = holder
    BY <1>1 DEF DispatchImplement, AtStep, Quiet, IssueOnly
  <2>3. ViewKept(i)' BY <1>0, <2>1, <2>2 DEF ViewKept, Turns, SameWork
  <2>4. RunKept(i)' /\ FlagSeen(i)'
    BY <2>1, <2>3 DEF RunKept, JudgedAuthorized, BranchChosen, FlagKept, FlagSeen, AtStep, Turns, Judged, Pushed
  <2> QED BY <2>1, <2>2, <2>4, QuietStepKeeps DEF PublishSteps
<1>2. CASE ImplementViews(i)
  <2>2. /\ implement[i].pc = "view" /\ UNCHANGED <<issue, comment, triage, order, branch, pulls>>
        /\ holder' = holder
    BY <1>2 DEF ImplementViews, AtStep, Quiet, IssueOnly
  <2>3. CASE isAuthorizingTriageGeneration(comment)
             /\ implement' = [implement EXCEPT ![i].pc = "text", ![i].view = comment]
    <3>1. /\ comment # None /\ comment \in Verdicts /\ ~comment.held
          /\ CommentCarries
      BY <1>0, <2>3, Parts DEF isAuthorizingTriageGeneration
    <3>2. Turns(i, "text") /\ implement'[i].view = comment /\ implement'[i].text = implement[i].text
          /\ implement'[i].patch = implement[i].patch
      BY <1>0, <2>3, <3>1, Viewing DEF ImplementPcs
    <3>3. implement[i].text = None /\ implement[i].patch = None
      BY <1>0, <2>2 DEF ViewKept
    <3>4. ViewKept(i)' BY <2>2, <3>1, <3>2, <3>3 DEF ViewKept, Turns, CommentCarries
    <3>5. RunKept(i)' /\ FlagSeen(i)'
      BY <3>2, <3>4 DEF RunKept, JudgedAuthorized, BranchChosen, FlagKept, FlagSeen, AtStep, Turns, Judged, Pushed
    <3> QED BY <2>2, <3>2, <3>5, QuietStepKeeps DEF PublishSteps
  <2>4. CASE To(i, "queued")
    <3>1. Turns(i, "queued") /\ SameWork(i) BY <1>0, <2>4, Stepping DEF ImplementPcs
    <3> QED BY <2>2, <3>1, RestingKeeps DEF PublishSteps
  <2> QED BY <1>2, <2>3, <2>4 DEF ImplementViews
<1>3. CASE verifyApprovedRevision(i)
  <2>1. issue.text \in Texts /\ None \notin Texts BY <1>0, Parts, Apart
  <2>2. /\ implement[i].pc = "text" /\ UNCHANGED <<issue, comment, triage, order, branch, pulls>>
        /\ holder' = holder
    BY <1>3 DEF verifyApprovedRevision, AtStep, Quiet, IssueOnly
  <2>3. CASE implement[i].view.approved \in {None, issue.text}
    <3>1. implement' = [implement EXCEPT ![i].pc = "agent", ![i].text = issue.text]
      BY <1>3, <2>3 DEF verifyApprovedRevision
    <3>2. Turns(i, "agent") /\ implement'[i].view = implement[i].view /\ implement'[i].text = issue.text
          /\ implement'[i].patch = implement[i].patch
      BY <1>0, <2>1, <3>1, Texting DEF ImplementPcs, Revisions
    <3>3. ViewKept(i)' BY <1>0, <2>1, <2>2, <2>3, <3>2 DEF ViewKept, Turns
    <3>4. RunKept(i)' /\ FlagSeen(i)'
      BY <3>2, <3>3 DEF RunKept, JudgedAuthorized, BranchChosen, FlagKept, FlagSeen, AtStep, Turns, Judged, Pushed
    <3> QED BY <2>2, <3>2, <3>4, QuietStepKeeps DEF PublishSteps
  <2>4. CASE implement[i].view.approved \notin {None, issue.text}
    <3>1. implement' = [implement EXCEPT ![i].pc = "queued", ![i].text = None]
      BY <1>3, <2>4 DEF verifyApprovedRevision
    <3>2. Turns(i, "queued") /\ implement'[i].view = implement[i].view /\ implement'[i].text = None
          /\ implement'[i].patch = implement[i].patch
      <4>1. None \in Revisions /\ "queued" \in ImplementPcs BY DEF Revisions, ImplementPcs
      <4> QED BY <1>0, <3>1, <4>1, Texting
    <3>3. implement[i].text = None BY <1>0, <2>2, <2>4 DEF ViewKept
    <3>4. SameWork(i) BY <3>2, <3>3 DEF SameWork
    <3> QED BY <2>2, <3>2, <3>4, RestingKeeps DEF PublishSteps
  <2> QED BY <2>3, <2>4
<1>4. ASSUME NEW patch \in PatchesOf[i] \cup {None}, ImplementAgent(i, patch)
      PROVE  FInv'
  <2>1. patch \in Patches \cup {None} BY FactoryPublishAssumption
  <2>2. /\ implement[i].pc = "agent" /\ UNCHANGED <<issue, comment, triage, order, branch, pulls>>
        /\ holder' = holder
    BY <1>4 DEF ImplementAgent, AtStep, Quiet, IssueOnly
  <2>3. Turns(i, "queued") /\ implement'[i].view = implement[i].view
        /\ implement'[i].text = implement[i].text /\ implement'[i].patch = patch
    BY <1>0, <1>4, <2>1, Patching DEF ImplementAgent, ImplementPcs
  <2>4. ViewKept(i)' BY <1>0, <2>2, <2>3 DEF ViewKept, Turns
  <2>5. RunKept(i)' /\ FlagSeen(i)'
    BY <2>3, <2>4 DEF RunKept, JudgedAuthorized, BranchChosen, FlagKept, FlagSeen, AtStep, Turns, Judged, Pushed
  <2> QED BY <2>2, <2>3, <2>5, QuietStepKeeps DEF PublishSteps
<1>5. ASSUME NEW login \in LoginsOf[i], Publish(i, login)
      PROVE  FInv'
  <2>1. login \in Logins BY FactoryPublishAssumption DEF Logins
  <2>2. /\ implement[i].pc = "queued" /\ UNCHANGED <<issue, comment, triage, order, branch, pulls>>
        /\ holder = None /\ holder' = <<"publish", i>>
    BY <1>5 DEF Publish, AtStep, IssueOnly
  <2>3. Turns(i, "generation") /\ SameWork(i)
    BY <1>0, <1>5, <2>1, LoggingIn DEF Publish, ImplementPcs, PublishSteps
  <2> QED BY <2>2, <2>3, RestingKeeps
<1> QED BY <1>1, <1>2, <1>3, <1>4, <1>5

\* A step of the publish job before its push: what was judged, and the branch, stay good.
LEMMA ChecksKeep ==
  ASSUME FInv, NEW i \in ImplementRuns, implement[i].pc \in PublishSteps,
         NEW p \in {"issue", "find", "recheck", "last check", "push"}, Turns(i, p), SameWork(i),
         UNCHANGED <<issue, comment, triage, order, branch, pulls>>, holder' = holder,
         JudgedAuthorized(i)', BranchChosen(i)'
  PROVE  FInv'
<1>1. ViewKept(i) BY PublishParts
<1>2. ViewKept(i)' BY <1>1 DEF ViewKept, Turns, SameWork, PublishSteps
<1>3. FlagKept(i)' /\ FlagSeen(i)' BY DEF FlagKept, FlagSeen, AtStep, Turns, Pushed
<1>4. RunKept(i)' BY <1>2, <1>3 DEF RunKept
<1> QED BY <1>3, <1>4, HoldsGroup, QuietStepKeeps

\* A check that holds takes the job on, one that fails to its failure comment.
LEMMA UnlessKeeps ==
  ASSUME FInv, NEW i \in ImplementRuns, implement[i].pc \in PublishSteps,
         NEW p \in {"issue", "find", "push"}, NEW ok \in BOOLEAN, Unless(i, ok, p), Quiet,
         ok => implement[i].patch # None /\ Publishable(implement[i].patch)
               /\ isAuthorizingTriageGeneration(comment) /\ comment.run = implement[i].view.run,
         p = "push" => implement[i].pc = "last check"
  PROVE  FInv'
<1>0. PublishTypeOK /\ BranchChosen(i) BY PublishParts
<1>1. UNCHANGED <<issue, comment, triage, order, branch, pulls>> /\ holder' = holder
  BY DEF Quiet, IssueOnly
<1>2. CASE ok
  <2>1. Turns(i, p) /\ SameWork(i) /\ SameBranch(i)
    BY <1>0, <1>2, Stepping DEF Unless, ImplementPcs, PublishSteps
  <2>2. JudgedAuthorized(i)'
    BY <1>1, <1>2, <2>1 DEF JudgedAuthorized, Turns, SameWork, isAuthorizingTriageGeneration
  <2>3. BranchChosen(i)' BY <1>0, <1>1, <2>1 DEF BranchChosen, Turns, SameBranch, Pushed
  <2> QED BY <1>1, <2>1, <2>2, <2>3, ChecksKeep
<1>3. CASE ~ok
  <2>1. Turns(i, "reject") /\ SameWork(i)
    BY <1>0, <1>3, Stepping DEF Unless, ImplementPcs, PublishSteps
  <2> QED BY <1>1, <2>1, HoldsGroup, RestingKeeps DEF PublishSteps
<1> QED BY <1>2, <1>3

LEMMA PublishChecksKeep ==
  ASSUME FInv, NEW i \in ImplementRuns,
         \/ \E applies \in BOOLEAN : PublishJudges(i, applies)
         \/ PublishReadsIssue(i) \/ FindsPr(i) \/ ChoosesBranch(i) \/ RevalidatesBeforePush(i)
  PROVE  FInv'
<1>0. PublishTypeOK /\ JudgedAuthorized(i) /\ BranchChosen(i) /\ TriageInv /\ OnePull BY PublishParts
<1>1. ASSUME NEW applies \in BOOLEAN, PublishJudges(i, applies)
      PROVE  FInv'
  <2> DEFINE ok == /\ implement[i].patch # None
                   /\ isAuthorizingTriageGeneration(comment)
                   /\ comment.run = implement[i].view.run
                   /\ applies /\ Publishable(implement[i].patch)
  <2>1. implement[i].pc = "generation" /\ Unless(i, ok, "issue") /\ Quiet
    BY <1>1, Zenon DEF PublishJudges, AtStep
  <2>2. ok \in BOOLEAN BY Zenon
  <2>3. ok => implement[i].patch # None /\ Publishable(implement[i].patch)
              /\ isAuthorizingTriageGeneration(comment) /\ comment.run = implement[i].view.run
    BY Zenon
  <2> HIDE DEF ok
  <2> QED BY <2>1, <2>2, <2>3, UnlessKeeps DEF PublishSteps
<1>2. CASE PublishReadsIssue(i)
  <2> DEFINE ok == issue.open /\ "ready-to-implement" \in issue.labels /\ assertIssueRevisionMatches(i)
  <2>1. implement[i].pc = "issue" /\ Unless(i, ok, "find") /\ Quiet
    BY <1>2, Zenon DEF PublishReadsIssue, AtStep
  <2>2. ok \in BOOLEAN BY Zenon
  <2>3. implement[i].patch # None /\ Publishable(implement[i].patch)
        /\ isAuthorizingTriageGeneration(comment) /\ comment.run = implement[i].view.run
    BY <1>0, <2>1 DEF JudgedAuthorized, Judged
  <2> HIDE DEF ok
  <2> QED BY <2>1, <2>2, <2>3, UnlessKeeps DEF PublishSteps
<1>3. CASE FindsPr(i)
  <2>1. PICK s \in findPrForIssueNumber \cup {None} :
          /\ s = None <=> findPrForIssueNumber = {}
          /\ implement' = [implement EXCEPT ![i].pc = "recheck", ![i].slug = s,
                                            ![i].existing = s # None]
    BY <1>3 DEF FindsPr
  <2>2. /\ implement[i].pc = "find" /\ UNCHANGED <<issue, comment, triage, order, branch, pulls>>
        /\ holder' = holder
    BY <1>3 DEF FindsPr, AtStep, Quiet, IssueOnly
  <2>3. s \in Slugs \cup {None} BY DEF findPrForIssueNumber
  <2>4. (s # None) \in BOOLEAN BY Zenon
  <2>5. /\ Turns(i, "recheck") /\ SameWork(i) /\ implement'[i].slug = s
        /\ implement'[i].existing = (s # None)
    BY <1>0, <2>1, <2>3, <2>4, Finding DEF ImplementPcs, PublishSteps
  <2>6. JudgedAuthorized(i)'
    BY <1>0, <2>2, <2>5 DEF JudgedAuthorized, Judged, Turns, SameWork, isAuthorizingTriageGeneration
  <2>7. s = None => \A t \in Slugs : pulls[t] = None BY <2>1 DEF findPrForIssueNumber
  <2>8. BranchChosen(i)'
    BY <2>2, <2>3, <2>5, <2>7 DEF BranchChosen, Turns, Pushed
  <2> QED BY <2>2, <2>5, <2>6, <2>8, ChecksKeep DEF PublishSteps
<1>4. CASE ChoosesBranch(i)
  <2>1. /\ implement[i].pc = "recheck" /\ UNCHANGED <<issue, comment, triage, order, branch, pulls>>
        /\ holder' = holder
    BY <1>4 DEF ChoosesBranch, AtStep, Quiet, IssueOnly
  <2>2. CASE assertIssueRevisionMatches(i)
    <3> DEFINE s == IF implement[i].existing THEN implement[i].slug ELSE SlugOf[issue.text]
    <3>1. SlugOf[issue.text] \in Slugs BY <1>0, Parts DEF Slugs
    <3>2. s \in Slugs BY <1>0, <2>1, <3>1 DEF BranchChosen
    <3>3. implement' = [implement EXCEPT ![i].pc = "last check", ![i].slug = s]
      BY <1>0, <1>4, <2>2 DEF ChoosesBranch, PublishTypeOK
    <3> HIDE DEF s
    <3>4. /\ Turns(i, "last check") /\ SameWork(i) /\ implement'[i].slug = s
          /\ implement'[i].existing = implement[i].existing
      BY <1>0, <3>2, <3>3, Naming DEF ImplementPcs, PublishSteps
    <3>5. JudgedAuthorized(i)'
      BY <1>0, <2>1, <3>4 DEF JudgedAuthorized, Judged, Turns, SameWork, isAuthorizingTriageGeneration
    <3>6. BranchChosen(i)' BY <1>0, <2>1, <3>2, <3>4 DEF BranchChosen, Turns, Pushed
    <3> QED BY <2>1, <3>4, <3>5, <3>6, ChecksKeep DEF PublishSteps
  <2>3. CASE ~assertIssueRevisionMatches(i)
    <3>1. To(i, "reject") BY <1>4, <2>3 DEF ChoosesBranch
    <3>2. Turns(i, "reject") /\ SameWork(i)
      BY <1>0, <3>1, Stepping DEF ImplementPcs, PublishSteps
    <3> QED BY <2>1, <3>2, HoldsGroup, RestingKeeps DEF PublishSteps
  <2> QED BY <2>2, <2>3
<1>5. CASE RevalidatesBeforePush(i)
  <2> DEFINE ok == assertIssueRevisionMatches(i)
  <2>1. implement[i].pc = "last check" /\ Unless(i, ok, "push") /\ Quiet
    BY <1>5, Zenon DEF RevalidatesBeforePush, AtStep
  <2>2. ok \in BOOLEAN BY Zenon DEF assertIssueRevisionMatches
  <2>3. implement[i].patch # None /\ Publishable(implement[i].patch)
        /\ isAuthorizingTriageGeneration(comment) /\ comment.run = implement[i].view.run
    BY <1>0, <2>1 DEF JudgedAuthorized, Judged
  <2> HIDE DEF ok
  <2> QED BY <2>1, <2>2, <2>3, UnlessKeeps DEF PublishSteps
<1> QED BY <1>1, <1>2, <1>3, <1>4, <1>5

-----------------------------------------------------------------------------
(* The push, the pull request and what is put on it.                       *)

\* A commit of the run is typed: the run works for a text and a generation.
LEMMA CommitTyped ==
  ASSUME FInv, NEW i \in ImplementRuns, implement[i].pc = "push"
  PROVE  Commit(i) \in CommitRecord
<1>1. /\ implement[i].patch # None /\ comment # None /\ comment.run = implement[i].view.run
  BY PublishParts DEF JudgedAuthorized, Judged, isAuthorizingTriageGeneration
<1>2. comment.run \in TriageRuns BY <1>1, Parts, PublishParts
<1>3. implement[i] \in ImplementRecord BY PublishParts DEF PublishTypeOK
<1>4. implement[i].patch \in Patches BY <1>1, <1>3 DEF ImplementRecord
<1>5. implement[i].text \in Texts
  <2>1. implement[i].text # None BY <1>1, PublishParts DEF ViewKept
  <2> QED BY <1>3, <2>1 DEF ImplementRecord, Revisions
<1> QED BY <1>1, <1>2, <1>4, <1>5 DEF Commit, CommitRecord

LEMMA PushKeeps ==
  ASSUME FInv, NEW i \in ImplementRuns, NEW ok \in BOOLEAN, Pushes(i, ok)
  PROVE  FInv'
<1> DEFINE s == implement[i].slug
           p == IF ~ok THEN "reject"
                ELSE IF ~implement[i].existing THEN "open"
                ELSE IF implement[i].login = "fallback" THEN "fallback"
                ELSE IF gamingFlagged(implement[i].patch) THEN "flag" ELSE "unflag"
<1>0. PublishTypeOK /\ ViewKept(i) /\ BranchChosen(i) /\ OnePull /\ PullsHaveCommits BY PublishParts
<1>1. /\ implement[i].pc = "push" /\ UNCHANGED <<issue, comment, triage, order, pulls>>
      /\ holder' = holder /\ holder = <<"publish", i>>
  BY HoldsGroup DEF Pushes, AtStep, IssueOnly, PublishSteps
<1>2. s \in Slugs BY <1>0, <1>1 DEF BranchChosen
<1>3. Commit(i) \in CommitRecord BY <1>1, CommitTyped
<1>4. /\ Turns(i, p) /\ SameWork(i) /\ SameBranch(i)
  <2>1. p \in ImplementPcs BY DEF ImplementPcs, PublishSteps
  <2>2. implement' = [implement EXCEPT ![i].pushed = ok, ![i].pc = p] BY DEF Pushes
  <2> HIDE DEF p
  <2> QED BY <1>0, <2>1, <2>2, Pushing
<1>5. CASE ~ok /\ UNCHANGED branch
  BY <1>1, <1>4, <1>5, RestingKeeps DEF PublishSteps
<1>6. CASE branch' = [branch EXCEPT ![s] = Commit(i)]
  <2>1. /\ branch'[s] = Commit(i) /\ \A t \in Slugs \ {s} : branch'[t] = branch[t]
        /\ branch' \in [Slugs -> {None} \cup CommitRecord]
    BY <1>0, <1>2, <1>3, <1>6 DEF PublishTypeOK
  <2>2. PublishTypeOK' BY <1>0, <1>1, <1>4, <2>1 DEF PublishTypeOK, Turns
  <2>3. OnePull' BY <1>0, <1>1 DEF OnePull
  <2>4. PullsHaveCommits' BY <1>0, <1>1, <1>3, <2>1 DEF PullsHaveCommits
  <2>5. RunKept(i)' /\ FlagSeen(i)'
    <3>1. CASE ~ok
      BY <1>1, <1>4, <3>1, Resting
    <3>2. CASE ok
      <4>1. p \in {"open", "fallback", "flag", "unflag"} BY <3>2
      <4>2. ViewKept(i)' BY <1>0, <1>1, <1>4, <4>1 DEF ViewKept, Turns, SameWork
      <4>3. JudgedAuthorized(i)' BY <1>4, <4>1 DEF JudgedAuthorized, Judged, Turns
      <4>4. p = "open" => ~implement[i].existing BY <3>2
      <4>5. p = "unflag" => ~gamingFlagged(implement[i].patch) BY <3>2
      <4> HIDE DEF p
      <4>6. BranchChosen(i)'
        BY <1>0, <1>1, <1>2, <1>4, <4>1, <4>4 DEF BranchChosen, Turns, SameBranch, Pushed
      <4>7. Commit(i)' = Commit(i) BY <1>4 DEF Commit, SameWork
      <4>8. FlagKept(i)'
        BY <1>3, <1>4, <2>1, <4>1, <4>5, <4>7 DEF FlagKept, Turns, SameBranch, SameWork, Pushed
      <4>9. FlagSeen(i)' BY <1>4, <4>1 DEF FlagSeen, AtStep, Turns
      <4> QED BY <4>2, <4>3, <4>6, <4>8, <4>9 DEF RunKept
    <3> QED BY <3>1, <3>2
  <2>6. \A t \in Slugs : (pulls'[t] = pulls[t] /\ branch'[t] = branch[t]) \/ branch'[t].by = i
    BY <1>1, <2>1 DEF Commit
  <2> HIDE DEF p
  <2> QED BY <1>1, <1>4, <2>2, <2>3, <2>4, <2>5, <2>6, RunStepKeeps DEF PublishSteps
<1> QED BY <1>5, <1>6 DEF Pushes

\* A step that changes the run's pull request and neither opens one that was not there
\* nor a second one.
LEMMA PullStepKeeps ==
  ASSUME FInv, NEW i \in ImplementRuns, implement[i].pc \in Pushed,
         NEW p, Turns(i, p), p \in PublishSteps => holder' = holder,
         UNCHANGED <<issue, comment, triage, order, branch>>,
         pulls' \in [Slugs -> {None} \cup PullRecord],
         \A t \in Slugs : t # implement[i].slug => pulls'[t] = pulls[t],
         \A t \in Slugs : pulls'[t] # None => pulls[t] # None \/ implement[i].pc = "open",
         RunKept(i)', FlagSeen(i)'
  PROVE  FInv'
<1> DEFINE s == implement[i].slug
<1>0. PublishTypeOK /\ BranchChosen(i) /\ FlagKept(i) /\ OnePull /\ PullsHaveCommits BY PublishParts
<1>1. s \in Slugs /\ branch[s] \in CommitRecord /\ branch[s].by = i
  <2>1. s \in Slugs BY <1>0 DEF BranchChosen
  <2>2. branch[s] = Commit(i) /\ branch[s] \in CommitRecord BY <1>0 DEF FlagKept
  <2>3. Commit(i).by = i BY DEF Commit
  <2> QED BY <2>1, <2>2, <2>3
<1>2. PublishTypeOK' BY <1>0 DEF PublishTypeOK, Turns
<1>3. OnePull'
  <2>1. CASE implement[i].pc = "open"
    <3>1. \A t \in Slugs : pulls[t] = None BY <1>0, <2>1 DEF BranchChosen
    <3> QED BY <3>1 DEF OnePull
  <2>2. CASE implement[i].pc # "open" BY <1>0, <2>2 DEF OnePull
  <2> QED BY <2>1, <2>2
<1>4. PullsHaveCommits' BY <1>0, <1>1 DEF PullsHaveCommits
<1>5. \A t \in Slugs : (pulls'[t] = pulls[t] /\ branch'[t] = branch[t]) \/ branch'[t].by = i
  BY <1>1
<1>6. implement[i].pc \in PublishSteps BY DEF Pushed, PublishSteps
<1>7. p \in PublishSteps => holder' = <<"publish", i>> BY <1>6, HoldsGroup
<1> QED BY <1>2, <1>3, <1>4, <1>5, <1>6, <1>7, RunStepKeeps

\* What a step past the push keeps of its run, whatever it does to the pull request.
LEMMA PushedRun ==
  ASSUME FInv, NEW i \in ImplementRuns, implement[i].pc \in Pushed,
         NEW p \in {"fallback", "flag", "annotate", "unflag", "finish"}, Turns(i, p),
         SameWork(i), SameBranch(i), UNCHANGED <<comment, triage, branch>>,
         p = "unflag" => ~gamingFlagged(implement[i].patch),
         p \in {"annotate", "finish"} /\ gamingFlagged(implement[i].patch) =>
           /\ implement'[i].labelled \in BOOLEAN
           /\ implement'[i].labelled = TRUE /\ pulls'[implement[i].slug] # None =>
                "no-auto-chain" \in pulls'[implement[i].slug].labels,
         p = "finish" /\ gamingFlagged(implement[i].patch) =>
           /\ implement'[i].noted \in BOOLEAN
           /\ implement'[i].noted = TRUE /\ pulls'[implement[i].slug] # None =>
                implement[i].patch \in pulls'[implement[i].slug].notes
  PROVE  RunKept(i)' /\ FlagSeen(i)'
<1>0. ViewKept(i) /\ BranchChosen(i) /\ FlagKept(i) BY PublishParts
<1>1. ViewKept(i)' BY <1>0 DEF ViewKept, Turns, SameWork, Pushed
<1>2. JudgedAuthorized(i)' BY DEF JudgedAuthorized, Judged, Turns
<1>3. BranchChosen(i)' BY <1>0 DEF BranchChosen, Turns, SameBranch, Pushed
<1>4. Commit(i)' = Commit(i) BY DEF Commit, SameWork
<1>5. FlagKept(i)' BY <1>0, <1>4 DEF FlagKept, Turns, SameWork, SameBranch, Pushed
<1>6. FlagSeen(i)' BY DEF FlagSeen, AtStep, Turns
<1> QED BY <1>1, <1>2, <1>3, <1>5, <1>6 DEF RunKept

LEMMA OpenKeeps ==
  ASSUME FInv, NEW i \in ImplementRuns, NEW ok \in BOOLEAN, Opens(i, ok)
  PROVE  FInv'
<1> DEFINE s == implement[i].slug
           p == IF ~ok THEN "reject"
                ELSE IF implement[i].login = "fallback" THEN "fallback"
                ELSE IF gamingFlagged(implement[i].patch) THEN "flag" ELSE "finish"
           new == [labels |-> {}, notes |-> {}]
<1>0. PublishTypeOK /\ BranchChosen(i) BY PublishParts
<1>1. /\ implement[i].pc = "open" /\ UNCHANGED <<issue, comment, triage, order, branch>>
      /\ holder' = holder
  BY DEF Opens, AtStep, IssueOnly
<1>2. s \in Slugs BY <1>0, <1>1 DEF BranchChosen, Pushed
<1>3. /\ Turns(i, p) /\ SameWork(i) /\ SameBranch(i)
  <2>1. p \in ImplementPcs BY DEF ImplementPcs, PublishSteps
  <2>2. To(i, p) BY DEF Opens
  <2> HIDE DEF p
  <2> QED BY <1>0, <2>1, <2>2, Stepping
<1>4. /\ pulls' \in [Slugs -> {None} \cup PullRecord]
      /\ \A t \in Slugs : t # s => pulls'[t] = pulls[t]
  <2>1. new \in PullRecord BY DEF PullRecord
  <2>2. pulls' = [pulls EXCEPT ![s] = new] \/ pulls' = pulls BY DEF Opens
  <2> HIDE DEF new
  <2> QED BY <1>0, <1>2, <2>1, <2>2 DEF PublishTypeOK
<1>5. RunKept(i)' /\ FlagSeen(i)'
  <2>1. CASE ~ok BY <1>1, <1>3, <2>1, Resting
  <2>2. CASE ok
    <3>1. p \in {"fallback", "flag", "finish"} BY <2>2
    <3>2. p = "finish" => ~gamingFlagged(implement[i].patch) BY <2>2
    <3> HIDE DEF p
    <3> QED BY <1>1, <1>3, <3>1, <3>2, PushedRun DEF Pushed
  <2> QED BY <2>1, <2>2
<1> HIDE DEF p
<1> QED BY <1>1, <1>3, <1>4, <1>5, PullStepKeeps DEF Pushed

\* The run's pull request, if it is there, becomes q; none is opened.
LEMMA PullTurns ==
  ASSUME PublishTypeOK, NEW i \in ImplementRuns, implement[i].slug \in Slugs, NEW q,
         PullBecomes(i, q), Pull(i) # None => q \in PullRecord
  PROVE  /\ pulls' \in [Slugs -> {None} \cup PullRecord]
         /\ \A t \in Slugs : t # implement[i].slug => pulls'[t] = pulls[t]
         /\ \A t \in Slugs : pulls'[t] # None => pulls[t] # None
         /\ pulls'[implement[i].slug] # None => pulls'[implement[i].slug] = q
<1>1. CASE Pull(i) = None
  <2>1. pulls' = [pulls EXCEPT ![implement[i].slug] = None] BY <1>1 DEF PullBecomes, Pull, PublishTypeOK
  <2> QED BY <1>1, <2>1 DEF PublishTypeOK, Pull
<1>2. CASE Pull(i) # None
  <2>1. pulls' = [pulls EXCEPT ![implement[i].slug] = q] BY <1>2 DEF PullBecomes, Pull, PublishTypeOK
  <2> QED BY <1>2, <2>1 DEF PublishTypeOK, Pull
<1> QED BY <1>1, <1>2

\* A pull request with one more or one less label, or one more note, is one.
LEMMA PullFields ==
  ASSUME PublishTypeOK, NEW i \in ImplementRuns, implement[i].slug \in Slugs, Pull(i) # None
  PROVE  /\ \A l \in {"no-review-automation", "no-auto-chain"} :
              /\ WithLabel(i, l) \in PullRecord /\ l \in WithLabel(i, l).labels
              /\ Pull(i).labels \subseteq WithLabel(i, l).labels
         /\ \A c \in Patches :
              LET q == [Pull(i) EXCEPT !.notes = @ \cup {c}]
              IN q \in PullRecord /\ q.labels = Pull(i).labels /\ c \in q.notes
         /\ [Pull(i) EXCEPT !.labels = @ \ {"no-auto-chain"}] \in PullRecord
<1> DEFINE u == Pull(i)
<1>1. u \in PullRecord BY DEF PublishTypeOK, Pull
<1>2. u.labels \in SUBSET {"no-review-automation", "no-auto-chain"} /\ u.notes \in SUBSET Patches
  BY <1>1 DEF PullRecord
<1> HIDE DEF u
<1>3. ASSUME NEW l \in {"no-review-automation", "no-auto-chain"}
      PROVE  /\ WithLabel(i, l) \in PullRecord /\ l \in WithLabel(i, l).labels
             /\ u.labels \subseteq WithLabel(i, l).labels
  <2>1. WithLabel(i, l) = [u EXCEPT !.labels = u.labels \cup {l}]
    BY Zenon DEF WithLabel, u
  <2> QED BY <1>1, <1>2, <2>1 DEF PullRecord
<1>4. ASSUME NEW c \in Patches
      PROVE  LET q == [u EXCEPT !.notes = u.notes \cup {c}]
             IN q \in PullRecord /\ q.labels = u.labels /\ c \in q.notes
  BY <1>1, <1>2 DEF PullRecord
<1>5. [u EXCEPT !.labels = u.labels \ {"no-auto-chain"}] \in PullRecord
  BY <1>1, <1>2 DEF PullRecord
<1> QED BY <1>3, <1>4, <1>5, Zenon DEF u

-----------------------------------------------------------------------------
(* The best-effort calls, and the end of the job.                          *)

LEMMA BestEffortKeeps ==
  ASSUME FInv, NEW i \in ImplementRuns, NEW ok \in BOOLEAN,
         \/ applyNoReviewAutomationLabelBestEffort(i, ok)
         \/ applyNoAutoChainLabelBestEffort(i, ok)
         \/ postGamingFlagAnnotation(i, ok)
         \/ removeNoAutoChainLabelBestEffort(i, ok)
  PROVE  FInv'
<1> DEFINE s == implement[i].slug
<1>0. PublishTypeOK /\ BranchChosen(i) /\ FlagKept(i) /\ ViewKept(i) BY PublishParts
<1>1. implement[i].pc \in Pushed /\ implement[i].pc # "open"
  BY DEF applyNoReviewAutomationLabelBestEffort, applyNoAutoChainLabelBestEffort,
         postGamingFlagAnnotation, removeNoAutoChainLabelBestEffort, AtStep, Pushed
<1>2. UNCHANGED <<issue, comment, triage, order, branch>> /\ holder' = holder
  BY DEF applyNoReviewAutomationLabelBestEffort, applyNoAutoChainLabelBestEffort,
         postGamingFlagAnnotation, removeNoAutoChainLabelBestEffort, IssueOnly
<1>3. s \in Slugs BY <1>0, <1>1 DEF BranchChosen
<1>4. implement[i].patch \in Patches
  <2>1. branch[s] = Commit(i) /\ branch[s] \in CommitRecord BY <1>0, <1>1 DEF FlagKept
  <2> QED BY <2>1 DEF Commit, CommitRecord
<1>u. ASSUME pulls' = pulls
      PROVE  /\ pulls' \in [Slugs -> {None} \cup PullRecord]
             /\ \A t \in Slugs : t # s => pulls'[t] = pulls[t]
             /\ \A t \in Slugs : pulls'[t] # None => pulls[t] # None
  BY <1>0, <1>u DEF PublishTypeOK
<1>5. CASE applyNoReviewAutomationLabelBestEffort(i, ok)
  <2> DEFINE p == IF gamingFlagged(implement[i].patch) THEN "flag"
                  ELSE IF implement[i].existing THEN "unflag" ELSE "finish"
             q == WithLabel(i, "no-review-automation")
  <2>1. Turns(i, p) /\ SameWork(i) /\ SameBranch(i)
    <3>1. p \in ImplementPcs BY DEF ImplementPcs, PublishSteps
    <3>2. To(i, p) BY <1>5 DEF applyNoReviewAutomationLabelBestEffort
    <3> HIDE DEF p
    <3> QED BY <1>0, <3>1, <3>2, Stepping
  <2>2. p \in {"flag", "unflag", "finish"} /\ (p # "flag" => ~gamingFlagged(implement[i].patch))
    OBVIOUS
  <2> HIDE DEF p
  <2>3. RunKept(i)' /\ FlagSeen(i)' BY <1>1, <1>2, <2>1, <2>2, PushedRun
  <2>4. /\ pulls' \in [Slugs -> {None} \cup PullRecord]
        /\ \A t \in Slugs : t # s => pulls'[t] = pulls[t]
        /\ \A t \in Slugs : pulls'[t] # None => pulls[t] # None
    <3>1. CASE ok
      <4>1. PullBecomes(i, q) BY <1>5, <3>1 DEF applyNoReviewAutomationLabelBestEffort
      <4>2. Pull(i) # None => q \in PullRecord BY <1>0, <1>3, PullFields
      <4> HIDE DEF q
      <4> QED BY <1>0, <1>3, <4>1, <4>2, PullTurns
    <3>2. CASE ~ok BY <1>5, <1>u, <3>2 DEF applyNoReviewAutomationLabelBestEffort
    <3> QED BY <3>1, <3>2
  <2> QED BY <1>1, <1>2, <2>1, <2>3, <2>4, PullStepKeeps
<1>6. CASE applyNoAutoChainLabelBestEffort(i, ok)
  <2> DEFINE q == WithLabel(i, "no-auto-chain")
  <2>1. Turns(i, "annotate") /\ SameWork(i) /\ SameBranch(i) /\ implement'[i].labelled = ok
    BY <1>0, <1>6, Labelling DEF applyNoAutoChainLabelBestEffort, ImplementPcs, PublishSteps
  <2>2. /\ pulls' \in [Slugs -> {None} \cup PullRecord]
        /\ \A t \in Slugs : t # s => pulls'[t] = pulls[t]
        /\ \A t \in Slugs : pulls'[t] # None => pulls[t] # None
        /\ ok /\ pulls'[s] # None => "no-auto-chain" \in pulls'[s].labels
    <3>1. CASE ok
      <4>1. PullBecomes(i, q) BY <1>6, <3>1 DEF applyNoAutoChainLabelBestEffort
      <4>2. Pull(i) # None => q \in PullRecord /\ "no-auto-chain" \in q.labels
        BY <1>0, <1>3, PullFields
      <4> HIDE DEF q
      <4>3. /\ pulls' \in [Slugs -> {None} \cup PullRecord]
            /\ \A t \in Slugs : t # s => pulls'[t] = pulls[t]
            /\ \A t \in Slugs : pulls'[t] # None => pulls[t] # None
            /\ pulls'[s] # None => pulls'[s] = q
        BY <1>0, <1>3, <4>1, <4>2, PullTurns
      <4> QED BY <1>3, <4>2, <4>3 DEF Pull
    <3>2. CASE ~ok BY <1>6, <1>u, <3>2 DEF applyNoAutoChainLabelBestEffort
    <3> QED BY <3>1, <3>2
  <2>3. RunKept(i)' /\ FlagSeen(i)'
    BY <1>1, <1>2, <2>1, <2>2, PushedRun
  <2> QED BY <1>1, <1>2, <2>1, <2>2, <2>3, PullStepKeeps
<1>7. CASE postGamingFlagAnnotation(i, ok)
  <2> DEFINE q == [Pull(i) EXCEPT !.notes = @ \cup {implement[i].patch}]
  <2>1. /\ Turns(i, "finish") /\ SameWork(i) /\ SameBranch(i)
        /\ implement'[i].labelled = implement[i].labelled /\ implement'[i].noted = ok
    BY <1>0, <1>7, Noting DEF postGamingFlagAnnotation, ImplementPcs, PublishSteps
  <2>2. /\ pulls' \in [Slugs -> {None} \cup PullRecord]
        /\ \A t \in Slugs : t # s => pulls'[t] = pulls[t]
        /\ \A t \in Slugs : pulls'[t] # None => pulls[t] # None
        /\ pulls'[s] # None => pulls'[s].labels = pulls[s].labels
        /\ ok /\ pulls'[s] # None => implement[i].patch \in pulls'[s].notes
    <3>1. CASE ok
      <4>1. PullBecomes(i, q) BY <1>7, <3>1 DEF postGamingFlagAnnotation
      <4>2. Pull(i) # None => q \in PullRecord /\ q.labels = Pull(i).labels /\ implement[i].patch \in q.notes
        BY <1>0, <1>3, <1>4, PullFields
      <4> HIDE DEF q
      <4>3. /\ pulls' \in [Slugs -> {None} \cup PullRecord]
            /\ \A t \in Slugs : t # s => pulls'[t] = pulls[t]
            /\ \A t \in Slugs : pulls'[t] # None => pulls[t] # None
            /\ pulls'[s] # None => pulls'[s] = q
        BY <1>0, <1>3, <4>1, <4>2, PullTurns
      <4> QED BY <1>3, <4>2, <4>3 DEF Pull
    <3>2. CASE ~ok BY <1>7, <1>u, <3>2 DEF postGamingFlagAnnotation
    <3> QED BY <3>1, <3>2
  <2>3. gamingFlagged(implement[i].patch) =>
          /\ implement[i].labelled \in BOOLEAN
          /\ implement[i].labelled = TRUE /\ pulls[s] # None => "no-auto-chain" \in pulls[s].labels
    <3>1. implement[i].pc = "annotate" BY <1>7 DEF postGamingFlagAnnotation, AtStep
    <3> QED BY <1>0, <3>1 DEF FlagKept
  <2>4. RunKept(i)' /\ FlagSeen(i)'
    BY <1>1, <1>2, <1>3, <2>1, <2>2, <2>3, PushedRun
  <2> QED BY <1>1, <1>2, <2>1, <2>2, <2>4, PullStepKeeps
<1>8. CASE removeNoAutoChainLabelBestEffort(i, ok)
  <2> DEFINE q == [Pull(i) EXCEPT !.labels = @ \ {"no-auto-chain"}]
             m == CASE ~ok -> "failed"
                    [] Pull(i) # None /\ "no-auto-chain" \in Pull(i).labels -> "removed"
                    [] OTHER -> None
  <2>1. Turns(i, "finish") /\ SameWork(i) /\ SameBranch(i)
    <3>1. m \in {"failed", "removed", None} OBVIOUS
    <3>2. implement' = [implement EXCEPT ![i].pc = "finish", ![i].removed = m]
      BY <1>8 DEF removeNoAutoChainLabelBestEffort
    <3> HIDE DEF m
    <3> QED BY <1>0, <3>1, <3>2, Removing DEF ImplementPcs, PublishSteps
  <2>2. ~gamingFlagged(implement[i].patch)
    <3>1. implement[i].pc = "unflag" BY <1>8 DEF removeNoAutoChainLabelBestEffort, AtStep
    <3> QED BY <1>0, <3>1 DEF FlagKept
  <2>3. RunKept(i)' /\ FlagSeen(i)' BY <1>1, <1>2, <2>1, <2>2, PushedRun
  <2>4. /\ pulls' \in [Slugs -> {None} \cup PullRecord]
        /\ \A t \in Slugs : t # s => pulls'[t] = pulls[t]
        /\ \A t \in Slugs : pulls'[t] # None => pulls[t] # None
    <3>1. CASE ok /\ Pull(i) # None
      <4>1. PullBecomes(i, q) BY <1>8, <3>1 DEF removeNoAutoChainLabelBestEffort
      <4>2. q \in PullRecord BY <1>0, <1>3, <3>1, PullFields
      <4> HIDE DEF q
      <4> QED BY <1>0, <1>3, <4>1, <4>2, PullTurns
    <3>2. CASE ~(ok /\ Pull(i) # None) BY <1>8, <1>u, <3>2 DEF removeNoAutoChainLabelBestEffort
    <3> QED BY <3>1, <3>2
  <2> QED BY <1>1, <1>2, <2>1, <2>3, <2>4, PullStepKeeps
<1> QED BY <1>5, <1>6, <1>7, <1>8

\* A green job leaves its flag where people see it: a job that lost both signals fails.
LEMMA FinishKeeps ==
  ASSUME FInv, NEW i \in ImplementRuns, NEW reviewed \in BOOLEAN, Finishes(i, reviewed)
  PROVE  FInv'
<1> DEFINE s == implement[i].slug
           q == [Pull(i) EXCEPT !.notes = @ \cup {implement[i].patch}]
<1>0. PublishTypeOK /\ BranchChosen(i) /\ FlagKept(i) BY PublishParts
<1>1. /\ implement[i].pc = "finish" /\ UNCHANGED <<issue, comment, triage, order, branch>>
      /\ holder' = None
  BY DEF Finishes, AtStep, IssueOnly
<1>2. s \in Slugs BY <1>0, <1>1 DEF BranchChosen, Pushed
<1>3. branch[s] = Commit(i) /\ implement[i].patch \in Patches
  <2>1. branch[s] = Commit(i) /\ branch[s] \in CommitRecord BY <1>0, <1>1 DEF FlagKept, Pushed
  <2> QED BY <2>1 DEF Commit, CommitRecord
<1>4. /\ pulls' \in [Slugs -> {None} \cup PullRecord]
      /\ \A t \in Slugs : t # s => pulls'[t] = pulls[t]
      /\ \A t \in Slugs : pulls'[t] # None => pulls[t] # None
  <2>1. CASE gamingSignalsBothLost(i) /\ reviewed
    <3>1. PullBecomes(i, q) BY <2>1 DEF Finishes
    <3>2. Pull(i) # None => q \in PullRecord BY <1>0, <1>2, <1>3, PullFields
    <3> HIDE DEF q
    <3> QED BY <1>0, <1>2, <3>1, <3>2, PullTurns
  <2>2. CASE ~(gamingSignalsBothLost(i) /\ reviewed)
    <3>1. pulls' = pulls BY <2>2 DEF Finishes
    <3> QED BY <1>0, <3>1 DEF PublishTypeOK
  <2> QED BY <2>1, <2>2
<1>5. CASE gamingSignalsBothLost(i)
  <2>1. Turns(i, "failed") /\ SameWork(i)
    <3>1. implement' = [implement EXCEPT ![i] = Failed(i)] BY <1>5 DEF Finishes
    <3> QED BY <1>0, <3>1, Failing
  <2>2. RunKept(i)' /\ FlagSeen(i)' BY <1>1, <2>1, Resting
  <2> QED BY <1>1, <1>4, <2>1, <2>2, PullStepKeeps DEF Pushed, PublishSteps
<1>6. CASE ~gamingSignalsBothLost(i)
  <2>1. /\ Turns(i, "done") /\ implement'[i].view = None /\ implement'[i].text = None
        /\ implement'[i].patch = implement[i].patch /\ implement'[i].slug = s
        /\ implement'[i].summary = buildPublishSuccessStepSummary(i)
    <3>1. implement' = [implement EXCEPT ![i] = Green(i)] BY <1>6 DEF Finishes
    <3> QED BY <1>0, <3>1, Succeeding
  <2>2. pulls' = pulls BY <1>6 DEF Finishes
  <2>3. ViewKept(i)' BY <2>1 DEF ViewKept, Turns
  <2>4. JudgedAuthorized(i)' /\ FlagKept(i)' BY <2>1 DEF JudgedAuthorized, FlagKept, Judged, Pushed, Turns
  <2>5. BranchChosen(i)' BY <1>2, <2>1 DEF BranchChosen, Pushed, Turns
  <2>6. FlagSeen(i)'
    <3> SUFFICES ASSUME pulls[s] # None, gamingFlagged(implement[i].patch)
                 PROVE  /\ implement'[i].summary.says = "flagged"
                        /\ \/ "no-auto-chain" \in pulls[s].labels
                           \/ implement[i].patch \in pulls[s].notes
      BY <1>1, <1>3, <2>1, <2>2 DEF FlagSeen, Commit
    <3>1. implement'[i].summary.says = "flagged"
      BY <2>1 DEF buildPublishSuccessStepSummary
    <3>2. implement[i].labelled = TRUE \/ implement[i].noted = TRUE
      BY <1>0, <1>1, <1>6 DEF FlagKept, gamingSignalsBothLost
    <3> QED BY <1>0, <1>1, <3>1, <3>2 DEF FlagKept
  <2>7. RunKept(i)' BY <2>3, <2>4, <2>5 DEF RunKept
  <2> QED BY <1>1, <1>4, <2>1, <2>6, <2>7, PullStepKeeps DEF Pushed, PublishSteps
<1> QED BY <1>5, <1>6

LEMMA EndsKeep ==
  ASSUME FInv, NEW i \in ImplementRuns,
         \/ \E ok \in BOOLEAN : postFailureComment(i, ok)
         \/ PublishReadFails(i) \/ PublishDies(i) \/ RerunPublish(i)
  PROVE  FInv'
<1>0. PublishTypeOK BY PublishParts
<1>1. ASSUME NEW ok \in BOOLEAN, postFailureComment(i, ok)
      PROVE  FInv'
  <2>1. /\ implement[i].pc = "reject" /\ UNCHANGED <<issue, comment, triage, order, branch, pulls>>
        /\ holder' = None
    BY <1>1 DEF postFailureComment, AtStep, IssueOnly
  <2>2. Turns(i, "failed") /\ SameWork(i) BY <1>0, <1>1, Failing DEF postFailureComment
  <2> QED BY <2>1, <2>2, RestingKeeps DEF PublishSteps
<1>2. CASE PublishReadFails(i)
  <2>1. /\ implement[i].pc \in PublishSteps /\ UNCHANGED <<issue, comment, triage, order, branch, pulls>>
        /\ holder' = holder
    BY <1>2 DEF PublishReadFails, PublishSteps, IssueOnly
  <2>2. Turns(i, "reject") /\ SameWork(i)
    BY <1>0, <1>2, Stepping DEF PublishReadFails, ImplementPcs, PublishSteps
  <2> QED BY <2>1, <2>2, HoldsGroup, RestingKeeps DEF PublishSteps
<1>3. CASE PublishDies(i)
  <2>1. /\ implement[i].pc \in PublishSteps /\ UNCHANGED <<issue, comment, triage, order, branch, pulls>>
        /\ holder' = None
    BY <1>3 DEF PublishDies, IssueOnly
  <2>2. Turns(i, "failed") /\ SameWork(i) BY <1>0, <1>3, Failing DEF PublishDies
  <2> QED BY <2>1, <2>2, RestingKeeps DEF PublishSteps
<1>4. CASE RerunPublish(i)
  <2>1. /\ implement[i].pc = "failed" /\ UNCHANGED <<issue, comment, triage, order, branch, pulls>>
        /\ holder' = holder
    BY <1>4 DEF RerunPublish, AtStep, IssueOnly
  <2>2. Turns(i, "queued") /\ SameWork(i) BY <1>0, <1>4, Stepping DEF RerunPublish, ImplementPcs
  <2> QED BY <2>1, <2>2, RestingKeeps DEF PublishSteps
<1> QED BY <1>1, <1>2, <1>3, <1>4

LEMMA CloseKeeps ==
  ASSUME FInv, NEW s \in Slugs, ClosePull(s)
  PROVE  FInv'
<1>0. TriageInv /\ PublishTypeOK /\ OnePull /\ PullsHaveCommits BY DEF FInv, PublishInv
<1>1. /\ UNCHANGED <<issue, comment, triage, order, implement, branch, holder>>
      /\ pulls' = [pulls EXCEPT ![s] = None]
  BY DEF ClosePull, IssueOnly
<1>2. /\ pulls' \in [Slugs -> {None} \cup PullRecord]
      /\ \A t \in Slugs : pulls'[t] \in {pulls[t], None}
  BY <1>0, <1>1 DEF PublishTypeOK
<1>3. TriageInv'
  <2>1. GroupHeld' BY <1>0, <1>1, Parts DEF GroupHeld
  <2> QED BY <1>0, <1>1, <2>1, TriageStands
<1>4. PublishTypeOK' /\ OnePull' /\ PullsHaveCommits'
  BY <1>0, <1>1, <1>2 DEF PublishTypeOK, OnePull, PullsHaveCommits
<1>5. ASSUME NEW i \in ImplementRuns
      PROVE  RunKept(i)' /\ FlagSeen(i)'
  <2>0. ViewKept(i) /\ JudgedAuthorized(i) /\ BranchChosen(i) /\ FlagKept(i) /\ FlagSeen(i)
    BY PublishParts
  <2>1. ViewKept(i)' /\ JudgedAuthorized(i)' BY <1>1, <2>0 DEF ViewKept, JudgedAuthorized
  <2>2. BranchChosen(i)' BY <1>1, <1>2, <2>0 DEF BranchChosen
  <2>3. implement[i].pc \in Pushed \cup {"done"} => implement[i].slug \in Slugs
    BY <2>0 DEF BranchChosen
  <2>4. FlagKept(i)'
    <3>1. Commit(i)' = Commit(i) BY <1>1 DEF Commit
    <3> QED BY <1>1, <1>2, <2>0, <2>3, <3>1 DEF FlagKept, Pushed
  <2>5. FlagSeen(i)' BY <1>1, <1>2, <2>0, <2>3 DEF FlagSeen, AtStep
  <2> QED BY <2>1, <2>2, <2>4, <2>5 DEF RunKept
<1> QED BY <1>3, <1>4, <1>5 DEF FInv, PublishInv

-----------------------------------------------------------------------------
(* What the triage workflow leaves of the publish job's knowledge.         *)

\* Run r goes to p with its approval.
MovesOn(r, p) ==
  /\ \A q \in TriageRuns \ {r} : triage'[q] = triage[q]
  /\ triage'[r].pc = p
  /\ p # "done" => triage'[r].approved = triage[r].approved

LEMMA StepForms ==
  ASSUME TriageTypeOK, NEW r \in TriageRuns, NEW p,
         \/ Goes(r, p) \/ Leaves(r, p)
         \/ \E x : \/ triage' = [triage EXCEPT ![r].pc = p, ![r].labels = x]
                 \/ triage' = [triage EXCEPT ![r].pc = p, ![r].text = x]
                 \/ triage' = [triage EXCEPT ![r].pc = p, ![r].verdict = x]
  PROVE  MovesOn(r, p)
<1> DEFINE t == triage[r]
<1>0. triage \in [TriageRuns -> TriageRecord] /\ t \in TriageRecord BY FieldTypes DEF TriageTypeOK
<1>1. ASSUME NEW u, triage' = [triage EXCEPT ![r] = u], u.pc = p, p # "done" => u.approved = t.approved
      PROVE  MovesOn(r, p)
  BY <1>0, <1>1, Zenon DEF MovesOn
<1>2. CASE Goes(r, p)
  <2> DEFINE u == [t EXCEPT !.pc = p]
  <2>1. u.pc = p /\ u.approved = t.approved BY <1>0 DEF TriageRecord
  <2>2. triage' = [triage EXCEPT ![r] = u] BY <1>2, Zenon DEF Goes
  <2> HIDE DEF u
  <2> QED BY <1>1, <2>1, <2>2
<1>3. CASE Leaves(r, p)
  <2> DEFINE u == [t EXCEPT !.pc = p, !.text = None, !.labels = {}]
             d == [Idle EXCEPT !.pc = p]
  <2>1. u.pc = p /\ u.approved = t.approved BY <1>0 DEF TriageRecord
  <2>2. d.pc = p BY DEF Idle
  <2>3. p # "done" => triage' = [triage EXCEPT ![r] = u] BY <1>3, Zenon DEF Leaves
  <2>4. p = "done" => triage' = [triage EXCEPT ![r] = d] BY <1>3, Zenon DEF Leaves
  <2> HIDE DEF u, d
  <2> QED BY <1>1, <2>1, <2>2, <2>3, <2>4
<1>4. ASSUME NEW x, triage' = [triage EXCEPT ![r].pc = p, ![r].labels = x]
      PROVE  MovesOn(r, p)
  <2> DEFINE u == [t EXCEPT !.pc = p, !.labels = x]
  <2>1. u.pc = p /\ u.approved = t.approved BY <1>0 DEF TriageRecord
  <2>2. triage' = [triage EXCEPT ![r] = u] BY <1>0, <1>4
  <2> HIDE DEF u
  <2> QED BY <1>1, <2>1, <2>2
<1>5. ASSUME NEW x, triage' = [triage EXCEPT ![r].pc = p, ![r].text = x]
      PROVE  MovesOn(r, p)
  <2> DEFINE u == [t EXCEPT !.pc = p, !.text = x]
  <2>1. u.pc = p /\ u.approved = t.approved BY <1>0 DEF TriageRecord
  <2>2. triage' = [triage EXCEPT ![r] = u] BY <1>0, <1>5
  <2> HIDE DEF u
  <2> QED BY <1>1, <2>1, <2>2
<1>6. ASSUME NEW x, triage' = [triage EXCEPT ![r].pc = p, ![r].verdict = x]
      PROVE  MovesOn(r, p)
  <2> DEFINE u == [t EXCEPT !.pc = p, !.verdict = x]
  <2>1. u.pc = p /\ u.approved = t.approved BY <1>0 DEF TriageRecord
  <2>2. triage' = [triage EXCEPT ![r] = u] BY <1>0, <1>6
  <2> HIDE DEF u
  <2> QED BY <1>1, <2>1, <2>2
<1> QED BY <1>2, <1>3, <1>4, <1>5, <1>6

\* A step of a triage run: it was not done and is not idle then, its approval stays while
\* it is under way, and the comment is written by the job in the group, for its own run.
RunSteps(r) ==
  /\ triage[r].pc # "done" /\ triage'[r].pc # "idle"
  /\ \A q \in TriageRuns \ {r} : triage'[q] = triage[q]
  /\ triage[r].pc # "idle" /\ triage'[r].pc # "done" => triage'[r].approved = triage[r].approved
  /\ \/ comment' = comment
     \/ triage[r].pc \in SeedSteps \cup ApplySteps /\ SaysOf(r, comment')

LEMMA SeedMoves ==
  ASSUME TriageInv, NEW r \in TriageRuns, SeedStep(r)
  PROVE  RunSteps(r)
<1>0. TriageTypeOK BY Parts
<1>1. comment' = comment \/ (triage[r].pc = "hold" /\ SaysOf(r, comment'))
  <2>1. SaysOf(r, HoldComment(r)) BY <1>0, SaysOfRun
  <2> QED BY <2>1
        DEF SeedStep, Seed, SeedReads, SeedUnreadies, SeedRelabels, SeedVerifies, SeedRecordsHold
<1>2. triage[r].pc \in {"queued", "hold"} \cup SeedSteps
  BY DEF SeedStep, Seed, SeedReads, SeedUnreadies, SeedRelabels, SeedVerifies, SeedRecordsHold, SeedSteps
<1>3. \E p \in {"seed", "unready", "relabel", "check", "hold", "agent", "failed"} : MovesOn(r, p)
  <2>1. CASE Seed(r) BY <1>0, <2>1, StepForms DEF Seed
  <2>2. CASE SeedReads(r) BY <1>0, <2>2, StepForms DEF SeedReads
  <2>3. CASE SeedUnreadies(r) BY <1>0, <2>3, StepForms DEF SeedUnreadies
  <2>4. CASE SeedRelabels(r) BY <1>0, <2>4, StepForms DEF SeedRelabels
  <2>5. CASE SeedVerifies(r) BY <1>0, <2>5, StepForms DEF SeedVerifies
  <2>6. CASE SeedRecordsHold(r) BY <1>0, <2>6, StepForms DEF SeedRecordsHold
  <2> QED BY <2>1, <2>2, <2>3, <2>4, <2>5, <2>6 DEF SeedStep
<1> QED BY <1>1, <1>2, <1>3 DEF RunSteps, MovesOn, SeedSteps

LEMMA ApplyMoves ==
  ASSUME TriageInv, NEW r \in TriageRuns, ApplyStep(r)
  PROVE  RunSteps(r)
<1>0. TriageTypeOK BY Parts
<1>1. \/ comment' = comment
      \/ triage[r].pc \in {"comment", "fallback comment"} /\ SaysOf(r, comment')
  BY <1>0, SaysOfRun DEF ApplyStep, Apply, ApplyReadsIssue, ApplyDecides, ApplyWritesComment,
     ApplyReadsLabels, ApplyPutsLabels, ApplyVerifies, ApplyPutFails, FallbackReadsLabels,
     FallbackPutsLabels, FallbackVerifies, FallbackWritesComment, ReadsLabels, PutsLabels
<1>2. triage[r].pc \in {"waiting"} \cup ApplySteps
  BY DEF ApplyStep, Apply, ApplyReadsIssue, ApplyDecides, ApplyWritesComment,
     ApplyReadsLabels, ApplyPutsLabels, ApplyVerifies, ApplyPutFails, FallbackReadsLabels,
     FallbackPutsLabels, FallbackVerifies, FallbackWritesComment, ReadsLabels, PutsLabels,
     ApplySteps, FallbackSteps
<1>3. \E p \in ApplySteps \cup {"failed", "done"} : MovesOn(r, p)
  <2>1. CASE Apply(r)
    BY <1>0, <2>1, StepForms DEF Apply, ApplySteps, FallbackSteps
  <2>2. CASE ApplyReadsIssue(r)
    BY <1>0, <2>2, StepForms DEF ApplyReadsIssue, ApplySteps, FallbackSteps
  <2>3. CASE ApplyDecides(r)
    BY <1>0, <2>3, StepForms DEF ApplyDecides, ApplySteps, FallbackSteps
  <2>4. CASE ApplyWritesComment(r)
    BY <1>0, <2>4, StepForms DEF ApplyWritesComment, ApplySteps, FallbackSteps
  <2>5. CASE ApplyReadsLabels(r)
    BY <1>0, <2>5, StepForms DEF ApplyReadsLabels, ReadsLabels, ApplySteps, FallbackSteps
  <2>6. CASE ApplyPutsLabels(r)
    BY <1>0, <2>6, StepForms DEF ApplyPutsLabels, PutsLabels, ApplySteps, FallbackSteps
  <2>7. CASE ApplyVerifies(r)
    BY <1>0, <2>7, StepForms DEF ApplyVerifies, ApplySteps, FallbackSteps
  <2>8. CASE ApplyPutFails(r)
    BY <1>0, <2>8, StepForms DEF ApplyPutFails, ApplySteps, FallbackSteps
  <2>9. CASE FallbackReadsLabels(r)
    BY <1>0, <2>9, StepForms DEF FallbackReadsLabels, ReadsLabels, ApplySteps, FallbackSteps
  <2>10. CASE FallbackPutsLabels(r)
    BY <1>0, <2>10, StepForms DEF FallbackPutsLabels, PutsLabels, ApplySteps, FallbackSteps
  <2>11. CASE FallbackVerifies(r)
    BY <1>0, <2>11, StepForms DEF FallbackVerifies, ApplySteps, FallbackSteps
  <2>12. CASE FallbackWritesComment(r)
    BY <1>0, <2>12, StepForms DEF FallbackWritesComment, ApplySteps, FallbackSteps
  <2> QED BY <2>1, <2>2, <2>3, <2>4, <2>5, <2>6, <2>7, <2>8, <2>9, <2>10, <2>11, <2>12 DEF ApplyStep
<1> QED BY <1>1, <1>2, <1>3 DEF RunSteps, MovesOn, ApplySteps, FallbackSteps

LEMMA RunMoves ==
  ASSUME TriageInv, NEW r \in TriageRuns,
         \/ TriageDies(r) \/ RerunApply(r) \/ DispatchApproved(r)
         \/ \E mode \in {"pre-filter", "readiness"} : Dispatch(r, mode)
         \/ \E answer \in Answers : TriageAgent(r, answer)
  PROVE  RunSteps(r)
<1>0. TriageTypeOK BY Parts
<1>1. CASE TriageDies(r)
  <2>1. comment' = comment \/ SaysOf(r, comment') BY <1>0, <1>1, SaysOfRun DEF TriageDies
  <2>2. MovesOn(r, "failed") /\ triage[r].pc \in SeedSteps \cup ApplySteps
    BY <1>0, <1>1, StepForms DEF TriageDies
  <2> QED BY <2>1, <2>2 DEF RunSteps, MovesOn, SeedSteps, ApplySteps, FallbackSteps
<1>2. CASE RerunApply(r)
  <2>1. MovesOn(r, "waiting") /\ triage[r].pc = "failed" /\ comment' = comment
    BY <1>0, <1>2, StepForms DEF RerunApply
  <2> QED BY <2>1 DEF RunSteps, MovesOn
<1>3. ASSUME NEW answer \in Answers, TriageAgent(r, answer)
      PROVE  RunSteps(r)
  <2>1. MovesOn(r, "waiting") /\ triage[r].pc = "agent" /\ comment' = comment
    BY <1>0, <1>3, StepForms DEF TriageAgent
  <2> QED BY <2>1 DEF RunSteps, MovesOn
<1>4. ASSUME NEW mode \in {"pre-filter", "readiness"}, Dispatch(r, mode)
      PROVE  RunSteps(r)
  <2>1. Becomes(r, "queued", mode, None, None, None, {})
    BY <1>0, <1>4, Queueing DEF Dispatch, Revisions
  <2>2. triage[r].pc = "idle" /\ comment' = comment BY <1>4 DEF Dispatch, NextRun
  <2> QED BY <2>1, <2>2 DEF RunSteps, Becomes
<1>5. CASE DispatchApproved(r)
  <2>1. Becomes(r, "queued", "readiness", order.text, None, None, {})
    BY <1>0, <1>5, Queueing DEF DispatchApproved, TriageTypeOK
  <2>2. triage[r].pc = "idle" /\ comment' = comment BY <1>5 DEF DispatchApproved, NextRun
  <2> QED BY <2>1, <2>2 DEF RunSteps, Becomes
<1> QED BY <1>1, <1>2, <1>3, <1>4, <1>5

\* Every view stays what the comment says of its run, and a judged generation stays: the
\* job that would write another waits for the group.
LEMMA TriageKeepsRuns ==
  ASSUME FInv, NEW i \in ImplementRuns, UNCHANGED publishVars,
         (\E r \in TriageRuns : RunSteps(r)) \/ UNCHANGED <<comment, triage>>
  PROVE  RunKept(i)' /\ FlagSeen(i)'
<1>0. /\ ViewKept(i) /\ JudgedAuthorized(i) /\ BranchChosen(i) /\ FlagKept(i) /\ FlagSeen(i)
      /\ GroupHeld /\ PublishTypeOK
      /\ implement' = implement /\ branch' = branch /\ pulls' = pulls
  BY PublishParts DEF publishVars
<1>1. BranchChosen(i)' /\ FlagSeen(i)' BY <1>0 DEF BranchChosen, FlagSeen, AtStep
<1>2. FlagKept(i)'
  <2>1. Commit(i)' = Commit(i) BY <1>0 DEF Commit
  <2> QED BY <1>0, <2>1 DEF FlagKept
<1>3. CASE UNCHANGED <<comment, triage>>
  <2>1. ViewKept(i)' /\ JudgedAuthorized(i)'
    BY <1>0, <1>3 DEF ViewKept, JudgedAuthorized, isAuthorizingTriageGeneration
  <2> QED BY <1>1, <1>2, <2>1 DEF RunKept
<1>4. ASSUME NEW r \in TriageRuns, RunSteps(r)
      PROVE  RunKept(i)' /\ FlagSeen(i)'
  <2>1. JudgedAuthorized(i)'
    <3>1. CASE comment' = comment
      BY <1>0, <3>1 DEF JudgedAuthorized, isAuthorizingTriageGeneration
    <3>2. CASE triage[r].pc \in SeedSteps \cup ApplySteps
      <4>1. implement[i].pc \notin PublishSteps BY <1>0, <3>2, Alone
      <4> QED BY <1>0, <4>1 DEF JudgedAuthorized, Judged, PublishSteps
    <3> QED BY <1>4, <3>1, <3>2 DEF RunSteps
  <2>2. ASSUME implement[i].view # None
        PROVE  LET view == implement[i].view
               IN /\ ~view.held /\ triage'[view.run].pc # "idle"
                  /\ triage'[view.run].pc # "done" => view.approved = triage'[view.run].approved
                  /\ comment' # None /\ comment'.run = view.run /\ ~comment'.held =>
                       comment'.approved = view.approved
    <3> DEFINE view == implement[i].view
               q == view.run
    <3>1. q \in TriageRuns
      <4>1. implement[i] \in ImplementRecord BY <1>0 DEF PublishTypeOK
      <4> QED BY <2>2, <4>1 DEF ImplementRecord, Verdicts
    <3>2. /\ ~view.held /\ triage[q].pc # "idle"
          /\ triage[q].pc # "done" => view.approved = triage[q].approved
          /\ comment # None /\ comment.run = q /\ ~comment.held => comment.approved = view.approved
      BY <1>0, <2>2 DEF ViewKept
    <3> HIDE DEF view, q
    <3>3. triage'[q].pc # "idle" /\ (triage'[q].pc # "done" => view.approved = triage'[q].approved)
      BY <1>4, <3>1, <3>2 DEF RunSteps
    <3>4. comment' # None /\ comment'.run = q /\ ~comment'.held => comment'.approved = view.approved
      <4>1. CASE comment' = comment BY <3>2, <4>1
      <4>2. CASE SaysOf(r, comment') BY <1>4, <3>2, <4>2 DEF RunSteps, SaysOf
      <4> QED BY <1>4, <4>1, <4>2 DEF RunSteps
    <3> QED BY <3>2, <3>3, <3>4 DEF view, q
  <2>3. ViewKept(i)' BY <1>0, <2>2 DEF ViewKept
  <2> QED BY <1>1, <1>2, <2>1, <2>3 DEF RunKept
<1> QED BY <1>3, <1>4

LEMMA TriageStepKeeps ==
  ASSUME FInv, TriageNext, UNCHANGED publishVars
  PROVE  FInv'
<1>0. TriageInv /\ PublishTypeOK /\ OnePull /\ PullsHaveCommits BY DEF FInv, PublishInv
<1>1. TriageInv' BY <1>0, TriageKeeps
<1>2. (\E r \in TriageRuns : RunSteps(r)) \/ UNCHANGED <<comment, triage>>
  BY <1>0, SeedMoves, ApplyMoves, RunMoves
     DEF TriageNext, Edit, Relabel, Close, Approve, IntakeReads, IntakeChecksHistory
<1>3. \A i \in ImplementRuns : RunKept(i)' /\ FlagSeen(i)' BY <1>2, TriageKeepsRuns
<1>4. PublishTypeOK' /\ OnePull' /\ PullsHaveCommits'
  BY <1>0 DEF PublishTypeOK, OnePull, PullsHaveCommits, publishVars
<1> QED BY <1>1, <1>3, <1>4 DEF FInv, PublishInv

-----------------------------------------------------------------------------
(* The invariant.                                                          *)

LEMMA PublishStepKeeps ==
  ASSUME FInv, PublishNext
  PROVE  FInv'
<1>1. ASSUME NEW i \in ImplementRuns, PublishStep(i)
      PROVE  FInv'
  <2>1. CASE \E ok \in BOOLEAN :
               \/ PublishJudges(i, ok) \/ Pushes(i, ok) \/ Opens(i, ok)
               \/ applyNoReviewAutomationLabelBestEffort(i, ok)
               \/ applyNoAutoChainLabelBestEffort(i, ok) \/ postGamingFlagAnnotation(i, ok)
               \/ removeNoAutoChainLabelBestEffort(i, ok) \/ Finishes(i, ok)
               \/ postFailureComment(i, ok)
    BY <2>1, PublishChecksKeep, PushKeeps, OpenKeeps, BestEffortKeeps, FinishKeeps, EndsKeep
  <2>2. CASE PublishReadsIssue(i) \/ FindsPr(i) \/ ChoosesBranch(i) \/ RevalidatesBeforePush(i)
    BY <2>2, PublishChecksKeep
  <2>3. CASE \/ DispatchImplement(i) \/ ImplementViews(i) \/ verifyApprovedRevision(i)
             \/ \E patch \in PatchesOf[i] \cup {None} : ImplementAgent(i, patch)
             \/ \E login \in LoginsOf[i] : Publish(i, login)
    BY <2>3, ImplementKeeps
  <2> QED BY <1>1, <2>1, <2>2, <2>3 DEF PublishStep
<1>2. ASSUME NEW i \in ImplementRuns, PublishReadFails(i) \/ PublishDies(i) \/ RerunPublish(i)
      PROVE  FInv'
  BY <1>2, EndsKeep
<1>3. ASSUME NEW s \in Slugs, ClosePull(s)
      PROVE  FInv'
  BY <1>3, CloseKeeps
<1> QED BY <1>1, <1>2, <1>3 DEF PublishNext

LEMMA StutterKeeps ==
  ASSUME FInv, UNCHANGED vars
  PROVE  FInv'
<1>1. TriageInv /\ PublishTypeOK /\ OnePull /\ PullsHaveCommits BY DEF FInv, PublishInv
<1>2. /\ UNCHANGED <<issue, comment, triage, holder, order>> /\ UNCHANGED publishVars
  BY DEF vars, issueVars
<1>3. GroupHeld' BY <1>1, <1>2, Parts DEF GroupHeld, publishVars
<1>4. TriageInv' BY <1>1, <1>2, <1>3, TriageStands
<1>5. \A i \in ImplementRuns : RunKept(i)' /\ FlagSeen(i)' BY <1>2, TriageKeepsRuns
<1>6. PublishTypeOK' /\ OnePull' /\ PullsHaveCommits'
  BY <1>1, <1>2 DEF PublishTypeOK, OnePull, PullsHaveCommits, publishVars
<1> QED BY <1>4, <1>5, <1>6 DEF FInv, PublishInv

LEMMA StepKeeps ==
  ASSUME FInv, [FNext]_vars
  PROVE  FInv'
BY TriageStepKeeps, PublishStepKeeps, StutterKeeps DEF FNext

LEMMA StartsGood == FInit => FInv
<1> SUFFICES ASSUME FInit PROVE FInv OBVIOUS
<1> DEFINE w == Waiting
<1>1. Init /\ PublishInit BY DEF FInit
<1>2. /\ comment = None /\ issue \in [open : BOOLEAN, text : Texts, labels : SUBSET Labels]
      /\ holder = None
      /\ order = [pc |-> "none", said |-> None, text |-> None, edited |-> "before"]
  BY <1>1 DEF Init
<1>3. /\ triage \in [TriageRuns -> TriageRecord]
      /\ \A r \in TriageRuns : triage[r].pc \in {"idle", "queued"} /\ triage[r].approved = None
  <2>1. PICK opened \in BOOLEAN :
          triage = [r \in TriageRuns |-> IF opened /\ r = 1 THEN [Idle EXCEPT !.pc = "queued"] ELSE Idle]
    BY <1>1 DEF Init
  <2>2. /\ Idle \in TriageRecord /\ Idle.pc = "idle" /\ Idle.approved = None
        /\ [Idle EXCEPT !.pc = "queued"] \in TriageRecord
        /\ [Idle EXCEPT !.pc = "queued"].pc = "queued" /\ [Idle EXCEPT !.pc = "queued"].approved = None
    BY DEF Idle, TriageRecord, TriagePcs, Revisions
  <2> QED BY <2>1, <2>2
<1>4. TriageTypeOK
  <2>1. order \in [pc : {"none", "said", "read", "dropped", "approved", "dispatched"},
                   said : Revisions, text : Revisions, edited : {"before", "same second", "after"}]
    BY <1>2 DEF Revisions
  <2> QED BY <1>2, <1>3, <2>1 DEF TriageTypeOK
<1>5. /\ w \in ImplementRecord /\ w.pc = "idle" /\ w.view = None /\ w.text = None /\ w.patch = None
  BY DEF Waiting, ImplementRecord, ImplementPcs, Revisions, Logins
<1>6. /\ implement \in [ImplementRuns -> ImplementRecord]
      /\ \A i \in ImplementRuns : implement[i] = w
      /\ branch = [s \in Slugs |-> None] /\ pulls = [s \in Slugs |-> None]
  BY <1>1, <1>5 DEF PublishInit
<1> HIDE DEF w
<1>7. PublishTypeOK /\ OnePull /\ PullsHaveCommits
  BY <1>6 DEF PublishTypeOK, OnePull, PullsHaveCommits
<1>8. ASSUME NEW i \in ImplementRuns
      PROVE  RunKept(i) /\ FlagSeen(i)
  <2>1. /\ implement[i].pc = "idle" /\ implement[i].view = None /\ implement[i].text = None
        /\ implement[i].patch = None
    BY <1>5, <1>6
  <2> QED BY <2>1 DEF RunKept, ViewKept, JudgedAuthorized, BranchChosen, FlagKept, FlagSeen,
                      AtStep, Judged, Pushed
<1>9. GroupHeld BY <1>3, <1>5, <1>6 DEF GroupHeld, SeedSteps, ApplySteps, FallbackSteps, PublishSteps
<1>10. CommentOwned /\ FallbackUnready
  BY <1>3 DEF CommentOwned, OwnedBy, FallbackUnready, ApplySteps, FallbackSteps
<1>11. DoneAuthorized /\ ApprovalCarried /\ CommentCarries
  BY <1>2, <1>3 DEF DoneAuthorized, ApprovalCarried, CommentCarries
<1> QED BY <1>4, <1>7, <1>8, <1>9, <1>10, <1>11 DEF FInv, TriageInv, PublishInv

\* One job at a time has the issue's group, the comment is the one its owner wrote, an
\* approval is the owner's text wherever it is carried, and the publish job's knowledge
\* holds until it acts on it.
THEOREM FactoryInvariance == FSpec => []FInv
BY StartsGood, StepKeeps, PTL DEF FSpec

-----------------------------------------------------------------------------
(* What follows from it.                                                   *)

\* The approval on the triage comment is the text the owner's comment stood under
\* (intake-owner-command-issue.mts, apply-triage-verdict.mts).
THEOREM ApprovalsAreHonest == FSpec => []ApprovalHonest
<1>1. FInv => ApprovalHonest
  BY DEF FInv, TriageInv, ApprovalCarried, ApprovalHonest
<1> QED BY <1>1, FactoryInvariance, PTL

\* When the run of the current comment is done, the ready label stands only where that
\* comment authorizes (apply-triage-verdict.mts writes and verifies both).
THEOREM ReadyIsAuthorized == FSpec => []ReadyMeansAuthorized
<1>1. FInv => ReadyMeansAuthorized
  BY DEF FInv, TriageInv, DoneAuthorized, ReadyMeansAuthorized, isAuthorizingTriageGeneration
<1> QED BY <1>1, FactoryInvariance, PTL

\* An issue has at most one open factory pull request (findExistingPrForIssue and the
\* issue's group).
THEOREM OnePullStaysOpen == FSpec => []OneOpenPull
<1>1. FInv => OneOpenPull
  <2> SUFFICES ASSUME FInv PROVE OneOpenPull OBVIOUS
  <2> DEFINE O == {s \in Slugs : pulls[s] # None}
  <2>1. OnePull BY DEF FInv, PublishInv
  <2>2. CASE O = {} BY <2>2, FS_EmptySet DEF OneOpenPull
  <2>3. CASE O # {}
    <3>1. PICK s \in O : TRUE BY <2>3
    <3>2. O = {s} BY <2>1, <3>1 DEF OnePull
    <3>3. Cardinality({s}) = 1 BY FS_Singleton
    <3> QED BY <3>2, <3>3 DEF OneOpenPull
  <2> QED BY <2>2, <2>3
<1> QED BY <1>1, FactoryInvariance, PTL

\* The flag of a green publish job is on its pull request, whichever best-effort calls
\* failed (publish-implement-patch.mts).
THEOREM FlagsAreVisible == FSpec => []FlagVisible
<1>1. FInv => FlagVisible
  <2> SUFFICES ASSUME FInv, NEW i \in ImplementRuns, FlagSeen(i), BranchChosen(i),
                      AtStep(i, "done"), pulls[implement[i].slug] # None,
                      branch[implement[i].slug].by = i, gamingFlagged(branch[implement[i].slug].patch)
               PROVE  LET s == implement[i].slug
                      IN /\ implement[i].summary.says = "flagged"
                         /\ \/ "no-auto-chain" \in pulls[s].labels
                            \/ branch[s].patch \in pulls[s].notes
    BY PublishParts DEF FlagVisible
  <2> QED BY DEF FlagSeen
<1> QED BY <1>1, FactoryInvariance, PTL

-----------------------------------------------------------------------------
(* What a step may not do.                                                 *)

\* The implement workflow writes neither the issue nor the triage, and pushes in one step.
LEMMA PublishLeaves ==
  ASSUME PublishNext
  PROVE  /\ IssueOnly
         /\ branch' = branch \/ \E i \in ImplementRuns, ok \in BOOLEAN : Pushes(i, ok)
<1> DEFINE G == /\ IssueOnly
                /\ branch' = branch \/ \E i \in ImplementRuns, ok \in BOOLEAN : Pushes(i, ok)
<1>1. ASSUME NEW i \in ImplementRuns, PublishStep(i)
      PROVE  G
  <2>1. ASSUME NEW ok \in BOOLEAN, Pushes(i, ok)
        PROVE  G
    BY <2>1 DEF Pushes
  <2>2. ASSUME NEW ok \in BOOLEAN,
               \/ PublishJudges(i, ok) \/ Opens(i, ok)
               \/ applyNoReviewAutomationLabelBestEffort(i, ok)
               \/ applyNoAutoChainLabelBestEffort(i, ok) \/ postGamingFlagAnnotation(i, ok)
               \/ removeNoAutoChainLabelBestEffort(i, ok) \/ Finishes(i, ok)
               \/ postFailureComment(i, ok)
        PROVE  IssueOnly /\ branch' = branch
    BY <2>2 DEF PublishJudges, Opens, applyNoReviewAutomationLabelBestEffort, Quiet,
       applyNoAutoChainLabelBestEffort, postGamingFlagAnnotation, removeNoAutoChainLabelBestEffort,
       Finishes, postFailureComment
  <2>3. CASE \/ DispatchImplement(i) \/ ImplementViews(i) \/ verifyApprovedRevision(i)
             \/ PublishReadsIssue(i) \/ FindsPr(i) \/ ChoosesBranch(i) \/ RevalidatesBeforePush(i)
    BY <2>3 DEF DispatchImplement, ImplementViews, verifyApprovedRevision, PublishReadsIssue, FindsPr,
       ChoosesBranch, RevalidatesBeforePush, Quiet
  <2>4. ASSUME NEW patch \in PatchesOf[i] \cup {None}, ImplementAgent(i, patch)
        PROVE  G
    BY <2>4 DEF ImplementAgent, Quiet
  <2>5. ASSUME NEW login \in LoginsOf[i], Publish(i, login)
        PROVE  G
    BY <2>5 DEF Publish
  <2> QED BY <1>1, <2>1, <2>2, <2>3, <2>4, <2>5 DEF PublishStep
<1>2. ASSUME NEW i \in ImplementRuns, PublishReadFails(i) \/ PublishDies(i) \/ RerunPublish(i)
      PROVE  G
  BY <1>2 DEF PublishReadFails, PublishDies, RerunPublish
<1>3. ASSUME NEW s \in Slugs, ClosePull(s)
      PROVE  G
  BY <1>3 DEF ClosePull
<1> QED BY <1>1, <1>2, <1>3 DEF PublishNext

\* A publishable patch touches no protected path and is no longer than the limit.
LEMMA PublishableIsSafe ==
  ASSUME NEW c, Publishable(c)
  PROVE  /\ \A p \in TouchedPaths(StatsOf[c]) : ~isProtectedPath(normalizePatchPath(p))
         /\ ~(TextLines(StatsOf[c]) > FACTORY_TEXT_LINE_LIMIT)
<1>1. /\ findForbiddenPatchPaths(TouchedPaths(StatsOf[c])) = {}
      /\ findFactoryPatchEnvelopeViolations(StatsOf[c]) = {}
  BY Zenon DEF Publishable, getAuthoritativePatchAnalysis
<1>2. ASSUME NEW p \in TouchedPaths(StatsOf[c]), isProtectedPath(normalizePatchPath(p))
      PROVE  FALSE
  <2>1. normalizePatchPath(p) \in findForbiddenPatchPaths(TouchedPaths(StatsOf[c]))
    BY <1>2, Zenon DEF findForbiddenPatchPaths
  <2> QED BY <1>1, <2>1
<1>3. ASSUME TextLines(StatsOf[c]) > FACTORY_TEXT_LINE_LIMIT
      PROVE  FALSE
  <2>1. "too long" \in findFactoryPatchEnvelopeViolations(StatsOf[c])
    BY <1>3, Zenon DEF findFactoryPatchEnvelopeViolations
  <2> QED BY <1>1, <2>1
<1> QED BY <1>2, <1>3

\* Every commit that is pushed was authorized at that moment, by the generation its run
\* worked under, for its text and within the patch rules (publish-implement-patch.mts).
THEOREM PushesAreAuthorized == FSpec => PushAuthorized
<1>1. ASSUME FInv, [FNext]_vars, NEW s \in Slugs, branch'[s] # branch[s]
      PROVE  LET c == branch'[s]
             IN /\ isAuthorizingTriageGeneration(comment) /\ comment.run = c.run
                /\ comment.approved \in {None, c.text}
                /\ \A p \in TouchedPaths(StatsOf[c.patch]) : ~isProtectedPath(normalizePatchPath(p))
                /\ ~(TextLines(StatsOf[c.patch]) > FACTORY_TEXT_LINE_LIMIT)
  <2>1. PICK i \in ImplementRuns, ok \in BOOLEAN : Pushes(i, ok)
    BY <1>1, PublishLeaves DEF FNext, vars, publishVars
  <2>2. PublishTypeOK /\ ViewKept(i) /\ JudgedAuthorized(i) /\ BranchChosen(i) BY <1>1, PublishParts
  <2>3. implement[i].pc = "push" BY <2>1 DEF Pushes, AtStep
  <2>4. branch'[s] = Commit(i)
    <3>1. branch' = [branch EXCEPT ![implement[i].slug] = Commit(i)] BY <1>1, <2>1 DEF Pushes
    <3> QED BY <1>1, <2>2, <3>1 DEF PublishTypeOK
  <2>5. /\ implement[i].patch # None /\ Publishable(implement[i].patch)
        /\ isAuthorizingTriageGeneration(comment) /\ comment.run = implement[i].view.run
    BY <2>2, <2>3 DEF JudgedAuthorized, Judged
  <2>6. comment.approved \in {None, implement[i].text}
    BY <2>2, <2>3, <2>5 DEF ViewKept, isAuthorizingTriageGeneration
  <2>7. /\ branch'[s].run = implement[i].view.run /\ branch'[s].patch = implement[i].patch
        /\ branch'[s].text = implement[i].text
    BY <2>4 DEF Commit
  <2> QED BY <2>5, <2>6, <2>7, PublishableIsSafe
<1>2. FInv /\ [FNext]_vars =>
        [\A s \in Slugs : branch'[s] # branch[s] =>
           LET c == branch'[s]
           IN /\ isAuthorizingTriageGeneration(comment) /\ comment.run = c.run
              /\ comment.approved \in {None, c.text}
              /\ \A p \in TouchedPaths(StatsOf[c.patch]) : ~isProtectedPath(normalizePatchPath(p))
              /\ ~(TextLines(StatsOf[c.patch]) > FACTORY_TEXT_LINE_LIMIT)]_vars
  BY <1>1, Zenon
<1> QED BY <1>2, FactoryInvariance, PTL DEF FSpec, PushAuthorized

\* An apply job that lost its generation writes neither the labels nor the comment
\* (requireRetryableTriageGeneration and the issue's group).
THEOREM StaleAppliesWriteNothing == FSpec => StaleApplyWritesNothing
<1>1. ASSUME FInv, [FNext]_vars, NEW r \in TriageRuns, triage[r].pc \in ApplySteps,
             triage'[r] # triage[r], ~(comment # None /\ comment.run = r)
      PROVE  UNCHANGED <<issue, comment>>
  <2>1. OwnedBy(r) BY <1>1 DEF FInv, TriageInv, CommentOwned
  <2>2. triage[r].pc \in {"read", "decide"} BY <1>1, <2>1 DEF OwnedBy
  <2>3. PICK q \in TriageRuns :
          \/ SeedStep(q) \/ ApplyStep(q) \/ TriageDies(q) \/ RerunApply(q)
          \/ \E mode \in {"pre-filter", "readiness"} : Dispatch(q, mode)
          \/ \E answer \in Answers : TriageAgent(q, answer)
          \/ DispatchApproved(q)
    <3>1. triage' # triage BY <1>1
    <3>2. ~(UNCHANGED vars) BY <3>1 DEF vars, issueVars
    <3>3. ~PublishNext BY <3>1, PublishLeaves DEF IssueOnly
    <3>4. TriageNext BY <1>1, <3>2, <3>3 DEF FNext
    <3> QED BY <3>1, <3>4
          DEF TriageNext, Edit, Relabel, Close, Approve, IntakeReads, IntakeChecksHistory
  <2>4. q = r
    <3>1. RunSteps(q) BY <1>1, <2>3, PublishParts, SeedMoves, ApplyMoves, RunMoves DEF FInv
    <3> QED BY <1>1, <3>1 DEF RunSteps
  <2>5. CASE ApplyReadsIssue(r) \/ ApplyDecides(r)
    BY <2>5 DEF ApplyReadsIssue, ApplyDecides
  <2>6. CASE TriageDies(r) BY <2>2, <2>6 DEF TriageDies
  <2>7. CASE ~(ApplyReadsIssue(r) \/ ApplyDecides(r) \/ TriageDies(r))
    <3>1. triage[r].pc \notin {"queued", "agent", "waiting", "failed", "idle"} \cup SeedSteps
      BY <2>2 DEF SeedSteps
    <3>2. ~SeedStep(r)
      BY <3>1 DEF SeedStep, Seed, SeedReads, SeedUnreadies, SeedRelabels, SeedVerifies, SeedRecordsHold, SeedSteps
    <3>3. ~ApplyStep(r)
      BY <2>2, <2>7 DEF ApplyStep, Apply, ApplyWritesComment, ApplyReadsLabels, ApplyPutsLabels,
         ApplyVerifies, ApplyPutFails, FallbackReadsLabels, FallbackPutsLabels, FallbackVerifies,
         FallbackWritesComment, ReadsLabels, PutsLabels
    <3> QED BY <2>3, <2>4, <2>7, <3>1, <3>2, <3>3
          DEF RerunApply, Dispatch, DispatchApproved, NextRun, TriageAgent
  <2> QED BY <2>5, <2>6, <2>7
<1>2. FInv /\ [FNext]_vars =>
        [\A r \in TriageRuns :
           triage[r].pc \in ApplySteps /\ triage'[r] # triage[r]
             /\ ~(comment # None /\ comment.run = r)
           => UNCHANGED <<issue, comment>>]_vars
  BY <1>1, Zenon
<1> QED BY <1>2, FactoryInvariance, PTL DEF FSpec, StaleApplyWritesNothing
=============================================================================

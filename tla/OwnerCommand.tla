---------------------------- MODULE OwnerCommand ----------------------------
(***************************************************************************)
(* The owner's commands on a pull request: owner-command-intake.yml with   *)
(* scripts/factory/intake-owner-command.mts, post-owner-command-           *)
(* response.mts and apply-owner-task.mts.  A comment starts one run.  A    *)
(* question is answered in one comment; a task becomes one commit, pushed  *)
(* with a lease on the head the run was bound to, and a record of it.      *)
(*                                                                         *)
(* A commit's tree, and what comparing two commits shows, never change, so *)
(* a step is the reading of what does change (the comment, the pull        *)
(* request) with all that is computed from it, or one write.  Only the     *)
(* comment's own run writes its responses and records.                     *)
(***************************************************************************)
EXTENDS PatchRules, Faults

CONSTANTS
  Commands,    \* the owner's comments that were commands when they were created
  Bodies,      \* what they may say: [verb, blank, truncated, payload]
  TaskPatches, \* what the task agent may leave, None for an empty patch
  PatchStats   \* patch -> its files, as PatchRules reads them

ASSUME OwnerCommandAssumption ==
  /\ None \notin Bodies
  /\ TaskPatches \ {None} \subseteq DOMAIN PatchStats

VARIABLES
  pull,     \* [open, head, base, moved, text]: the pull request; moved counts its base's commits
  commits,  \* the commits, as [parent, patch, trailer]; a commit's name is its position
  said,     \* command -> what the comment says now, None once it is deleted
  thread,   \* command -> what the bot wrote for it: [answers, notices, records]
  run,      \* command -> its run
  applies   \* OWNER_TASK_APPLY_ENABLED

ownerVars == <<pull, commits, said, thread, run, applies, trouble>>

\* binding is what the intake bound the run to; seen is the pull request as the step
\* before read it, and commit the one that was pushed or recognised.
NewRun == [pc |-> "intake", job |-> "intake", verb |-> None, binding |-> None,
           patch |-> None, analysed |-> TRUE, seen |-> None, commit |-> None, why |-> None]

OwnerInit ==
  /\ \E open \in BOOLEAN : pull = [open |-> open, head |-> 1, base |-> "default",
                                   moved |-> 0, text |-> 0]
  /\ commits = <<[parent |-> 0, patch |-> None, trailer |-> None]>>
  /\ said \in [Commands -> Bodies]
  /\ thread = [c \in Commands |-> [answers |-> 0, notices |-> 0, records |-> <<>>]]
  /\ run = [c \in Commands |-> NewRun]
  /\ applies \in BOOLEAN
  /\ trouble = 0

-----------------------------------------------------------------------------
(* History.                                                                *)

Ancestors(n) ==
  LET f[m \in 0 .. Len(commits)] == IF m = 0 THEN {} ELSE {m} \cup f[commits[m].parent]
  IN f[n]

\* The commit is the head or behind it.
checkAppliedCommitReachability(n, head) == n \in Ancestors(head)

\* Commits of the plan's parent and tree between that parent and the head.
findContentAppliedCommit(head, parent, patch) ==
  IF parent \in Ancestors(head) \ {head}
  THEN {n \in Ancestors(head) \ Ancestors(parent) :
          commits[n].parent = parent /\ commits[n].patch = patch}
  ELSE {}

\* The commit the newest success record names.
markerAppliedCommit(c) ==
  IF thread[c].records = <<>> THEN None ELSE thread[c].records[Len(thread[c].records)]

hasExistingTaskApply(c) == thread[c].notices > 0 \/ thread[c].records # <<>>

isRecognizableAppliedAnalysis(patch) ==
  /\ patch # None
  /\ TouchedPaths(PatchStats[patch]) # {}
  /\ findForbiddenPatchPaths(TouchedPaths(PatchStats[patch])) = {}
  /\ findFactoryPatchEnvelopeViolations(PatchStats[patch]) = {}

-----------------------------------------------------------------------------
(* Steps of a run.                                                         *)

Set(c, r) == run' = [run EXCEPT ![c] = r]
To(c, pc) == Set(c, [run[c] EXCEPT !.pc = pc])
OwnerReads == UNCHANGED <<pull, commits, said, thread, applies, trouble>>

\* A run that ended needs nothing it read; a failed one keeps its artifacts.
Ended(c) == [NewRun EXCEPT !.pc = "done"]
Failed(c) == [run[c] EXCEPT !.pc = "failed", !.seen = None, !.commit = None, !.why = None]
Notice(c, why) == [run[c] EXCEPT !.pc = "notice", !.why = why]

\* The pull request is open and of this repository, the comment is the owner's command.
deriveResponseAuthorization(c) == pull.open /\ said[c] # None

-----------------------------------------------------------------------------
(* intake-owner-command.mts and the agents.                                *)

Binding(c) == [head |-> pull.head, moved |-> pull.moved, text |-> pull.text, body |-> said[c]]

\* A deleted comment fails the job; a task that says nothing is not taken in.
Intake(c) ==
  /\ run[c].pc = "intake"
  /\ Set(c, IF said[c] = None THEN Failed(c)
            ELSE IF ~deriveResponseAuthorization(c)
                    \/ (said[c].verb = "task" /\ said[c].blank) THEN Ended(c)
            ELSE [NewRun EXCEPT !.verb = said[c].verb, !.binding = Binding(c),
                    !.pc = IF said[c].verb = "task" /\ ~applies THEN "publish" ELSE "agent",
                    !.job = IF said[c].verb = "task" /\ ~applies THEN "publish" ELSE "agent"])
  /\ OwnerReads

\* For a question, patch None is no answer, and any other is one.
OwnerAgent(c, patch) ==
  /\ run[c].pc = "agent"
  /\ LET job == IF run[c].verb = "task" THEN "prepare" ELSE "publish"
     IN Set(c, [run[c] EXCEPT !.pc = job, !.job = job, !.patch = patch])
  /\ OwnerReads

-----------------------------------------------------------------------------
(* post-owner-command-response.mts.                                        *)

\* Fault: a response that is a notice is no response.
AnsweredBefore(c) == thread[c].answers > 0 /\ said[c] = run[c].binding.body

hasExistingResponse(c) == thread[c].answers > 0

\* The acknowledgement of a task needs no snapshot; a question that has changed, or that
\* was a task, gets a notice of that; an answer must be there.
PublishReads(c) ==
  /\ run[c].pc = "publish"
  /\ LET stale == run[c].verb = "task" \/ run[c].binding # Binding(c)
     IN Set(c, IF said[c] = None THEN Failed(c)
               ELSE IF ~deriveResponseAuthorization(c) \/ hasExistingResponse(c) THEN Ended(c)
               ELSE IF said[c].verb = "task" \/ stale \/ run[c].patch # None
                    THEN [run[c] EXCEPT !.pc = "reply"]
               ELSE Failed(c))
  /\ OwnerReads

\* The answer of a call that writes may be lost.
Writes(c, ok, written) ==
  /\ \/ thread' = [thread EXCEPT ![c] = written]
     \/ ~ok /\ UNCHANGED thread
  /\ Set(c, IF ok THEN Ended(c) ELSE Failed(c))
  /\ MayFail(ok)
  /\ UNCHANGED <<pull, commits, said, applies>>

PostsResponse(c, ok) ==
  run[c].pc = "reply" /\ Writes(c, ok, [thread[c] EXCEPT !.answers = @ + 1])

-----------------------------------------------------------------------------
(* apply-owner-task.mts.                                                   *)

Changed(c) == said[c] # run[c].binding.body

\* Then git applies the patch to a scratch index at the bound head, or fails to.
prepare(c, analysed) ==
  /\ run[c].pc = "prepare"
  /\ Set(c, IF said[c] = None THEN Failed(c)
            ELSE IF ~deriveResponseAuthorization(c) \/ said[c].verb # "task" THEN Ended(c)
            ELSE IF said[c].blank THEN Notice(c, "rejected")
            ELSE IF Changed(c) THEN Failed(c)
            ELSE IF said[c].truncated THEN Notice(c, "rejected")
            ELSE [run[c] EXCEPT !.pc = "decide", !.analysed = analysed])
  /\ MayFail(analysed)
  /\ UNCHANGED <<pull, commits, said, thread, applies>>

\* A marker whose commit the head has lost does not count.
AlreadyHandled(c) ==
  /\ hasExistingTaskApply(c)
  /\ markerAppliedCommit(c) # None => checkAppliedCommitReachability(markerAppliedCommit(c), pull.head)

Recognised(c) ==
  IF run[c].analysed /\ isRecognizableAppliedAnalysis(run[c].patch)
  THEN findContentAppliedCommit(pull.head, run[c].binding.head, run[c].patch)
  ELSE {}

decideOwnerTaskPatch(c) ==
  LET r == run[c]
  IN IF r.patch = None THEN Notice(c, "rejected")
     ELSE IF pull.head # r.binding.head \/ pull.moved # r.binding.moved
     THEN IF Recognised(c) = {} THEN Notice(c, "stale")
          ELSE [r EXCEPT !.pc = "replay", !.seen = pull.head, !.commit = CHOOSE n \in Recognised(c) : TRUE]
     ELSE IF ~r.analysed \/ ~isRecognizableAppliedAnalysis(r.patch) \/ pull.base # "default"
     THEN Notice(c, "rejected")
     ELSE [r EXCEPT !.pc = "push"]

decide(c) ==
  /\ run[c].pc = "decide"
  /\ Set(c, IF said[c] = None THEN Failed(c)
            ELSE IF ~deriveResponseAuthorization(c) \/ said[c].verb # "task" \/ AlreadyHandled(c)
                 THEN Ended(c)
            ELSE IF said[c].blank THEN Notice(c, "rejected")
            ELSE IF Changed(c) THEN Failed(c)
            ELSE decideOwnerTaskPatch(c))
  /\ OwnerReads

\* The head may be protected by the time of the decision.
ProtectedHead(c) ==
  /\ run[c].pc = "push" /\ run[c].commit = None
  /\ Set(c, Notice(c, "rejected"))
  /\ Trouble
  /\ UNCHANGED <<pull, commits, said, thread, applies>>

\* Fault: whoever pushed the recognised commit, it is recorded.
RecordsAny(c) == markerAppliedCommit(c) # run[c].commit

\* Only a commit with the command's trailer is recorded, and once.
Recordable(c) ==
  commits[run[c].commit].trailer = c /\ markerAppliedCommit(c) # run[c].commit

\* The recognised commit stands if the head it was found in does.
Replays(c) ==
  /\ run[c].pc = "replay"
  /\ Set(c, IF pull.head # run[c].seen THEN Notice(c, "stale")
            ELSE IF ~Recordable(c) THEN Ended(c)
            ELSE IF pull.base # "default" THEN Notice(c, "retargeted")
            ELSE [run[c] EXCEPT !.pc = "record"])
  /\ OwnerReads

-----------------------------------------------------------------------------
(* The push.                                                               *)

\* Fault: any head will do.
NoLease(c) == TRUE

Lease(c) == pull.head = run[c].binding.head

\* The commit lands if the lease holds; the job may then die before it knows.
Pushes(c, ok) ==
  /\ run[c].pc = "push"
  /\ IF ok /\ ~Lease(c)
     THEN Set(c, Failed(c)) /\ UNCHANGED <<pull, commits>>
     ELSE \/ /\ Lease(c)
             /\ commits' = Append(commits, [parent |-> run[c].binding.head,
                                            patch |-> run[c].patch, trailer |-> c])
             /\ pull' = [pull EXCEPT !.head = Len(commits) + 1]
             /\ Set(c, IF ok THEN [run[c] EXCEPT !.pc = "finalize", !.commit = Len(commits) + 1]
                       ELSE Failed(c))
          \/ ~ok /\ Set(c, Failed(c)) /\ UNCHANGED <<pull, commits>>
  /\ MayFail(ok)
  /\ UNCHANGED <<said, thread, applies>>

\* A source that has changed is reported unless anything was; a commit that is no longer
\* in the head, or not the planned one, fails the job.
finalize(c) ==
  /\ run[c].pc = "finalize"
  /\ LET n == run[c].commit
         old == markerAppliedCommit(c)
     IN Set(c, IF old # None /\ checkAppliedCommitReachability(old, pull.head) THEN Ended(c)
               ELSE IF ~deriveResponseAuthorization(c) \/ Changed(c)
                    THEN IF hasExistingTaskApply(c) THEN Ended(c) ELSE Notice(c, "stale source")
               ELSE IF ~checkAppliedCommitReachability(n, pull.head)
                       \/ commits[n] # [parent |-> run[c].binding.head, patch |-> run[c].patch,
                                        trailer |-> c] THEN Failed(c)
               ELSE IF pull.base # "default" THEN Notice(c, "retargeted")
               ELSE [run[c] EXCEPT !.pc = "record"])
  /\ OwnerReads

PostsRecord(c, ok) ==
  run[c].pc = "record" /\ Writes(c, ok, [thread[c] EXCEPT !.records = Append(@, run[c].commit)])

PostsNotice(c, ok) ==
  run[c].pc = "notice" /\ Writes(c, ok, [thread[c] EXCEPT !.notices = @ + 1])

-----------------------------------------------------------------------------
(* The runner and people.                                                  *)

RunDies(c) ==
  /\ run[c].pc \notin {"done", "failed"}
  /\ Trouble
  /\ Set(c, Failed(c))
  /\ UNCHANGED <<pull, commits, said, thread, applies>>

\* "Re-run failed jobs" keeps the artifacts of the jobs before.
RerunFailed(c) ==
  /\ run[c].pc = "failed"
  /\ Trouble
  /\ To(c, run[c].job)
  /\ UNCHANGED <<pull, commits, said, thread, applies>>

\* "Re-run all jobs" binds the run anew.
RerunAll(c) ==
  /\ run[c].pc \in {"failed", "done"}
  /\ Trouble
  /\ Set(c, NewRun)
  /\ UNCHANGED <<pull, commits, said, thread, applies>>

Bystanders == UNCHANGED <<thread, run, applies>>

\* People push on top of the head, their own work or what an agent left, or drop the head.
PeoplePush(patch) ==
  /\ Trouble
  /\ commits' = Append(commits, [parent |-> pull.head, patch |-> patch, trailer |-> None])
  /\ pull' = [pull EXCEPT !.head = Len(commits) + 1]
  /\ UNCHANGED said /\ Bystanders

PeopleDrop ==
  /\ commits[pull.head].parent # 0
  /\ Trouble
  /\ pull' = [pull EXCEPT !.head = commits[pull.head].parent]
  /\ UNCHANGED <<commits, said>> /\ Bystanders

\* Closing, retargeting, the base's own progress, an edit of title or body.
PullChanges ==
  /\ Trouble
  /\ pull' \in {[pull EXCEPT !.open = ~@], [pull EXCEPT !.base = "other", !.moved = @ + 1],
                [pull EXCEPT !.moved = @ + 1], [pull EXCEPT !.text = @ + 1]}
  /\ UNCHANGED <<commits, said>> /\ Bystanders

CommentChanges(c, body) ==
  /\ said[c] # None /\ said[c] # body
  /\ Trouble
  /\ said' = [said EXCEPT ![c] = body]
  /\ UNCHANGED <<pull, commits>> /\ Bystanders

-----------------------------------------------------------------------------
RunNext(c) ==
  \/ Intake(c) \/ PublishReads(c) \/ decide(c) \/ Replays(c) \/ finalize(c)
  \/ \E patch \in TaskPatches : OwnerAgent(c, patch)
  \/ \E ok \in BOOLEAN :
       prepare(c, ok) \/ Pushes(c, ok) \/ PostsResponse(c, ok) \/ PostsRecord(c, ok)
         \/ PostsNotice(c, ok)

PeopleOnPull ==
  \/ PeopleDrop \/ PullChanges
  \/ \E patch \in TaskPatches \ {None} : PeoplePush(patch)
  \/ \E c \in Commands, body \in Bodies \cup {None} : CommentChanges(c, body)

OwnerNext ==
  \/ \E c \in Commands : RunNext(c) \/ ProtectedHead(c) \/ RunDies(c) \/ RerunFailed(c) \/ RerunAll(c)
  \/ PeopleOnPull

OwnerSpec == OwnerInit /\ [][OwnerNext]_ownerVars

-----------------------------------------------------------------------------
(* Properties.                                                             *)

\* A commit of the bot lands on the head it was made for, so that no one's commit is
\* lost, and keeps to the patch rules (commit-tree and push --force-with-lease).
PushExtendsHead ==
  [][\A n \in DOMAIN commits' \ DOMAIN commits :
       commits'[n].trailer # None =>
         commits'[n].parent = pull.head /\ isRecognizableAppliedAnalysis(commits'[n].patch)]_ownerVars

\* A success record names a commit made for that very comment, and a commit is recorded
\* once, however often the run dies, is repeated or sees the head rewritten (finalize,
\* and the recognition in decide).
RecordsTrue ==
  \A c \in Commands :
    LET records == thread[c].records
    IN \A i \in DOMAIN records :
         /\ commits[records[i]].trailer = c
         /\ \A j \in DOMAIN records : records[i] = records[j] => i = j

\* A comment gets one response: the lost answer of a post and a repeated run add none
\* (hasExistingResponse).
AnsweredOnce == \A c \in Commands : thread[c].answers <= 1

\* docs/factory-runbook.md: "On a rerun, decide recognises the already-applied commit ...
\* instead of re-binding to the new head and re-applying": the head holds at most one
\* commit of a comment.
AppliedOnce ==
  \A m, n \in Ancestors(pull.head) :
    commits[m].trailer # None /\ commits[m].trailer = commits[n].trailer => m = n
=============================================================================

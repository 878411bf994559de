# A formal model of RoastPilot Cloud

RoastPilot Cloud publishes coffee roasts. A roasting agent writes roasts and
telemetry into Snowflake through stored procedures, a web site on Vercel shows
them and takes tasting reviews, and an operator loads seed data. The repository
also holds the software factory that develops it: GitHub workflows in which
agents triage issues, write patches, plan stories and review pull requests, and
deterministic scripts that decide what of their output takes effect. This
directory holds TLA+ models of both, the TLC runs that check them on small
instances, and proofs, checked by TLAPS, that hold for every instance. Paths
below are relative to `src/`.

## 1. The system

| Part | State it keeps | Operations |
|---|---|---|
| Write plane (`snowflake/migrations/R__proc_*.sql`) | the tables of schema `APP`, the one row of `cloud_sync_coordination` with `write_seq`, the stage `@app.roast_artifacts` | `upsert_roast` (create, replay, patch), `delete_roast`, `load_roast_telemetry`, `submit_review`, `recompute_reference_summary`, `cloud_sync_enter` |
| Seed loader (`snowflake/seed_load_live.py`) | the same tables | `load_seed`: one transaction for a whole artifact |
| Agent | files on the stage | uploads; calls the writers and retries them |
| Review intake (`components/ReviewForm.tsx`, `app/api/r/[slug]/reviews/route.ts`, `lib/ratelimit.ts`, `lib/review-submit.ts`, `lib/sqlapi.ts`) | the form, a rate-limit window in Redis, one HTTP request per submission | submit, admit or refuse, run the statement with a 30 s abort, revalidate the page |
| Roast page (`app/r/[slug]/page.tsx`, `lib/roast-cache.ts`, `lib/roast.ts`) | three cached queries, five minutes each | render, refresh |
| Data quality view (`R__data_quality_view.sql`) | none | lists rows that break the rules of the schema |
| Snowflake tooling (`snowflake/*.py`) | none between runs | grant, principal, migration and gate checks |
| Triage (`triage-issues.yml`, `apply-triage-verdict.mts`) | an issue's labels and the bot's comment | hold, judge, write the verdict, put labels, put them back after a failure |
| Approval (`intake-owner-command-issue.mts`) | the owner's comment, the issue's edit history | dispatch a triage of the text the owner read |
| Implement and publish (`implement-ready-issues.yml`, `publish-implement-patch.mts`, `implement-patch-logic.mts`) | branches, pull requests, labels, comments | judge a patch, push one commit, open or refresh the issue's pull request, tell of gaming and of failure |
| Owner commands (`owner-command-intake.yml`, `apply-owner-task.mts`) | the pull request's head, responses and records | answer a question; turn a task into one commit |
| Story planner (`story-planner.yml`, `post-story-planner-contract.mts`, `story-planner-sweep.mts`) | the label `ready-to-spec`, contracts, escalations | plan, publish, sweep |
| Codex status (`codex-verdict-status.yml`, `publish-codex-verdict-status.mts`, `codex-verdict-logic.mts`) | commit statuses | read the pull request's history, conclude, post, retract |
| Spec-grounded review (`claude-code-review.yml`, `spec-grounding-*.mts`, `publish-spec-grounding-*.mts`) | review threads, a summary comment, an artifact between two jobs | collect the criteria, check the verdict, post and clear blocking threads |
| CI gate (`ci.yml`, `ci_change_classifier.py`, `ci_gate_result.py`) | the results and outputs of a run's jobs | classify the change, run or skip the heavy jobs, judge the results |
| Static auditors (`node-import-closure-verifier.mts`, `workflow-execution-surface-logic.mts`, `diff-verifiable-ac.mts`) | none between runs; they read a checkout that others may edit | walk the imports, judge the syntax, canonicalize what a workflow executes |

The write plane, intake and page meet in few places. Everything that writes goes
through the writer procedures and so through the lock row; the page reads
through secure views and caches; the route handler calls `submit_review` and
then revalidates the page; the agent uploads to the stage without any lock,
`load_roast_telemetry` reads from it and `delete_roast` removes from it after
its commit.

The factory's parts meet on GitHub only. A job reads an issue or a pull request,
thinks for minutes, and writes in several calls, none of which is conditional on
what it read, save a push with a lease; concurrency groups keep some of the jobs
apart, and nothing keeps people out. `D-ToS-1` has retired the agents: most jobs
are gated by variables such as `CLAUDE_HEADLESS_ENABLED`, so the machinery is
inert until somebody turns it on, and it is modelled as turned on.

What is hard here:

* Snowflake enforces no key. That a run, a slug or an id lives once, and that a
  dead one is never revived, follows from reads made under a row lock that
  nothing but an `update` takes.
* Those reads are only current under `READ_CONSISTENCY_MODE = GLOBAL`, an
  account parameter that somebody else may change.
* Clients retry after lost answers, and their patches come late and twice.
* A deletion names every child table by hand.
* The stage is outside every transaction.
* A review submission can be committed after its visitor was told it failed.
* Cached pages outlive what they show.
* A factory job may fail, die, lose the answer of a call that took effect, or be
  run again, alone or with the jobs before it, after the world has moved on.
* GitHub's timestamps have whole seconds, its lists come short, and a comment
  whose text is replaced stays resolved.
* A skipped job counts as a pass, and jobs are skipped for many reasons; a change
  is classified in a clone that an earlier step has cut.
* What an agent is shown, and what a pull request is told, is cut to limits at
  many places, each of which must say what it left out.

`PROJECT.json` lists each hazard at the line where it bites.

## 2. The modules

| Module | What it is |
|---|---|
| `CloudTables` | The tables, the requests, and what each procedure's body reads and writes, as functions of one state of the tables. |
| `CloudSync` | The sessions that run the procedures: lock, read consistency, bodies, recompute, commit, rollback, crash, lost answer, stage. |
| `RoastLedger` | The abstract specification: what the write plane promises about a run id. |
| `ReviewIntake` | A review's way from the form through the route handler, the limiter and the SQL API client to a statement that nobody cancels. |
| `RoastPages` | One slug's page: the page cache above the query caches, under publication, reviews and deletion. |
| `Absent`, `Faults` | `None`; and what the factory's modules share: people who act between any two steps, calls that fail or lose their answers, jobs that die and are run again, all counted by `trouble`. |
| `IssueText` | What triage reads out of an issue's body without an agent: the acceptance criteria, and whether one of them delegates what it asks for. |
| `FactoryIssue` | One issue with the triage workflow and the owner's approval. |
| `PatchRules` | The rules a patch must pass: protected paths, size, rename sources, test gaming. |
| `FactoryPublish` | From a ready issue to a pull request; EXTENDS `FactoryIssue`, whose issue and group it shares. |
| `PlannerText` | What the publisher of the story planner demands of the agent's text. |
| `StoryPlanner` | The planner's runs, its publisher and the sweep. |
| `OwnerCommand` | The owner's questions and tasks on a pull request; uses `PatchRules`. |
| `CodexStatus` | The advisory status of the Codex review. |
| `GroundingVerdict` | The spec-grounded review as jobs and calls: snapshots, threads, summary, repeated runs. |
| `CriteriaSpine` | The same review as an algorithm, first half: what the agent is asked and what the artifact says was left out. |
| `GroundingReport` | Second half: the check of the verdict, the comments, their anchor, the summary and the notes. |
| `RuntimeSource` | What a source file may do when Node runs it, read off its syntax tree: scopes, shadowing, members. |
| `ImportClosure` | The walk over the imports while people edit the checkout; judges each file by `RuntimeSource`. |
| `WorkflowSurface` | What a workflow file executes: the canonical evidence, or violations. |
| `ChangeGate` | The CI of a pull request or a push: which jobs run, what the classifier says of the change, what the gate says of the results. |
| `MCCloudSync`, `MCRoasts`, `MCReviewIntake` | The instances of write plane and intake that TLC checks. |
| `FactoryInputs` | One input of an algorithm, chosen at first: a pull request with its issues, or a program; what the runs check of it and the proofs state. |
| `MCReport`, `MCSurface`, `MCFactory` | The bounded inputs of the algorithms, and the instance of run `issues`. |
| `MCWorkflows` | The instance of runs `workflows` and `replayed`. |
| `MCChangeGate` | The histories of runs `workflows` and `shallow`. |
| `CloudSync_proofs` | What each body preserves, for all tables and requests; the write plane's locking invariant, and what follows from it. |
| `CloudHistory_proofs` | What one body does to the tables, as one effect, and what a history of commits keeps: revisions, sequences, summaries, answers, values; and the refinement: the write plane implements `RoastLedger`. |
| `ReviewIntake_proofs` | The invariant of the intake, and what follows from it. |
| `Workflows_proofs` | Story planner and owner's commands, each with its invariant. |
| `FactoryPublish_proofs` | One issue under triage, approval and publication. |
| `Checks_proofs` | What a pull request is checked by: Codex status, spec-grounded review and CI gate, each with its invariant. |
| `ImportClosure_proofs` | The walk over the imports: its invariant, and that evidence is complete; and that the analysis of a syntax tree lets no dangerous global pass. |
| `FactoryInputs_proofs` | The criteria of a review, for every pull request: none is lost, and the publisher accepts what the runner writes. |

### How the write plane is modelled

`CloudTables` keeps a row's identity (id, run id, slug), its visibility, its
summary group, and one bit for the value of each patchable field: the procedures
compare values and never look inside an admissible one. A patch entry may also
carry `Invalid`, a value its field refuses. Everything refused before the
transaction begins (grammar, lengths, unknown fields) touches no state and is
left out: the request sets are what passes those guards. A summary is abstracted
to three counts: contributing roasts, their reviews, and those with
temperatures. A tasting review's uuid is stood for by its `write_seq`. A seed
artifact lists roasts, any telemetry, files and reviews of them, and, apart from
these, the groups whose summaries it brings.

Every writer chooses by itself which groups it recomputes, so `SummariesFollow`
asks of each commit that every group's summary is what a recompute would write, or
else neither the summary nor what goes into it has changed. One case is excepted,
because the code has it: `load_seed` recomputes the groups of the artifact's summary
rows (`seed_load_live.py:316`), and neither it nor `validate_artifact` compares them
with the artifact's roasts. A roast in a group that the artifact does not list leaves
that summary stale until another writer touches it (`SeedPassesOver`). An
artifact of the seed generator lists them all; a file edited by hand need not.

A session in `CloudSync` goes through `entering`, `body`, `recompute`, then
`removing` for a deletion, and `done`; `rollback` is the exception handler.

| Action | Code |
|---|---|
| `Enter` | `cloud_sync_enter`: the update takes the row lock, then sequence and account parameter are verified; failing either leads to the handler |
| `CreateNew`, `CreateReplay`, `PatchFields` | the three outcomes of `upsert_roast` |
| `DeleteLive`, `DeleteAbsent`, `DeleteAgain` | the three outcomes of `delete_roast` |
| `LoadTelemetry`, `SubmitReview`, `LoadSeed` | the other writers |
| `Refuse` | every check that raises inside the transaction |
| `Recompute` | `recompute_reference_summary` for one touched group, with its nested entry, which takes another sequence |
| `Commit`, `Rollback`, `Abort` | the transaction's ends |
| `RemoveStage`, `Return`, `LoseReply` | after the commit |
| `LockTimeout` | Snowflake gives up waiting for the lock |
| `Upload`, `AlterConsistency` | the agent's uploads; the account administrator |

A body is one step. It can be, because the lock row keeps every other writer out
and only the writers touch the tables, which `ReadsCurrent` establishes and does
not assume: a body works on its transaction's own copy of the tables as they
were readable when it got the lock, and a commit installs that copy. Without the
lock, or with stale reads, the copies would overwrite each other, and the
mutants `LockIgnored` and `EntryAnyConsistency` show that they do.

Assumptions about what is not in the repository, marked external in the map: an
`update` of one row blocks other updates of it until its transaction ends; under
GLOBAL consistency a statement sees every earlier commit, under SESSION
consistency it may miss the last one; a waiting statement ends with an error
after `LOCK_TIMEOUT`; the account parameter is not changed while a writer holds
the lock (a change in the middle of a body is a window the code leaves open and
the nested entry of a recompute narrows).

`RoastLedger` says what all of this is for. A run is unknown, then perhaps live
under one id and one slug, then perhaps dead for good; ids and slugs belong to
one run for ever; a field of a live roast is a register whose writes are ordered
by their revisions and not by their arrival. `KeepsLedger` states that
`CloudSync` implements it, with the ledger read off the committed tables.

### How the review intake is modelled

`ReviewIntake` follows every submission (an attempt: a visitor and a number) by
three variables, because three programs work on it apart from each other: `stage`
is where its route handler is or what it answered, `call` what the limiter makes of
its call, `statement` what became of its call of `submit_review`. `counted` keeps the
window in which the limiter counted it. The form, the window's count, the reviews
and the day are the rest.

| Action | Code |
|---|---|
| `Submit`, `Answer`, `NetworkError`, `Reload` | `handleSubmit` of `ReviewForm.tsx` with `mapSubmitResponse`; a lost request or answer; a fresh form |
| `Screen` | the honeypot's decoy answer and BotID in `route.ts`; what passes calls the limiter |
| `Meter` | Redis counts the call and admits or refuses it, whether or not the handler still waits |
| `Refuse`, `FailClosed`, `Admit` | what `checkRateLimit` makes of the answer, or of its absence; an admission sends the statement |
| `Succeed`, `Fail` | `submitReview` returns or throws: refused, failed, 202, aborted after 30 s, unreadable |
| `Commit`, `Raise` | the statement itself, with the purge of old IP hashes; also after its handler gave up |
| `DeleteRoast`, `SlideWindow`, `NextDay` | `delete_roast`, the limiter's window, the calendar |

Between `Meter` and `Admit` the window may pass, as the handler awaits the answer. So
the limit does not bound the statements sent in a window: `AdmittedWithinLimit`
says that each statement is of a submission that was counted, that no address has more
than the limit counted in a window, and that it therefore has at most the limit
times the windows begun.

A statement is one step here because `CloudSync` shows what its transaction
does. The content type, JSON and schema refusals (415, 400) happen before
anything is counted; the form never sends what they refuse. The address is
stood for by `IpOf`, the same for visitors behind one proxy, and the sliding
window by one that starts over.

### How the page is modelled

`RoastPages` has two layers: `entry`, the cached result of each of the three
queries in `lib/roast-cache.ts`, and `page`, the page cached under
`revalidate = 300`. `fill` is a query on its way, `render` what a rendering has
read so far. Results are abstracted to whether the roast was found and how many
reviews the list, or the rating, is made of.

| Action | Code |
|---|---|
| `Visit` | a request: the cached page, old or not; an old or missing one starts a rendering |
| `Use`, `Ask` | a read of a cached query: a hit, which refreshes an old entry beside the answer, or a miss |
| `Execute`, `Store`, `QueryFails` | the SQL statement, its result put into the cache, its failure |
| `Finish` | `generateMetadata` and `Page` are done |
| `Revalidate` | `revalidatePath` at the end of the route handler |
| `Publish`, `Delete`, `Review` | commits of the write plane; none but a review's handler revalidates, and that one may have died or given up |
| `Tick` | time; ages stop at `TTL`, from where on an entry is old |

What Next.js does with its caches is external: an expired entry is served while
it is refreshed, a result is cached as of when it arrives, and `revalidatePath`
drops the page and the query entries that belong to it but not what is in
flight. The social image reads two of the same caches and is not an action of
its own.

### How the factory's workflows are modelled

A step of a job is one call to GitHub with everything the job computes until the
next one. Before it, after it and instead of it other things happen: people
edit, label, close, push, resolve; the call fails before it takes effect or
after; the job dies; and it is run again, alone or with the jobs it needs. All of
this costs `trouble`, which `MaxTrouble` bounds; failures of best-effort calls
are free. A concurrency group with room for one that waits is `holder` or a
record's `pc` and `waits`. What an agent leaves is any member of a small set:
nothing is assumed of it, and the rules that judge it are modelled in full.

| Module | State | Actions and their code |
|---|---|---|
| `FactoryIssue` | `issue`, the bot's `comment`, `triage` (run → its jobs), `holder` of the privileged group, `order` (the owner's approval) | `Seed...`: the hold and the removal of readiness before the agent; `TriageAgent`; `Apply...`: read, decide with the clamp and the delegated criteria, comment, labels, verification; `Fallback...`: labels put back after a failure; `RerunApply`; `IntakeReads`, `IntakeChecksHistory`, `DispatchApproved`: the approval; `Edit`, `Relabel`, `Close`, `Approve`: people |
| `FactoryPublish` | `implement` (run → its jobs), `branch`, `pulls`, `failureNote` | `ImplementViews`, `verifyApprovedRevision`, `ImplementAgent`; `Publish` and `PublishUngrouped` (with the App's token or without); `PublishJudges`, `assertIssueRevisionMatches`, `PublishReadsIssue`, `RevalidatesBeforePush`, `Commit`, `Pushes`, `FindsPr`, `Opens`; the best-effort labels and the gaming comment; `postFailureComment`; `RerunPublish`; `ClosePull` |
| `StoryPlanner` | `story`, `notes`, `planner`, `sweep` | `Plan`, `PreparesRevision`, `PlannerAgent`, `FindsContract`, `ReadsAgain`, `PostsContract`, `FindsEscalation`, `ReadsLabel`, `PostsEscalation`, `RerunPublisher`; `Sweep...` with `readdReadyToSpecWithRetries` and `confirmHandled` |
| `OwnerCommand` | `pull`, `commits`, `said`, `thread`, `run`, `applies` | `Intake`, `OwnerAgent`, `PublishReads`, `PostsResponse`; `prepare`, `decide`, `Pushes` with its lease, `finalize`, `PostsRecord`, `PostsNotice`; `RerunFailed`, `RerunAll`; `PeoplePush`, `PeopleDrop`, `PullChanges`, `CommentChanges` |
| `CodexStatus` | `now`, `pr`, `timeline`, `reviews`, `comments`, `reactions`, `status`, `job` | `ReadsPull`, `ReadsList` for each list in any order and possibly short, `Collects`, `fetchReactions`, `postStatus`, `Retracts`; `Push`, `ForcePush`, `Converts`, `Reviewed`, `Commented`, `Reacts`, `Tick` |
| `GroundingVerdict` | `target`, `blockers`, `summary`, `rounds`, `publisher` | `RunnerReads`, `Judged`; `PublishStarts`, `ReadsTarget`, `FetchesDiff`, `postInlineCommentPlan`, `collectUnresolvedPostedMarkers`, `Reconciles`, `VerifiesAgain`, `reconcileObsoleteInlineBlockerComments`, `ChecksNoReferences`, `clearStaleInlineBlockerComments`, `PreWriteCheck`, `WritesSummary`; `RerunReview`, `RerunPublish`; `PushesHead`, `EditsReferences`, `TicksBox`, `BaseAdvances`, `ResolvesThread` |
| `ImportClosure` | `disk`, `edits`, `walk` | `Starts` checks the request and the reviewed modules, `Inspects` looks at a path, `ReadsFile`, `ChecksFile` (`Analyses`, `FollowsEdges`), `Ends`; `Edits`: anybody writes the checkout |

The properties of these modules compare what is on GitHub with what somebody was
entitled to. `PushAuthorized`, for one, follows a commit back over three jobs to
the generation of the triage comment and the text the owner approved;
`GreenMeansGated` holds a job's green against threads that people resolve while
it works; `StatusCurrent` and `GroundingCurrent` speak of the moments when every
event has been worked off.

`GroundingVerdict` lets the publish job of a cancelled review take its turn: the
job's `if` excludes a skipped review only, whatever the comment beside it says of
cancelled ones. The checks before each write make that harmless.

### How the CI gate is modelled

`ChangeGate` has `tips` of branches and `ci`, the newest run of `ci.yml` with what
it is for and the result of each job. A job is one action that is due when all it
needs has ended: `Resolves`, `Classifies`, `Gates`, `Tests`, `Concludes`, and
`Skips` by a job's `if` or the lack of one. The classifier works on commits with
trees: `classifyChange` takes a merge base and a diff in which git may see any
renames, `entriesAreDocsOnly` looks at paths and modes on the sides where each
status needs it. `evaluate` is `ci_gate_result.py` with the job classes that
`ci.yml` passes to it, `bootstrapFallback` what stands in for it. A clone that was
fetched to depth 1 at a commit does not know that commit's parents;
`ancestors(_, cut)` says so. Git, GitHub's skipping, cancelling and repeating of
jobs are external. What the jobs test is left to chance. `Proposes` and
`MainAdvances` start a run in place of the one before; a change of the base
branch starts none, since the workflow does not listen to it, and is not in the
model: a result found against the old base stays.

The histories have one default branch of three commits, the first from before the
gate's scripts, and two branches beside it: a stack on it, and one that left it at its first
commit and has merged its newest. Proposals go to any of them, with every kind of entry:
changed, added, renamed, renamed from code, turned into a link, undone, nothing.

`GateHonest` is stated so that it holds of the code: what passes was tested, or it
changes documentation only since the merge base (`CutHidesNothing`), or else since
some commit that base and head share (`DocsSinceShared`). The second is less than
anybody wants, and run `shallow` shows the difference.

### How the algorithms are modelled

`CriteriaSpine`, `GroundingReport`, `RuntimeSource` and `WorkflowSurface` are
operators, applied in the runs to every input of a bounded set and compared with
reference definitions that say the same without the algorithm's order, cuts and
fallbacks (the first two below are also proved, for every input):

* `NothingLost`: every unticked criterion of an issue the pull request closes is
  in the spine, or the artifact says that the issue was cut, truncated or not
  looked up. `ArtifactAccepted`: the publisher's check accepts what the runner
  writes, though the two files state the format apart.
* `NoGlobalEscapes`: a use of a dangerous global is flagged unless a declaration
  that the language puts in its scope shadows it.
* `SurfaceFaithful`: the evidence has, for each job and step, the environment,
  shell, directory and condition that precedence gives it, and names nothing
  twice in different case.
* `BlockersKept` of `MCFactory` joins the parts of `GroundingReport`: each
  blocker that still applies has its comment, is in an aggregate, or is in the
  summary, also if comments fail, threads are resolved, an issue loses its
  closing keyword meanwhile, or the summary is degraded; the anchor is a line of
  the diff; cut lists say how much they leave out; a note is not lost.

Texts are sequences of words, lines or tokens of the kinds the patterns tell
apart, syntax trees and YAML values sequences of nodes. Lengths are counted in
those units. In a text too long for the parser `Openly` counts marks inside code as marks, as
the code does and says (`spec-grounding-logic.mts:484`).

## 3. Runs

| Run | Instance | Shows |
|---|---|---|
| `roasts` | `MCRoasts`: two sessions, two runs, slugs and ids; the clients either contend for identities (sequences up to 5) or load, review, withdraw consent, seed two roasts, one artifact passing over its own group, and upload (up to 6) | `TypeOK`, `Identities`, `Sequences`, `ReadsCurrent`, `Children`, `SummariesFollow`, `RevisionRows`, `AnswersStand`, `WriteSeqIncreases`, `RemovesOnlyDead`, and that `CloudSync` implements `RoastLedger`: `KeepsLedger` |
| `fields` | one roast, new or migrated; patches of two fields with two revisions, both values and an invalid one | `ValuesFollowRevisions` |
| `progress` | every kind of call on one roast, up to the limit of `write_seq` | `CallsEnd` |
| `intake` | two visitors behind one address, two attempts each, a limit of one, two windows that may change between any two steps | `ThanksMeansStored`, `GateHolds` |
| `answered` | one visitor, three attempts over five days, hashes kept for two | `HashesPurgedByLaterReviews`, `SubmissionsAnswered` |
| `pages` | the three queries, one review, a lifetime of one tick | `VisitorsSeeCurrent` |
| `issues` | `MCFactory`, nine lanes: an issue with two triage and two implement runs; the import walk over three files with two edits; and the inputs of the algorithms | `ApprovalHonest`, `ReadyMeansAuthorized`, `StaleApplyWritesNothing`, `PushAuthorized`, `OneOpenPull`, `FlagVisible`, `ClosureComplete`, `CriteriaKept`, `ArtifactsAgree`, `GlobalsKept`, `SurfaceKept`, `BlockersKept` |
| `workflows` | `MCWorkflows`, five lanes: one issue's planning; one owner comment; two heads and two seconds of Codex status; two issues with two kinds of references; proposals and pushes through CI | `ContractOnce`, `SweepPutsBack`, `RecordsTrue`, `AnsweredOnce`, `PushExtendsHead`, `StatusCurrent`, `SuccessEarned`, `GroundingCurrent`, `GreenMeansGated`, `GateHonest` |
| `shallow` | `MCChangeGate`: a proposal into a branch that has merged the default branch | `ModeByMergeBase` is violated: see below |
| `retried` | one visitor, two attempts | `RetryMeansNotStored` is violated: see below |
| `expiry` | one review, three days, hashes kept for one | `HashesExpire` is violated: see below |
| `replayed` | as `workflows` | `AppliedOnce` is violated: see below |

Four runs show where the repository's words and its code part:

* `retried`: the form says "We couldn't submit your review. Please try again."
  of a submission whose statement was given up and may still commit. The second
  attempt is a second review: `submit_review` has no idempotency key.
* `expiry`: the table's comment says that an IP hash is purged at 30 days. The
  purge runs only inside a later accepted review, so without one it stays.
* `replayed`: `docs/factory-runbook.md:1132` says that a rerun recognises the
  commit already applied and does not apply the task again. That is so when the
  failed jobs are run again. When all jobs are, the intake binds the run to the
  head that the first push made, looks for a commit on top of that, finds none,
  and the task is applied a second time.
* `shallow`: `test_ci_change_classifier.py:447` says that the comparison is
  merge-base-to-head. The step before the classifier fetches the trusted commit, the
  tip of the default branch, with `--depth 1`, which makes the clone shallow
  there. In the trace a pull request goes into a branch that has merged that tip. Its
  merge base lies behind the cut; `git merge-base` answers an older commit, which the
  branch reaches by its own commits. Code that came after that commit and that the
  head undoes is in no diff, and the mode is docs-only: the heavy jobs are skipped for
  a change of code. With a head on the default branch behind its base, the cut hides
  every merge base instead, and the answer is full whatever changes: safe, though
  `docs/state/registry.md:905` promises that documentation skips the heavy jobs. A
  change of `Stacks`, `Heads` and `Line` in `shallow.cfg` to `{"stack"}`, `{"words"}` and
  `{"m1", "m2"}` shows that.

Lanes. The factory's workflows do not read what the others write, and the
algorithms have no state at all. A variable `lane` chooses one of them at the
beginning, whose part of the state then moves while the rest has one value; the
state spaces add up and are not multiplied, and one run checks them all. The runs
of triage and of the publisher do share an issue and its group, so they are one
lane. `CHECK_DEADLOCK` is off in `issues`, `workflows`, `replayed` and `shallow`:
their jobs run a bounded number of times and an algorithm's lane takes no step. It
is left on in the others: a session can always be called, a form reloaded, a page
visited.

Bounds of the write plane. `MaxSeq` and `MaxRevision` are the code's own limits,
2^53-1, made small, so that the runs also reach them; `IdentityMaxSeq` bounds the
behaviours about identities further. Two sessions are enough for every race the
lock is there to stop, since a body interacts with others only through the tables
and the lock; a third would only wait as well. Two keys, slugs and ids give every
wrong pairing of them. Five sequences allow a creation (two, with its recompute),
a deletion (two) and one more entry, or several deletions without a row. Two
revisions give a newer, an equal and an older patch.

Bounds of intake and page. `Limit` (5 in the code), `Retention` (30 days) and
`TTL` (300 s) are the code's constants made small. A limit of one with two
visitors behind one address makes every second attempt meet the limiter; the
second window lets a late statement, or a submission whose handler still waits for the
limiter's answer, meet the count of the next.
`MaxAttempts`, `MaxWindows`, `MaxDay` and `MaxReviews` are bounds of
the model. Retention needs three reviews, for one that is purged, one that is
kept and one that purges. One review is enough for a page to be wrong about it.

Bounds of the factory. `MaxTrouble` is 1 in `issues`, where the two beginnings
(a new issue; one that a readiness run has authorized) are already reached by
several runs, and 3 in `workflows`, with `LessTrouble`, 2, in the lanes whose
interleavings are many. Two disturbances are what a race needs: one that makes a
reading stale and one that repeats or kills the job that relies on it. Two triage
runs and two implement runs give an older and a newer one. `MaxTime` lets things
happen in one second or in different ones. `Tickets` and `References` give a pull
request that closes two issues, one that closes one and mentions the other, and
one that refers to none, so that references appear, change kind and disappear.
`MaxEdits` lets a file change under the walk and change back. The `MAX_...`
constants in the two `.cfg` files are the code's limits made small enough for the
inputs to lie on both sides of each. The lane of the grounding review has also
been run by itself with one issue and three disturbances; that of the owner's
command has all three in `workflows`: a death, a rerun, and the head moved between.

Bounds of the CI gate. `LessTrouble`, 2, covers people and faults alike: a run is
cancelled and run again, a job fails for reasons of its own and another loses its
script, a head and its base both move. Whether tests fail is free.

Fairness. `WF_vars(Step(s))` for each session: a procedure that was called runs
to its end by itself, because Snowflake runs it and gives up on a lock after
`LOCK_TIMEOUT`. Clients, crashes, uploads and the administrator owe nothing.
In `ReviewIntake` each handler has `WF_vars(HandlerStep(a))`, every await in it
being bounded (the limiter's timeout, the 30 s abort), and each browser
`WF_vars(Answer(v))`; the statement and the limiter owe nothing, nor does the visitor.
In `RoastPages` visits, time, reads and the end of a rendering are weakly fair:
the promise is one to somebody who keeps visiting. `Execute` and `Store` are
strongly fair, because a statement may fail and be asked again any number of
times, and the promise needs that it does not always fail. Nothing is assumed of
`Revalidate`: the handler may die before it. The factory and the CI gate have no fairness: GitHub
promises none to a job, and a job that dies is run again only if somebody asks.
What its modules promise about the end is said of the states in which nothing is
left to do.

Each property of a passing run has a mutant, a definition marked "Fault" just
before the definition it distorts; TLC finds the property violated when the
mutant takes its place. `ReviewIntake`, `RoastPages` and `FactoryPublish` define
a type invariant that no run lists; it documents the shape of their state.

## 4. Proofs

All theorems hold for every value of the constants that satisfies the modules'
named assumptions. These say what the code or its platform fixes (limits are
numbers, key and slug of a call are among those there are, an absent value is no
text, no comment, no job's name, no status, no thread and no mode; a path has its place
in the order of names, a file finitely many imports and a syntax tree whose parents come
first, and no program may import the module that starts processes) and nothing about
the property at hand; that the commits of a history have no cycle is among them. Three
theorems have a hypothesis besides, those of `FactoryInputs_proofs`. They assume `ProperGiven`: texts are sequences of
lines of the model's kinds, the numbers a pull request mentions are those whose lookup
is given, a budget is a number, and in a syntax tree parents come before their children
and a parameter belongs to a function. TLC evaluates this for every enumerated
input (`InputsAssumption` in `MCFactory`).

| Module | Theorem | Property |
|---|---|---|
| `CloudSync_proofs` | `Invariance` | the inductive invariant `IInv` |
| | `TypeCorrect` | `TypeOK` |
| | `WritersReadCurrent` | `ReadsCurrent` |
| | `IdentitiesStayExclusive` | `Identities` |
| | `NoOrphans` | `Children` |
| | `WriteSeqStrictlyIncreases` | `WriteSeqIncreases` |
| `CloudHistory_proofs` | `HistoryInvariance` | the inductive invariant `HInv`, on top of `IInv` |
| | `RevisionRowsComplete` | `RevisionRows` |
| | `SequencesOrderDeletions` | `Sequences` |
| | `SummariesFollowCommits` | `SummariesFollow` |
| | `AnswersStayTrue` | `AnswersStand` |
| | `RemovalsOnlyOfTheDead` | `RemovesOnlyDead` |
| | `ValuesFollow` | `ValuesFollowRevisions` |
| | `ImplementsLedger` | the refinement `KeepsLedger` |
| `ReviewIntake_proofs` | `IntakeInvariance`, `IntakeTypeCorrect` | the inductive invariant `IntakeInv`; `TypeOK` |
| | `ThanksAreHonest` | `ThanksMeansStored` |
| | `GateAlwaysHolds` | `GateHolds` |
| | `ReviewsPurgeHashes` | `HashesPurgedByLaterReviews` |
| `Workflows_proofs` | `StoryInvariance`, `OwnerInvariance` | the inductive invariants `StoryInv` and `OwnerInv` |
| | `ContractsStaySingle` | `ContractOnce` |
| | `SweepAlwaysPutsBack` | `SweepPutsBack` |
| | `RecordsStayTrue` | `RecordsTrue` |
| | `AnswersStaySingle` | `AnsweredOnce` |
| | `PushesExtendHead` | `PushExtendsHead` |
| `FactoryPublish_proofs` | `FactoryInvariance` | the inductive invariant `FInv` |
| | `ApprovalsAreHonest` | `ApprovalHonest` |
| | `ReadyIsAuthorized` | `ReadyMeansAuthorized` |
| | `OnePullStaysOpen` | `OneOpenPull` |
| | `FlagsAreVisible` | `FlagVisible` |
| | `PushesAreAuthorized` | `PushAuthorized` |
| | `StaleAppliesWriteNothing` | `StaleApplyWritesNothing` |
| `Checks_proofs` | `CodexInvariance`, `GroundingInvariance`, `GateInvariance` | the inductive invariants `CodexInv`, `GroundingInv` and `GateInv` |
| | `StatusStaysCurrent` | `StatusCurrent` |
| | `SuccessIsEarned` | `SuccessEarned` |
| | `GroundingStaysCurrent` | `GroundingCurrent` |
| | `GreenIsGated` | `GreenMeansGated` |
| | `GateStaysHonest` | `GateHonest` |
| `ImportClosure_proofs` | `ClosureInvariance` | the inductive invariant `ClosureInv` |
| | `ClosureStaysComplete` | `ClosureComplete` |
| | `NoProgramEscapes` | `NoGlobalEscapes`, for every syntax tree |
| `FactoryInputs_proofs` | `NoGlobalHidden` | `GlobalsKept` |
| | `NoCriterionLost` | `CriteriaKept` |
| | `PublisherAccepts` | `ArtifactsAgree` |

No property of a component with steps is inductive alone. Each invariant was first
checked by TLC as an invariant of the run of its module, from the run's own initial
states, then proved: `Init => Inv`, `Inv /\ [Next]_vars => Inv'` with a lemma for each action,
and `Inv => Property`.

**The write plane's lock.** `Identities` of the committed tables depends on what
an open transaction is about to commit, that on the tables it started from, and
those being the current ones depends on the lock. `IInv` therefore says: the types
hold; `ReadsCurrent`; the committed tables are `Consistent`; so are the tables of
each open transaction, with a greater `write_seq`; and a busy session has a
request. `Consistent` collects what the bodies need and keep: well-typed finite
tables, exclusive identities, and no child or revision row without its roast.
`CloudSync_proofs` has one lemma per body (`CreatedConsistent`,
`PatchedConsistent`, `DeletedConsistent`, ...), `BodyLeaves` combines them, and
there is one lemma per action. Finiteness of the tables is needed
because summaries count rows and must be numbers.

**Its history.** `HInv` adds the one fact that turns steps of sessions into
commits, `OneEffect`: the tables a writer past its body holds are one `Effect` of
its request on the tables as they are committed now. `CloudHistory_proofs`
defines `Effect` (a publication, a revision of some fields, a death, rows added
to a roast) and proves of each what it does to revision rows, sequences,
summaries and values; so a commit keeps what an effect keeps. Two more parts of
`HInv` make the argument go through: in a writer's view every group's summary has
followed the tables, but for those it has still to recompute and those a seed
artifact passes over (`OthersFollow`), which is why bodies may choose
their groups, and what a session was told is true of the committed tables
(`AnswersTrue`), which each effect keeps.

**The refinement.** The last part of `CloudHistory_proofs` maps each effect on the tables
to a step of `RoastLedger`: a publication makes an unknown run live under an id and a slug
that no run has had, a revision writes registers with greater revisions, a death
is final and everything else leaves the ledger as it is; `CHOOSE` in the
refinement mapping is resolved by `Identities`.

**The intake.** `IntakeInv` ties three programs together that never look at each
other: the stage a handler has reached, the limiter's answer to its call, and the
fate of its statement. A call that is admitted was counted, whether or not its
handler still waits (`CallsCounted`); only an admitted handler has a statement, and only a
committed one has a review. The calls counted in a window are as many as the window's
count while it lasts, and at most the limit for ever (`WindowsCounted`). The bound on
statements follows from counting over the windows, not from when they are sent.

**The story planner.** `StoryInv` says that a publisher about to post has seen
nothing of the kind there; that this is still so when it posts follows from the
issue's concurrency group, through which `planner[i]` is one record.

**The owner's commands.** `OwnerInv` says of a command that among the commits
recorded for it only the newest can still be in the history of the head
(`RecordsSound`), and that a run between its decision and its record has
established that the head has lost all of them (`RunSound`). Both speak of
`Ancestors`, a recursive function over a history of any length; what it computes
is proved by least counterexample over the numbers of the commits
(`LineageRule`, from `FS_StrictSubsetOrderingWellFounded` and `WFMin`), the one
form of induction that is in reach here: the library's induction theorems take an
operator, which the provers cannot instantiate. The proofs about algorithms
use it throughout (`LeastPlace`).

**The factory's issue.** `FInv` is the conjunction of what triage and publication
know. `TriageInv`: the job whose steps run is the one that has the issue's group
(`GroupHeld`); an apply job past its check owns the comment, and comment and labels
it is going to write say the same (`CommentOwned`); an approval is the owner's text
wherever it is carried, from the owner's comment over the dispatched run to the
triage comment (`ApprovalCarried`, `CommentCarries`). `PublishInv`: the view a run
worked under and any later comment of that generation approve the same text
(`ViewKept`); from the check of the generation to the push, the comment stays of
that generation, since whoever could replace it waits for the group
(`JudgedAuthorized`); the branch chosen is the open pull request's, if there is
one (`BranchChosen`); and a flagged commit's pull request shows what the
best-effort calls claim (`FlagKept`). `PushAuthorized` and `OneOpenPull` are then
short. TLC checked `FInv` on the instance of run `issues` from `Fresh` and
`Authorized` in 738,918 distinct states, and `OwnerInv` with `StoryInv` on that of
`workflows` in 1,301,295.

**The Codex status.** A run reads a pull request and three lists, one call each,
and anything may happen in between. `CodexInv` does not say that what a run has read
is there; it says so of a run with no event waiting behind it, since whatever changes
the records starts a run or leaves one waiting (`SnapCurrent`, `ViewCurrent`,
`PlanCurrent`), and lists that came short are remembered as such (`ViewComplete`).
`StatusCurrent` is the case of no run at all. `SuccessEarned` needs that time be
told from the records: a plain push shows in no timeline, but its head is new, and
`ErasMarked` says that a comment from before the head last moved or the draft ended
which names this very head is dated no later than an event of the timeline. A comment
dated after the last of those, which is what the code asks for, is of this era. TLC checked the invariants in 525,056 states.

**The spec-grounded review.** The publisher reads the pull request several times
and writes several times. `GroundingInv` says who may be wrong: what a publisher past its
first look has read is still so, or a run newer than its own has not gone through
(`AboutTarget`), because every change of head, title or body starts a run. A run that
was overtaken may therefore write what is no longer true, and `SummaryCurrent` and
`BlockersCurrent` speak only of the moments when the newest run went through.
`PlanPosted` follows the threads: what has been posted has this run's words, what
is listed as obsolete is no part of the plan, and `stands` is said only when every part
of the plan was seen. No person deletes a thread of the bot, and no publisher works
beside another (`OnePublishes`). 510,396 states.

**The CI gate.** `GateInv` says that jobs end in the order of their needs, that a
job was skipped only for one of the reasons the workflow has, and that a mode of
docs-only is what `classifyChange` answers for the very commits the run is about. What a
docs-only change changes rests on what the cut clone still shows: a commit it calls a
merge base is behind both base and head (`ShownMergeBases`), and for a pull request to the
default branch, which the clone is cut at, it is the merge base. For other base branches
it need not be, and the theorem says no more than that the diff starts at a
commit both share. It holds of every history without cycles. TLC checked `GateInv` in
234,043 distinct states.

**The import walk.** Any violation erases the evidence, so `ClosureInv` speaks of a
walk that has found nothing wrong (`Clean`). What it has looked at it has read, but for
the file in hand, and what the entrypoints and the files read ask for is what is
pending or was looked at (`Reached`): with nothing pending the files read are closed,
and nobody asked for a file in vain. `Reached` also says that each file read passed
its checks (`Reviewed`), which is where the promise about the process adapter comes
from. `Untorn` is about the edits: versions only grow, so a file that still has the
version it was inspected at is a plain file that holds what was read, and `sameFile`
refuses the file in hand otherwise. `Tallied` relates the counters to what was read; a
read that may have been torn is not counted on until `sameFile` has spoken. `utf8` and
`parses` stay opaque, but not the tree: `Reviewed` says that no file of an executable
closure reaches a dangerous global, and that is `NoProgramEscapes`. 70,322 states.

**The syntax trees.** The analysis looks a name up in scopes: a declaration binds its
name in the deepest scope around it of the kind it needs, and a use is shadowed if such
a scope is around the use. `RuntimeSource` states the language's rule from the other
side, as the region in which a name means what a declaration binds. `Chain`, the nodes
above a node, is a recursive function over the tree; its rule holds everywhere
by least counterexample, since parents come first (`ChainRule`). The nodes above a
node are above each other (`ChainOrder`, `ChainAbove`), so what is inside the deepest
scope of a kind is inside them all (`ScopesAbove`); with that `BoundInRegion` follows,
kind by kind of declaration: a use that the analysis takes for shadowed is shadowed.

**The criteria.** The algorithm makes lists of lists: the words of a text, what a
view still shows of them, references, issues, criteria, the lines of the block, the
entries of the spine. `FlattenFacts` gives each place of a flattened list its address,
the list it comes from and the place there, in increasing order, and `OnlyFacts` does the
same for what a filter keeps. On these rest two arguments.

*Nothing is lost.* What is hidden as a comment stands between an opening
and a closing mark outside code (`CommentFacts`); with the code, that is all that is
hidden, so what a reader sees is shown (`OpenlyShown`). Hence every closing reference is
among the references (`ClosedReferred`), as one that closes, even if other words only
mention the issue; and every owed checkbox is among the unmet criteria (`UnmetFacts`).
The issue is beyond the limit, or its spec has the criterion or counts it as left out;
and a block that has something to ask is never cut to nothing (`BlockFacts`), so there
is an artifact. The spine is an initial part of the list of all criteria shown
(`SpineFacts`), so the entries of one issue are a section of it, and its first criteria
(`SectionFacts`). Either the section is whole, or it is short (`SectionShort`), and then
the issue is reported.

*The publisher accepts.* The identities and digests of entries are distinct
because addresses are: of two equal criteria of an issue the later one has more before it
(`DigestsDiffer`). An issue has one spec, so one kind; its section begins with its
first criterion and has no gap (`NoGap`). The reasons for which an issue is reported
exclude each other (`UnreviewedFacts`), and each of them makes the artifact say that it
is truncated (`UnreviewedCut`). An artifact without an entry says so as well: it is
written only if there was a criterion to show or an issue beyond the limit.

Not proved, and left to TLC:

* liveness: `CallsEnd`, `SubmissionsAnswered`, `VisitorsSeeCurrent`;
* `SurfaceKept`: `WorkflowSurface` walks YAML values with RECURSIVE operators, which the
  prover does not read;
* `BlockersKept`: `GroundingReport` folds operators over what it renders, to add up lengths
  and to carry a state from thread to thread. What such a fold leaves behind is an
  induction over the data, with a theorem that takes an operator.

Some definitions are written with the prover in mind. `tlapm` reads
`SUBSET X \ {{}}` as `SUBSET (X \ {{}})` and TLC does not, so `CloudTables` and
`RoastLedger` have the parentheses; and the line limit in `PushAuthorized` is the
negation of `TextLines(...) > FACTORY_TEXT_LINE_LIMIT`, as the code has it. A `CASE`
whose guards overlap is any of the values in TLA+ and the first in TLC, so where the code
tries one after another the modules say `IF`, or the guards exclude each other. And
`FollowsEdges` says what the loop over a file's imports leaves behind, as sets of
places, because what a fold does cannot be proved. `CriteriaSpine` filters lists by sets
(`Only`) and goes through them by functions on their places (`Within`, `LineCursor`)
for the same reason; its one fold, `CodeLines`, is the same in the algorithm and in what
a reader sees.

## 5. What is not modelled, and the plan

*Write plane.* The guard against a caller's open transaction, the audit columns,
the value ranges of the columns, the value checks of seed artifacts and the
contents of stage files. That a removed file stays away is not claimed by the
code: the agent can upload after a deletion, and a failed removal is reported and
not retried. That the parts of one page are of one moment is not claimed either:
its three queries are cached apart. Secure views and grants are stateless.

*Web site.* Components and formatting; the social image, which reads two of the
caches and fills them the same way.

*Factory.* The wording of comments, prompts and violations; the grammar of
commands and the context of a question; the sanitising of untrusted text and the
decoding of quoted paths; links, so that a canonical path is the path; what
`node_modules` holds, which is constant; the exact calls of the registered
adapter, whose source is fixed by its hash; the byte limits and source locations
of the workflow surface. `verifyNodeClosure` and
`canonicalizeWorkflowExecutionSurface` have no caller but tests yet. A refresh
force-pushes the factory's own branch; people's commits on it are not in the
model, and nothing promises them to last. `promotion-ratchet-logic.mts`, which
only reports, the pin audit and the execution policy are left out.

*Other parts.* The seed generator, the Snowflake CI tooling and the evaluation harness
are sequential programs over files; the runbooks are executed by people.

Next: a model of the pin audit.

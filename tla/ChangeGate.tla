----------------------------- MODULE ChangeGate -----------------------------
(***************************************************************************)
(* The CI of a pull request, or of a push to the default branch: ci.yml    *)
(* with snowflake/ci_change_classifier.py, which decides whether the heavy *)
(* jobs are needed, and snowflake/ci_gate_result.py, which decides from    *)
(* the results of all jobs whether the commit passes.                      *)
(*                                                                         *)
(* A tree says what a commit has at each path: None, or [kind, content],   *)
(* where kind is "regular", "link" or "module".  A path is a sequence of   *)
(* names.  Git and the runner of the jobs are external: ancestors, merge   *)
(* bases, diffs, skipped and repeated jobs are modelled as they are.       *)
(***************************************************************************)
EXTENDS FiniteSets, SequencesExt, Faults

CONSTANTS
  Commits, Parents, Trees,  \* the history: commit -> its parents, its tree
  Line,      \* commits that the default branch has, or will have, at its tip
  Stacks,    \* commits that another branch may have at its tip
  Heads,     \* commits that may be proposed
  Scripted,  \* commits that hold both scripts of the gate
  Paths,     \* of all trees
  Plain,     \* names of letters, digits, dots, hyphens and underscores only
  Markdown   \* names that end in .md

ASSUME GateAssumption ==
  /\ Line \cup Heads \cup Stacks \cup Scripted \subseteq Commits
  /\ Parents \in [Commits -> SUBSET Commits]
  /\ None \notin {"full", "docs-only"} \cup Commits

VARIABLES
  tips,   \* branch -> its tip; the default branch is "main"
  ci      \* the newest run of the workflow, for a proposal or a push

gateVars == <<tips, ci, trouble>>

-----------------------------------------------------------------------------
(* Git.  A clone fetched to depth 1 at a commit, the cut, has it without    *)
(* its parents.                                                            *)

\* What a clone without a cut, or with one, shows behind each commit: the least set that
\* holds the commit and the parents of its commits.
History ==
  [cut \in Line \cup {None} |->
     LET closed == {C \in SUBSET Commits : \A c \in C \ {cut} : Parents[c] \subseteq C}
     IN [commit \in Commits |-> {a \in Commits : \A C \in closed : commit \in C => a \in C}]]

ancestors(commit, cut) == History[cut][commit]

\* A commit names its parents by their hashes: no commit is behind itself.
ASSUME HistoryAssumption ==
  \A c, d \in Commits : c \in ancestors(d, None) /\ d \in ancestors(c, None) => c = d

MergeBases(a, b, cut) ==
  LET common == ancestors(a, cut) \cap ancestors(b, cut)
  IN {c \in common : \A d \in common \ {c} : c \notin ancestors(d, cut)}

changedPaths(old, new) == {p \in Paths : Trees[old][p] # Trees[new][p]}

\* With --find-renames, any files of one kind that go and come may be paired.
Diffs(old, new) ==
  LET was == Trees[old]
      is == Trees[new]
      gone == {p \in changedPaths(old, new) : is[p] = None}
      come == {p \in changedPaths(old, new) : was[p] = None}
      kept == changedPaths(old, new) \ (gone \cup come)
      pairings ==
        {r \in SUBSET (gone \X come) :
           /\ \A pair \in r : was[pair[1]].kind = is[pair[2]].kind
           /\ \A x, y \in r : x # y => x[1] # y[1] /\ x[2] # y[2]}
  IN {    {[status |-> "R", paths |-> pair] : pair \in r}
     \cup {[status |-> "D", paths |-> <<p>>] : p \in gone \ {pair[1] : pair \in r}}
     \cup {[status |-> "A", paths |-> <<p>>] : p \in come \ {pair[2] : pair \in r}}
     \cup {[status |-> IF was[p].kind = is[p].kind THEN "M" ELSE "T", paths |-> <<p>>] : p \in kept}
     : r \in pairings}

-----------------------------------------------------------------------------
(* The classifier.                                                         *)

isDocsMarkdownPath(path) ==
  /\ Len(path) >= 2 /\ path[1] = "docs" /\ Last(path) \in Markdown
  /\ ToSet(path) \subseteq Plain \ {".", ".."}

\* An empty diff and a status beyond the grammar parse to nothing.
parses(entries) == entries # {} /\ \A e \in entries : e.status \in {"A", "M", "D", "R", "C"}

isRegularFile(commit, path) == Trees[commit][path] # None /\ Trees[commit][path].kind = "regular"

\* Fault: of a rename, only the new path is looked at.
NewPathDocsOnly(entries, mergeBase, head) ==
  \A e \in entries :
    /\ isDocsMarkdownPath(Last(e.paths))
    /\ e.status # "A" => isRegularFile(mergeBase, e.paths[1])
    /\ e.status # "D" => isRegularFile(head, Last(e.paths))

entriesAreDocsOnly(entries, mergeBase, head) ==
  \A e \in entries :
    /\ \A k \in DOMAIN e.paths : isDocsMarkdownPath(e.paths[k])
    /\ e.status # "A" => isRegularFile(mergeBase, e.paths[1])
    /\ e.status # "D" => isRegularFile(head, Last(e.paths))

\* What it may answer, with any rename that git may see.
classifyChange(event, base, head, cut) ==
  IF event # "pull_request" \/ MergeBases(base, head, cut) = {} THEN {"full"}
  ELSE UNION {{IF parses(e) /\ entriesAreDocsOnly(e, m, head) THEN "docs-only" ELSE "full"
               : e \in Diffs(m, head)} : m \in MergeBases(base, head, cut)}

-----------------------------------------------------------------------------
(* The jobs.                                                               *)

Heavy == {"playwright", "snowflake-migrations", "mutation-testing"}
Always == {"gates", "classify", "resolve-trusted-revision"}
Needed == Heavy \cup Always
Jobs == Needed \cup {"checks"}

needs(job) ==
  CASE job = "classify" -> {"resolve-trusted-revision"}
    [] job \in Heavy -> {"classify"}
    [] job = "checks" -> Needed
    [] OTHER -> {}

StartedRun(event, head, into, base) ==
  [event |-> event, head |-> head, into |-> into, base |-> base, trusted |-> None,
   mode |-> None, cancelled |-> FALSE, fetched |-> TRUE, result |-> [j \in Jobs |-> "waiting"]]

Waits(job) == ci.result[job] = "waiting"
Due(job) == Waits(job) /\ \A n \in needs(job) : ~Waits(n)

Ends(job, result) == ci' = [ci EXCEPT !.result[job] = result]

\* By itself a job runs only if all it needs succeeded.
Skips ==
  /\ \/ /\ Due("classify") /\ ci.result["resolve-trusted-revision"] # "success"
        /\ Ends("classify", "skipped")
     \/ \E job \in Heavy :
          /\ Due(job) /\ (ci.cancelled \/ ci.mode = "docs-only")
          /\ Ends(job, "skipped")
  /\ UNCHANGED <<tips, trouble>>

\* For another branch, or a push, what the default branch has now.
Resolves ==
  /\ Due("resolve-trusted-revision")
  /\ \/ /\ ci' = [ci EXCEPT !.result["resolve-trusted-revision"] = "success",
                              !.trusted = IF ci.into = "main" THEN ci.base ELSE tips["main"]]
        /\ UNCHANGED trouble
     \/ Ends("resolve-trusted-revision", "failure") /\ Trouble
  /\ UNCHANGED tips

\* Without the script, and on any failure before it is started, the mode is full.
Classifies ==
  /\ Due("classify") /\ ci.result["resolve-trusted-revision"] = "success"
  /\ \/ \E mode \in IF ci.trusted \in Scripted
                    THEN classifyChange(ci.event, ci.base, ci.head, ci.trusted) ELSE {"full"} :
          /\ ci' = [ci EXCEPT !.result["classify"] = "success", !.mode = mode]
          /\ UNCHANGED trouble
     \/ /\ Trouble  \* the fetch, git, or writing the output fails
        /\ \E mode \in {"full", None} :
             ci' = [ci EXCEPT !.result["classify"] = "success", !.mode = mode]
     \/ Trouble /\ Ends("classify", "failure")
  /\ UNCHANGED tips

\* Tests may fail at any time.
Gates ==
  /\ Due("gates") /\ \E result \in {"success", "failure"} : Ends("gates", result)
  /\ UNCHANGED <<tips, trouble>>

Tests ==
  /\ \E job \in Heavy :
       /\ Due(job) /\ ~ci.cancelled /\ ci.mode # "docs-only"
       /\ \E result \in {"success", "failure"} : Ends(job, result)
  /\ UNCHANGED <<tips, trouble>>

-----------------------------------------------------------------------------
(* The gate.                                                               *)

expectedResult(mode, job) ==
  IF job \in Heavy /\ mode = "docs-only" THEN "skipped" ELSE "success"

evaluate(mode, result) ==
  /\ mode \in {"full", "docs-only"}
  /\ \A job \in Needed : result[job] = expectedResult(mode, job)

bootstrapFallback(mode, result) ==
  /\ mode = "full"
  /\ \A job \in Heavy \cup {"gates", "classify"} : result[job] = "success"

Concludes ==
  /\ Due("checks")
  /\ \E fetched \in BOOLEAN :
       /\ MayFail(fetched)
       /\ LET passes == IF fetched /\ ci.trusted \in Scripted
                        THEN evaluate(ci.mode, ci.result) ELSE bootstrapFallback(ci.mode, ci.result)
          IN ci' = [ci EXCEPT !.fetched = fetched,
                              !.result["checks"] = IF passes THEN "success" ELSE "failure"]
  /\ UNCHANGED tips

-----------------------------------------------------------------------------
(* People.                                                                 *)

\* A new head starts a run in place of the one before.
Proposes ==
  /\ Trouble /\ ci.event = "pull_request"
  /\ \E h \in Heads \ {ci.head} : ci' = StartedRun("pull_request", h, ci.into, tips[ci.into])
  /\ UNCHANGED tips

MainAdvances ==
  /\ Trouble
  /\ \E c \in Line :
       /\ tips["main"] \in Parents[c]
       /\ tips' = [tips EXCEPT !["main"] = c]
       /\ \/ ci.event = "push" /\ ci' = StartedRun("push", c, None, None)
          \/ ci.event # "push" /\ UNCHANGED ci

\* Jobs on their way are cancelled, the others skipped, the last one runs.
Cancels ==
  /\ Trouble /\ ~ci.cancelled /\ Waits("checks")
  /\ ci' = [ci EXCEPT
       !.cancelled = TRUE,
       !.result = [j \in Jobs |-> IF j = "checks" \/ ~Waits(j) THEN @[j]
                                  ELSE IF Due(j) THEN "cancelled" ELSE "skipped"]]
  /\ UNCHANGED tips

\* The jobs that failed and those that depend on them run again.
Reruns ==
  /\ Trouble /\ ci.result["checks"] = "failure"
  /\ LET failed == {j \in Jobs : ci.result[j] \in {"failure", "cancelled"}}
         second == failed \cup {j \in Jobs : needs(j) \cap failed # {}}
         again == second \cup {j \in Jobs : needs(j) \cap second # {}}
     IN ci' = [ci EXCEPT
          !.cancelled = FALSE, !.fetched = TRUE,
          !.trusted = IF "resolve-trusted-revision" \in again THEN None ELSE @,
          !.mode = IF "classify" \in again THEN None ELSE @,
          !.result = [j \in Jobs |-> IF j \in again THEN "waiting" ELSE @[j]]]
  /\ UNCHANGED tips

-----------------------------------------------------------------------------
GateInit ==
  /\ \E c \in Line, s \in Stacks : tips = [main |-> c, stack |-> s]
  /\ \/ \E h \in Heads, into \in DOMAIN tips : ci = StartedRun("pull_request", h, into, tips[into])
     \/ ci = StartedRun("push", tips["main"], None, None)
  /\ trouble = 0

JobsRun == Skips \/ Resolves \/ Classifies \/ Gates \/ Tests \/ Concludes

GateNext == JobsRun \/ Proposes \/ MainAdvances \/ Cancels \/ Reruns

GateSpec == GateInit /\ [][GateNext]_gateVars

-----------------------------------------------------------------------------
Passes == ci.result["checks"] = "success"
Tested == \A job \in Heavy : ci.result[job] = "success"

\* From a commit to the head, documentation changes and nothing else.
DocsSince(m, head) ==
  /\ changedPaths(m, head) # {}
  /\ \A p \in changedPaths(m, head) :
       /\ p[1] = "docs" /\ Last(p) \in Markdown
       /\ \A c \in {m, head} : Trees[c][p] # None => Trees[c][p].kind = "regular"

\* What the merge of head into base would change is documentation.
DocsChange(base, head) == \A m \in MergeBases(base, head, None) : DocsSince(m, head)

\* The commit the clone is cut at is the base, or behind neither base nor head.
CutHidesNothing ==
  \/ ci.into = "main"
  \/ ci.trusted \notin ancestors(ci.base, None) \cup ancestors(ci.head, None)

\* The proposal changes documentation and nothing else since a commit that base and head
\* share: a merge base, unless the cut hides those.
DocsSinceShared ==
  \E m \in ancestors(ci.base, None) \cap ancestors(ci.head, None) :
    /\ DocsSince(m, ci.head)
    /\ CutHidesNothing => m \in MergeBases(ci.base, ci.head, None)

PassMeansTested ==
  Passes => /\ ci.result["gates"] = "success"
            /\ Tested \/ (ci.event = "pull_request" /\ DocsSinceShared)

SoundRunPasses ==
  ci.result["checks"] \notin {"waiting", "success"} =>
    \/ \E job \in Needed : ci.result[job] \in {"failure", "cancelled"}
    \/ ci.mode = None \/ ~ci.fetched

\* What the gate lets pass was linted and unit-tested, and either went through the
\* heavy jobs or is a pull request that changes documentation only, whatever failed, was
\* cancelled or ran again on the way.  Changes are those since the merge base for a pull
\* request to the default branch, and wherever the cut at the trusted commit hides nothing;
\* else only since some commit that base and head share, with which what is undone of later
\* ones is not seen (ModeByMergeBase).  And the conditions on which jobs run agree with the
\* results the gate expects of them: it is refused only if a job failed or was cancelled,
\* or the mode or the gate's script was lost (the jobs of ci.yml, classify_change and
\* _evaluate).
GateHonest == PassMeansTested /\ SoundRunPasses

\* Without any trouble the mode is docs-only for exactly the pull requests that
\* change documentation only, compared with their merge base, as
\* docs/state/registry.md and the tests of the classifier say.
ModeByMergeBase ==
  trouble = 0 /\ ci.event = "pull_request" /\ ci.mode # None =>
    (ci.mode = "docs-only" <=> DocsChange(ci.base, ci.head))
=============================================================================

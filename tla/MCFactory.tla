----------------------------- MODULE MCFactory ------------------------------
(***************************************************************************)
(* Small instances for TLC of the factory: one issue with its triage and   *)
(* implement runs; the walk over the imports of the factory's scripts; and *)
(* algorithms over bounded inputs: the criteria that a review is asked     *)
(* about and what the pull request is told of its verdict, the scopes of a *)
(* syntax tree, and what a workflow would execute.  They share nothing:    *)
(* each has a lane of its own, and the others stand still.                 *)
(***************************************************************************)
EXTENDS FactoryPublish, MCReport, ImportClosure, MCSurface, FactoryInputs

IssueLine(kind, level, words) == [kind |-> kind, level |-> level, words |-> words]

\* One issue: two texts whose titles differ, the second of which may delegate a criterion,
\* and patches that the rules tell apart.  "v1" and "v2" can be checked from the diff: what
\* would delegate is in a comment, a fence, another section.  "vague" delegates over two lines.
MCBodyOf ==
  [t \in {"v1", "v2", "vague"} |->
     CASE t = "v1" ->
            <<IssueLine("ac heading", 2, <<>>), IssueLine("checkbox", 0, <<"prose">>),
              IssueLine("fence", 3, <<>>), IssueLine("checkbox", 0, <<"relation", "reference">>),
              IssueLine("fence", 3, <<>>), IssueLine("heading", 2, <<"prose">>),
              IssueLine("checkbox", 0, <<"relation", "reference">>)>>
       [] t = "v2" ->
            <<IssueLine("comment opens", 0, <<>>), IssueLine("ac heading", 1, <<>>),
              IssueLine("checkbox", 0, <<"relation", "reference">>),
              IssueLine("comment closes", 0, <<>>), IssueLine("ac bold label", 0, <<>>),
              IssueLine("checkbox", 0, <<"relation", "code", "prose", "reference">>)>>
       [] OTHER ->
            <<IssueLine("ac heading", 2, <<>>), IssueLine("heading", 3, <<"prose">>),
              IssueLine("checkbox", 0, <<"prose", "relation">>),
              IssueLine("text", 0, <<"reference">>)>>]

MCSlugOf == [t \in {"v1", "v2", "vague"} |-> IF t = "v1" THEN "one" ELSE "two"]

File(path, source, n) == [path |-> path, source |-> source, lines |-> n, binary |-> FALSE]
Added(path, holds) ==
  <<[mark |-> "diff --git", path |-> path, holds |-> ""],
    [mark |-> "+++", path |-> path, holds |-> ""],
    [mark |-> "@@", path |-> path, holds |-> ""],
    [mark |-> "+", path |-> path, holds |-> holds]>>

MCPatches == {"plain", "suppressing", "moved", "long"}

MCStatsOf ==
  [p \in MCPatches |->
     CASE p = "plain" -> <<File(<<"src", "a.ts">>, <<>>, 3)>>
       [] p = "suppressing" -> <<File(<<"src", "a.ts">>, <<>>, 2)>>
       [] p = "moved" -> <<File(<<"src", "x.md">>, <<"docs", "..", ".github", "x.md">>, 1)>>
       [] OTHER -> <<File(<<"src", "a.ts">>, <<>>, 3), File(<<"src", "b.ts">>, <<>>, 2)>>]

MCLinesOf ==
  [p \in MCPatches |->
     Added(<<"b", "src", "a.ts">>, IF p = "suppressing" THEN "coverage suppression" ELSE "")]
MCPatchesOf ==
  [i \in 1 .. 2 |-> IF i = 1 THEN {"suppressing"} ELSE {"moved", "plain"}]
MCLoginsOf == [i \in 1 .. 2 |-> IF i = 1 THEN {"fallback"} ELSE {"app"}]

-----------------------------------------------------------------------------
(* Two beginnings, both reachable with more runs: a new issue, whose first *)
(* implement run was dispatched too early; and an issue that a readiness   *)
(* run has authorized, with one triage run left and two implement runs.    *)

Spent == [Waiting EXCEPT !.pc = "failed"]

Fresh ==
  /\ Init /\ issue.text = "v1"
  /\ implement = [i \in ImplementRuns |-> IF i = 1 THEN Spent ELSE Waiting]
  /\ branch = [s \in Slugs |-> None] /\ pulls = [s \in Slugs |-> None]
  /\ failureNote = [l \in Logins |-> None]

Authorized ==
  /\ issue = [open |-> TRUE, text |-> "v1", labels |-> {"ready-to-implement", "area"}]
  /\ \E a \in {None, issue.text} : comment = [run |-> 1, held |-> FALSE, approved |-> a]
  /\ triage = [r \in TriageRuns |-> IF r = 1 THEN [Idle EXCEPT !.pc = "done"] ELSE Idle]
  /\ holder = None
  /\ order = [pc |-> "dispatched", said |-> comment.approved, text |-> None, edited |-> "before"]
  /\ trouble = 0
  /\ PublishInit

-----------------------------------------------------------------------------
(* Trees: a declaration and a use anywhere in a function in a program.     *)

Node(kind, up, name, form) == [kind |-> kind, up |-> up, name |-> name, form |-> form]

Skeleton ==
  <<Node("function", 0, "f", "expression"), Node("block", 1, "", "body"), Node("block", 2, "", "")>>

\* A declaration and the places where the grammar allows it.
Declarations ==
  ({"function", "class"} \X {"declaration"}) \X {0, 2, 3}
    \cup ({"function", "class"} \X {"expression"}) \X (0 .. 3)
    \cup {<< <<"function", "overload">>, 0>>, << <<"variable", "ambient">>, 0>>}
    \cup ({"variable"} \X {"let", "var"}) \X {0, 2, 3}
    \cup ({"parameter"} \X {"", "property"}) \X {1}
    \cup ({"imported name"} \X {"value", "type"}) \X {0}
    \cup {<<"catch", "">>, <<"block", "">>} \X {2, 3}

Uses ==
  {<<Node("identifier", 0, name, "value")>> : name \in {"eval", "process"}}
    \cup {<<Node("access", 0, member, form), Node("identifier", 1, name, "receiver")>> :
            member \in {"cwd", "kill", ""}, form \in {"dot", "bracket"},
            name \in {"eval", "process"}}

Trees ==
  {Skeleton \o <<Node(d[1][1], d[2], name, d[1][2])>>
     \o [k \in DOMAIN use |-> [use[k] EXCEPT !.up = IF k = 1 THEN up ELSE 4 + @]] :
   d \in Declarations, name \in {"eval", "process"}, use \in Uses, up \in 0 .. 4}

MCSafeMembers == [o \in {"process"} |-> {"cwd"}]

-----------------------------------------------------------------------------
(* Checkouts of three files, the second of which may be the adapter.       *)

CONSTANTS Fs, Pkg

Edge(to) == [to |-> to, plain |-> TRUE, types |-> FALSE, process |-> FALSE]
Spawn == [Edge(PROCESS) EXCEPT !.process = TRUE]
Holds3(size, edges, tree) ==
  [size |-> size, utf8 |-> TRUE, parses |-> TRUE, tree |-> tree, edges |-> edges]

MCNames == {"entry", "adapter", "forged", "loop", "wild", "odd"}
MCContents ==
  [n \in MCNames |->
     CASE n = "entry" ->
            Holds3(2, <<Edge(Pkg), Edge(2), [Edge(Elsewhere) EXCEPT !.types = TRUE]>>, <<>>)
       [] n = "adapter" -> Holds3(1, <<Spawn>>, <<>>)
       [] n = "forged" -> Holds3(2, <<Spawn>>, <<>>)
       [] n = "loop" -> Holds3(1, <<Edge(3), Edge(Fs), Edge(1)>>, <<>>)
       [] n = "wild" -> Holds3(1, <<Spawn>>, <<Node("identifier", 0, "eval", "value")>>)
       [] OTHER -> [Holds3(3, <<Edge(Elsewhere)>>, <<>>) EXCEPT !.parses = FALSE]]

MCCheckouts ==
  {<<"entry", "adapter", "odd">>, <<"entry", "loop", "entry">>, <<"loop", "adapter", "wild">>,
   <<"loop", "forged", "loop">>}

Rule(kind, m, target) == [kind |-> kind, specifier |-> m, resolvedTarget |-> target]
Asked ==
  [mode |-> "executable", root |-> "protected", class |-> "protected-glue",
   rootsComplete |-> TRUE, entrypoints |-> <<1>>,
   rules |-> <<Rule("node-builtin", Fs, Fs), Rule("locked-package", Pkg, "lib")>>]
MCRequests ==
  {Asked, [Asked EXCEPT !.mode = "import-only", !.entrypoints = <<3, 1>>],
   [Asked EXCEPT !.entrypoints = <<1, 1>>], [Asked EXCEPT !.root = "no directory"],
   [Asked EXCEPT !.rules = <<Rule("node-builtin", Fs, Fs), Rule("locked-package", Pkg, "other")>>],
   [Asked EXCEPT !.rules = <<Rule("node-builtin", PROCESS, PROCESS)>>]}

MCInstalled == [m \in {Fs, Pkg, PROCESS} |-> IF m = Pkg THEN "lib" ELSE m]

-----------------------------------------------------------------------------
\* What is enumerated is what can occur.
ASSUME InputsAssumption ==
  /\ \A s \in SpineInputs : ProperInput(s.pr, s.issues, s.budget)
  /\ \A tree \in Trees : ProperTree(tree)

FactoryRests == Fresh /\ \A r \in TriageRuns : triage[r].pc = "idle"
ClosureRests ==
  ClosureInit /\ disk[3].content = "odd" /\ walk.request = [Asked EXCEPT !.root = "no directory"]

MCInit ==
  \/ /\ FactoryRests /\ ClosureRests
     /\ \/ lane = "spine" /\ given \in SpineInputs
        \/ lane = "source" /\ given \in Trees
        \/ lane = "surface" /\ given \in WorkflowFiles
        \/ lane = "report" /\ \E a \in Artifacts : \/ given \in FlawedReviewsOf(a)
                                                   \/ \E raw \in SoundVerdicts(a) :
                                                        given \in ReviewsOf(a, raw)
        \/ lane = "anchor" /\ given \in Diffs
        \/ lane = "lists" /\ given \in SkippedLists
        \/ lane = "notes" /\ given \in Annotations
  \/ lane = "closure" /\ ClosureInit /\ FactoryRests /\ given = None
  \/ lane = "issues" /\ (Fresh \/ Authorized) /\ ClosureRests /\ given = None

MCNext ==
  \/ lane = "issues" /\ FNext /\ UNCHANGED <<lane, given, closureVars>>
  \/ lane = "closure" /\ ClosureNext /\ UNCHANGED <<lane, given, vars>>

MCSpec == MCInit /\ [][MCNext]_<<lane, given, closureVars, vars>>

\* The evidence of a workflow is what a runner would do with it
\* (workflow-execution-surface-logic.mts:1393).
SurfaceKept == lane = "surface" => SurfaceFaithful(given)

\* Every blocker of a review that still applies is shown where the pull request says it is
\* (publish-spec-grounding-verdict.mts:1283).
BlockersKept ==
  /\ lane = "report" => ReportHonest(given.a, given.diffTruncated, given.raw, given.now,
                                    Rendered(given.files), given.posted)
  /\ lane = "anchor" => AnchorTrue(given.files, given.length)
  /\ lane = "lists" => NotesFit(given.stale, given.downgraded)
  /\ lane = "notes" => NotesTrue(given.threads, given.issues, given.closing, given.generation,
                                given.found)
=============================================================================

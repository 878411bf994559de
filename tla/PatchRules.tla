----------------------------- MODULE PatchRules -----------------------------
(***************************************************************************)
(* The deterministic rules a patch from an agent must pass before a        *)
(* privileged job pushes it (scripts/factory/implement-patch-logic.mts).   *)
(* The implement publisher and the owner-task workflow share them.         *)
(*                                                                         *)
(* A path is the sequence of its segments; one segment stands for every    *)
(* name the source's patterns treat alike.  A file of a patch is           *)
(*   [path, source (<<>> when the file is not renamed or copied),          *)
(*    lines (additions + deletions), binary]                               *)
(* and the patch text is a sequence of lines [mark, path, holds]: mark is  *)
(* the line's leading token, path what follows "+++ ", holds what the      *)
(* content patterns would find in it.                                      *)
(***************************************************************************)
EXTENDS Integers, Sequences, SequencesExt

CONSTANT FACTORY_TEXT_LINE_LIMIT     \* 400 changed lines in the source

-----------------------------------------------------------------------------
(* Paths.                                                                  *)

PROTECTED_PATH_PREFIXES ==
  {<<".github">>, <<"scripts", "factory">>, <<".claude">>, <<".codex">>,
   <<"tests", "factory">>}

PROTECTED_EXACT_PATHS ==
  {<<"CODEOWNERS">>, <<"docs", "CODEOWNERS">>, <<"AGENTS.md">>,
   <<"docs", "state", "registry.md">>,
   <<"snowflake", "ci_change_classifier.py">>, <<"snowflake", "ci_gate_result.py">>}

PROTECTED_BASENAMES ==
  {".claude", ".codex", "AGENTS.md", "AGENTS.override.md", "CLAUDE.md",
   "CLAUDE.local.md", ".claudeignore", ".mcp.json", ".npmrc"}

\* What lies below one of these directories.
Below(path, prefixes) == \E d \in prefixes : IsStrictPrefix(d, path)

Basename(path) == Last(path)

\* The diff's a/ or b/ is dropped, then "", "." and ".." are resolved; a ".."
\* that would leave the repository stays in front.
normalizePatchPath(raw) ==
  LET parts == IF Len(raw) > 1 /\ raw[1] \in {"a", "b"} THEN Tail(raw) ELSE raw
      Resolve(resolved, segment) ==
        CASE segment \in {"", "."} -> resolved
          [] segment = ".." /\ resolved # <<>> /\ Last(resolved) # ".." ->
               Front(resolved)
          [] OTHER -> Append(resolved, segment)
  IN FoldLeft(Resolve, <<>>, parts)

isProtectedPath(path) ==
  \/ path # <<>> /\ Head(path) = ".."
  \/ path \in PROTECTED_EXACT_PATHS
  \/ path # <<>> /\ Basename(path) \in PROTECTED_BASENAMES
  \/ Below(path, PROTECTED_PATH_PREFIXES)

\* Every path a file of the patch touches: renames touch two.
PathsOf(stat) == IF stat.source = <<>> THEN {stat.path} ELSE {stat.source, stat.path}

TouchedPaths(stats) == UNION {PathsOf(stats[i]) : i \in DOMAIN stats}

findForbiddenPatchPaths(rawPaths) ==
  {p \in {normalizePatchPath(raw) : raw \in rawPaths} : isProtectedPath(p)}

-----------------------------------------------------------------------------
(* Test files.                                                             *)

TEST_PATH_PREFIXES == {<<"tests">>, <<"e2e">>, <<"snowflake", "tests">>}

\* Names that stand for those the file-name patterns match.
TEST_FILENAMES == {"x.test.ts", "x.spec.tsx", "test_x.py", "x_test.py"}

\* Some of the exact paths that decide what the test runners discover.
TEST_DISCOVERY_CONFIG_EXACT_PATHS ==
  {<<"vitest.config.ts">>, <<"playwright.config.ts">>, <<"pytest.ini">>, <<"tox.ini">>,
   <<"snowflake", "pytest.ini">>, <<"snowflake", "pyproject.toml">>,
   <<"snowflake", "setup.cfg">>, <<"snowflake", "conftest.py">>}

MUTATION_GATE_CONFIG_EXACT_PATHS ==
  {<<"snowflake", "mutation-baseline.json">>, <<"snowflake", "check_mutation_score.py">>,
   <<"snowflake", "requirements-dev.txt">>}

isFactoryTestSourcePath(path) == Below(path, TEST_PATH_PREFIXES)

isTestFilePath(path) ==
  \/ path \in TEST_DISCOVERY_CONFIG_EXACT_PATHS \cup MUTATION_GATE_CONFIG_EXACT_PATHS
  \/ isFactoryTestSourcePath(path)
  \/ path # <<>> /\ Basename(path) \in TEST_FILENAMES

findTestFileEdits(rawPaths) ==
  {p \in {normalizePatchPath(raw) : raw \in rawPaths} : isTestFilePath(p)}

-----------------------------------------------------------------------------
(* The envelope: how large and how mixed a patch may be.                   *)

\* "x.md" stands for any Markdown file.
isFactoryDataOnlyPath(path) ==
  \/ path \in {<<"generated", "schema.json">>, <<"snowflake", "fixtures", ".gitkeep">>,
               <<"docs", "design.md">>}
  \/ Below(path, {<<"docs", "design">>}) /\ Basename(path) = "x.md"

Category(path) ==
  IF isFactoryTestSourcePath(path) THEN "test"
  ELSE IF isFactoryDataOnlyPath(path) THEN "data"
  ELSE "logic"

Categories(stat) == {Category(p) : p \in PathsOf(stat)}

\* Binary files and invalid counts are reported, and leave the other sums alone.
Counted(stats) == SelectSeq(stats, LAMBDA s : ~s.binary /\ s.lines >= 0)

TextLines(stats) == FoldLeft(LAMBDA sum, s : sum + s.lines, 0, Counted(stats))

\* The source also sums each category apart; only the total is ever compared.
findFactoryPatchEnvelopeViolations(stats) ==
  LET counted == ToSet(Counted(stats))
      categories == UNION {Categories(s) : s \in counted}
  IN {v \in {"invalid", "crossed", "binary", "mixed", "too long"} :
        \/ v = "invalid" /\ \E s \in ToSet(stats) : ~s.binary /\ s.lines < 0
        \/ v = "crossed" /\ \E s \in counted : {"logic", "test"} \subseteq Categories(s)
        \/ v = "binary" /\ \E s \in ToSet(stats) : s.binary
        \/ v = "mixed" /\ "data" \in categories /\ categories # {"data"}
        \/ v = "too long" /\ TextLines(stats) > FACTORY_TEXT_LINE_LIMIT}

-----------------------------------------------------------------------------
(* What the added lines hold.                                              *)

\* One line of the patch: "+++ " names the file only outside a hunk, where
\* inside one it is an added line whose text starts with "++ ".
AddLine(walk, line) ==
  CASE line.mark = "diff --git" -> [walk EXCEPT !.inHunk = FALSE]
    [] line.mark = "+++" /\ ~walk.inHunk ->
         [walk EXCEPT !.path = normalizePatchPath(line.path)]
    [] line.mark = "@@" -> [walk EXCEPT !.inHunk = TRUE]
    [] line.mark \in {"+", "+++"} /\ walk.inHunk ->
         [walk EXCEPT !.added = @ \cup {[path |-> walk.path, holds |-> line.holds]}]
    [] OTHER -> walk

walkAddedLines(text) ==
  FoldLeft(AddLine, [path |-> <<>>, inHunk |-> FALSE, added |-> {}], text).added

findAddedCoverageSuppressions(text) ==
  {a \in walkAddedLines(text) : a.holds = "coverage suppression"}

\* Only the root package.json holds the scripts the gates run; a \u escape there
\* could spell a script's name.
findAddedPackageJsonTestScriptEdits(text) ==
  {a \in walkAddedLines(text) :
     a.path = <<"package.json">> /\ a.holds \in {"test script", "unicode escape"}}

findAddedRootPytestConfigSections(text) ==
  {a \in walkAddedLines(text) :
     a.path \in {<<"pyproject.toml">>, <<"setup.cfg">>} /\ a.holds = "pytest section"}
=============================================================================

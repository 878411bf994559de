SPECIFICATION MCSpec
CONSTANTS
  None = None
  MaxTrouble = 3
  Issues = {"i1"}
  Texts = {"v1", "v2"}
  Answers <- MCAnswers
  ContractOf <- MCContractOf
  EscalationOf <- MCEscalationOf
  Commands = {"c1"}
  Bodies <- MCBodies
  TaskPatches <- MCPatches
  PatchStats <- MCStats
  FACTORY_TEXT_LINE_LIMIT = 4
  Shas = {"a", "b"}
  Forms <- MCForms
  CODEX_WAIT_TIMEOUT = 1
  MaxTime = 2
  Tickets = {1, 2}
  References <- MCReferences
  LongDiffs = {1}
  MAX_INDIVIDUAL_CRITERION_BLOCKER_COMMENTS = 1
  Commits <- MCCommits
  Parents <- MCParents
  Trees <- MCTrees
  Line <- MCLine
  Stacks <- MCStacks
  Heads <- MCHeads
  Scripted <- MCScripted
  Paths <- MCPaths
  Plain <- MCPlain
  Markdown <- MCMarkdown
INVARIANTS ContractOnce RecordsTrue AnsweredOnce StatusCurrent SuccessEarned GroundingCurrent GateHonest
PROPERTIES SweepPutsBack PushExtendsHead GreenMeansGated
CHECK_DEADLOCK FALSE

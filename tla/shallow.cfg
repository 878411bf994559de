SPECIFICATION GateSpec
CONSTANTS
  None = None
  MaxTrouble = 0
  Commits <- MCCommits
  Parents <- MCParents
  Trees <- MCTrees
  Line = {"m2"}
  Stacks = {"merged"}
  Heads = {"undo"}
  Scripted <- MCScripted
  Paths <- MCPaths
  Plain <- MCPlain
  Markdown <- MCMarkdown
INVARIANTS ModeByMergeBase
CHECK_DEADLOCK FALSE

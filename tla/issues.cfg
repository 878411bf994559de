SPECIFICATION MCSpec
CONSTANTS
  None = None
  Texts = {"v1", "v2"}
  BodyOf <- MCBodyOf
  TriageRuns = {1, 2}
  AgentVerdicts = {"ready-to-implement", "needs-info"}
  MaxTrouble = 1
  ImplementRuns = {1, 2}
  Patches <- MCPatches
  PatchesOf <- MCPatchesOf
  LoginsOf <- MCLoginsOf
  StatsOf <- MCStatsOf
  LinesOf <- MCLinesOf
  SlugOf <- MCSlugOf
  FACTORY_TEXT_LINE_LIMIT = 4
  MAX_LINKED_ISSUES = 2
  MAX_CRITERIA_PER_ISSUE = 2
  DANGEROUS_GLOBALS = {"eval"}
  SENSITIVE_OBJECTS = {"process"}
  SAFE_MEMBERS <- MCSafeMembers
  Fs = Fs
  Pkg = Pkg
  PROCESS = PROCESS
  Elsewhere = Elsewhere
  Paths = {1, 2, 3}
  Builtins = {Fs, PROCESS}
  Packages = {Pkg}
  LockedFiles = {"lib", "other"}
  Installed <- MCInstalled
  Names <- MCNames
  Contents <- MCContents
  Checkouts <- MCCheckouts
  Requests <- MCRequests
  FORBIDDEN_MODULES = {PROCESS}
  RUNTIME_FORBIDDEN_MODULES = {PROCESS}
  ADAPTER_PATH = 2
  ADAPTER_SOURCE = "adapter"
  MAX_NODE_CLOSURE_FILES = 2
  MAX_NODE_CLOSURE_EDGES = 4
  MAX_NODE_SOURCE_BYTES = 2
  MAX_NODE_CLOSURE_BYTES = 4
  MAX_NODE_AST_NODES = 3
  MAX_NODE_AST_DEPTH = 3
  MaxEdits = 2
  MAX_WORKFLOW_JOBS = 2
  MAX_WORKFLOW_STEPS = 3
  MAX_WORKFLOW_BINDINGS = 6
  MAX_WORKFLOW_VIOLATIONS = 2
  MAX_WORKFLOW_CANONICAL_VALUES = 12
  MAX_WORKFLOW_CANONICAL_DEPTH = 4
  MAX_EXPANDED_YAML_PREFLIGHT_NODES = 60
  MAX_EXPANDED_YAML_PREFLIGHT_DEPTH = 9
  Identifiers <- MCIdentifiers
  Hyphenated = {"not-portable"}
  Templates = {"template"}
  RepositoryNames = {"A", "a", "B", "b"}
  CaseFold <- MCCaseFold
  ActionOf <- MCActionOf
  MAX_FINDINGS = 5
  MAX_INDIVIDUAL_CRITERION_BLOCKER_COMMENTS = 2
  MAX_INDIVIDUAL_UNREVIEWED_ISSUE_COMMENTS = 1
  MAX_AGGREGATE_LISTED = 1
  MAX_RATIONALE_DISPLAY_LENGTH = 3
  MAX_FINDINGS_LIST_LENGTH = 8
  MAX_PROVENANCE_LIST_LENGTH = 2
  MAX_REASONS_LIST_LENGTH = 2
  MAX_SPEC_GROUNDING_SUMMARY_COMMENT_LENGTH = 20
  MAX_SKIPPED_BLOCKER_ISSUE_NUMBERS_LIST_LENGTH = 42
  MAX_ANNOTATION_SCAN_LINES = 4
  MAX_ANNOTATION_ISSUE_FETCHES = 2
  MAX_ANNOTATION_PATCHES = 1
INVARIANTS ApprovalHonest ReadyMeansAuthorized OneOpenPull FlagVisible CriteriaKept ArtifactsAgree GlobalsKept ClosureComplete SurfaceKept BlockersKept
PROPERTIES PushAuthorized StaleApplyWritesNothing
CHECK_DEADLOCK FALSE

---------------------------- MODULE ImportClosure ---------------------------
(***************************************************************************)
(* The walk over the static imports of the factory's scripts               *)
(* (verifyNodeClosure in scripts/factory/node-import-closure-verifier.mts) *)
(* while people edit the checkout: every file that the entrypoints reach   *)
(* is read once, checked, and its imports are followed or must have been   *)
(* reviewed.  One violation and there is no evidence at all.               *)
(*                                                                         *)
(* Contents has names for what a file may hold: [size, utf8, parses, tree, *)
(* edges].  An edge is [to, plain, types, process]: to is a path,          *)
(* Elsewhere, or a module; plain if it is a literal without attributes or  *)
(* phase; types if nothing of it is left at run time; process if it is     *)
(* exactly the import of spawnSync.  A path is the place of the file in    *)
(* the order of names, in which the walk goes.  Every write gives a file   *)
(* another version, as its times and inode do.                             *)
(***************************************************************************)
EXTENDS FiniteSets, SequencesExt, RuntimeSource, Absent

CONSTANTS
  Paths,       \* safe paths of .mts files under the trusted root
  Elsewhere,   \* any other file
  Builtins, Packages,   \* names of modules
  PROCESS,     \* the module that starts processes
  Installed,   \* module -> what it resolves to here
  LockedFiles, \* the plain files under node_modules
  Names, Contents,      \* names of what a file may hold, and what each holds
  FORBIDDEN_MODULES,         \* no rule may allow them
  RUNTIME_FORBIDDEN_MODULES, \* nor may a program import them
  ADAPTER_PATH, ADAPTER_SOURCE,   \* the one file that may start a process, and its content
  MAX_NODE_CLOSURE_FILES, MAX_NODE_CLOSURE_EDGES, MAX_NODE_SOURCE_BYTES,
  MAX_NODE_CLOSURE_BYTES, MAX_NODE_AST_NODES, MAX_NODE_AST_DEPTH,
  Checkouts,   \* what the files may hold at first: path -> name
  Requests,    \* what may be asked for
  MaxEdits     \* bound on edits

ASSUME ClosureAssumption ==
  /\ Paths \subseteq Nat /\ Checkouts \subseteq [Paths -> Names]
  /\ \A name \in Names :
       /\ Contents[name].size \in Nat /\ IsFiniteSet(DOMAIN Contents[name].edges)
       /\ ProperTree(Contents[name].tree)
  /\ PROCESS \in RUNTIME_FORBIDDEN_MODULES
  /\ MAX_NODE_CLOSURE_EDGES \in Nat

VARIABLES
  disk,    \* path -> [is, content, version]: is "file", "link" or "missing"
  edits,   \* edits so far
  walk     \* the verifier: what it has read and found

closureVars == <<disk, edits, walk>>

\* files holds what was read of each file that parses: [path, content, version].
NoWalk ==
  [pc |-> "asked", request |-> None, pending |-> {}, attempted |-> {}, inspected |-> {},
   files |-> {}, violations |-> {}, edges |-> 0, bytes |-> 0,
   path |-> None, version |-> 0, content |-> None]

ClosureInit ==
  /\ \E names \in Checkouts :
       disk = [p \in Paths |-> [is |-> "file", content |-> names[p], version |-> 0]]
  /\ edits = 0
  /\ \E r \in Requests : walk = [NoWalk EXCEPT !.request = r]

-----------------------------------------------------------------------------
(* The request: [mode, root, class, rootsComplete, entrypoints, rules].    *)
(* root is "protected", "snowflake", "neither" or "no directory".          *)

externalRule(rule) ==
  /\ rule.specifier \notin FORBIDDEN_MODULES
  /\ \/ /\ rule.kind = "node-builtin" /\ rule.specifier \in Builtins
        /\ rule.resolvedTarget = rule.specifier
     \/ /\ rule.kind = "locked-package" /\ rule.specifier \in Packages
        /\ rule.resolvedTarget \in LockedFiles

requestFailure(r) ==
  \/ ~r.rootsComplete
  \/ r.entrypoints = <<>>
  \/ \E k \in DOMAIN r.entrypoints : r.entrypoints[k] \notin Paths
  \/ \E j, k \in DOMAIN r.entrypoints : j # k /\ r.entrypoints[j] = r.entrypoints[k]
  \/ r.class \notin {"protected-glue", "trusted-main-snowflake"}
  \/ r.class = "protected-glue" /\ r.root # "protected"
  \/ r.class = "trusted-main-snowflake" /\ r.root # "snowflake"
  \/ \E k \in DOMAIN r.rules : ~externalRule(r.rules[k])
  \/ \E j, k \in DOMAIN r.rules : j # k /\ r.rules[j].specifier = r.rules[k].specifier

\* More than can be walked is refused before anything else is looked at.
snapshotRequest(r) ==
  /\ Len(r.entrypoints) <= MAX_NODE_CLOSURE_FILES
  /\ Len(r.rules) <= MAX_NODE_CLOSURE_EDGES
  /\ ~requestFailure(r)

Refused(kind) == walk' = [NoWalk EXCEPT !.pc = "done", !.request = walk.request, !.violations = {kind}]

Starts ==
  /\ walk.pc = "asked"
  /\ LET r == walk.request
     IN \/ ~snapshotRequest(r) /\ Refused("invalid-input")
        \/ snapshotRequest(r) /\ r.root = "no directory" /\ Refused("unsafe-path")
        \/ /\ snapshotRequest(r) /\ r.root # "no directory"
           /\ walk' = [walk EXCEPT !.pc = "walking", !.pending = ToSet(r.entrypoints)]
  /\ UNCHANGED <<disk, edits>>

-----------------------------------------------------------------------------
(* One file: inspected, read, and looked at again.                         *)

inspectPath(p) == disk[p].is = "file"

\* Over a limit of the whole walk, it stops with what it has found.
Inspects ==
  /\ walk.pc = "walking" /\ walk.pending # {}
  /\ LET p == CHOOSE q \in walk.pending : \A other \in walk.pending : q <= other
         size == Contents[disk[p].content].size
         popped == [walk EXCEPT !.pending = @ \ {p}, !.attempted = @ \cup {p}]
         counted == [popped EXCEPT !.inspected = @ \cup {p}, !.bytes = @ + size]
         limited == [counted EXCEPT !.violations = @ \cup {"resource-limit"}]
     IN \/ p \in walk.attempted /\ walk' = popped
        \/ /\ p \notin walk.attempted /\ ~inspectPath(p)
           /\ walk' = [popped EXCEPT !.violations = @ \cup {"unsafe-path"}]
        \/ /\ p \notin walk.attempted /\ inspectPath(p)
           /\ \/ /\ Cardinality(walk.inspected) >= MAX_NODE_CLOSURE_FILES
                 /\ walk' = [popped EXCEPT !.violations = @ \cup {"resource-limit"}, !.pending = {}]
              \/ /\ Cardinality(walk.inspected) < MAX_NODE_CLOSURE_FILES
                 /\ \/ /\ walk.bytes + size > MAX_NODE_CLOSURE_BYTES
                       /\ walk' = [limited EXCEPT !.pending = {}]
                    \/ /\ walk.bytes + size <= MAX_NODE_CLOSURE_BYTES
                       /\ size > MAX_NODE_SOURCE_BYTES /\ walk' = limited
                    \/ /\ walk.bytes + size <= MAX_NODE_CLOSURE_BYTES
                       /\ size <= MAX_NODE_SOURCE_BYTES
                       /\ walk' = [counted EXCEPT !.pc = "reading", !.path = p,
                                                  !.version = disk[p].version]
  /\ UNCHANGED <<disk, edits>>

Continues(kinds) ==
  walk' = [walk EXCEPT !.pc = "walking", !.violations = @ \cup kinds, !.path = None,
                       !.version = 0, !.content = None]

\* readFileSync follows a link, to a file that may hold anything.
ReadsFile ==
  /\ walk.pc = "reading"
  /\ \/ disk[walk.path].is = "missing" /\ Continues({"unsafe-path"})
     \/ \E name \in Names :
          /\ disk[walk.path].is = "link" \/ (disk[walk.path].is = "file" /\ name = disk[walk.path].content)
          /\ walk' = [walk EXCEPT !.pc = "read", !.content = name]
  /\ UNCHANGED <<disk, edits>>

\* FAULT: any file will do.
StillAFile == disk[walk.path].is = "file"

sameFile == disk[walk.path].is = "file" /\ disk[walk.path].version = walk.version

-----------------------------------------------------------------------------
(* What was read.                                                          *)

Source == Contents[walk.content]
executable == walk.request.mode = "executable"

adapterProcessImport(path, edge) ==
  executable /\ path = ADAPTER_PATH /\ edge.to = PROCESS /\ edge.process

\* The places of the imports that are left at run time.
RuntimeEdges(source) == {k \in DOMAIN source.edges : ~source.edges[k].types}

externalFailure(request, m) ==
  ~\E k \in DOMAIN request.rules :
     /\ request.rules[k].specifier = m /\ Installed[m] = request.rules[k].resolvedTarget
     /\ request.rules[k].kind = "locked-package" => Installed[m] \in LockedFiles

\* The path decides whether the source must be the registered one, and whether it may
\* import the module that starts processes.
Incapable(path, name) ==
  \/ path = ADAPTER_PATH /\ name # ADAPTER_SOURCE
  \/ runtimeCapabilityViolations(Contents[name].tree) # {}
  \/ \E k \in RuntimeEdges(Contents[name]) :
       LET e == Contents[name].edges[k]
       IN e.to \in RUNTIME_FORBIDDEN_MODULES /\ ~(path = ADAPTER_PATH /\ e.process)

\* The imports in their order, until there are too many: from there on none is looked at,
\* and nothing is pending.
FollowsEdges(w) ==
  LET edge == Contents[w.content].edges
      runtime == RuntimeEdges(Contents[w.content])
      over == w.edges + Cardinality(runtime) > MAX_NODE_CLOSURE_EDGES
      looked == {k \in runtime :
                   w.edges + Cardinality({j \in runtime : j <= k}) <= MAX_NODE_CLOSURE_EDGES}
      relative == {k \in looked : edge[k].plain /\ edge[k].to \in Paths}
      process == {k \in looked \ relative : edge[k].plain /\ adapterProcessImport(w.path, edge[k])}
      unsupported == {k \in looked : ~edge[k].plain \/ edge[k].to = Elsewhere}
      external == looked \ (relative \cup process \cup unsupported)
      Found(kind, is) == {k \in {kind} : is}
  IN [edges |-> IF over THEN MAX_NODE_CLOSURE_EDGES + 1 ELSE w.edges + Cardinality(runtime),
      pending |-> IF over THEN {} ELSE w.pending \cup {edge[k].to : k \in relative},
      imports |-> Cardinality(process),
      found |-> Found("resource-limit", over)
        \cup Found("unsupported-import", unsupported # {})
        \cup Found("unsafe-runtime-capability", Cardinality(process) > 1)
        \cup Found("unapproved-external-module",
                   \E k \in external : externalFailure(w.request, edge[k].to))]

Analyses ==
  LET followed == FollowsEdges(walk)
      found ==
        followed.found
          \cup (IF executable /\ Incapable(walk.path, walk.content)
                THEN {"unsafe-runtime-capability"} ELSE {})
          \cup (IF executable /\ walk.path = ADAPTER_PATH /\ followed.imports # 1
                THEN {"unsafe-runtime-capability"} ELSE {})
  IN walk' = [walk EXCEPT !.pc = "walking", !.path = None, !.version = 0, !.content = None,
                          !.files = @ \cup {[path |-> walk.path, content |-> walk.content,
                                             version |-> walk.version]},
                          !.violations = @ \cup found, !.edges = followed.edges,
                          !.pending = followed.pending]

ChecksFile ==
  /\ walk.pc = "read"
  /\ LET tooComplex ==
           executable /\ runtimeAstLimitFailure(Source.tree, MAX_NODE_AST_NODES, MAX_NODE_AST_DEPTH)
     IN \/ ~sameFile /\ Continues({"unsafe-path"})
        \/ sameFile /\ ~Source.utf8 /\ Continues({"parse-error"})
        \/ sameFile /\ Source.utf8 /\ tooComplex /\ Continues({"resource-limit"})
        \/ /\ sameFile /\ Source.utf8 /\ ~tooComplex /\ ~Source.parses
           /\ Continues({"parse-error"})
        \/ sameFile /\ Source.utf8 /\ ~tooComplex /\ Source.parses /\ Analyses
  /\ UNCHANGED <<disk, edits>>

\* Any violation erases the evidence.
Ends ==
  /\ walk.pc = "walking" /\ walk.pending = {}
  /\ \/ /\ walk.violations # {}
        /\ walk' = [NoWalk EXCEPT !.pc = "done", !.request = walk.request,
                                  !.violations = walk.violations]
     \/ walk.violations = {} /\ walk' = [walk EXCEPT !.pc = "done"]
  /\ UNCHANGED <<disk, edits>>

\* Somebody writes, removes or replaces a file while the walk goes on.
Edits(p) ==
  /\ walk.pc # "done" /\ edits < MaxEdits
  /\ \E is \in {"file", "link", "missing"}, name \in Names :
       /\ is # "file" => name = disk[p].content
       /\ disk' = [disk EXCEPT ![p] = [is |-> is, content |-> name, version |-> @.version + 1]]
  /\ edits' = edits + 1
  /\ UNCHANGED walk

ClosureNext == Starts \/ Inspects \/ ReadsFile \/ ChecksFile \/ Ends \/ \E p \in Paths : Edits(p)

ClosureSpec == ClosureInit /\ [][ClosureNext]_closureVars

-----------------------------------------------------------------------------
Evidence == walk.pc = "done" /\ walk.violations = {}

FilePaths == {f.path : f \in walk.files}
Imported(f) == {Contents[f.content].edges[k] : k \in RuntimeEdges(Contents[f.content])}
RelativeImports(f) == {e.to : e \in Imported(f)} \cap Paths

\* The bytes and the imports of some files.
BytesOf(files) == UNION {{f} \X (1 .. Contents[f.content].size) : f \in files}
EdgesOf(files) == UNION {{f} \X RuntimeEdges(Contents[f.content]) : f \in files}

\* What evidence says of a file: every module it imports from outside was reviewed and
\* resolves as reviewed, processes are started by the registered source in its place, and
\* no program reaches for what the machine gives every program.
Reviewed(f) ==
  /\ \A e \in Imported(f) :
       /\ e.plain
       /\ \/ e.to \in Paths \/ adapterProcessImport(f.path, e)
          \/ \E rule \in ToSet(walk.request.rules) :
               rule.specifier = e.to /\ rule.resolvedTarget = Installed[e.to]
  /\ executable /\ PROCESS \in {e.to : e \in Imported(f)} =>
       f.path = ADAPTER_PATH /\ f.content = ADAPTER_SOURCE
  /\ executable => ReachesNoGlobal(Contents[f.content].tree)

\* Evidence is of the whole program: it has the entrypoints and is closed under the imports
\* of what was read, and has no file that nothing asked for; every module it imports from
\* outside was reviewed and resolves as reviewed; sizes and imports are counted; and nothing
\* of it was torn by an edit: what was read is what the file held at the version it had when
\* it was inspected.  An executable one starts processes only through the one registered
\* source, in its one place, and none of its files touches eval, process or another of the
\* machine's globals (node-import-closure-verifier.mts:1384).
ClosureComplete ==
  Evidence =>
    /\ ToSet(walk.request.entrypoints) \subseteq FilePaths
    /\ \A f \in walk.files :
         /\ RelativeImports(f) \subseteq FilePaths
         /\ Reviewed(f)
         /\ f.path \in ToSet(walk.request.entrypoints)
              \/ \E g \in walk.files : f.path \in RelativeImports(g)
         /\ disk[f.path].version = f.version =>
              disk[f.path].is = "file" /\ disk[f.path].content = f.content
    /\ Cardinality(FilePaths) = Cardinality(walk.files)
    /\ walk.bytes = Cardinality(BytesOf(walk.files))
    /\ walk.edges = Cardinality(EdgesOf(walk.files))

=============================================================================

------------------------ MODULE ImportClosure_proofs ------------------------
(***************************************************************************)
(* Proofs about the walk over the imports of the factory's scripts.        *)
(*                                                                         *)
(* The invariant speaks of a walk that has found nothing wrong so far: any *)
(* violation erases the evidence.  What such a walk has looked at it has   *)
(* read, whole, at the version it had inspected; all that is imported by   *)
(* what it read is pending or read; and it has counted what it read.  That *)
(* the analysis of one syntax tree misses nothing is proved apart from the *)
(* walk: the scopes a name is looked up in are those of the language.      *)
(***************************************************************************)
EXTENDS ImportClosure, FiniteSetTheorems, TLAPS

AtFile == walk.pc \in {"reading", "read"}
Clean == walk.violations = {} /\ walk.pc # "asked"
ReadFile == [path : Paths, content : Names, version : Nat]
Wanted == ToSet(walk.request.entrypoints) \cup UNION {RelativeImports(f) : f \in walk.files}

ClosureTypeOK ==
  /\ disk \in [Paths -> [is : {"file", "link", "missing"}, content : Names, version : Nat]]
  /\ walk = [pc |-> walk.pc, request |-> walk.request, pending |-> walk.pending,
             attempted |-> walk.attempted, inspected |-> walk.inspected, files |-> walk.files,
             violations |-> walk.violations, edges |-> walk.edges, bytes |-> walk.bytes,
             path |-> walk.path, version |-> walk.version, content |-> walk.content]
  /\ walk.pc \in {"asked", "walking", "reading", "read", "done"}
  /\ walk.pc = "asked" => walk = [NoWalk EXCEPT !.request = walk.request]
  /\ walk.pending \subseteq Paths
  /\ walk.files \subseteq ReadFile
  /\ walk.edges \in Nat
  /\ AtFile => walk.path \in Paths
  /\ walk.pc = "read" => walk.content \in Names

\* A file that still has the version it was inspected at holds what was read of it.
Untorn ==
  /\ \A f \in walk.files :
       /\ f.version <= disk[f.path].version
       /\ f.version = disk[f.path].version =>
            disk[f.path].is = "file" /\ disk[f.path].content = f.content
  /\ AtFile =>
       /\ walk.version \in Nat /\ walk.version <= disk[walk.path].version
       /\ walk.version = disk[walk.path].version =>
            /\ disk[walk.path].is = "file"
            /\ walk.pc = "read" => disk[walk.path].content = walk.content

\* What was looked at was read, and what is wanted was looked at or will be.
Reached ==
  Clean =>
    /\ walk.attempted = FilePaths \cup {p \in {walk.path} : AtFile}
    /\ AtFile => walk.path \notin FilePaths
    /\ Wanted = walk.pending \cup walk.attempted
    /\ walk.pc = "done" => walk.pending = {}
    /\ \A f \in walk.files : Reviewed(f)

Tallied ==
  Clean =>
    /\ IsFiniteSet(walk.files) /\ IsFiniteSet(FilePaths)
    /\ Cardinality(FilePaths) = Cardinality(walk.files)
    /\ IsFiniteSet(BytesOf(walk.files)) /\ IsFiniteSet(EdgesOf(walk.files))
    /\ walk.edges = Cardinality(EdgesOf(walk.files))
    /\ ~AtFile => walk.bytes = Cardinality(BytesOf(walk.files))
    /\ AtFile /\ walk.version = disk[walk.path].version =>
         walk.bytes = Cardinality(BytesOf(walk.files)) + Contents[disk[walk.path].content].size

ClosureInv == ClosureTypeOK /\ Untorn /\ Reached /\ Tallied

-----------------------------------------------------------------------------
\* A set of naturals has a least element, the place where the walk goes on.
LEMMA LeastPlace ==
  ASSUME NEW T, T \subseteq Nat, T # {}
  PROVE  \E n \in T : \A m \in T : n <= m
<1> DEFINE R == StrictSubsetOrdering(Nat)
           D == {0 .. n : n \in T}
<1>1. \A n \in T : (0 .. n) \in SUBSET Nat /\ IsFiniteSet(0 .. n)
  <2>1. \A n \in T : n \in Int /\ (0 .. n) \subseteq Nat
    OBVIOUS
  <2> QED
    BY <2>1, FS_Interval
<1>2. D \subseteq FiniteSubsetsOf(Nat) /\ D # {}
  BY <1>1, Zenon DEF FiniteSubsetsOf
<1>3. \A x, y \in SUBSET Nat : <<y, x>> \in R <=> (y \subseteq x /\ x # y)
  BY DEF StrictSubsetOrdering
<1>4. IsWellFoundedOn(R, FiniteSubsetsOf(Nat))
  BY FS_StrictSubsetOrderingWellFounded
<1> HIDE DEF R
<1>5. PICK x \in D : \A y \in D : ~ (<<y, x>> \in R)
  BY <1>2, <1>4, WFMin
<1>6. PICK n \in T : x = 0 .. n
  BY <1>5
<1>7. ASSUME NEW m \in T, ~ (n <= m)
      PROVE  FALSE
  <2>1. (0 .. m) \subseteq (0 .. n) /\ n \in 0 .. n /\ n \notin 0 .. m
    BY <1>7
  <2>2. (0 .. m) \in D /\ (0 .. m) \in SUBSET Nat /\ (0 .. n) \in SUBSET Nat
    BY <1>1
  <2>3. <<0 .. m, 0 .. n>> \in R
    BY <1>3, <2>1, <2>2
  <2> QED
    BY <1>5, <1>6, <2>2, <2>3
<1> QED
  BY <1>7

-----------------------------------------------------------------------------
(* The analysis of one program.                                            *)

\* What the parser promises of a node, one by one.
LEMMA TreeFacts ==
  ASSUME NEW tree, ProperTree(tree)
  PROVE  /\ Len(tree) \in Nat /\ DOMAIN tree = 1 .. Len(tree)
         /\ \A n \in 1 .. Len(tree) :
              /\ tree[n].up \in 0 .. n - 1
              /\ tree[n].kind = "catch" => tree[n].form = ""
              /\ tree[n].kind = "parameter" =>
                   /\ tree[n].form \in {"", "property"} /\ tree[n].up # ROOT
                   /\ tree[tree[n].up].kind = "function"
              /\ tree[n].kind = "identifier" /\ tree[n].form = "receiver" =>
                   tree[n].up # ROOT /\ tree[tree[n].up].kind = "access"
<1>1. tree \in Seq(TreeNode)
  BY Zenon DEF ProperTree
<1>2. Len(tree) \in Nat /\ DOMAIN tree = 1 .. Len(tree)
  BY <1>1
<1> QED
  BY <1>2, Zenon DEF ProperTree

LEMMA ParentFirst ==
  ASSUME NEW tree, ProperTree(tree)
  PROVE  /\ Len(tree) \in Nat /\ DOMAIN tree = 1 .. Len(tree)
         /\ \A n \in 1 .. Len(tree) : tree[n].up \in 0 .. n - 1
<1>1. \A n \in 1 .. Len(tree) : tree[n].up \in 0 .. n - 1
  BY TreeFacts, Zenon
<1> QED
  BY <1>1, TreeFacts, Zenon

\* A node's chain is the node itself and its parent's chain.
LEMMA ChainRule ==
  ASSUME NEW tree, ProperTree(tree)
  PROVE  /\ Chain(tree)[ROOT] = {ROOT}
         /\ \A n \in 1 .. Len(tree) : Chain(tree)[n] = {n} \cup Chain(tree)[tree[n].up]
<1> DEFINE N == Len(tree)
           Upto(n) == \E f : f = [m \in 0 .. n |-> IF m = ROOT THEN {ROOT} ELSE {m} \cup f[tree[m].up]]
           T == {n \in 0 .. N : ~ Upto(n)}
<1>1. N \in Nat
  BY ParentFirst
<1>2. T = {}
  <2> SUFFICES ASSUME T # {} PROVE FALSE
    OBVIOUS
  <2>1. T \subseteq Nat
    BY <1>1
  <2> HIDE DEF T
  <2>2. PICK n \in T : \A m \in T : n <= m
    BY <2>1, LeastPlace
  <2>3. n \in 0 .. N /\ ~ Upto(n)
    BY <2>2 DEF T
  <2>4. n # 0
    <3>1. Upto(0)
      <4> WITNESS [m \in 0 .. 0 |-> {ROOT}]
      <4> QED
        BY DEF ROOT
    <3> QED
      BY <2>3, <3>1
  <2>5. Upto(n - 1)
    <3>1. n - 1 \in 0 .. N /\ n - 1 \notin T
      BY <1>1, <2>2, <2>3, <2>4
    <3> QED
      BY <3>1 DEF T
  <2>6. PICK f : f = [m \in 0 .. n - 1 |-> IF m = ROOT THEN {ROOT} ELSE {m} \cup f[tree[m].up]]
    BY <2>5
  <2> DEFINE g == [m \in 0 .. n |-> IF m = n THEN {n} \cup f[tree[n].up] ELSE f[m]]
  <2>7. ASSUME NEW m \in 0 .. n
        PROVE  g[m] = IF m = ROOT THEN {ROOT} ELSE {m} \cup g[tree[m].up]
    <3>1. m # 0 => tree[m].up \in 0 .. m - 1
      <4>1. m # 0 => m \in 1 .. N
        BY <1>1, <2>3
      <4> QED
        BY <4>1, ParentFirst
    <3>2. m # 0 => g[tree[m].up] = f[tree[m].up]
      BY <1>1, <2>3, <3>1
    <3>3. m # n => f[m] = IF m = ROOT THEN {ROOT} ELSE {m} \cup f[tree[m].up]
      <4>1. m # n => m \in 0 .. n - 1
        BY <2>3
      <4> QED
        BY <2>6, <4>1
    <3> QED
      BY <2>4, <3>2, <3>3 DEF ROOT
  <2>8. g = [m \in 0 .. n |-> IF m = ROOT THEN {ROOT} ELSE {m} \cup g[tree[m].up]]
    BY <2>7
  <2> HIDE DEF g
  <2> QED
    BY <2>3, <2>8
<1>3. Upto(N)
  <2>1. N \in 0 .. N
    BY <1>1
  <2> QED
    BY <1>2, <2>1, Zenon
<1> HIDE DEF T
<1>4. Chain(tree) =
        [m \in 0 .. N |-> IF m = ROOT THEN {ROOT} ELSE {m} \cup Chain(tree)[tree[m].up]]
  BY <1>3, Zenon DEF Chain
<1> QED
  BY <1>1, <1>4 DEF ROOT

\* A chain goes from its node to the source file, over nodes that come before.
LEMMA ChainBounds ==
  ASSUME NEW tree, ProperTree(tree), NEW n \in 0 .. Len(tree)
  PROVE  Chain(tree)[n] \subseteq 0 .. n /\ ROOT \in Chain(tree)[n] /\ n \in Chain(tree)[n]
<1> DEFINE Bounded(k) ==
             Chain(tree)[k] \subseteq 0 .. k /\ ROOT \in Chain(tree)[k] /\ k \in Chain(tree)[k]
           T == {k \in 0 .. Len(tree) : ~ Bounded(k)}
<1>1. Len(tree) \in Nat /\ \A m \in 1 .. Len(tree) : tree[m].up \in 0 .. m - 1
  BY ParentFirst
<1> SUFFICES ASSUME T # {} PROVE FALSE
  OBVIOUS
<1>2. T \subseteq Nat
  BY <1>1
<1> HIDE DEF T
<1>3. PICK k \in T : \A m \in T : k <= m
  BY <1>2, LeastPlace
<1>4. k \in 0 .. Len(tree) /\ ~ Bounded(k)
  BY <1>3 DEF T
<1>5. k # 0
  BY <1>4, ChainRule DEF ROOT
<1> DEFINE up == tree[k].up
<1>6. up \in 0 .. k - 1 /\ up \in 0 .. Len(tree)
  BY <1>1, <1>4, <1>5
<1>7. Bounded(up)
  BY <1>3, <1>4, <1>6 DEF T
<1>8. Chain(tree)[k] = {k} \cup Chain(tree)[up]
  BY <1>4, <1>5, ChainRule
<1> QED
  BY <1>1, <1>4, <1>6, <1>7, <1>8

\* Two nodes of a chain are one above the other.
LEMMA ChainOrder ==
  ASSUME NEW tree, ProperTree(tree), NEW n \in 0 .. Len(tree),
         NEW a \in Chain(tree)[n], NEW b \in Chain(tree)[n], a <= b
  PROVE  a \in Chain(tree)[b]
<1> DEFINE T == {k \in 0 .. Len(tree) :
                   \E i, j \in Chain(tree)[k] : i <= j /\ i \notin Chain(tree)[j]}
<1>1. Len(tree) \in Nat /\ \A m \in 1 .. Len(tree) : tree[m].up \in 0 .. m - 1
  BY ParentFirst
<1> SUFFICES ASSUME T # {} PROVE FALSE
  OBVIOUS
<1>2. T \subseteq Nat
  BY <1>1
<1> HIDE DEF T
<1>3. PICK k \in T : \A m \in T : k <= m
  BY <1>2, LeastPlace
<1>4. PICK i \in Chain(tree)[k], j \in Chain(tree)[k] : i <= j /\ i \notin Chain(tree)[j]
  BY <1>3 DEF T
<1>5. k \in 0 .. Len(tree) /\ Chain(tree)[k] \subseteq 0 .. k
  BY <1>3, ChainBounds DEF T
<1>6. j # k
  BY <1>4
<1>7. k # 0
  BY <1>4, <1>6, ChainRule DEF ROOT
<1> DEFINE up == tree[k].up
<1>8. up \in 0 .. k - 1 /\ up \in 0 .. Len(tree)
  BY <1>1, <1>5, <1>7
<1>9. Chain(tree)[k] = {k} \cup Chain(tree)[up] /\ Chain(tree)[up] \subseteq 0 .. up
  BY <1>5, <1>7, <1>8, ChainRule, ChainBounds
<1>10. i \in Chain(tree)[up] /\ j \in Chain(tree)[up]
  BY <1>4, <1>5, <1>6, <1>8, <1>9
<1>11. up \in T
  BY <1>4, <1>8, <1>10 DEF T
<1> QED
  BY <1>3, <1>5, <1>8, <1>11

\* What is above a node of a chain is in the chain.
LEMMA ChainAbove ==
  ASSUME NEW tree, ProperTree(tree), NEW n \in 0 .. Len(tree), NEW b \in Chain(tree)[n]
  PROVE  Chain(tree)[b] \subseteq Chain(tree)[n]
<1> DEFINE T == {k \in 0 .. Len(tree) :
                   \E j \in Chain(tree)[k] : ~ (Chain(tree)[j] \subseteq Chain(tree)[k])}
<1>1. Len(tree) \in Nat /\ \A m \in 1 .. Len(tree) : tree[m].up \in 0 .. m - 1
  BY ParentFirst
<1> SUFFICES ASSUME T # {} PROVE FALSE
  OBVIOUS
<1>2. T \subseteq Nat
  BY <1>1
<1> HIDE DEF T
<1>3. PICK k \in T : \A m \in T : k <= m
  BY <1>2, LeastPlace
<1>4. k \in 0 .. Len(tree)
  BY <1>3 DEF T
<1>5. PICK j \in Chain(tree)[k] : ~ (Chain(tree)[j] \subseteq Chain(tree)[k])
  BY <1>3 DEF T
<1>6. j # k
  BY <1>5
<1>7. k # 0
  BY <1>5, <1>6, ChainRule DEF ROOT
<1> DEFINE up == tree[k].up
<1>8. up \in 0 .. k - 1 /\ up \in 0 .. Len(tree)
  BY <1>1, <1>4, <1>7
<1>9. Chain(tree)[k] = {k} \cup Chain(tree)[up]
  BY <1>4, <1>7, ChainRule
<1>10. j \in Chain(tree)[up] /\ ~ (Chain(tree)[j] \subseteq Chain(tree)[up])
  BY <1>5, <1>6, <1>9
<1>11. up \in T
  BY <1>8, <1>10 DEF T
<1> QED
  BY <1>3, <1>4, <1>8, <1>11

\* A set of numbers that is bounded has a greatest one.
LEMMA DeepestOf ==
  ASSUME NEW n \in Nat, NEW S, S \subseteq 0 .. n, S # {}
  PROVE  Deepest(S) \in S /\ \A m \in S : m <= Deepest(S)
<1> DEFINE T == {n - m : m \in S}
<1>1. T \subseteq Nat /\ T # {}
  <2>1. \A m \in S : n - m \in Nat /\ n - m \in T
    OBVIOUS
  <2> QED
    BY <2>1
<1>2. PICK k \in T : \A m \in T : k <= m
  <2> HIDE DEF T
  <2> QED
    BY <1>1, LeastPlace
<1>3. PICK d \in S : k = n - d
  BY <1>2
<1>4. \A m \in S : m <= d
  <2> TAKE m \in S
  <2>1. n - d <= n - m /\ m \in 0 .. n /\ d \in 0 .. n
    BY <1>2, <1>3
  <2> QED
    BY <2>1
<1> QED
  BY <1>3, <1>4, Zenon DEF Deepest

\* Where the scope stands that a declaration is found in, everything around it that could
\* be a scope stands around as well.
LEMMA ScopesAbove ==
  ASSUME NEW tree, ProperTree(tree), NEW n \in 0 .. Len(tree), NEW k \in 0 .. Len(tree),
         NEW S, S \subseteq Chain(tree)[k], S # {}, Deepest(S) \in Chain(tree)[n]
  PROVE  S \subseteq Chain(tree)[n]
<1>1. Chain(tree)[k] \subseteq 0 .. k /\ k \in Nat
  BY ChainBounds
<1>2. Deepest(S) \in S /\ \A s \in S : s <= Deepest(S)
  BY <1>1, DeepestOf
<1>3. S \subseteq Chain(tree)[Deepest(S)]
  BY <1>2, ChainOrder
<1> QED
  BY <1>3, ChainAbove

-----------------------------------------------------------------------------
\* One declaration: where the analysis finds its name bound, the language has it bound.
LEMMA BoundInRegion ==
  ASSUME NEW tree, ProperTree(tree), NEW n \in DOMAIN tree, NEW d \in DOMAIN tree, NEW name,
         NEW scope \in Chain(tree)[n], <<name, scope>> \in collectRuntimeScopes(tree, d)
  PROVE  tree[d].name = name /\ n \in Region(tree, d)
<1> DEFINE node == tree[d]
           Chained == Chain(tree)
<1>1. /\ n \in 0 .. Len(tree) /\ d \in 1 .. Len(tree) /\ d \in 0 .. Len(tree) /\ Len(tree) \in Nat
      /\ node.up \in 0 .. d - 1 /\ node.up \in 0 .. Len(tree)
  <2>1. n \in 1 .. Len(tree) /\ d \in 1 .. Len(tree) /\ Len(tree) \in Nat
    BY ParentFirst
  <2>2. node.up \in 0 .. d - 1
    BY <2>1, ParentFirst
  <2> QED
    BY <2>1, <2>2
<1>2. /\ Chained[d] = {d} \cup Chained[node.up] /\ Chained[node.up] \subseteq 0 .. node.up
      /\ d \notin Chained[node.up] /\ ROOT \in Chained[node.up] /\ ROOT \in Chained[d] /\ d # ROOT
      /\ Chained[d] \subseteq 0 .. d /\ node.up \in Chained[node.up]
  BY <1>1, ChainRule, ChainBounds DEF ROOT
<1>3. Chained[d] \ {d} = Chained[node.up]
  BY <1>2
<1> DEFINE LexicalScopes(k) == {m \in Chained[k] : runtimeScopeBoundary(tree, m)}
           Bodies(k) == {m \in Chained[k] : FunctionScopes(tree, m)}
<1>4. runtimeScopeBoundary(tree, ROOT) /\ FunctionScopes(tree, ROOT)
  BY DEF runtimeScopeBoundary, FunctionScopes
<1>5. \A k \in {d, node.up} : ROOT \in LexicalScopes(k) /\ ROOT \in Bodies(k)
  BY <1>2, <1>4
<1>6. ASSUME NEW k \in {d, node.up}, scope = LexicalScope(tree, k)
      PROVE  LexicalScopes(k) \subseteq Chained[n]
  <2>1. LexicalScopes(k) \subseteq Chain(tree)[k] /\ LexicalScopes(k) # {} /\ k \in 0 .. Len(tree)
    BY <1>1, <1>5
  <2>2. Deepest(LexicalScopes(k)) \in Chain(tree)[n]
    BY <1>6 DEF LexicalScope
  <2> HIDE DEF LexicalScopes
  <2> QED
    BY <1>1, <2>1, <2>2, ScopesAbove
<1>7. ASSUME scope = FunctionScope(tree, d)
      PROVE  Bodies(d) \subseteq Chained[n]
  <2>1. Bodies(d) \subseteq Chain(tree)[d] /\ Bodies(d) # {}
    BY <1>5
  <2>2. Deepest(Bodies(d)) \in Chain(tree)[n]
    BY <1>7 DEF FunctionScope
  <2> HIDE DEF Bodies
  <2> QED
    BY <1>1, <2>1, <2>2, ScopesAbove
<1> DEFINE Around(m) ==
             \A s \in Chain(tree)[d] \ {d} :
               s = ROOT \/ tree[s].kind \in {"function", "class", "block", "catch"} => Inside(tree, m, s)
           FunctionAround(m) ==
             \A s \in Chain(tree)[d] \ {d} :
               s # ROOT /\ FunctionScopes(tree, s) => Inside(tree, m, s)
<1>8. ASSUME NEW k \in {d, node.up}, scope = LexicalScope(tree, k)
      PROVE  Around(n)
  <2>1. \A s \in Chained[d] \ {d} : s \in Chained[k]
    BY <1>2
  <2>2. \A s \in Chained[d] \ {d} :
          s = ROOT \/ tree[s].kind \in {"function", "class", "block", "catch"}
            => s \in LexicalScopes(k)
    BY <2>1 DEF runtimeScopeBoundary
  <2> QED
    BY <1>6, <1>8, <2>2 DEF Inside
<1>9. scope = FunctionScope(tree, d) => FunctionAround(n)
  BY <1>7 DEF Inside
<1> HIDE DEF Around, FunctionAround
<1>10. name = node.name
  BY DEF collectRuntimeScopes
<1>11. \/ /\ node.kind \in {"function", "class"} /\ node.form = "declaration"
          /\ scope = LexicalScope(tree, node.up)
       \/ node.kind \in {"function", "class"} /\ node.form = "expression" /\ scope = d
       \/ node.kind = "variable" /\ node.form = "let" /\ scope = LexicalScope(tree, d)
       \/ node.kind = "variable" /\ node.form = "var" /\ scope = FunctionScope(tree, d)
       \/ node.kind = "parameter" /\ scope = FunctionScope(tree, d)
       \/ node.kind = "catch" /\ scope = d
       \/ node.kind = "imported name" /\ node.form = "value" /\ scope = LexicalScope(tree, d)
  BY DEF collectRuntimeScopes
<1>12. ASSUME node.form \notin {"ambient", "type", "overload", "declare"},
              \/ node.kind = "variable" /\ node.form = "var" /\ FunctionAround(n)
              \/ node.kind = "variable" /\ node.form # "var" /\ Around(n)
              \/ node.kind = "imported name" /\ Around(n)
              \/ node.kind \in {"function", "class"} /\ node.form = "declaration" /\ Around(n)
              \/ node.kind \in {"function", "class"} /\ node.form # "declaration" /\ Inside(tree, n, d)
              \/ node.kind = "catch" /\ Inside(tree, n, d)
              \/ node.kind = "parameter" /\ Inside(tree, n, node.up)
       PROVE  n \in Region(tree, d)
  BY <1>12, Zenon DEF Region, Around, FunctionAround
<1>13. CASE node.kind \in {"function", "class"} \/ node.kind = "catch"
  <2>1. node.kind = "catch" => node.form = ""
    BY <1>1, TreeFacts
  <2>2. scope = d => Inside(tree, n, d)
    BY DEF Inside
  <2> QED
    BY <1>8, <1>10, <1>11, <1>12, <1>13, <2>1, <2>2
<1>14. CASE node.kind \in {"variable", "imported name"}
  BY <1>8, <1>9, <1>10, <1>11, <1>12, <1>14
<1>15. CASE node.kind = "parameter"
  <2>1. scope = FunctionScope(tree, d)
    BY <1>11, <1>15
  <2>2. node.form \in {"", "property"} /\ node.up # ROOT /\ tree[node.up].kind = "function"
    BY <1>1, <1>15, TreeFacts
  <2>3. node.up \in Bodies(d)
    BY <1>2, <2>2 DEF FunctionScopes
  <2>4. Inside(tree, n, node.up)
    BY <1>7, <2>1, <2>3 DEF Inside
  <2> QED
    BY <1>10, <1>12, <1>15, <2>2, <2>4
<1> QED
  BY <1>11, <1>13, <1>14, <1>15

\* Shadowing hides no use of a dangerous global, in any program: one that the analysis lets
\* pass reaches none of them, and of the sensitive ones only safe members
\* (node-import-closure-verifier.mts:432).
THEOREM NoProgramEscapes ==
  ASSUME NEW tree, ProperTree(tree)
  PROVE  NoGlobalEscapes(tree)
<1> SUFFICES ASSUME runtimeCapabilityViolations(tree) = {}, NEW n \in DOMAIN tree,
                    tree[n].kind = "identifier", tree[n].form \in {"value", "receiver"},
                    RefersToGlobal(tree, n)
             PROVE  /\ tree[n].name \notin DANGEROUS_GLOBALS
                    /\ tree[n].name \in SENSITIVE_OBJECTS =>
                         /\ tree[n].form = "receiver"
                         /\ tree[tree[n].up].form = "dot"
                         /\ tree[tree[n].up].name \in SAFE_MEMBERS[tree[n].name]
  BY DEF NoGlobalEscapes, ReachesNoGlobal
<1>1. \A m \in DOMAIN tree : ~UnsafeNode(tree, m)
  BY DEF runtimeCapabilityViolations
<1>2. ~locallyBound(tree, tree[n].name, n)
  BY BoundInRegion, Zenon DEF locallyBound, RefersToGlobal
<1>3. valueIdentifier(tree[n])
  BY DEF valueIdentifier
<1>4. tree[n].name \notin DANGEROUS_GLOBALS
  BY <1>1, <1>2, <1>3 DEF UnsafeNode
<1>5. ASSUME tree[n].name \in SENSITIVE_OBJECTS
      PROVE  /\ tree[n].form = "receiver"
             /\ tree[tree[n].up].form = "dot"
             /\ tree[tree[n].up].name \in SAFE_MEMBERS[tree[n].name]
  <2> DEFINE up == tree[n].up
  <2>1. tree[n].form = "receiver"
    BY <1>1, <1>2, <1>3, <1>5 DEF UnsafeNode
  <2>2. up \in DOMAIN tree /\ tree[up].kind = "access"
    <3>1. n \in 1 .. Len(tree) /\ Len(tree) \in Nat /\ up \in 0 .. n - 1
      BY ParentFirst
    <3>2. up # ROOT /\ tree[up].kind = "access"
      BY <2>1, <3>1, TreeFacts, Zenon
    <3> QED
      BY <3>1, <3>2, ParentFirst DEF ROOT
  <2>3. directUnboundIdentifier(tree, up, tree[n].name)
    BY <1>2, <2>1, Zenon DEF directUnboundIdentifier
  <2>4. ~UnsafeAccess(tree, up)
    BY <1>1, <2>2 DEF UnsafeNode
  <2> QED
    BY <1>5, <2>1, <2>2, <2>3, <2>4 DEF UnsafeAccess
<1> QED
  BY <1>4, <1>5

-----------------------------------------------------------------------------
(* Counting.                                                               *)

\* One thing more has its parts counted beside those counted before.
LEMMA OneMoreCounted ==
  ASSUME NEW A, IsFiniteSet(A), NEW D, IsFiniteSet(D), NEW x,
         A \cap ({x} \X D) = {}
  PROVE  /\ IsFiniteSet(A \cup ({x} \X D))
         /\ Cardinality(A \cup ({x} \X D)) = Cardinality(A) + Cardinality(D)
<1>1. IsFiniteSet({x}) /\ Cardinality({x}) = 1
  BY FS_Singleton
<1>2. IsFiniteSet({x} \X D) /\ Cardinality({x} \X D) = 1 * Cardinality(D)
  BY <1>1, FS_Product
<1>3. Cardinality(A) \in Nat /\ Cardinality(D) \in Nat
  BY FS_CardinalityType
<1>4. Cardinality(A \cap ({x} \X D)) = 0
  BY FS_EmptySet
<1>5. /\ IsFiniteSet(A \cup ({x} \X D))
      /\ Cardinality(A \cup ({x} \X D)) =
           Cardinality(A) + Cardinality({x} \X D) - Cardinality(A \cap ({x} \X D))
  BY <1>2, FS_Union
<1> QED
  BY <1>2, <1>3, <1>4, <1>5

LEMMA ContentFacts ==
  ASSUME NEW name \in Names
  PROVE  /\ Contents[name].size \in Nat
         /\ IsFiniteSet(1 .. Contents[name].size)
         /\ Cardinality(1 .. Contents[name].size) = Contents[name].size
         /\ IsFiniteSet(RuntimeEdges(Contents[name]))
         /\ Cardinality(RuntimeEdges(Contents[name])) \in Nat
<1>1. Contents[name].size \in Nat /\ IsFiniteSet(DOMAIN Contents[name].edges)
  BY ClosureAssumption
<1>2. /\ IsFiniteSet(1 .. Contents[name].size)
      /\ Cardinality(1 .. Contents[name].size) = Contents[name].size
  <2> DEFINE n == Contents[name].size
  <2>1. n \in Nat /\ n \in Int /\ 1 \in Int
    BY <1>1
  <2> HIDE DEF n
  <2>2. IsFiniteSet(1 .. n) /\ Cardinality(1 .. n) = IF 1 > n THEN 0 ELSE n - 1 + 1
    BY <2>1, FS_Interval
  <2>3. IsFiniteSet(1 .. n) /\ Cardinality(1 .. n) = n
    BY <2>1, <2>2
  <2> QED
    BY <2>3 DEF n
<1>3. IsFiniteSet(RuntimeEdges(Contents[name]))
  <2>1. RuntimeEdges(Contents[name]) \in SUBSET DOMAIN Contents[name].edges
    BY DEF RuntimeEdges
  <2> QED
    BY <1>1, <2>1, FS_Subset
<1> QED
  BY <1>1, <1>2, <1>3, FS_CardinalityType

\* Bytes and imports with one file more.
LEMMA OneMoreFile ==
  ASSUME NEW F, F \subseteq ReadFile, IsFiniteSet(BytesOf(F)), IsFiniteSet(EdgesOf(F)),
         NEW x \in ReadFile, x \notin F
  PROVE  /\ IsFiniteSet(BytesOf(F \cup {x})) /\ IsFiniteSet(EdgesOf(F \cup {x}))
         /\ Cardinality(BytesOf(F \cup {x})) =
              Cardinality(BytesOf(F)) + Contents[x.content].size
         /\ Cardinality(EdgesOf(F \cup {x})) =
              Cardinality(EdgesOf(F)) + Cardinality(RuntimeEdges(Contents[x.content]))
<1>1. x.content \in Names
  BY DEF ReadFile
<1> DEFINE bytes == 1 .. Contents[x.content].size
           edges == RuntimeEdges(Contents[x.content])
<1>2. /\ BytesOf(F \cup {x}) = BytesOf(F) \cup ({x} \X bytes)
      /\ BytesOf(F) \cap ({x} \X bytes) = {}
  BY DEF BytesOf
<1>3. /\ EdgesOf(F \cup {x}) = EdgesOf(F) \cup ({x} \X edges)
      /\ EdgesOf(F) \cap ({x} \X edges) = {}
  BY DEF EdgesOf
<1>0. IsFiniteSet(bytes) /\ IsFiniteSet(edges)
  BY <1>1, ContentFacts
<1> HIDE DEF bytes, edges
<1>4. /\ IsFiniteSet(BytesOf(F \cup {x}))
      /\ Cardinality(BytesOf(F \cup {x})) = Cardinality(BytesOf(F)) + Cardinality(bytes)
  <2>1. /\ IsFiniteSet(BytesOf(F) \cup ({x} \X bytes))
        /\ Cardinality(BytesOf(F) \cup ({x} \X bytes)) =
             Cardinality(BytesOf(F)) + Cardinality(bytes)
    BY <1>0, <1>2, OneMoreCounted, Zenon
  <2> QED
    BY <1>2, <2>1, Zenon
<1>5. /\ IsFiniteSet(EdgesOf(F \cup {x}))
      /\ Cardinality(EdgesOf(F \cup {x})) = Cardinality(EdgesOf(F)) + Cardinality(edges)
  <2>1. /\ IsFiniteSet(EdgesOf(F) \cup ({x} \X edges))
        /\ Cardinality(EdgesOf(F) \cup ({x} \X edges)) =
             Cardinality(EdgesOf(F)) + Cardinality(edges)
    BY <1>0, <1>3, OneMoreCounted, Zenon
  <2> QED
    BY <1>3, <2>1, Zenon
<1>6. Cardinality(bytes) = Contents[x.content].size
  BY <1>1, ContentFacts DEF bytes
<1>7. edges = RuntimeEdges(Contents[x.content])
  BY DEF edges
<1> QED
  BY <1>4, <1>5, <1>6, <1>7

-----------------------------------------------------------------------------
LEMMA ClosureStarts == ClosureInit => ClosureInv
<1> SUFFICES ASSUME ClosureInit PROVE ClosureInv
  OBVIOUS
<1>1. PICK names \in Checkouts :
        disk = [p \in Paths |-> [is |-> "file", content |-> names[p], version |-> 0]]
  BY DEF ClosureInit
<1>2. PICK r \in Requests : walk = [NoWalk EXCEPT !.request = r]
  BY DEF ClosureInit
<1>3. /\ walk.pc = "asked" /\ walk.request = r /\ walk.pending = {} /\ walk.files = {}
      /\ walk.edges = 0
      /\ walk = [pc |-> walk.pc, request |-> walk.request, pending |-> walk.pending,
                 attempted |-> walk.attempted, inspected |-> walk.inspected,
                 files |-> walk.files, violations |-> walk.violations, edges |-> walk.edges,
                 bytes |-> walk.bytes, path |-> walk.path, version |-> walk.version,
                 content |-> walk.content]
  BY <1>2 DEF NoWalk
<1>4. ClosureTypeOK
  <2>1. disk \in [Paths -> [is : {"file", "link", "missing"}, content : Names, version : Nat]]
    BY <1>1, ClosureAssumption
  <2> QED
    BY <1>2, <1>3, <2>1 DEF ClosureTypeOK, AtFile
<1>5. Untorn
  BY <1>3 DEF Untorn, AtFile
<1>6. ~Clean
  BY <1>3 DEF Clean
<1> QED
  BY <1>4, <1>5, <1>6 DEF ClosureInv, Reached, Tallied

\* A walk that has found something wrong is over, or goes on and ends without evidence.
LEMMA ViolationsKeep ==
  ASSUME ClosureInv, UNCHANGED disk, walk'.violations # {}, walk'.pc \in {"walking", "done"},
         walk' = [pc |-> walk'.pc, request |-> walk'.request, pending |-> walk'.pending,
                  attempted |-> walk'.attempted, inspected |-> walk'.inspected,
                  files |-> walk'.files, violations |-> walk'.violations,
                  edges |-> walk'.edges, bytes |-> walk'.bytes, path |-> walk'.path,
                  version |-> walk'.version, content |-> walk'.content],
         walk'.pending \subseteq walk.pending, walk'.files \subseteq walk.files,
         walk'.edges \in Nat
  PROVE  ClosureInv'
<1>1. ClosureTypeOK'
  BY DEF ClosureInv, ClosureTypeOK, AtFile
<1>2. Untorn'
  BY DEF ClosureInv, Untorn, AtFile
<1>3. ~Clean'
  BY DEF Clean
<1> QED
  BY <1>1, <1>2, <1>3 DEF ClosureInv, Reached, Tallied

LEMMA StartsKeeps ==
  ASSUME ClosureInv, Starts
  PROVE  ClosureInv'
<1>1. /\ walk.pc = "asked" /\ UNCHANGED disk
      /\ walk = [NoWalk EXCEPT !.request = walk.request]
  BY DEF Starts, ClosureInv, ClosureTypeOK
<1>2. ASSUME NEW kind, Refused(kind)
      PROVE  ClosureInv'
  <2>1. /\ walk'.pc = "done" /\ walk'.violations = {kind} /\ walk'.pending = {}
        /\ walk'.files = {} /\ walk'.edges = 0
        /\ walk' = [pc |-> walk'.pc, request |-> walk'.request, pending |-> walk'.pending,
                    attempted |-> walk'.attempted, inspected |-> walk'.inspected,
                    files |-> walk'.files, violations |-> walk'.violations,
                    edges |-> walk'.edges, bytes |-> walk'.bytes, path |-> walk'.path,
                    version |-> walk'.version, content |-> walk'.content]
    BY <1>2 DEF Refused, NoWalk
  <2> QED
    BY <1>1, <2>1, ViolationsKeep
<1>3. CASE /\ snapshotRequest(walk.request)
           /\ walk' = [walk EXCEPT !.pc = "walking", !.pending = ToSet(walk.request.entrypoints)]
  <2>1. ToSet(walk.request.entrypoints) \subseteq Paths
    BY <1>3 DEF snapshotRequest, requestFailure, ToSet
  <2>2. /\ walk'.pc = "walking" /\ walk'.pending = ToSet(walk.request.entrypoints)
        /\ walk'.request = walk.request /\ walk'.attempted = {} /\ walk'.files = {}
        /\ walk'.edges = 0 /\ walk'.bytes = 0
        /\ walk' = [pc |-> walk'.pc, request |-> walk'.request, pending |-> walk'.pending,
                    attempted |-> walk'.attempted, inspected |-> walk'.inspected,
                    files |-> walk'.files, violations |-> walk'.violations,
                    edges |-> walk'.edges, bytes |-> walk'.bytes, path |-> walk'.path,
                    version |-> walk'.version, content |-> walk'.content]
    BY <1>1, <1>3 DEF NoWalk
  <2>3. ClosureTypeOK'
    BY <1>1, <2>1, <2>2 DEF ClosureInv, ClosureTypeOK, AtFile
  <2>4. Untorn'
    BY <2>2 DEF Untorn, AtFile
  <2>5. Reached'
    BY <2>2 DEF Reached, AtFile, FilePaths, Wanted
  <2>6. Tallied'
    <3>1. FilePaths' = {} /\ BytesOf(walk'.files) = {} /\ EdgesOf(walk'.files) = {}
      BY <2>2 DEF FilePaths, BytesOf, EdgesOf
    <3> QED
      BY <2>2, <3>1, FS_EmptySet DEF Tallied, AtFile
  <2> QED
    BY <2>3, <2>4, <2>5, <2>6 DEF ClosureInv
<1> QED
  BY <1>2, <1>3 DEF Starts

LEMMA InspectsKeeps ==
  ASSUME ClosureInv, Inspects
  PROVE  ClosureInv'
<1> DEFINE p == CHOOSE q \in walk.pending : \A other \in walk.pending : q <= other
           size == Contents[disk[p].content].size
<1>1. walk.pc = "walking" /\ UNCHANGED disk /\ walk.pending # {}
  BY DEF Inspects
<1>2. p \in walk.pending
  <2>1. walk.pending \subseteq Nat
    BY ClosureAssumption DEF ClosureInv, ClosureTypeOK
  <2>2. \E q \in walk.pending : \A other \in walk.pending : q <= other
    BY <1>1, <2>1, LeastPlace
  <2> QED
    BY <2>2
<1>3. p \in Paths /\ walk.files \subseteq ReadFile /\ walk.edges \in Nat
  BY <1>2 DEF ClosureInv, ClosureTypeOK
<1>4. /\ disk[p].content \in Names /\ disk[p].version \in Nat
      /\ size \in Nat
  <2>1. disk[p].content \in Names /\ disk[p].version \in Nat
    BY <1>3 DEF ClosureInv, ClosureTypeOK
  <2> QED
    BY <2>1, ClosureAssumption
<1> HIDE DEF p, size
<1>5. CASE /\ p \in walk.attempted
           /\ walk' = [walk EXCEPT !.pending = @ \ {p}, !.attempted = @ \cup {p}]
  <2>1. /\ walk'.pc = walk.pc /\ walk'.request = walk.request /\ walk'.files = walk.files
        /\ walk'.pending = walk.pending \ {p} /\ walk'.attempted = walk.attempted
        /\ walk'.violations = walk.violations /\ walk'.edges = walk.edges
        /\ walk'.bytes = walk.bytes
        /\ walk' = [pc |-> walk'.pc, request |-> walk'.request, pending |-> walk'.pending,
                    attempted |-> walk'.attempted, inspected |-> walk'.inspected,
                    files |-> walk'.files, violations |-> walk'.violations,
                    edges |-> walk'.edges, bytes |-> walk'.bytes, path |-> walk'.path,
                    version |-> walk'.version, content |-> walk'.content]
    BY <1>5 DEF ClosureInv, ClosureTypeOK
  <2>2. ClosureTypeOK'
    BY <1>1, <2>1 DEF ClosureInv, ClosureTypeOK, AtFile
  <2>3. Untorn'
    BY <1>1, <2>1 DEF ClosureInv, Untorn, AtFile
  <2>4. FilePaths' = FilePaths /\ Wanted' = Wanted /\ (Clean' <=> Clean) /\ ~AtFile /\ ~AtFile'
    BY <1>1, <2>1 DEF FilePaths, Wanted, Clean, AtFile, RelativeImports
  <2>5. Reached'
    BY <1>1, <1>2, <1>5, <2>1, <2>4 DEF ClosureInv, Reached, Reviewed, executable, adapterProcessImport
  <2>6. Tallied'
    BY <1>1, <2>1, <2>4 DEF ClosureInv, Tallied
  <2> QED
    BY <2>2, <2>3, <2>5, <2>6 DEF ClosureInv
<1>6. ASSUME walk'.pc = walk.pc, walk'.files = walk.files, walk'.pending \subseteq walk.pending,
             walk'.violations # {}, walk'.edges = walk.edges,
             walk' = [pc |-> walk'.pc, request |-> walk'.request, pending |-> walk'.pending,
                      attempted |-> walk'.attempted, inspected |-> walk'.inspected,
                      files |-> walk'.files, violations |-> walk'.violations,
                      edges |-> walk'.edges, bytes |-> walk'.bytes, path |-> walk'.path,
                      version |-> walk'.version, content |-> walk'.content]
      PROVE  ClosureInv'
  BY <1>1, <1>3, <1>6, ViolationsKeep
<1>7. CASE /\ p \notin walk.attempted /\ disk[p].is = "file"
           /\ walk' = [walk EXCEPT !.pending = @ \ {p}, !.attempted = @ \cup {p},
                                   !.inspected = @ \cup {p}, !.bytes = @ + size,
                                   !.pc = "reading", !.path = p, !.version = disk[p].version]
  <2>1. /\ walk'.pc = "reading" /\ walk'.request = walk.request /\ walk'.files = walk.files
        /\ walk'.pending = walk.pending \ {p} /\ walk'.attempted = walk.attempted \cup {p}
        /\ walk'.violations = walk.violations /\ walk'.edges = walk.edges
        /\ walk'.bytes = walk.bytes + size /\ walk'.path = p /\ walk'.version = disk[p].version
        /\ walk' = [pc |-> walk'.pc, request |-> walk'.request, pending |-> walk'.pending,
                    attempted |-> walk'.attempted, inspected |-> walk'.inspected,
                    files |-> walk'.files, violations |-> walk'.violations,
                    edges |-> walk'.edges, bytes |-> walk'.bytes, path |-> walk'.path,
                    version |-> walk'.version, content |-> walk'.content]
    BY <1>7 DEF ClosureInv, ClosureTypeOK
  <2>2. ClosureTypeOK'
    BY <1>1, <1>3, <2>1 DEF ClosureInv, ClosureTypeOK, AtFile
  <2>3. Untorn'
    <3>1. \A f \in walk'.files :
            /\ f.version <= disk'[f.path].version
            /\ f.version = disk'[f.path].version =>
                 disk'[f.path].is = "file" /\ disk'[f.path].content = f.content
      BY <1>1, <2>1 DEF ClosureInv, Untorn
    <3>2. walk'.version \in Nat /\ walk'.version <= disk'[walk'.path].version
      BY <1>1, <1>4, <2>1
    <3>3. disk'[walk'.path].is = "file" /\ walk'.pc # "read"
      BY <1>1, <1>7, <2>1
    <3> QED
      BY <3>1, <3>2, <3>3 DEF Untorn
  <2>4. FilePaths' = FilePaths /\ Wanted' = Wanted /\ (Clean' <=> Clean) /\ ~AtFile /\ AtFile'
    BY <1>1, <2>1 DEF FilePaths, Wanted, Clean, AtFile, RelativeImports
  <2>5. Reached'
    <3> SUFFICES ASSUME Clean PROVE Reached'
      BY <2>4 DEF Reached
    <3>1. /\ walk.attempted = FilePaths /\ Wanted = walk.pending \cup walk.attempted
          /\ \A f \in walk.files : Reviewed(f)
      BY <2>4 DEF ClosureInv, Reached
    <3>2. walk'.attempted = FilePaths' \cup {q \in {walk'.path} : AtFile'}
      BY <2>1, <2>4, <3>1
    <3>3. walk'.path \notin FilePaths' /\ walk'.pc # "done"
      BY <1>7, <2>1, <2>4, <3>1
    <3>4. Wanted' = walk'.pending \cup walk'.attempted
      BY <1>2, <2>1, <2>4, <3>1
    <3>5. \A f \in walk'.files : Reviewed(f)'
      BY <2>1, <3>1 DEF Reviewed, executable, adapterProcessImport
    <3> QED
      BY <3>2, <3>3, <3>4, <3>5 DEF Reached
  <2>6. Tallied'
    BY <1>1, <2>1, <2>4 DEF ClosureInv, Tallied, size
  <2> QED
    BY <2>2, <2>3, <2>5, <2>6 DEF ClosureInv
<1> DEFINE popped == [walk EXCEPT !.pending = @ \ {p}, !.attempted = @ \cup {p}]
           counted == [popped EXCEPT !.inspected = @ \cup {p}, !.bytes = @ + size]
           limited == [counted EXCEPT !.violations = @ \cup {"resource-limit"}]
<1>8. \/ p \in walk.attempted /\ walk' = popped
      \/ walk' = [popped EXCEPT !.violations = @ \cup {"unsafe-path"}]
      \/ walk' = [popped EXCEPT !.violations = @ \cup {"resource-limit"}, !.pending = {}]
      \/ walk' = [limited EXCEPT !.pending = {}]
      \/ walk' = limited
      \/ /\ p \notin walk.attempted /\ disk[p].is = "file"
         /\ walk' = [counted EXCEPT !.pc = "reading", !.path = p, !.version = disk[p].version]
  BY Zenon DEF Inspects, inspectPath, p, size
<1>9. CASE walk' = [popped EXCEPT !.violations = @ \cup {"unsafe-path"}]
  <2>1. /\ walk'.pc = walk.pc /\ walk'.files = walk.files /\ walk'.edges = walk.edges
        /\ walk'.pending = walk.pending \ {p}
        /\ walk'.violations = walk.violations \cup {"unsafe-path"}
        /\ walk' = [pc |-> walk'.pc, request |-> walk'.request, pending |-> walk'.pending,
                    attempted |-> walk'.attempted, inspected |-> walk'.inspected,
                    files |-> walk'.files, violations |-> walk'.violations,
                    edges |-> walk'.edges, bytes |-> walk'.bytes, path |-> walk'.path,
                    version |-> walk'.version, content |-> walk'.content]
    BY <1>9 DEF ClosureInv, ClosureTypeOK
  <2> QED
    BY <1>6, <2>1
<1>10. CASE walk' = [popped EXCEPT !.violations = @ \cup {"resource-limit"}, !.pending = {}]
  <2>1. /\ walk'.pc = walk.pc /\ walk'.files = walk.files /\ walk'.edges = walk.edges
        /\ walk'.pending = {}
        /\ walk'.violations = walk.violations \cup {"resource-limit"}
        /\ walk' = [pc |-> walk'.pc, request |-> walk'.request, pending |-> walk'.pending,
                    attempted |-> walk'.attempted, inspected |-> walk'.inspected,
                    files |-> walk'.files, violations |-> walk'.violations,
                    edges |-> walk'.edges, bytes |-> walk'.bytes, path |-> walk'.path,
                    version |-> walk'.version, content |-> walk'.content]
    BY <1>10 DEF ClosureInv, ClosureTypeOK
  <2> QED
    BY <1>6, <2>1
<1>11. CASE walk' = [limited EXCEPT !.pending = {}]
  <2>1. /\ walk'.pc = walk.pc /\ walk'.files = walk.files /\ walk'.edges = walk.edges
        /\ walk'.pending = {}
        /\ walk'.violations = walk.violations \cup {"resource-limit"}
        /\ walk' = [pc |-> walk'.pc, request |-> walk'.request, pending |-> walk'.pending,
                    attempted |-> walk'.attempted, inspected |-> walk'.inspected,
                    files |-> walk'.files, violations |-> walk'.violations,
                    edges |-> walk'.edges, bytes |-> walk'.bytes, path |-> walk'.path,
                    version |-> walk'.version, content |-> walk'.content]
    BY <1>11 DEF ClosureInv, ClosureTypeOK
  <2> QED
    BY <1>6, <2>1
<1>12. CASE walk' = limited
  <2>1. /\ walk'.pc = walk.pc /\ walk'.files = walk.files /\ walk'.edges = walk.edges
        /\ walk'.pending = walk.pending \ {p}
        /\ walk'.violations = walk.violations \cup {"resource-limit"}
        /\ walk' = [pc |-> walk'.pc, request |-> walk'.request, pending |-> walk'.pending,
                    attempted |-> walk'.attempted, inspected |-> walk'.inspected,
                    files |-> walk'.files, violations |-> walk'.violations,
                    edges |-> walk'.edges, bytes |-> walk'.bytes, path |-> walk'.path,
                    version |-> walk'.version, content |-> walk'.content]
    BY <1>12 DEF ClosureInv, ClosureTypeOK
  <2> QED
    BY <1>6, <2>1
<1>13. CASE /\ p \notin walk.attempted /\ disk[p].is = "file"
            /\ walk' = [counted EXCEPT !.pc = "reading", !.path = p, !.version = disk[p].version]
  BY <1>7, <1>13
<1> QED
  BY <1>5, <1>8, <1>9, <1>10, <1>11, <1>12, <1>13

LEMMA ContinuesKeeps ==
  ASSUME ClosureInv, AtFile, UNCHANGED disk, NEW kind, Continues({kind})
  PROVE  ClosureInv'
<1>1. /\ walk'.pc = "walking" /\ walk'.files = walk.files /\ walk'.pending = walk.pending
      /\ walk'.violations = walk.violations \cup {kind} /\ walk'.edges = walk.edges
      /\ walk' = [pc |-> walk'.pc, request |-> walk'.request, pending |-> walk'.pending,
                  attempted |-> walk'.attempted, inspected |-> walk'.inspected,
                  files |-> walk'.files, violations |-> walk'.violations,
                  edges |-> walk'.edges, bytes |-> walk'.bytes, path |-> walk'.path,
                  version |-> walk'.version, content |-> walk'.content]
  BY DEF Continues, ClosureInv, ClosureTypeOK
<1> QED
  BY <1>1, ViolationsKeep DEF ClosureInv, ClosureTypeOK

LEMMA ReadsFileKeeps ==
  ASSUME ClosureInv, ReadsFile
  PROVE  ClosureInv'
<1>1. walk.pc = "reading" /\ AtFile /\ UNCHANGED disk
  BY DEF ReadsFile, AtFile
<1>2. CASE Continues({"unsafe-path"})
  BY <1>1, <1>2, ContinuesKeeps
<1>3. CASE ~Continues({"unsafe-path"})
  <2>1. PICK name \in Names :
          /\ disk[walk.path].is = "link"
             \/ (disk[walk.path].is = "file" /\ name = disk[walk.path].content)
          /\ walk' = [walk EXCEPT !.pc = "read", !.content = name]
    BY <1>3 DEF ReadsFile
  <2>2. /\ walk'.pc = "read" /\ walk'.content = name /\ walk'.request = walk.request
        /\ walk'.pending = walk.pending /\ walk'.attempted = walk.attempted
        /\ walk'.files = walk.files /\ walk'.violations = walk.violations
        /\ walk'.edges = walk.edges /\ walk'.bytes = walk.bytes /\ walk'.path = walk.path
        /\ walk'.version = walk.version
        /\ walk' = [pc |-> walk'.pc, request |-> walk'.request, pending |-> walk'.pending,
                    attempted |-> walk'.attempted, inspected |-> walk'.inspected,
                    files |-> walk'.files, violations |-> walk'.violations,
                    edges |-> walk'.edges, bytes |-> walk'.bytes, path |-> walk'.path,
                    version |-> walk'.version, content |-> walk'.content]
    BY <2>1 DEF ClosureInv, ClosureTypeOK
  <2>3. ClosureTypeOK'
    BY <1>1, <2>2 DEF ClosureInv, ClosureTypeOK, AtFile
  <2>4. Untorn'
    BY <1>1, <2>1, <2>2 DEF ClosureInv, Untorn, AtFile
  <2>5. FilePaths' = FilePaths /\ Wanted' = Wanted /\ (Clean' <=> Clean) /\ AtFile'
    BY <1>1, <2>2 DEF FilePaths, Wanted, Clean, AtFile, RelativeImports
  <2>6. Reached'
    BY <1>1, <2>2, <2>5
       DEF ClosureInv, Reached, Reviewed, executable, adapterProcessImport
  <2>7. Tallied'
    BY <1>1, <2>2, <2>5 DEF ClosureInv, Tallied
  <2> QED
    BY <2>3, <2>4, <2>6, <2>7 DEF ClosureInv
<1> QED
  BY <1>2, <1>3

\* Edges without violations are all looked at: those inside are followed, those outside
\* were reviewed.
LEMMA FollowedEdges ==
  ASSUME ClosureInv, AtFile, walk.content \in Names, FollowsEdges(walk).found = {}
  PROVE  LET edge == Contents[walk.content].edges
             runtime == RuntimeEdges(Contents[walk.content])
         IN /\ FollowsEdges(walk).edges = walk.edges + Cardinality(runtime)
            /\ FollowsEdges(walk).pending =
                 walk.pending \cup ({edge[k].to : k \in runtime} \cap Paths)
            /\ \A k \in runtime :
                 /\ edge[k].plain
                 /\ \/ edge[k].to \in Paths \/ adapterProcessImport(walk.path, edge[k])
                    \/ ~externalFailure(walk.request, edge[k].to)
<1> DEFINE edge == Contents[walk.content].edges
           runtime == RuntimeEdges(Contents[walk.content])
           over == walk.edges + Cardinality(runtime) > MAX_NODE_CLOSURE_EDGES
           looked == {k \in runtime :
             walk.edges + Cardinality({j \in runtime : j <= k}) <= MAX_NODE_CLOSURE_EDGES}
           relative == {k \in looked : edge[k].plain /\ edge[k].to \in Paths}
           process == {k \in looked \ relative :
                         edge[k].plain /\ adapterProcessImport(walk.path, edge[k])}
           unsupported == {k \in looked : ~edge[k].plain \/ edge[k].to = Elsewhere}
           external == looked \ (relative \cup process \cup unsupported)
<1>1. /\ FollowsEdges(walk).edges = IF over THEN MAX_NODE_CLOSURE_EDGES + 1
                                    ELSE walk.edges + Cardinality(runtime)
      /\ FollowsEdges(walk).pending = IF over THEN {}
                                      ELSE walk.pending \cup {edge[k].to : k \in relative}
  BY DEF FollowsEdges
<1>2. /\ FollowsEdges(walk).found =
           {k \in {"resource-limit"} : over}
             \cup {k \in {"unsupported-import"} : unsupported # {}}
             \cup {k \in {"unsafe-runtime-capability"} : Cardinality(process) > 1}
             \cup {k \in {"unapproved-external-module"} :
                     \E e \in external : externalFailure(walk.request, edge[e].to)}
  BY DEF FollowsEdges
<1>3. IsFiniteSet(runtime) /\ Cardinality(runtime) \in Nat /\ walk.edges \in Nat
  BY ContentFacts DEF ClosureInv, ClosureTypeOK
<1> HIDE DEF edge, runtime
<1>4. ~over /\ unsupported = {} /\ ~(\E e \in external : externalFailure(walk.request, edge[e].to))
  <2> HIDE DEF over, unsupported, process, external
  <2> QED
    BY <1>2
<1>5. looked = runtime
  <2>1. ASSUME NEW k \in runtime
        PROVE  walk.edges + Cardinality({j \in runtime : j <= k}) <= MAX_NODE_CLOSURE_EDGES
    <3>1. /\ Cardinality({j \in runtime : j <= k}) <= Cardinality(runtime)
          /\ IsFiniteSet({j \in runtime : j <= k})
      <4>1. {j \in runtime : j <= k} \in SUBSET runtime
        OBVIOUS
      <4> QED
        BY <1>3, <4>1, FS_Subset
    <3>2. Cardinality({j \in runtime : j <= k}) \in Nat
      BY <3>1, FS_CardinalityType
    <3>3. walk.edges + Cardinality(runtime) <= MAX_NODE_CLOSURE_EDGES
      BY <1>3, <1>4, ClosureAssumption
    <3> QED
      BY <1>3, <3>1, <3>2, <3>3, ClosureAssumption
  <2> QED
    BY <2>1
<1> HIDE DEF looked
<1>6. \A k \in runtime : edge[k].plain
  BY <1>4, <1>5
<1>7. {edge[k].to : k \in relative} = {edge[k].to : k \in runtime} \cap Paths
  BY <1>5, <1>6
<1>8. \A k \in runtime : \/ edge[k].to \in Paths \/ adapterProcessImport(walk.path, edge[k])
                         \/ ~externalFailure(walk.request, edge[k].to)
  BY <1>4, <1>5, <1>6
<1>9. /\ FollowsEdges(walk).edges = walk.edges + Cardinality(runtime)
      /\ FollowsEdges(walk).pending = walk.pending \cup ({edge[k].to : k \in runtime} \cap Paths)
  <2> HIDE DEF over, relative
  <2> QED
    BY <1>1, <1>4, <1>7
<1> QED
  BY <1>6, <1>8, <1>9 DEF edge, runtime

\* A file that was read whole, with nothing found in it, is one more.
LEMMA AnalysesKeeps ==
  ASSUME ClosureInv, walk.pc = "read", sameFile, Analyses, UNCHANGED disk
  PROVE  ClosureInv'
<1> DEFINE x == [path |-> walk.path, content |-> walk.content, version |-> walk.version]
           followed == FollowsEdges(walk)
           found == followed.found
             \cup (IF executable /\ Incapable(walk.path, walk.content)
                   THEN {"unsafe-runtime-capability"} ELSE {})
             \cup (IF executable /\ walk.path = ADAPTER_PATH /\ followed.imports # 1
                   THEN {"unsafe-runtime-capability"} ELSE {})
<1>1. walk' = [walk EXCEPT !.pc = "walking", !.path = None, !.version = 0, !.content = None,
                           !.files = @ \cup {x}, !.violations = @ \cup found,
                           !.edges = followed.edges, !.pending = followed.pending]
  BY DEF Analyses
<1>2. /\ walk.path \in Paths /\ walk.content \in Names /\ AtFile /\ walk.files \subseteq ReadFile
      /\ walk.version = disk[walk.path].version /\ disk[walk.path].is = "file"
      /\ disk[walk.path].content = walk.content /\ walk.version \in Nat
  BY DEF ClosureInv, ClosureTypeOK, Untorn, AtFile, sameFile
<1>3. x \in ReadFile /\ x.path = walk.path /\ x.content = walk.content /\ x.version = walk.version
  BY <1>2 DEF ReadFile
<1>4. followed.edges \in Nat /\ followed.pending \subseteq Paths
  <2>1. Cardinality(RuntimeEdges(Contents[walk.content])) \in Nat
    BY <1>2, ContentFacts
  <2>2. walk.edges \in Nat /\ walk.pending \subseteq Paths
    BY DEF ClosureInv, ClosureTypeOK
  <2> DEFINE edge == Contents[walk.content].edges
             runtime == RuntimeEdges(Contents[walk.content])
             over == walk.edges + Cardinality(runtime) > MAX_NODE_CLOSURE_EDGES
             looked == {k \in runtime :
               walk.edges + Cardinality({j \in runtime : j <= k}) <= MAX_NODE_CLOSURE_EDGES}
             relative == {k \in looked : edge[k].plain /\ edge[k].to \in Paths}
  <2>3. /\ followed.edges = IF over THEN MAX_NODE_CLOSURE_EDGES + 1
                            ELSE walk.edges + Cardinality(runtime)
        /\ followed.pending = IF over THEN {}
                              ELSE walk.pending \cup {edge[k].to : k \in relative}
    BY DEF FollowsEdges
  <2>4. {edge[k].to : k \in relative} \subseteq Paths
    OBVIOUS
  <2> HIDE DEF relative, over, runtime, followed
  <2>5. followed.pending \subseteq Paths
    BY <2>2, <2>3, <2>4
  <2>6. followed.edges \in Nat
    <3>1. MAX_NODE_CLOSURE_EDGES + 1 \in Nat /\ walk.edges + Cardinality(runtime) \in Nat
      BY <2>1, <2>2, ClosureAssumption DEF runtime
    <3> QED
      BY <2>3, <3>1
  <2> QED
    BY <2>5, <2>6
<1> HIDE DEF x, followed, found
<1>5. /\ walk'.pc = "walking" /\ walk'.request = walk.request
      /\ walk'.attempted = walk.attempted /\ walk'.pending = followed.pending
      /\ walk'.files = walk.files \cup {x} /\ walk'.violations = walk.violations \cup found
      /\ walk'.edges = followed.edges /\ walk'.bytes = walk.bytes
      /\ walk' = [pc |-> walk'.pc, request |-> walk'.request, pending |-> walk'.pending,
                  attempted |-> walk'.attempted, inspected |-> walk'.inspected,
                  files |-> walk'.files, violations |-> walk'.violations,
                  edges |-> walk'.edges, bytes |-> walk'.bytes, path |-> walk'.path,
                  version |-> walk'.version, content |-> walk'.content]
  BY <1>1 DEF ClosureInv, ClosureTypeOK
<1>6. ClosureTypeOK'
  <2>1. walk'.files \subseteq ReadFile /\ walk'.edges \in Nat /\ walk'.pending \subseteq Paths
    BY <1>2, <1>3, <1>4, <1>5
  <2> QED
    BY <1>5, <2>1 DEF ClosureInv, ClosureTypeOK, AtFile
<1>7. Untorn'
  <2>1. \A f \in walk.files \cup {x} :
          /\ f.version <= disk[f.path].version
          /\ f.version = disk[f.path].version =>
               disk[f.path].is = "file" /\ disk[f.path].content = f.content
    BY <1>2, <1>3 DEF ClosureInv, Untorn
  <2> QED
    BY <1>5, <2>1 DEF Untorn, AtFile
<1>8. CASE ~Clean'
  BY <1>6, <1>7, <1>8 DEF ClosureInv, Reached, Tallied
<1>9. CASE Clean'
  <2>1. Clean /\ found = {}
    BY <1>5, <1>9 DEF Clean
  <2>2. /\ followed.found = {}
        /\ executable => ~Incapable(walk.path, walk.content)
    BY <2>1 DEF found
  <2>3. LET edge == Contents[walk.content].edges
            runtime == RuntimeEdges(Contents[walk.content])
        IN /\ followed.edges = walk.edges + Cardinality(runtime)
           /\ followed.pending = walk.pending \cup ({edge[k].to : k \in runtime} \cap Paths)
           /\ \A k \in runtime :
                /\ edge[k].plain
                /\ \/ edge[k].to \in Paths \/ adapterProcessImport(walk.path, edge[k])
                   \/ ~externalFailure(walk.request, edge[k].to)
    BY <1>2, <2>2, FollowedEdges DEF followed
  <2>4. RelativeImports(x) = {Contents[walk.content].edges[k].to :
                                k \in RuntimeEdges(Contents[walk.content])} \cap Paths
    BY <1>3 DEF RelativeImports, Imported
  <2>5. /\ walk.attempted = FilePaths \cup {walk.path} /\ walk.path \notin FilePaths
        /\ Wanted = walk.pending \cup walk.attempted
        /\ \A f \in walk.files : Reviewed(f)
    BY <1>2, <2>1 DEF ClosureInv, Reached
  <2>6. FilePaths' = FilePaths \cup {walk.path} /\ ~AtFile' /\ x \notin walk.files
    BY <1>3, <1>5, <2>5 DEF FilePaths, AtFile
  <2>7. Wanted' = Wanted \cup RelativeImports(x)
    BY <1>5 DEF Wanted, RelativeImports, Imported
  <2>8. walk'.pending = walk.pending \cup RelativeImports(x)
    BY <1>5, <2>3, <2>4
  <2>9. Reviewed(x)
    <3>1. ASSUME NEW e \in Imported(x)
          PROVE  /\ e.plain
                 /\ \/ e.to \in Paths \/ adapterProcessImport(x.path, e)
                    \/ \E rule \in ToSet(walk.request.rules) :
                         rule.specifier = e.to /\ rule.resolvedTarget = Installed[e.to]
      <4>1. PICK k \in RuntimeEdges(Contents[walk.content]) : e = Contents[walk.content].edges[k]
        BY <1>3 DEF Imported
      <4>2. /\ e.plain
            /\ \/ e.to \in Paths \/ adapterProcessImport(x.path, e)
               \/ ~externalFailure(walk.request, e.to)
        BY <1>3, <2>3, <4>1
      <4> QED
        BY <4>2 DEF externalFailure, ToSet
    <3>2. ASSUME executable, NEW e \in Imported(x), e.to = PROCESS
          PROVE  x.path = ADAPTER_PATH /\ x.content = ADAPTER_SOURCE
      <4>1. PICK k \in RuntimeEdges(Contents[walk.content]) : e = Contents[walk.content].edges[k]
        BY <1>3 DEF Imported
      <4> QED
        BY <1>3, <2>2, <3>2, <4>1, ClosureAssumption DEF Incapable
    <3>3. ASSUME executable PROVE ReachesNoGlobal(Contents[x.content].tree)
      <4>1. runtimeCapabilityViolations(Contents[x.content].tree) = {}
        BY <1>3, <2>2, <3>3 DEF Incapable
      <4>2. ProperTree(Contents[x.content].tree)
        BY <1>2, <1>3, ClosureAssumption
      <4> QED
        BY <4>1, <4>2, NoProgramEscapes DEF NoGlobalEscapes
    <3> QED
      BY <3>1, <3>2, <3>3 DEF Reviewed
  <2>10. Reached'
    <3>1. \A f \in walk'.files : Reviewed(f)'
      BY <1>5, <2>5, <2>9 DEF Reviewed, executable, adapterProcessImport
    <3>2. /\ walk'.attempted = FilePaths' \cup {p \in {walk'.path} : AtFile'}
          /\ Wanted' = walk'.pending \cup walk'.attempted
      BY <1>5, <2>5, <2>6, <2>7, <2>8
    <3> QED
      BY <1>5, <2>6, <3>1, <3>2 DEF Reached
  <2>11. /\ IsFiniteSet(walk.files) /\ IsFiniteSet(FilePaths)
         /\ Cardinality(FilePaths) = Cardinality(walk.files)
         /\ IsFiniteSet(BytesOf(walk.files)) /\ IsFiniteSet(EdgesOf(walk.files))
         /\ walk.edges = Cardinality(EdgesOf(walk.files))
         /\ walk.bytes = Cardinality(BytesOf(walk.files)) + Contents[walk.content].size
    BY <1>2, <2>1 DEF ClosureInv, Tallied
  <2>12. /\ IsFiniteSet(walk'.files) /\ IsFiniteSet(FilePaths')
         /\ Cardinality(FilePaths') = Cardinality(walk'.files)
    <3>1. /\ IsFiniteSet(walk.files \cup {x})
          /\ Cardinality(walk.files \cup {x}) = Cardinality(walk.files) + 1
      BY <2>6, <2>11, FS_AddElement
    <3>2. /\ IsFiniteSet(FilePaths \cup {walk.path})
          /\ Cardinality(FilePaths \cup {walk.path}) = Cardinality(FilePaths) + 1
      BY <2>5, <2>11, FS_AddElement
    <3>3. walk'.files = walk.files \cup {x} /\ FilePaths' = FilePaths \cup {walk.path}
      BY <1>5, <2>6
    <3> QED
      BY <2>11, <3>1, <3>2, <3>3, Zenon
  <2>13. /\ IsFiniteSet(BytesOf(walk.files \cup {x})) /\ IsFiniteSet(EdgesOf(walk.files \cup {x}))
         /\ Cardinality(BytesOf(walk.files \cup {x})) =
              Cardinality(BytesOf(walk.files)) + Contents[x.content].size
         /\ Cardinality(EdgesOf(walk.files \cup {x})) =
              Cardinality(EdgesOf(walk.files)) + Cardinality(RuntimeEdges(Contents[x.content]))
    BY <1>2, <1>3, <2>6, <2>11, OneMoreFile
  <2>14. Tallied'
    BY <1>3, <1>5, <2>3, <2>6, <2>11, <2>12, <2>13 DEF Tallied
  <2> QED
    BY <1>6, <1>7, <2>10, <2>14 DEF ClosureInv
<1> QED
  BY <1>8, <1>9

LEMMA ChecksFileKeeps ==
  ASSUME ClosureInv, ChecksFile
  PROVE  ClosureInv'
<1>1. walk.pc = "read" /\ AtFile /\ UNCHANGED disk
  BY DEF ChecksFile, AtFile
<1>2. \/ Continues({"unsafe-path"}) \/ Continues({"parse-error"}) \/ Continues({"resource-limit"})
      \/ sameFile /\ Analyses
  BY DEF ChecksFile
<1> QED
  BY <1>1, <1>2, ContinuesKeeps, AnalysesKeeps

LEMMA EndsKeeps ==
  ASSUME ClosureInv, Ends
  PROVE  ClosureInv'
<1>1. walk.pc = "walking" /\ walk.pending = {} /\ UNCHANGED disk
  BY DEF Ends
<1>2. CASE walk' = [NoWalk EXCEPT !.pc = "done", !.request = walk.request,
                                  !.violations = walk.violations]
           /\ walk.violations # {}
  <2>1. /\ walk'.pc = "done" /\ walk'.violations = walk.violations /\ walk'.pending = {}
        /\ walk'.files = {} /\ walk'.edges = 0
        /\ walk' = [pc |-> walk'.pc, request |-> walk'.request, pending |-> walk'.pending,
                    attempted |-> walk'.attempted, inspected |-> walk'.inspected,
                    files |-> walk'.files, violations |-> walk'.violations,
                    edges |-> walk'.edges, bytes |-> walk'.bytes, path |-> walk'.path,
                    version |-> walk'.version, content |-> walk'.content]
    BY <1>2 DEF NoWalk
  <2> QED
    BY <1>1, <1>2, <2>1, ViolationsKeep
<1>3. CASE walk' = [walk EXCEPT !.pc = "done"]
  <2>1. /\ walk'.pc = "done" /\ walk'.request = walk.request
        /\ walk'.pending = walk.pending /\ walk'.attempted = walk.attempted
        /\ walk'.files = walk.files /\ walk'.violations = walk.violations
        /\ walk'.edges = walk.edges /\ walk'.bytes = walk.bytes
        /\ walk' = [pc |-> walk'.pc, request |-> walk'.request, pending |-> walk'.pending,
                    attempted |-> walk'.attempted, inspected |-> walk'.inspected,
                    files |-> walk'.files, violations |-> walk'.violations,
                    edges |-> walk'.edges, bytes |-> walk'.bytes, path |-> walk'.path,
                    version |-> walk'.version, content |-> walk'.content]
    BY <1>3 DEF ClosureInv, ClosureTypeOK
  <2>2. ClosureTypeOK'
    BY <1>1, <2>1 DEF ClosureInv, ClosureTypeOK, AtFile
  <2>3. Untorn'
    BY <1>1, <2>1 DEF ClosureInv, Untorn, AtFile
  <2>4. FilePaths' = FilePaths /\ Wanted' = Wanted /\ (Clean' <=> Clean) /\ ~AtFile /\ ~AtFile'
    BY <1>1, <2>1 DEF FilePaths, Wanted, Clean, AtFile, RelativeImports
  <2>5. Reached'
    BY <1>1, <2>1, <2>4
       DEF ClosureInv, Reached, Reviewed, executable, adapterProcessImport
  <2>6. Tallied'
    BY <1>1, <2>1, <2>4 DEF ClosureInv, Tallied
  <2> QED
    BY <2>2, <2>3, <2>5, <2>6 DEF ClosureInv
<1> QED
  BY <1>2, <1>3 DEF Ends

LEMMA EditsKeep ==
  ASSUME ClosureInv, NEW p \in Paths, Edits(p)
  PROVE  ClosureInv'
<1>1. PICK is \in {"file", "link", "missing"}, name \in Names :
        disk' = [disk EXCEPT ![p] = [is |-> is, content |-> name, version |-> @.version + 1]]
  BY DEF Edits
<1>2. UNCHANGED walk
  BY DEF Edits
<1>3. disk \in [Paths -> [is : {"file", "link", "missing"}, content : Names, version : Nat]]
  BY DEF ClosureInv, ClosureTypeOK
<1>4. /\ disk' \in [Paths -> [is : {"file", "link", "missing"}, content : Names, version : Nat]]
      /\ disk'[p].version = disk[p].version + 1
      /\ \A q \in Paths \ {p} : disk'[q] = disk[q]
  BY <1>1, <1>3
<1>5. \A q \in Paths : \A v \in Nat : v <= disk[q].version =>
        /\ v <= disk'[q].version
        /\ v = disk'[q].version => disk'[q] = disk[q]
  BY <1>3, <1>4
<1>6. /\ walk.files \subseteq ReadFile
      /\ AtFile => walk.path \in Paths /\ walk.version \in Nat
  BY DEF ClosureInv, ClosureTypeOK, Untorn
<1>7. ClosureTypeOK'
  BY <1>2, <1>4 DEF ClosureInv, ClosureTypeOK, AtFile
<1>8. Untorn'
  <2>1. \A f \in walk.files : f.path \in Paths /\ f.version \in Nat
    BY <1>6 DEF ReadFile
  <2> QED
    BY <1>2, <1>5, <1>6, <2>1 DEF ClosureInv, Untorn, AtFile
<1>9. /\ FilePaths' = FilePaths /\ Wanted' = Wanted /\ (Clean' <=> Clean) /\ (AtFile' <=> AtFile)
  BY <1>2 DEF FilePaths, Wanted, Clean, AtFile, RelativeImports
<1>10. Reached'
  BY <1>2, <1>9 DEF ClosureInv, Reached, Reviewed, executable, adapterProcessImport
<1>11. Tallied'
  <2>1. AtFile /\ walk.version = disk'[walk.path].version => disk'[walk.path] = disk[walk.path]
    BY <1>5, <1>6 DEF ClosureInv, Untorn
  <2> QED
    BY <1>2, <1>9, <2>1 DEF ClosureInv, Tallied
<1> QED
  BY <1>7, <1>8, <1>10, <1>11 DEF ClosureInv

\* The walk's invariant holds while anybody edits the checkout, for any files, requests and
\* limits (verifyNodeClosure).
THEOREM ClosureInvariance == ClosureSpec => []ClosureInv
<1>1. ClosureInv /\ [ClosureNext]_closureVars => ClosureInv'
  <2> SUFFICES ASSUME ClosureInv, [ClosureNext]_closureVars PROVE ClosureInv'
    OBVIOUS
  <2>1. CASE UNCHANGED closureVars
    <3>1. UNCHANGED <<disk, walk>>
      BY <2>1 DEF closureVars
    <3> QED
      BY <3>1 DEF ClosureInv, ClosureTypeOK, Untorn, Reached, Tallied, AtFile, Clean, Wanted,
         FilePaths, RelativeImports, Reviewed, executable, adapterProcessImport
  <2> QED
    BY <2>1, StartsKeeps, InspectsKeeps, ReadsFileKeeps, ChecksFileKeeps, EndsKeeps, EditsKeep
       DEF ClosureNext
<1> QED
  BY <1>1, ClosureStarts, PTL DEF ClosureSpec

\* Evidence is of the whole program, counted, reviewed and untorn: ClosureComplete holds for
\* any files, requests, limits and edits (node-import-closure-verifier.mts:1384).
THEOREM ClosureStaysComplete == ClosureSpec => []ClosureComplete
<1>1. ClosureInv => ClosureComplete
  <2> SUFFICES ASSUME ClosureInv, Evidence PROVE ClosureComplete
    BY DEF ClosureComplete
  <2>1. Clean /\ ~AtFile /\ walk.pc = "done"
    BY DEF Evidence, Clean, AtFile
  <2>2. /\ FilePaths = Wanted /\ \A f \in walk.files : Reviewed(f)
    BY <2>1 DEF ClosureInv, Reached
  <2>3. \A f \in walk.files : f.path \in FilePaths
    BY DEF FilePaths
  <2>4. \A f \in walk.files :
          /\ RelativeImports(f) \subseteq FilePaths
          /\ f.path \in ToSet(walk.request.entrypoints)
               \/ \E g \in walk.files : f.path \in RelativeImports(g)
    BY <2>2, <2>3 DEF Wanted
  <2> QED
    BY <2>1, <2>2, <2>4 DEF ClosureComplete, ClosureInv, Untorn, Tallied, Wanted
<1> QED
  BY <1>1, ClosureInvariance, PTL
=============================================================================

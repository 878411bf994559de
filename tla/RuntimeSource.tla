--------------------------- MODULE RuntimeSource ----------------------------
(***************************************************************************)
(* What a source file of the factory may do when Node runs it, read off    *)
(* its syntax tree (scripts/factory/node-import-closure-verifier.mts).     *)
(*                                                                         *)
(* A tree is a sequence of nodes [kind, up, name, form], parents first;    *)
(* up is the parent's position, 0 at the source file itself.               *)
(*   function, class  name; form "declaration", "expression", "overload"   *)
(*                    (a function without a body) or "declare"             *)
(*   block            form "body" if it is the body of a function          *)
(*   catch            name of what is caught                               *)
(*   variable         name; form "let", "var" or "ambient"                 *)
(*   parameter        name; form "property" if it declares a member        *)
(*   imported name    name; form "value" or "type"                         *)
(*   destructured     name of the property; form "computed" if it has none *)
(*   identifier       name; form "value", "receiver" (of the access above  *)
(*                    it), "type" or "label" (names a member or a binding) *)
(*   access           name of the member, "" if it is computed;            *)
(*                    form "dot" or "bracket"                              *)
(*   dynamic import                                                        *)
(*   unsupported      syntax that Node's type stripping does not erase     *)
(***************************************************************************)
EXTENDS Integers, Sequences

CONSTANTS
  DANGEROUS_GLOBALS,    \* names that make code out of text, or load it
  SENSITIVE_OBJECTS,    \* process, Object, module, globalThis, global
  SAFE_MEMBERS          \* sensitive object -> the members that may be read

ASSUME RuntimeAssumption ==
  /\ SAFE_MEMBERS \in [SENSITIVE_OBJECTS -> SUBSET STRING]
  /\ DANGEROUS_GLOBALS \cap SENSITIVE_OBJECTS = {}

ROOT == 0

TreeNode == [kind : STRING, up : Nat, name : STRING, form : STRING]

\* What the parser builds: parents come first, a parameter is a function's, and what an
\* access is of is that access's.
ProperTree(tree) ==
  /\ tree \in Seq(TreeNode)
  /\ \A n \in 1 .. Len(tree) :
       LET node == tree[n]
       IN /\ node.up \in 0 .. n - 1
          /\ node.kind = "variable" => node.form \in {"let", "var", "ambient"}
          /\ node.kind = "catch" => node.form = ""
          /\ node.kind = "parameter" =>
               node.form \in {"", "property"} /\ node.up # ROOT /\ tree[node.up].kind = "function"
          /\ node.kind = "identifier" /\ node.form = "receiver" =>
               node.up # ROOT /\ tree[node.up].kind = "access"

\* A node, those above it, and the source file.
Chain(tree) ==
  LET up[n \in 0 .. Len(tree)] == IF n = ROOT THEN {ROOT} ELSE {n} \cup up[tree[n].up]
  IN up

Deepest(S) == CHOOSE n \in S : \A m \in S : m <= n

runtimeScopeBoundary(tree, n) == n = ROOT \/ tree[n].kind \in {"function", "class", "block", "catch"}

\* A function's body has a scope of its own, apart from the parameters'.
FunctionScopes(tree, n) ==
  n = ROOT \/ tree[n].kind = "function" \/ (tree[n].kind = "block" /\ tree[n].form = "body")

LexicalScope(tree, n) == Deepest({m \in Chain(tree)[n] : runtimeScopeBoundary(tree, m)})
FunctionScope(tree, n) == Deepest({m \in Chain(tree)[n] : FunctionScopes(tree, m)})

\* FAULT: types bind as well.
TypesBind(tree, n) ==
  LET node == tree[n]
  IN IF node.kind \in {"variable", "imported name"} THEN {<<node.name, LexicalScope(tree, n)>>}
     ELSE {}

\* What a node binds when the program runs, and in which scope; types bind nothing.
collectRuntimeScopes(tree, n) ==
  LET node == tree[n]
      BindsIn(scope) ==
        \/ /\ node.kind \in {"function", "class"} /\ node.form = "declaration"
           /\ scope = LexicalScope(tree, node.up)
        \/ node.kind \in {"function", "class"} /\ node.form = "expression" /\ scope = n
        \/ node.kind = "variable" /\ node.form = "let" /\ scope = LexicalScope(tree, n)
        \/ node.kind = "variable" /\ node.form = "var" /\ scope = FunctionScope(tree, n)
        \/ node.kind = "parameter" /\ scope = FunctionScope(tree, n)
        \/ node.kind = "catch" /\ scope = n
        \/ node.kind = "imported name" /\ node.form = "value" /\ scope = LexicalScope(tree, n)
  IN {<<node.name, scope>> : scope \in {s \in Chain(tree)[n] : BindsIn(s)}}

locallyBound(tree, name, n) ==
  \E d \in DOMAIN tree : \E scope \in Chain(tree)[n] :
    <<name, scope>> \in collectRuntimeScopes(tree, d)

valueIdentifier(node) == node.kind = "identifier" /\ node.form \in {"value", "receiver"}

directUnboundIdentifier(tree, access, name) ==
  \E n \in DOMAIN tree :
    /\ tree[n].up = access /\ tree[n].kind = "identifier" /\ tree[n].form = "receiver"
    /\ tree[n].name = name /\ ~locallyBound(tree, name, n)

\* The accesses that are refused, whatever object they are to; and those to an object
\* that only its safe members may be read of, by name.
UnsafeAccess(tree, n) ==
  /\ tree[n].kind = "access"
  /\ \/ tree[n].name = "constructor"
     \/ tree[n].form = "bracket" /\ tree[n].name = ""
     \/ \E o \in SENSITIVE_OBJECTS :
          /\ directUnboundIdentifier(tree, n, o)
          /\ tree[n].form # "dot" \/ tree[n].name \notin SAFE_MEMBERS[o]

UnsafeNode(tree, n) ==
  LET node == tree[n]
  IN \/ node.kind \in {"unsupported", "dynamic import"}
     \/ node.kind \in {"function", "class"} /\ node.form \in {"overload", "declare"}
     \/ node.kind = "variable" /\ node.form = "ambient"
     \/ node.kind = "parameter" /\ node.form = "property"
     \/ node.kind = "destructured" /\ (node.form = "computed" \/ node.name = "constructor")
     \/ /\ valueIdentifier(node) /\ node.name \in DANGEROUS_GLOBALS
        /\ ~locallyBound(tree, node.name, n)
     \/ /\ valueIdentifier(node) /\ node.name \in SENSITIVE_OBJECTS
        /\ node.form # "receiver" /\ ~locallyBound(tree, node.name, n)
     \/ UnsafeAccess(tree, n)

\* The analysis, but for the imports, which the closure's walk knows about.
runtimeCapabilityViolations(tree) == {n \in DOMAIN tree : UnsafeNode(tree, n)}

\* More nodes, or a deeper tree, than the analysis is meant for.
runtimeAstLimitFailure(tree, nodes, depth) ==
  \/ Len(tree) > nodes
  \/ LET deep[n \in 0 .. Len(tree)] == IF n = ROOT THEN 1 ELSE 1 + deep[tree[n].up]
     IN \E n \in DOMAIN tree : deep[n] > depth

-----------------------------------------------------------------------------
(* The language's own rule, from the declaration's side: the part of the   *)
(* program in which a name means what the declaration binds.               *)

Inside(tree, n, scope) == scope \in Chain(tree)[n]

Region(tree, d) ==
  LET node == tree[d]
      Around(m) ==
        \A s \in Chain(tree)[d] \ {d} :
          s = ROOT \/ tree[s].kind \in {"function", "class", "block", "catch"} => Inside(tree, m, s)
      FunctionAround(m) ==
        \A s \in Chain(tree)[d] \ {d} :
          s # ROOT /\ FunctionScopes(tree, s) => Inside(tree, m, s)
  IN {m \in DOMAIN tree :
        /\ node.form \notin {"ambient", "type", "overload", "declare"}
        /\ \/ node.kind = "variable" /\ node.form = "var" /\ FunctionAround(m)
           \/ node.kind = "variable" /\ node.form # "var" /\ Around(m)
           \/ node.kind = "imported name" /\ Around(m)
           \/ node.kind \in {"function", "class"} /\ node.form = "declaration" /\ Around(m)
           \/ node.kind \in {"function", "class"} /\ node.form # "declaration" /\ Inside(tree, m, d)
           \/ node.kind = "catch" /\ Inside(tree, m, d)
           \/ node.kind = "parameter" /\ Inside(tree, m, node.up)}

RefersToGlobal(tree, n) ==
  ~\E d \in DOMAIN tree : tree[d].name = tree[n].name /\ n \in Region(tree, d)

\* Of what the machine gives every program, the dangerous is not touched, and of the
\* sensitive only safe members are read, wherever shadowing declarations stand: in a block,
\* a function, a parameter list, an import, or a type.
ReachesNoGlobal(tree) ==
  \A n \in DOMAIN tree :
    /\ tree[n].kind = "identifier" /\ tree[n].form \in {"value", "receiver"}
    /\ RefersToGlobal(tree, n)
    => /\ tree[n].name \notin DANGEROUS_GLOBALS
       /\ tree[n].name \in SENSITIVE_OBJECTS =>
            /\ tree[n].form = "receiver"
            /\ tree[tree[n].up].form = "dot"
            /\ tree[tree[n].up].name \in SAFE_MEMBERS[tree[n].name]

\* A program that the analysis lets pass reaches none of them
\* (node-import-closure-verifier.mts:432).
NoGlobalEscapes(tree) == runtimeCapabilityViolations(tree) = {} => ReachesNoGlobal(tree)
=============================================================================

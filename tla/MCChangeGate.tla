---------------------------- MODULE MCChangeGate ----------------------------
(***************************************************************************)
(* Small histories for TLC.  The default branch has m0, before the scripts *)
(* of the gate, m1 and m2.  The other branch, the stack, has code on top   *)
(* of m1, or a commit on m0 and then merged m2.  Changes on top of m1, or  *)
(* of the stack, are proposed.                                             *)
(***************************************************************************)
EXTENDS ChangeGate

Guide == <<"docs", "guide.md">>
Notes == <<"docs", "state", "notes.md">>
Code == <<"src", "a.ts">>
MCPaths == {Guide, Notes, Code}
MCPlain == {"docs", "state", "src", "guide.md", "notes.md", "a.ts"}
MCMarkdown == {"guide.md", "notes.md"}

Blob(content) == [kind |-> "regular", content |-> content]
Symlink(content) == [kind |-> "link", content |-> content]
Tree(guide, notes, code) == (Guide :> guide) @@ (Notes :> notes) @@ (Code :> code)

Main == Tree(Blob("v1"), None, Blob("v1"))

\* Each proposal: what it is based on, and its tree.
MCTrees ==
  [m0 |-> Tree(Blob("v0"), None, Blob("v0")), m1 |-> Main, m2 |-> Tree(Blob("v1"), None, Blob("v2")),
   stack |-> Tree(Blob("v1"), None, Blob("v3")),
   side |-> Tree(Blob("v0"), Blob("v1"), Blob("v0")),
   merged |-> Tree(Blob("v1"), Blob("v1"), Blob("v2")),
   words |-> Tree(Blob("v2"), None, Blob("v1")),       \* documentation changes
   moved |-> Tree(None, Blob("v1"), Blob("v1")),       \* and is renamed
   code |-> Tree(Blob("v2"), None, Blob("v4")),        \* with code
   taken |-> Tree(Blob("v1"), Blob("v1"), None),       \* code becomes documentation
   linked |-> Tree(Symlink("v1"), None, Blob("v1")),      \* a file becomes a link
   onStack |-> Tree(Blob("v2"), None, Blob("v3")),     \* documentation on the stack
   undo |-> Tree(Blob("v2"), None, Blob("v0")),        \* with code as it was in m0
   same |-> Main]
MCCommits == DOMAIN MCTrees
MCHeads == {"words", "moved", "code", "taken", "linked", "onStack", "undo", "same"}
MCParents ==
  [c \in MCCommits |-> CASE c = "m0" -> {} [] c \in {"m1", "side"} -> {"m0"}
                         [] c = "onStack" -> {"stack"} [] c = "merged" -> {"side", "m2"}
                         [] OTHER -> {"m1"}]
MCLine == {"m0", "m1", "m2"}
MCStacks == {"stack", "merged"}
MCScripted == MCCommits \ {"m0"}
=============================================================================

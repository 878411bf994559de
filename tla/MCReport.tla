------------------------------ MODULE MCReport -------------------------------
(* Small pull requests, issues and reviews of them.                        *)
EXTENDS GroundingReport

-----------------------------------------------------------------------------
(* Texts for the criteria: marks of comments and fences in every relation  *)
(* to references and checkboxes.                                           *)

Word(sort, code) == [sort |-> sort, code |-> code, kind |-> "", repo |-> "", number |-> 0]
Prose == Word("prose", FALSE)
Code == Word("prose", TRUE)
Ref(kind, repo, n) == [sort |-> "ref", code |-> FALSE, kind |-> kind, repo |-> repo, number |-> n]
Closes(n) == Ref("closing", "", n)
Refs(n) == Ref("non-closing", "this", n)
Begins(code) == Word("opens", code)
Shuts(code) == Word("closes", code)

TextLine(kind, level, words) ==
  [kind |-> kind, level |-> level, checked |-> FALSE, words |-> words, lost |-> FALSE]
Text(words) == TextLine("text", 0, words)
Box(words) == TextLine("checkbox", 0, words)
Ticked(words) == [Box(words) EXCEPT !.checked = TRUE]
Lost(line) == [line EXCEPT !.lost = TRUE]
Fence(n) == TextLine("fence", n, <<>>)
Criteria == TextLine("ac heading", 3, <<Prose>>)
Heading(n) == TextLine("heading", n, <<Prose>>)
Markdown(lines) == [lines |-> lines, plain |-> FALSE]

PullBodies ==
  {Markdown(<<Text(<<Closes(1), Refs(2), Closes(3)>>)>>),
   Markdown(<<Text(<<Refs(1), Closes(0), Ref("closing", "other", 3), Closes(2), Closes(1)>>)>>),
   Markdown(<<Text(<<Begins(TRUE), Prose>>), Text(<<Closes(1)>>),
              Text(<<Shuts(TRUE), Closes(2)>>)>>),
   Markdown(<<Lost(Text(<<Begins(TRUE)>>)), Text(<<Closes(1)>>),
              Text(<<Shuts(FALSE), Begins(FALSE), Closes(2), Shuts(FALSE)>>)>>),
   Markdown(<<Text(<<Begins(FALSE), Closes(1), Shuts(FALSE), Closes(2)>>),
              Text(<<Begins(FALSE), Closes(3)>>)>>),
   Markdown(<<Fence(3), Text(<<Closes(1)>>), Fence(4), Text(<<Closes(2)>>)>>),
   [lines |-> <<Text(<<Begins(TRUE), Closes(1), Shuts(FALSE), Closes(2)>>)>>, plain |-> TRUE]}

Repeats == Markdown(<<Criteria, Box(<<Prose>>), Box(<<Prose>>), Ticked(<<Prose, Code>>)>>)
IssueBodies ==
  {Repeats,
   Markdown(<<Criteria, Heading(4), Box(<<Code>>), Heading(2), Box(<<Prose>>)>>),
   Markdown(<<Fence(3), Criteria, Fence(3), Text(<<Begins(FALSE)>>), Box(<<Prose>>),
              Text(<<Shuts(FALSE)>>), Criteria, Box(<<Prose>>), Box(<<>>)>>),
   Markdown(<<Criteria, Box(<<Prose, Begins(TRUE)>>), Box(<<Prose>>), Box(<<Shuts(TRUE)>>)>>),
   Markdown(<<Criteria, Lost(Box(<<Begins(TRUE)>>)), Box(<<Prose>>), Box(<<Shuts(FALSE)>>)>>)}

\* One issue of each kind beside one of the first, or none; whole lines and half ones.
SpineInputs ==
  [pr : [body : PullBodies, sources : {<<>>, << <<Text(<<Closes(2)>>)>> >>}],
   issues : {<<a, b, c>> : a \in IssueBodies, b \in {Repeats, None},
                           c \in {Markdown(<<Criteria, Box(<<Prose>>)>>), Markdown(<<>>)}},
   budget : {1, 4, 7, 9, 13, 20}]

-----------------------------------------------------------------------------
(* Reviews: artifacts of the runner, a verdict on each, and what followed. *)

Of2(a, b) == Markdown(<<Text(<<a, b>>)>>)
Owing(n) == Markdown(<<Criteria>> \o [i \in 1 .. n |-> Box(<<Prose>>)])

Artifacts ==
  LET written ==
        {RunnerWrites([body |-> body, sources |-> <<>>], <<Owing(m), Owing(2), Owing(1)>>, budget) :
           body \in {Of2(Closes(1), Closes(2)), Of2(Refs(1), Closes(2)), Of2(Refs(1), Refs(2)),
                     Markdown(<<Text(<<Refs(1)>>)>>),
                     Markdown(<<Text(<<Closes(1), Refs(2), Closes(3)>>)>>)},
           m \in {0, 1, 3}, budget \in {3, 6, 14, 40}} \ {None}
      Old(a) == [a EXCEPT !.linkedIssueProvenance = None,
                          !.entries = [k \in DOMAIN @ |-> [@[k] EXCEPT !.criterionDigest = None]]]
  IN written \cup {Old(a) : a \in {a \in written : Len(a.entries) = 4}}

Finding(id, satisfied, rationale) ==
  [form |-> "finding", criterionId |-> id, satisfied |-> satisfied, rationale |-> rationale]
Verdict(findings) == [form |-> "object", findings |-> findings]
SoundVerdicts(a) ==
  LET All(satisfied, rationale) ==
        [k \in DOMAIN a.entries |-> Finding(a.entries[k].criterionId, satisfied, rationale)]
  IN {Verdict(<<>>), Verdict(All("yes", "text")), Verdict(All("yes", "long text")),
      Verdict(All("no", "long text")), Verdict(Upto(All("yes", "text"), 1)),
      Verdict(Beyond(All("yes", "text"), 1)),
      Verdict(<<Finding(<<9, 1>>, "no", "text")>> \o Upto(All("no", "text"), 2))}
FlawedVerdicts ==
  LET f == Finding(<<1, 1>>, "yes", "text")
  IN {[form |-> form, findings |-> <<f>>] :
        form \in {"too large", "not UTF-8", "not JSON", "no object", "no findings", "extra key"}}
       \cup {Verdict(<<g, f>>) :
               g \in {f, [f EXCEPT !.form = "no object"], [f EXCEPT !.form = "extra key"],
                      [f EXCEPT !.criterionId = None], [f EXCEPT !.satisfied = "odd"],
                      [f EXCEPT !.rationale = "invisible", !.satisfied = "odd"]}}
       \cup {Verdict([k \in 1 .. MAX_FINDINGS + 1 |-> Finding(<<1, k>>, "yes", "text")])}

Nows ==
  {[closing |-> c, referenced |-> c \cup r] :
     c \in {{}, {1}, {2}, {1, 2}, {1, 3}}, r \in {{}, {1, 2}, {2, 3}}}

DiffLine(mark) ==
  [mark |-> mark, looks |-> "", path |-> None, old |-> 0, start |-> 0, new |-> 0]
LooksLikeFile == [DiffLine("+") EXCEPT !.looks = "file", !.path = "r"]
AHunk(start, lines) == [start |-> start, lines |-> lines]
AFile(path, hunks) == [path |-> path, hunks |-> hunks]
Adds == <<AFile("p", <<AHunk(1, <<DiffLine("+")>>)>>)>>
OnlyDeletes == <<AFile(None, <<AHunk(1, <<DiffLine("-")>>)>>)>>

Unposted == [ok |-> TRUE, unresolved |-> {}, advice |-> 0]

Review(a, diffTruncated, raw, now, files, posted) ==
  [a |-> a, diffTruncated |-> diffTruncated, raw |-> raw, now |-> now, files |-> files,
   posted |-> posted]

\* All comments in open threads, all but one, one, or none; the first may be refused.
ReviewsOf(a, raw) ==
  LET Plan(d, now) ==
        tryPostBlockersInline(a, joinFindingsToSpine(a.entries, raw.findings), d, now,
                              Rendered(Adds), Unposted).plan
      Outcomes(markers) ==
        {o \in [ok : BOOLEAN, advice : {0},
                unresolved : {{}, markers} \cup UNION {{{m}, markers \ {m}} : m \in markers}] :
           o.ok \/ o.unresolved # markers}
          \cup {[ok |-> TRUE, unresolved |-> markers, advice |-> 2]}
      Posted(d, now) ==
        {Review(a, d, raw, now, Adds, o) :
           o \in Outcomes({c.marker : c \in Plan(d, now).comments})}
  IN UNION {Posted(d, now) : d \in BOOLEAN, now \in Nows}
       \cup {Review(a, d, raw, now, OnlyDeletes, Unposted) : d \in BOOLEAN, now \in Nows}

FlawedReviewsOf(a) ==
  {Review(a, FALSE, raw, [closing |-> {}, referenced |-> {1}], Adds, Unposted) :
     raw \in FlawedVerdicts}

Lists == {Ascending(S) : S \in SUBSET {22, 333333333, 444444444, 555555555, 666666666}}
SkippedLists ==
  {p \in [stale : Lists, downgraded : Lists] : ToSet(p.stale) \cap ToSet(p.downgraded) = {}}

DiffLines == {DiffLine(mark) : mark \in {"+", "-", " ", "no newline"}} \cup {LooksLikeFile}
Bodies2 == {<<x>> : x \in DiffLines} \cup {<<x, y>> : x \in DiffLines, y \in DiffLines}
Diffs ==
  {[files |-> <<AFile(path, <<AHunk(3, x)>>),
               AFile("q", <<AHunk(7, y), AHunk(9, <<DiffLine("+")>>)>>)>>,
    length |-> n] :
     path \in {None, "p"}, x \in Bodies2,
     y \in {<<DiffLine("-"), DiffLine(" ")>>, <<DiffLine(" "), LooksLikeFile>>}, n \in 4 .. 14}

Thread(n, digest) ==
  [issueNumber |-> n, digest |-> digest, generation |-> 2, ours |-> TRUE, note |-> None,
   resolved |-> FALSE, patch |-> "ok"]
AThread == Thread(1, <<0, <<Prose>>>>)
Threads ==
  {[AThread EXCEPT !.issueNumber = n, !.digest = <<k, w>>, !.note = note] :
     n \in 1 .. 3, k \in {0, 1}, w \in {<<Prose>>, <<Code>>}, note \in {None, 1, 2}}
  \cup {[AThread EXCEPT !.digest = None], [AThread EXCEPT !.generation = None],
        [AThread EXCEPT !.generation = 3, !.note = 2], [AThread EXCEPT !.ours = FALSE, !.note = 2],
        [AThread EXCEPT !.resolved = TRUE, !.note = 2],
        [AThread EXCEPT !.digest = <<0, <<Code>>>>, !.patch = "gone"],
        [AThread EXCEPT !.digest = <<0, <<Code>>>>, !.patch = "fails"]}
AnIssue(body) == [body |-> body, updatedAt |-> 2]
Annotations ==
  {[threads |-> <<x, y, Thread(2, <<0, <<Code>>>>)>>, closing |-> {1, 2}, found |-> TRUE,
    generation |-> g, issues |-> <<AnIssue(Owing(1)), i, AnIssue(Owing(2))>>] :
     x \in Threads, y \in Threads, g \in {2, 3},
     i \in {None, AnIssue(Markdown(<<Fence(3), Box(<<Code>>)>>)), AnIssue(Owing(4))}}
  \cup {[threads |-> <<x, Thread(2, <<0, <<Code>>>>), Thread(3, <<0, <<Code>>>>)>>,
         closing |-> {1, 2, 3}, found |-> found, generation |-> g,
         issues |-> [n \in 1 .. 3 |-> AnIssue(Owing(1))]] :
          x \in Threads, found \in BOOLEAN, g \in {2, 3, 4}}
=============================================================================

----------------------------- MODULE MCSurface ------------------------------
(* Small workflow files: a plain one, and what differs from it in one or   *)
(* two places.                                                             *)
EXTENDS WorkflowSurface

Flag(b) == Value("boolean", b, 0, <<>>)
Number(n) == Value("integer", "", n, <<>>)
Inexact == Value("number", "", 0, <<>>)
Loose(items) == Value("loose mapping", "", 0, items)
Of(key, text) == Keyed(key, String(text))

\* What is undefined is not declared.
Declared(items) == Mapping(SelectSeq(items, LAMBDA x : x.is # "undefined"))
With(x, key, value) ==
  Declared(Append(SelectSeq(x.items, LAMBDA item : item.key # key), Keyed(key, value)))

PlainStep == Mapping(<<Of("run", "echo")>>)
PlainJob == Mapping(<<Of("runs-on", "ubuntu"), Keyed("steps", Sequence(<<PlainStep>>))>>)
Jobs(one, two) == Declared(<<Keyed("build", one), Keyed("test", two)>>)
Workflow(jobs) == Mapping(<<Of("on", "push"), Keyed("jobs", jobs)>>)
OneStep(job, step) == With(job, "steps", Sequence(<<step>>))
OneJob(job) == Workflow(Jobs(job, Undefined))

Environments ==
  {Undefined, Mapping(<<Of("A", "one")>>), Mapping(<<Of("a", "one")>>),
   Mapping(<<Of("A", "two"), Of("B", "one")>>), Mapping(<<Of("B", "two"), Of("b", "one")>>),
   Mapping(<<Keyed("A", Inexact)>>), Loose(<<Of("1", "one")>>), Null}

OfEnvironments ==
  {With(OneJob(With(OneStep(PlainJob, With(step, "env", c)), "env", b)), "env", a) :
     a \in Environments, b \in Environments, c \in Environments,
     step \in {PlainStep, Mapping(<<Of("uses", "pinned"),
                                    Keyed("with", Mapping(<<Of("A", "one"), Of("B", "x")>>))>>)}}

Runs ==
  {Undefined, Mapping(<<Of("shell", "bash")>>), Mapping(<<Of("working-directory", "web")>>),
   Mapping(<<Of("shell", "sh"), Of("working-directory", "docs")>>),
   Mapping(<<Of("shell", "template")>>), Mapping(<<Of("shell", "")>>),
   Mapping(<<Of("colour", "x")>>)}
UnderRun(run) == IF run = Undefined THEN Undefined ELSE Mapping(<<Keyed("run", run)>>)

OfDefaults ==
  {With(OneJob(With(OneStep(PlainJob, Mapping(PlainStep.items \o c.items)),
                    "defaults", UnderRun(b))), "defaults", UnderRun(a)) :
     a \in Runs, b \in Runs, c \in Runs}

Permissions ==
  {Undefined, Null, Mapping(<<>>), String("read-all"), String("write-all"), String("all"),
   Mapping(<<Of("contents", "read"), Of("issues", "write")>>),
   Mapping(<<Of("models", "read")>>), Mapping(<<Of("id-token", "read")>>),
   Mapping(<<Of("contents", "none")>>), Mapping(<<Of("wiki", "read")>>)}

OfPermissions ==
  {With(OneJob(With(PlainJob, "permissions", b)), "permissions", a) :
     a \in Permissions, b \in Permissions}

Triggers ==
  {Undefined, Null, String("push"), String("schedule"), String("template"), Sequence(<<>>),
   Sequence(<<String("push"), String("issues")>>), Sequence(<<String("push"), String("push")>>),
   Mapping(<<Keyed("push", Mapping(<<>>)), Keyed("issues", Null)>>),
   Mapping(<<Keyed("push", Sequence(<<>>))>>),
   Mapping(<<Keyed("schedule", Sequence(<<Mapping(<<Of("cron", "daily")>>)>>))>>),
   Mapping(<<Keyed("schedule", Sequence(<<Mapping(<<Of("timezone", "utc")>>)>>))>>),
   Mapping(<<Keyed("image_version", Mapping(<<Keyed("names", Sequence(<<String("x")>>)),
                                              Keyed("versions", Sequence(<<String("y")>>))>>))>>),
   Mapping(<<Keyed("image_version", Mapping(<<Keyed("names", Sequence(<<String("x")>>))>>))>>)}

OfTriggers == {With(OneJob(PlainJob), "on", x) : x \in Triggers}

Scalars ==
  {Null, Flag("true"), Flag("false"), Number(0), Number(5), Number(361), Inexact,
   String(""), String("template"), String("build")}
Matrix(items) == Mapping(<<Keyed("matrix", Mapping(<<Keyed("A", Sequence(items))>>))>>)
Controls ==
  Scalars \cup
  {Mapping(<<Of("group", "build"), Keyed("cancel-in-progress", Flag("false"))>>),
   Mapping(<<Of("group", "build"), Of("cancel-in-progress", "build")>>), Mapping(<<>>),
   Sequence(<<String("build"), String("test")>>), Sequence(<<Number(5)>>),
   Matrix(<<Null, Null>>), Matrix(<<Null, Null, Null>>), Matrix(<<Sequence(<<Null>>)>>),
   Mapping(<<Of("matrix", "template")>>),
   Mapping(<<Of("name", "A"), Of("url", "x"), Keyed("deployment", Flag("true"))>>),
   Mapping(<<Of("name", "not-portable")>>), Mapping(<<Of("build", "x")>>)}

OfControls ==
  {OneJob(With(PlainJob, key, x)) :
     key \in ToSet(CONTROLS) \cup {"runs-on", "name", "uses", "steps"}, x \in Controls}
    \cup {OneJob(OneStep(PlainJob, With(PlainStep, key, x))) :
            key \in {"id", "if", "name", "continue-on-error", "timeout-minutes", "run", "shell",
                     "with"}, x \in Controls}
    \cup {With(OneJob(With(PlainJob, "runs-on", y)), "concurrency", x) :
            x \in Controls, y \in {String("ubuntu"), Null}}
    \cup {Workflow(Jobs(With(PlainJob, "environment", String(a)),
                        With(PlainJob, "environment", String(b)))) :
            a \in {"A", "B", "a"}, b \in {"A", "b", "a"}}

Inputs ==
  {Undefined, Null, Mapping(<<>>), Mapping(<<Keyed("A", Null), Of("B", "x")>>),
   Mapping(<<Of("B", "x"), Of("b", "x")>>), Mapping(<<Keyed("A", Sequence(<<>>))>>)}
OfActions ==
  {OneJob(OneStep(PlainJob, With(Mapping(<<Of("uses", action)>>), "with", x))) :
     action \in {"pinned", "deep", "branch", "local", "climbs", "template", "x"}, x \in Inputs}
    \cup {OneJob(OneStep(PlainJob, Mapping(<<Of("uses", "pinned"), Of(key, "x")>>))) :
            key \in {"shell", "run"}}

OfSizes ==
  {With(Workflow(Jobs([PlainJob EXCEPT !.items[2] = Keyed("steps", Sequence(a))],
                      [PlainJob EXCEPT !.items[2] = Keyed("steps", Sequence(b))])), "name", c) :
     a \in {<<>>, <<PlainStep, PlainStep>>, <<Null, Null, Null>>},
     b \in {<<>>, <<PlainStep>>, <<PlainStep, PlainStep>>, <<Null>>},
     c \in {Undefined, Null, String("x")}}
    \cup {Null, Workflow(Mapping(<<>>)), Workflow(Null), Workflow(Loose(<<Keyed("1", PlainJob)>>)),
          With(OneJob(PlainJob), "colour", Null), Workflow(Mapping(<<Keyed("x", PlainJob)>>)),
          Workflow(Mapping(<<Keyed("build", PlainJob), Keyed("test", PlainJob),
                             Keyed("A", PlainJob)>>))}

WorkflowFile(root) == [inPlace |-> TRUE, tooLong |-> FALSE, problems |-> 0, root |-> root]
WorkflowFiles ==
  {WorkflowFile(root) : root \in OfEnvironments \cup OfDefaults \cup OfPermissions \cup OfTriggers
                                   \cup OfControls \cup OfActions \cup OfSizes}
    \cup {[WorkflowFile(OneJob(PlainJob)) EXCEPT !.inPlace = a, !.tooLong = b, !.problems = n] :
            a \in BOOLEAN, b \in BOOLEAN, n \in 0 .. 3}

MCIdentifiers == {"build", "test", "A", "a", "B", "b", "not-portable"}
MCCaseFold ==
  [name \in MCIdentifiers \cup {"x"} |->
     CASE name = "a" -> "A" [] name = "b" -> "B" [] OTHER -> name]
MCActionOf ==
  LET Action(segments, commit) == [segments |-> segments, commit |-> commit]
  IN [text \in {"pinned", "deep", "branch", "local", "climbs", "template"} |->
        CASE text = "pinned" -> Action(<<"a", "b">>, TRUE)
          [] text = "deep" -> Action(<<"A", "b", "x">>, TRUE)
          [] text = "branch" -> Action(<<"A", "b">>, FALSE)
          [] text = "local" -> Action(<<"A">>, TRUE)
          [] text = "climbs" -> Action(<<"A", "b", "..">>, TRUE)
          [] OTHER -> Action(<<"A", "b">>, TRUE)]
=============================================================================

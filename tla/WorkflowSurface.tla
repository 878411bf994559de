-------------------------- MODULE WorkflowSurface ---------------------------
(***************************************************************************)
(* What a workflow file would execute                                      *)
(* (scripts/factory/workflow-execution-surface-logic.mts, with the shared  *)
(* workflow-permissions-logic.mts and workflow-canonical-value-logic.mts): *)
(* the canonical evidence of its jobs and steps, with what each inherits,  *)
(* or violations and no evidence.                                          *)
(*                                                                         *)
(* A YAML value is [key, is, text, number, items]: is "null", "boolean",   *)
(* "integer", "text", "sequence", "mapping", "loose mapping" (a key is no  *)
(* string), or "number" for those that have no exact form; key is its own  *)
(* key if it is an entry of a mapping.  Aliases are expanded.  A file is   *)
(* [inPlace, tooLong, problems, root]: the bytes and the parser's problems *)
(* are counted by others.  Violations are counted, their words left out;   *)
(* so are the limits on the lengths of texts.                              *)
(***************************************************************************)
EXTENDS Integers, FiniteSets, SequencesExt, Absent

CONSTANTS
  MAX_WORKFLOW_JOBS, MAX_WORKFLOW_STEPS, MAX_WORKFLOW_BINDINGS, MAX_WORKFLOW_VIOLATIONS,
  MAX_WORKFLOW_CANONICAL_VALUES, MAX_WORKFLOW_CANONICAL_DEPTH,
  MAX_EXPANDED_YAML_PREFLIGHT_NODES, MAX_EXPANDED_YAML_PREFLIGHT_DEPTH,
  Identifiers,  \* those of variables have no hyphen
  Hyphenated,
  Templates,    \* texts with an expression in them
  RepositoryNames,
  CaseFold,     \* the names that the runner tells apart, per text
  ActionOf      \* a text of "uses": its segments, and whether one full commit follows

ASSUME SurfaceAssumption ==
  /\ {MAX_WORKFLOW_JOBS, MAX_WORKFLOW_STEPS, MAX_WORKFLOW_BINDINGS, MAX_WORKFLOW_VIOLATIONS,
      MAX_WORKFLOW_CANONICAL_VALUES, MAX_WORKFLOW_CANONICAL_DEPTH} \subseteq Nat \ {0}
  /\ Hyphenated \subseteq Identifiers

Value(is, text, number, items) ==
  [key |-> "", is |-> is, text |-> text, number |-> number, items |-> items]

Undefined == Value("undefined", "", 0, <<>>)
Null == Value("null", "", 0, <<>>)
String(text) == Value("text", text, 0, <<>>)
Mapping(items) == Value("mapping", "", 0, items)
Sequence(items) == Value("sequence", "", 0, items)
Keyed(key, x) == [x EXCEPT !.key = key]

isRecord(x) == x.is \in {"mapping", "loose mapping"}
isStringKeyedMap(x) == x.is = "mapping"
Keys(x) == {item.key : item \in ToSet(x.items)}
At(x, key) ==
  IF isRecord(x) /\ key \in Keys(x)
  THEN Keyed("", CHOOSE item \in ToSet(x.items) : item.key = key) ELSE Undefined
Given(x, key) == At(x, key) # Undefined

exactNonEmptyText(x) == x.is = "text" /\ x.text # ""
staticNonEmptyText(x) == exactNonEmptyText(x) /\ x.text \notin Templates
isCanonicalIdentifier(x) == x.is = "text" /\ x.text \in Identifiers
scalarValue(x) == x.is \in {"text", "boolean", "integer"}
Everyone(x, Accepts(_)) == \A item \in ToSet(x.items) : Accepts(item)

\* In the order of their names, whichever that is.
Sorted(x) == [x EXCEPT !.items = SetToSeq(ToSet(@))]

-----------------------------------------------------------------------------
(* The grammars.  What is not accepted is undefined.                       *)

Either(accepted, x) == IF accepted THEN x ELSE Undefined

conditionEvidence(x) == x.is \in {"boolean", "integer"} \/ exactNonEmptyText(x)
booleanExpressionEvidence(x) ==
  x.is = "boolean" \/ (exactNonEmptyText(x) /\ x.text \in Templates)
timeoutEvidence(x) ==
  (x.is = "integer" /\ x.number > 0) \/ (exactNonEmptyText(x) /\ x.text \in Templates)
stepTimeoutEvidence(x) == timeoutEvidence(x) /\ (x.is = "integer" => x.number <= 360)

PlainEvents == {"push", "pull_request", "issues", "workflow_dispatch"}

EventConfiguration(name, x) ==
  CASE name = "image_version" ->
         /\ isStringKeyedMap(x) /\ Keys(x) = {"names", "versions"}
         /\ Everyone(x, LAMBDA f : /\ f.is = "sequence" /\ f.items # <<>>
                                   /\ Everyone(f, staticNonEmptyText))
    [] name = "schedule" ->
         /\ x.is = "sequence" /\ x.items # <<>>
         /\ Everyone(x, LAMBDA entry :
              /\ isStringKeyedMap(entry) /\ Keys(entry) \subseteq {"cron", "timezone"}
              /\ Given(entry, "cron") /\ Everyone(entry, exactNonEmptyText))
    [] OTHER -> name \in PlainEvents /\ (x = Null \/ isStringKeyedMap(x))

normalizedTrigger(x) ==
  LET Bare(event) == IF staticNonEmptyText(event) THEN Keyed(event.text, Null) ELSE Undefined
      events ==
        IF x.is = "text" THEN <<Bare(x)>>
        ELSE IF x.is = "sequence" THEN [i \in DOMAIN x.items |-> Bare(x.items[i])]
        ELSE IF isStringKeyedMap(x) THEN x.items ELSE <<>>
      Plain(event) == IF event.is = "mapping" /\ event.items = <<>>
                      THEN Keyed(event.key, Null) ELSE event
  IN Either(/\ events # <<>> /\ Cardinality({e.key : e \in ToSet(events)}) = Len(events)
            /\ \A e \in ToSet(events) : EventConfiguration(e.key, Keyed("", e)),
            Sorted(Mapping([i \in DOMAIN events |-> Plain(events[i])])))

Closed(x, keys) == isStringKeyedMap(x) /\ Keys(x) \subseteq keys
Optional(x, key, Accepts(_)) == Given(x, key) => Accepts(At(x, key))

normalizedConcurrency(x) ==
  IF exactNonEmptyText(x) THEN Mapping(<<Keyed("group", x)>>)
  ELSE Either(/\ Closed(x, {"cancel-in-progress", "group"}) /\ exactNonEmptyText(At(x, "group"))
              /\ Optional(x, "cancel-in-progress", booleanExpressionEvidence),
              Sorted(Mapping(SelectSeq(x.items, LAMBDA item :
                ~(item.is = "boolean" /\ item.text = "false")))))

normalizedRunner(x) ==
  IF exactNonEmptyText(x) THEN Sequence(<<x>>)
  ELSE Either(x.is = "sequence" /\ x.items # <<>> /\ Everyone(x, exactNonEmptyText), x)

normalizedNeeds(x) ==
  IF isCanonicalIdentifier(x) THEN Sequence(<<x>>)
  ELSE Either(x.is = "sequence" /\ x.items # <<>> /\ Everyone(x, isCanonicalIdentifier), x)

validStrategy(x) ==
  /\ Closed(x, {"fail-fast", "matrix", "max-parallel"})
  /\ isStringKeyedMap(At(x, "matrix")) \/ exactNonEmptyText(At(x, "matrix"))
  /\ Optional(x, "fail-fast", booleanExpressionEvidence)
  /\ Optional(x, "max-parallel", timeoutEvidence)

validOutputs(x) ==
  isStringKeyedMap(x) /\ Keys(x) \subseteq Identifiers /\ Everyone(x, exactNonEmptyText)

EnvironmentName(text) == text \in Identifiers \ Hyphenated

normalizedDeploymentEnvironment(x) ==
  IF exactNonEmptyText(x)
  THEN Either(EnvironmentName(x.text), Mapping(<<Keyed("name", x)>>))
  ELSE Either(/\ Closed(x, {"deployment", "name", "url"})
              /\ At(x, "name").is = "text" /\ EnvironmentName(At(x, "name").text)
              /\ Optional(x, "url", exactNonEmptyText)
              /\ Optional(x, "deployment", booleanExpressionEvidence),
              Sorted(x))

-----------------------------------------------------------------------------
(* Permissions: a job's declaration replaces the workflow's.               *)

PERMISSION_ACCESS ==
  [scope \in {"contents", "issues", "id-token", "models"} |->
     CASE scope = "id-token" -> {"none", "write"}
       [] scope = "models" -> {"none", "read"}
       [] OTHER -> {"none", "read", "write"}]

resolveEffectiveWorkflowPermissions(workflowValue, jobValue) ==
  LET source == IF jobValue # Undefined THEN "job" ELSE "workflow"
      declared == IF jobValue # Undefined THEN jobValue ELSE workflowValue
      Resolved(capability, from) ==
        [declaredCapability |-> capability, source |-> from,
         entries |-> {<<item.key, item.text>> : item \in ToSet(declared.items)}]
      accesses == {item.text : item \in ToSet(declared.items)}
  IN IF declared = Undefined THEN Resolved("unresolved-default", None)
     ELSE IF declared = String("read-all") THEN Resolved("read", source)
     ELSE IF declared = String("write-all") THEN Resolved("write", source)
     ELSE IF ~isRecord(declared) THEN None
     ELSE IF \E item \in ToSet(declared.items) :
               \/ item.key \notin DOMAIN PERMISSION_ACCESS \/ item.is # "text"
               \/ item.text \notin PERMISSION_ACCESS[item.key]
     THEN None
     ELSE Resolved(IF "write" \in accesses THEN "write"
                   ELSE IF "read" \in accesses THEN "read" ELSE "none", source)

-----------------------------------------------------------------------------
(* What is kept while the jobs are read.  value is the last value made.    *)

Opening ==
  [violations |-> 0, saturated |-> FALSE, emitted |-> 0, deepest |-> 0, steps |-> 0,
   bindings |-> 0, over |-> FALSE, deployments |-> {}, value |-> Undefined, scope |-> {},
   jobs |-> <<>>]

addViolation(s) ==
  IF s.saturated THEN s
  ELSE IF s.violations >= MAX_WORKFLOW_VIOLATIONS
  THEN [s EXCEPT !.violations = 1, !.saturated = TRUE]
  ELSE [s EXCEPT !.violations = @ + 1]

Requires(accepted, s) == IF accepted THEN s ELSE addViolation(s)

\* The values are counted as they are emitted, keys among them.
RECURSIVE canonicalizeAtDepth(_, _, _)
canonicalizeAtDepth(b, x, depth) ==
  LET Key(c) == IF x.is = "mapping" THEN canonicalizeAtDepth(c, Null, depth + 1) ELSE c
  IN IF b.kind # "canonical" THEN b
     ELSE IF depth > b.depthLimit \/ b.emitted >= b.limit
     THEN [b EXCEPT !.kind = "resource-limit"]
     ELSE LET c == [b EXCEPT !.emitted = @ + 1, !.deepest = IF depth > @ THEN depth ELSE @]
          IN IF x.is \in {"number", "loose mapping"} THEN [c EXCEPT !.kind = "unsupported-value"]
             ELSE FoldLeft(LAMBDA d, item : canonicalizeAtDepth(Key(d), item, depth + 1),
                           c, x.items)

Budget(s, limit, depthLimit) ==
  [emitted |-> s.emitted, deepest |-> s.deepest, kind |-> "canonical", limit |-> limit,
   depthLimit |-> depthLimit]

\* Numbers and keys of every kind count here.
RECURSIVE Expanded(_)
Expanded(x) ==
  [x EXCEPT !.is = IF isRecord(x) THEN "mapping" ELSE "text",
            !.items = [i \in DOMAIN x.items |-> Expanded(x.items[i])]]

expandedYamlPreflight(root) ==
  canonicalizeAtDepth(Budget(Opening, MAX_EXPANDED_YAML_PREFLIGHT_NODES,
                             MAX_EXPANDED_YAML_PREFLIGHT_DEPTH), Expanded(root), 1).kind
    = "canonical"

canonicalContextValue(s, x) ==
  LET b == canonicalizeAtDepth(Budget(s, MAX_WORKFLOW_CANONICAL_VALUES,
                                      MAX_WORKFLOW_CANONICAL_DEPTH), x, 1)
      t == [s EXCEPT !.emitted = b.emitted, !.deepest = b.deepest]
  IN CASE b.kind = "canonical" -> [t EXCEPT !.value = x]
       [] b.kind = "unsupported-value" -> [addViolation(t) EXCEPT !.value = Undefined]
       [] OTHER -> [addViolation(t) EXCEPT !.value = Undefined, !.saturated = TRUE]

\* undefined in, undefined out
ContextValue(s, x) ==
  IF x = Undefined THEN [s EXCEPT !.value = Undefined] ELSE canonicalContextValue(s, x)

canonicalConditionEvidence(s, x, accepted) ==
  LET t == canonicalContextValue(s, x)
  IN IF t.value = Undefined \/ accepted THEN t
     ELSE [Requires(t.violations # s.violations, t) EXCEPT !.value = Undefined]

\* An undeclared control is left alone.
Condition(s, x, Parser(_)) ==
  IF x = Undefined THEN [s EXCEPT !.value = Undefined]
  ELSE canonicalConditionEvidence(s, x, Parser(x))

-----------------------------------------------------------------------------
(* Bindings: [name, value, scope].                                         *)

\* An odd name, one told apart by case alone from an earlier one, or no exact value.
canonicalBindings(s, x, scope) ==
  LET Portable(item) == item.key \in Identifiers \ Hyphenated
      Collides(i) ==
        \E h \in 1 .. i - 1 :
          Portable(x.items[h]) /\ CaseFold[x.items[h].key] = CaseFold[x.items[i].key]
      Good(i) == Portable(x.items[i]) /\ ~Collides(i) /\ scalarValue(x.items[i])
  IN IF x = Undefined THEN [s EXCEPT !.scope = {}]
     ELSE IF ~isRecord(x) THEN [addViolation(s) EXCEPT !.scope = {}]
     ELSE [FoldLeft(LAMBDA t, i : Requires(Good(i), t), s, [i \in DOMAIN x.items |-> i])
             EXCEPT !.scope = {[name |-> x.items[i].key, value |-> Keyed("", x.items[i]),
                                scope |-> scope] : i \in {i \in DOMAIN x.items : Good(i)}}]

\* A fault: the outer level has the last word on a name.
OuterWins(s, outer, inner) ==
  LET effective == {c \in inner : \A b \in outer : c.name # b.name} \cup outer
      collide == \E b, c \in effective : b.name # c.name /\ CaseFold[b.name] = CaseFold[c.name]
  IN [Requires(~collide, s) EXCEPT !.scope = IF collide THEN {} ELSE effective]

\* The inner level has the last word on a name.
mergeEnvironment(s, outer, inner) ==
  LET effective == {b \in outer : \A c \in inner : c.name # b.name} \cup inner
      collide == \E b, c \in effective : b.name # c.name /\ CaseFold[b.name] = CaseFold[c.name]
  IN [Requires(~collide, s) EXCEPT !.scope = IF collide THEN {} ELSE effective]

recordBindings(s, count) ==
  LET t == [s EXCEPT !.bindings = @ + count]
  IN IF t.bindings <= MAX_WORKFLOW_BINDINGS THEN t ELSE [addViolation(t) EXCEPT !.over = TRUE]

-----------------------------------------------------------------------------
(* Defaults and steps.                                                     *)

\* The value is what is declared under "run", or nothing.
parseDefaults(s, x) ==
  LET run == At(x, "run")
      known == Keys(x) \subseteq {"run"} /\ Keys(run) \subseteq {"shell", "working-directory"}
      static == Optional(run, "shell", staticNonEmptyText)
                  /\ Optional(run, "working-directory", staticNonEmptyText)
  IN IF x = Undefined THEN [s EXCEPT !.value = Undefined]
     ELSE IF ~isRecord(x) \/ ~isRecord(run) THEN [addViolation(s) EXCEPT !.value = Undefined]
     ELSE [Requires(static, Requires(known, s)) EXCEPT !.value = Either(static, run)]

effectiveField(step, jobDefaults, workflowDefaults, field) ==
  IF Given(step, field)
  THEN IF exactNonEmptyText(At(step, field)) THEN <<"step", At(step, field)>> ELSE None
  ELSE IF Given(jobDefaults, field) THEN <<"job-default", At(jobDefaults, field)>>
  ELSE IF Given(workflowDefaults, field) THEN <<"workflow-default", At(workflowDefaults, field)>>
  ELSE <<"implicit", Undefined>>

repositoryActionTarget(x) ==
  LET action == ActionOf[x.text]
  IN IF \/ x.is # "text" \/ x.text \in Templates \/ x.text \notin DOMAIN ActionOf THEN None
     ELSE IF \/ ~action.commit \/ Len(action.segments) < 2
             \/ ToSet(action.segments) \cap {"", ".", ".."} # {}
             \/ \E i \in {1, 2} : action.segments[i] \notin RepositoryNames
     THEN None
     ELSE [owner |-> CaseFold[action.segments[1]], repository |-> CaseFold[action.segments[2]],
           actionPath |-> SubSeq(action.segments, 3, Len(action.segments))]

\* An input may also be empty.
canonicalActionInputs(s, x) ==
  LET inputs == IF x = Undefined THEN Mapping(<<>>) ELSE x
      good == /\ isStringKeyedMap(inputs) /\ Keys(inputs) \subseteq Identifiers
              /\ \A i, h \in DOMAIN inputs.items :
                   i # h => CaseFold[inputs.items[i].key] # CaseFold[inputs.items[h].key]
              /\ Everyone(inputs, LAMBDA item : item.is = "null" \/ scalarValue(item))
  IN IF good THEN canonicalContextValue(s, Sorted(inputs))
     ELSE [addViolation(s) EXCEPT !.value = Undefined]

RUN_STEP_KEYS ==
  {"continue-on-error", "env", "id", "if", "name", "run", "shell", "timeout-minutes",
   "working-directory"}
ACTION_STEP_KEYS ==
  {"continue-on-error", "env", "id", "if", "name", "timeout-minutes", "uses", "with"}

optionalStepFields(s, step) ==
  LET a == Condition(s, At(step, "if"), conditionEvidence)
      b == Condition(a, At(step, "continue-on-error"), booleanExpressionEvidence)
      c == Condition(b, At(step, "timeout-minutes"), stepTimeoutEvidence)
      lost == \/ Given(step, "id") /\ ~isCanonicalIdentifier(At(step, "id"))
              \/ Given(step, "name") /\ At(step, "name").is # "text"
              \/ Given(step, "if") /\ a.value = Undefined
              \/ Given(step, "continue-on-error") /\ b.value = Undefined
              \/ Given(step, "timeout-minutes") /\ c.value = Undefined
      declared == {key \in {"id", "name", "if", "continue-on-error", "timeout-minutes"} :
                     Given(step, key)}
  IN [Requires(~lost, c) EXCEPT
        !.value = IF lost THEN Undefined
                  ELSE Mapping(SetToSeq({Keyed(key, At(step, key)) : key \in declared}))]

\* The evidence of a step is kept if all of it was read.
Takes(s, kept, evidence) ==
  IF kept THEN [s EXCEPT !.jobs[Len(s.jobs)].steps = Append(@, evidence)] ELSE s

ActionStep(s, step, evidence) ==
  LET target == repositoryActionTarget(At(step, "uses"))
      inputs == canonicalActionInputs(Requires(target # None, s), At(step, "with"))
      bound == IF inputs.value = Undefined THEN inputs
               ELSE recordBindings(inputs, Len(inputs.value.items))
  IN Takes(bound, target # None /\ inputs.value # Undefined /\ ~bound.over
                    /\ evidence.optional # Undefined,
           [evidence EXCEPT !.what = target, !.with = inputs.value])

RunStep(s, step, evidence, jobDefaults, workflowDefaults) ==
  LET shell == effectiveField(step, jobDefaults, workflowDefaults, "shell")
      directory == effectiveField(step, jobDefaults, workflowDefaults, "working-directory")
      whole == exactNonEmptyText(At(step, "run")) /\ shell # None /\ directory # None
  IN Takes(Requires(whole, s), whole /\ evidence.optional # Undefined,
           [evidence EXCEPT !.what = At(step, "run"), !.shell = shell,
                            !.workingDirectory = directory])

StepBody(s, step, index, optional, jobDefaults, workflowDefaults) ==
  LET counted == recordBindings(s, Cardinality(s.scope))
      evidence == [index |-> index, environment |-> s.scope, what |-> None, with |-> None,
                   shell |-> None, workingDirectory |-> None, optional |-> optional]
  IN IF counted.over THEN counted
     ELSE IF Given(step, "uses") THEN ActionStep(counted, step, evidence)
     ELSE RunStep(counted, step, evidence, jobDefaults, workflowDefaults)

StepInherits(s, step, index, environment, jobDefaults, workflowDefaults) ==
  LET own == canonicalBindings(s, At(step, "env"), "step")
  IN StepBody(mergeEnvironment(own, environment, own.scope), step, index, s.value,
              jobDefaults, workflowDefaults)

\* A step of a job, whose environment and defaults are known.
ReadsStep(s, step, index, environment, jobDefaults, workflowDefaults) ==
  LET hasRun == Given(step, "run")
      closed == /\ hasRun # Given(step, "uses")
                /\ Keys(step) \subseteq IF hasRun THEN RUN_STEP_KEYS ELSE ACTION_STEP_KEYS
  IN IF s.over \/ s.saturated THEN s
     ELSE IF ~isStringKeyedMap(step) \/ ~closed THEN addViolation(s)
     ELSE StepInherits(optionalStepFields(s, step), step, index, environment,
                       jobDefaults, workflowDefaults)

-----------------------------------------------------------------------------
(* Jobs.                                                                   *)

JOB_KEYS ==
  {"concurrency", "continue-on-error", "defaults", "env", "environment", "if", "name", "needs",
   "outputs", "permissions", "runs-on", "steps", "strategy", "timeout-minutes"}

CONTROLS ==
  <<"concurrency", "needs", "if", "strategy", "outputs", "environment", "continue-on-error",
    "timeout-minutes">>

NormalControl(x, key) ==
  CASE key = "concurrency" -> normalizedConcurrency(x)
    [] key = "needs" -> normalizedNeeds(x)
    [] key = "strategy" -> Either(validStrategy(x), x)
    [] key = "outputs" -> Either(validOutputs(x), x)
    [] OTHER -> normalizedDeploymentEnvironment(x)

ReadsDeployment(s, normal, name) ==
  LET taken == \E other \in s.deployments : other # name /\ CaseFold[other] = CaseFold[name]
  IN [Requires(~taken, canonicalContextValue(s, normal)) EXCEPT
        !.deployments = IF taken THEN @ ELSE @ \cup {name}]

KeepsControl(s, normal, key) ==
  IF key = "environment" /\ Given(normal, "name")
  THEN ReadsDeployment(s, normal, At(normal, "name").text)
  ELSE ContextValue(s, normal)

ReadsControl(s, x, key) ==
  CASE key = "if" -> Condition(s, x, conditionEvidence)
    [] key = "continue-on-error" -> Condition(s, x, booleanExpressionEvidence)
    [] key = "timeout-minutes" -> Condition(s, x, timeoutEvidence)
    [] OTHER -> KeepsControl(s, NormalControl(x, key), key)

WithControl(a, t, given, key) ==
  [state |-> t, invalid |-> a.invalid \/ (given /\ t.value = Undefined),
   controls |-> IF t.value = Undefined THEN a.controls ELSE a.controls \cup {Keyed(key, t.value)}]

ControlsRead(read, violations) ==
  [read EXCEPT !.state = Requires(~read.invalid \/ @.violations # violations, @)]

\* Every control is read; only those that were declared leave a value.
ReadsControls(s, job) ==
  ControlsRead(FoldLeft(LAMBDA a, key : WithControl(a, ReadsControl(a.state, At(job, key), key),
                                                    Given(job, key), key),
                        [state |-> s, invalid |-> FALSE, controls |-> {}], CONTROLS),
               s.violations)

Malformed(job, id) ==
  \/ id \notin Identifiers \/ ~isStringKeyedMap(job)
  \/ Given(job, "name") /\ At(job, "name").is # "text"
  \/ ~Keys(job) \subseteq JOB_KEYS \/ At(job, "steps").is # "sequence"

\* The place of a job is taken before its steps are read, and given up if it was refused.
KeepsJob(done, begun) ==
  IF begun.runner # Undefined /\ begun.permissions # None /\ ~done.over /\ ~done.saturated
  THEN done ELSE [done EXCEPT !.jobs = Front(@)]

ReadsEach(s, steps, begun, jobDefaults, workflowDefaults) ==
  KeepsJob(FoldLeft(LAMBDA t, i : ReadsStep(t, steps[i], i, begun.environment,
                                            jobDefaults, workflowDefaults),
                    [s EXCEPT !.jobs = Append(@, begun)], [i \in DOMAIN steps |-> i]),
           begun)

ReadsSteps(s, job, begun, workflowDefaults) ==
  LET defaults == parseDefaults(s, At(job, "defaults"))
      bound == recordBindings(defaults, Cardinality(s.scope))
  IN IF bound.over THEN bound
     ELSE ReadsEach(bound, At(job, "steps").items, [begun EXCEPT !.environment = s.scope],
                    defaults.value, workflowDefaults)

JobInherits(s, job, begun, workflowEnvironment, workflowDefaults) ==
  LET own == canonicalBindings(s, At(job, "env"), "job")
  IN ReadsSteps(mergeEnvironment(own, workflowEnvironment, own.scope), job, begun, workflowDefaults)

JobBody(read, job, begun, workflowEnvironment, workflowDefaults) ==
  LET counted == [read.state EXCEPT !.steps = @ + Len(At(job, "steps").items)]
  IN IF counted.steps > MAX_WORKFLOW_STEPS THEN [addViolation(counted) EXCEPT !.over = TRUE]
     ELSE JobInherits(counted, job, [begun EXCEPT !.controls = read.controls],
                      workflowEnvironment, workflowDefaults)

JobHead(ran, workflow, job, id, workflowEnvironment, workflowDefaults) ==
  LET permissions ==
        resolveEffectiveWorkflowPermissions(At(workflow, "permissions"), At(job, "permissions"))
      runs == Requires(ran.value # Undefined \/ ran.violations > 0, ran)
  IN JobBody(ReadsControls(Requires(permissions # None, runs), job), job,
             [id |-> id, runner |-> ran.value, permissions |-> permissions, controls |-> {},
              environment |-> {}, steps |-> <<>>],
             workflowEnvironment, workflowDefaults)

ReadsJob(s, workflow, id, workflowEnvironment, workflowDefaults) ==
  LET job == At(At(workflow, "jobs"), id)
  IN IF s.saturated \/ s.over THEN s
     ELSE IF Malformed(job, id) THEN addViolation(s)
     ELSE JobHead(ContextValue(s, normalizedRunner(At(job, "runs-on"))), workflow, job, id,
                  workflowEnvironment, workflowDefaults)

-----------------------------------------------------------------------------
(* The whole file.                                                         *)

WORKFLOW_KEYS ==
  {"concurrency", "defaults", "env", "jobs", "name", "on", "permissions", "run-name"}

Violated(n) == [evidence |-> None, violations |-> n]

\* The violations of a file that is not read.
Unreadable(file) ==
  LET workflow == file.root
      jobs == At(workflow, "jobs")
  IN IF ~file.inPlace \/ file.tooLong THEN 1
     ELSE IF file.problems > 0
     THEN FoldLeft(LAMBDA s, p : addViolation(s), Opening,
                   [p \in 1 .. file.problems |-> p]).violations
     ELSE IF \/ ~expandedYamlPreflight(workflow)
             \/ ~isStringKeyedMap(workflow) \/ ~isStringKeyedMap(jobs)
             \/ ~Keys(workflow) \subseteq WORKFLOW_KEYS
             \/ \E key \in {"name", "run-name"} :
                  Given(workflow, key) /\ At(workflow, key).is # "text"
     THEN 1 ELSE 0

EvidenceOf(done, trigger, concurrency, environment) ==
  IF done.violations > 0 THEN Violated(done.violations)
  ELSE [evidence |-> [trigger |-> trigger, concurrency |-> concurrency,
                      environment |-> environment, emitted |-> done.emitted,
                      depth |-> done.deepest, jobs |-> done.jobs],
        violations |-> 0]

\* The state holds the workflow's defaults.
ReadsJobs(s, workflow, trigger, concurrency, environment) ==
  LET jobIds == SetToSeq(Keys(At(workflow, "jobs")))
  IN IF Len(jobIds) \notin 1 .. MAX_WORKFLOW_JOBS THEN Violated(1)
     ELSE IF s.bindings > MAX_WORKFLOW_BINDINGS THEN Violated(addViolation(s).violations)
     ELSE EvidenceOf(FoldLeft(LAMBDA t, id : ReadsJob(t, workflow, id, environment, s.value),
                              s, jobIds),
                     trigger, concurrency, environment)

\* The state holds the workflow's environment.
ReadsDefaults(s, workflow, trigger, concurrency) ==
  ReadsJobs([parseDefaults(s, At(workflow, "defaults")) EXCEPT !.bindings = Cardinality(s.scope)],
            workflow, trigger, concurrency, s.scope)

ReadsEnvironment(grouped, workflow, trigger) ==
  LET lost == Given(workflow, "concurrency") /\ grouped.value = Undefined
      permissions == resolveEffectiveWorkflowPermissions(At(workflow, "permissions"), Undefined)
      allowed == Requires(permissions # None, Requires(~lost \/ grouped.violations > 0, grouped))
  IN ReadsDefaults(canonicalBindings(allowed, At(workflow, "env"), "workflow"), workflow,
                   trigger, grouped.value)

ReadsConcurrency(s, workflow) ==
  IF Given(workflow, "concurrency")
  THEN ContextValue(s, normalizedConcurrency(At(workflow, "concurrency")))
  ELSE [s EXCEPT !.value = Undefined]

ReadsWorkflow(s, workflow) ==
  IF s.value = Undefined THEN Violated(Requires(s.violations > 0, s).violations)
  ELSE ReadsEnvironment(ReadsConcurrency(s, workflow), workflow, s.value)

canonicalizeWorkflowExecutionSurface(file) ==
  LET unread == Unreadable(file)
  IN IF unread > 0 THEN Violated(unread)
     ELSE ReadsWorkflow(ContextValue(Opening, normalizedTrigger(At(file.root, "on"))), file.root)

-----------------------------------------------------------------------------
(* What a runner does with the file, said another way.                     *)

\* The innermost of the levels that declares a name.
Innermost(levels, name) ==
  LET declaring == {i \in DOMAIN levels : Given(levels[i], name)}
  IN IF declaring = {} THEN Undefined
     ELSE At(levels[CHOOSE i \in declaring : \A k \in declaring : k <= i], name)

Inherits(environment, levels) ==
  LET maps == [i \in DOMAIN levels |-> At(levels[i], "env")]
      names == UNION {Keys(maps[i]) : i \in DOMAIN maps}
  IN /\ {<<b.name, b.value>> : b \in environment} =
          {<<name, Innermost(maps, name)>> : name \in names}
     /\ Cardinality({CaseFold[name] : name \in names}) = Cardinality(environment)

Amount(set) == FoldLeft(LAMBDA n, pair : n + pair[2], 0, SetToSeq(set))

EvidenceFaithful(result, workflow) ==
  LET e == result.evidence
      jobs == At(workflow, "jobs")
      Steps(id) == At(At(jobs, id), "steps").items
      Defaults(x) == At(At(x, "defaults"), "run")
      deployments == {At(c, "name").text : c \in {c \in UNION {j.controls : j \in ToSet(e.jobs)} :
                                                    c.key = "environment"}}
      InheritsFrom(taken, job, step) ==
        /\ Inherits(taken.environment, <<workflow, job, step>>)
        /\ Keys(step) = Keys(taken.optional) \cup
             (Keys(step) \cap IF Given(step, "uses") THEN {"env", "uses", "with"}
                              ELSE {"env", "run", "shell", "working-directory"})
        /\ IF Given(step, "uses") THEN ActionOf[At(step, "uses").text].commit
           ELSE /\ taken.what = At(step, "run")
                /\ taken.shell[2] =
                     Innermost(<<Defaults(workflow), Defaults(job), step>>, "shell")
                /\ taken.workingDirectory[2] =
                     Innermost(<<Defaults(workflow), Defaults(job), step>>, "working-directory")
      Faithful(j) ==
        LET job == At(jobs, j.id)
            permissions == Innermost(<<workflow, job>>, "permissions")
            levels == {permissions.text} \cup {item.text : item \in ToSet(permissions.items)}
        IN /\ Len(j.steps) = Len(Steps(j.id))
           /\ \A i \in DOMAIN j.steps : InheritsFrom(j.steps[i], job, Steps(j.id)[i])
           /\ Inherits(j.environment, <<workflow, job>>)
           /\ {c.key : c \in j.controls} = Keys(job) \cap ToSet(CONTROLS)
           /\ j.permissions.declaredCapability =
                IF permissions = Undefined THEN "unresolved-default"
                ELSE IF levels \cap {"write", "write-all"} # {} THEN "write"
                ELSE IF levels \cap {"read", "read-all"} # {} THEN "read"
                ELSE "none"
      Bound(j) ==
        FoldLeft(LAMBDA n, i : n + Cardinality(j.steps[i].environment)
                                 + Len(At(Steps(j.id)[i], "with").items),
                 Cardinality(j.environment), [i \in DOMAIN j.steps |-> i])
  IN /\ (e = None) = (result.violations > 0) /\ result.violations <= MAX_WORKFLOW_VIOLATIONS
     /\ e # None =>
          /\ {j.id : j \in ToSet(e.jobs)} = Keys(jobs) /\ Len(e.jobs) = Cardinality(Keys(jobs))
          /\ \A j \in ToSet(e.jobs) : Faithful(j)
          /\ Cardinality({CaseFold[name] : name \in deployments}) = Cardinality(deployments)
          /\ Amount({<<id, Len(Steps(id))>> : id \in Keys(jobs)}) <= MAX_WORKFLOW_STEPS
          /\ Amount({<<j.id, Bound(j)>> : j \in ToSet(e.jobs)}) + Cardinality(e.environment)
               <= MAX_WORKFLOW_BINDINGS
          /\ e.emitted <= MAX_WORKFLOW_CANONICAL_VALUES /\ e.depth <= MAX_WORKFLOW_CANONICAL_DEPTH

\* Violations or evidence, never both and never neither.  Evidence has every job and every
\* step that the file declares, once and in order; each has the permissions, environment,
\* shell and directory that a runner would give it, the innermost declaration having the last
\* word, and no two names that a runner cannot tell apart; whatever else was declared is
\* there; an action is a full commit of a repository; and the limits hold of the whole
\* (workflow-execution-surface-logic.mts:1393).
SurfaceFaithful(file) ==
  EvidenceFaithful(canonicalizeWorkflowExecutionSurface(file), file.root)
=============================================================================

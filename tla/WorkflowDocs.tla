------------------------------ MODULE WorkflowDocs ------------------------------
(***************************************************************************)
(* From a workflow document to a workflow that may run: a file that         *)
(* LoadWorkflow reads (parse.go, limits.go), or what a coordinator answers  *)
(* to a goal (goal_decomposer.go, RunGoal in zenflow.go); then the order    *)
(* steps are started in (scheduler.go, executor_schedule.go).  A document   *)
(* is a record of the fields these functions look at; a name is a string    *)
(* whose shape the constants tell.                                          *)
(***************************************************************************)
EXTENDS Integers, FiniteSets, Sequences

CONSTANTS
  Docs,        \* what a file may contain
  Answers,     \* what a coordinator may answer
  Clean,       \* the names SanitizeUnicode changes, with what it makes of them
  Unsafe,      \* the names it refuses
  Patterned,   \* names that match stepIDPattern
  Strict,      \* names that match strictStepIDPattern
  Hyphenated,  \* names with a hyphen
  Catalog,     \* names of the tools and of the groups of tools there are
  Files,       \* what a referenced file contains: "text", "missing" or another file
  MaxSteps,    \* MaxStepsPerWorkflow
  MaxNesting,  \* MaxNestingDepth
  JsonRetries, \* maxJSONRetries
  ValRetries   \* maxValidationRetries

\* What the types of spec.Workflow, AgentConfig, Step and Loop say of a document: its fields,
\* lists of steps, a finite dependsOn.
Element(s) == {s[i] : i \in DOMAIN s}
StepShape(s) ==
  /\ {"id", "agent", "deps", "include", "model", "timeout", "loop"} \subseteq DOMAIN s
  /\ IsFiniteSet(s.deps)
StepsShape(steps) ==
  steps \in Seq(Element(steps)) /\ \A s \in Element(steps) : StepShape(s)
LoopShape(l) ==
  /\ {"forEach", "maxIter", "steps"} \subseteq DOMAIN l
  /\ \A steps \in Element(l.steps) : StepsShape(steps)
DocShape(d) ==
  /\ {"version", "agents", "steps", "failure", "scheduler", "timeout", "ref"} \subseteq DOMAIN d
  /\ \A a \in DOMAIN d.agents : "model" \in DOMAIN d.agents[a]
  /\ StepsShape(d.steps)
  /\ \A s \in Element(d.steps) : \A l \in Element(s.loop) : LoopShape(l)

ASSUME DocsAssumption ==
  /\ Strict \subseteq Patterned
  /\ MaxSteps \in Nat /\ MaxNesting \in Nat /\ JsonRetries \in Nat /\ ValRetries \in Nat
  /\ \A d \in Docs \cup Answers : DocShape(d) /\ d.ref \in {""} \cup DOMAIN Files
  /\ \A f \in DOMAIN Files : Files[f] \in {"text", "missing"} \cup DOMAIN Files

VARIABLES
  origin, \* "file" or "goal"
  phase,  \* how far the document is
  doc,    \* the document
  ref,    \* the file an @-reference names
  trail,  \* files read to resolve it
  asked   \* times the coordinator was asked again: for its JSON, for its content

documentVars == <<origin, phase, doc, ref, trail, asked>>

DocumentStart(from, d) ==
  /\ origin = from /\ doc = d
  /\ phase = IF from = "file" THEN "read" ELSE "ask"
  /\ ref = d.ref /\ trail = <<>> /\ asked = [json |-> 0, content |-> 0]

DocumentInit ==
  \/ \E d \in Docs : DocumentStart("file", d)
  \/ \E d \in Answers : DocumentStart("goal", d)

Pass(from, ok, to) == phase = from /\ phase' = IF ok THEN to ELSE "rejected"
Ids(steps) == {steps[i].id : i \in DOMAIN steps}
Distinct(steps) == \A i, j \in DOMAIN steps : steps[i].id = steps[j].id => i = j
Resolved(steps) == \A s \in Element(steps) : s.deps \subseteq Ids(steps)
-------------------------------------------------------------------------------
(* Sorting.  The sort of S by a relation that orders it.                       *)

Arranged(S, before) ==
  CHOOSE s \in [1 .. Cardinality(S) -> S] : \A i, j \in DOMAIN s : i < j => <<s[i], s[j]>> \in before
Less(S) == {p \in S \X S : p[1] < p[2]}
Ascending(S) == Arranged(S, Less(S))
-------------------------------------------------------------------------------
(* TopoSort: Kahn's algorithm.  Kahn(steps)[n] is its state after n rounds.  *)

KahnStart(steps) ==
  [queue |-> Ascending({i \in DOMAIN steps : steps[i].deps = {}}),
   left  |-> [i \in DOMAIN steps |-> Cardinality(steps[i].deps)],
   order |-> <<>>]

\* The head of the queue is taken; those that waited for it only are appended.
KahnRound(steps, q) ==
  IF q.queue = <<>> THEN q
  ELSE LET node == steps[Head(q.queue)].id
           after == {i \in DOMAIN steps : node \in steps[i].deps}
       IN  [queue |-> Tail(q.queue) \o Ascending({i \in after : q.left[i] = 1}),
            left  |-> [i \in DOMAIN steps |-> q.left[i] - IF i \in after THEN 1 ELSE 0],
            order |-> Append(q.order, Head(q.queue))]

Kahn(steps) ==
  LET state[n \in 0 .. Len(steps)] ==
        IF n = 0 THEN KahnStart(steps) ELSE KahnRound(steps, state[n - 1])
  IN  state

TopoSort(steps) == Kahn(steps)[Len(steps)].order
AnySort(steps) == TopoSort(steps) # <<>>      \* mutant
\* Steps that never become ready are on a cycle or behind one.
Sorted(steps) == Len(TopoSort(steps)) = Len(steps)
-------------------------------------------------------------------------------
(* ValidateWorkflow, in the order of its checks.                              *)

AgentOK(a) == a.described /\ a.turns >= 0 /\ a.sampling

IdsOK(steps) == (\A s \in Element(steps) : s.id \in Patterned) /\ Distinct(steps)

ConditionsOK(s) ==
  s.condition # "empty" /\ \A l \in Element(s.loop) : l.until # "empty"

IncludeOK(s) ==
  s.include =>
    /\ s.agent = "" /\ s.instructions = "" /\ s.loop = <<>>
    /\ s.condition = "absent" /\ ~s.files /\ ~s.model

ToolOK(s) ==
  /\ s.tool => /\ s.agent = "" /\ s.instructions = ""
               /\ ~s.include /\ s.loop = <<>> /\ ~s.files /\ ~s.model
  /\ s.toolInput => s.tool

ForEachOK(l) ==
  /\ l.forEach \notin {"other", "empty"}
  /\ l.maxIter = <<>> /\ l.until = "absent" /\ l.untilAgent = "" /\ ~l.delay

RepeatOK(l) == l.maxIter # <<>> /\ l.maxIter[1] > 0

\* validateUntilAgentSchema: a required boolean property done.
JudgeSchemaOK(schema) ==
  schema.properties /\ schema.done = "boolean" /\ schema.required = "done"

JudgeOK(d, l) ==
  l.untilAgent # "" =>
    /\ l.untilAgent \in DOMAIN d.agents
    /\ d.agents[l.untilAgent].schema # <<>>
    /\ JudgeSchemaOK(d.agents[l.untilAgent].schema[1])

InnerStepOK(d, s) ==
  /\ s.loop = <<>> /\ s.id \in Patterned
  /\ s.agent # "" => s.agent \in DOMAIN d.agents
  /\ s.include =>
       s.agent = "" /\ s.instructions = "" /\ s.condition = "absent" /\ ~s.files /\ ~s.model

InnerOK(d, steps) ==
  /\ \A s \in Element(steps) : InnerStepOK(d, s)
  /\ Distinct(steps) /\ Resolved(steps) /\ Sorted(steps)

LoopOK(d, l) ==
  /\ l.conc >= 0
  /\ \A steps \in Element(l.steps) : steps # <<>>
  /\ IF l.forEach # "absent" THEN ForEachOK(l) ELSE RepeatOK(l)
  /\ \A steps \in Element(l.steps) : InnerOK(d, steps)
  /\ l.output \in {"", "last", "cumulative"}
  /\ JudgeOK(d, l)

OptionsOK(d) ==
  /\ d.conc >= 0
  /\ \A s \in Element(d.steps) :
       (s.agent # "" => s.agent \in DOMAIN d.agents) /\ s.retries >= 0
ModesOK(d) ==
  /\ d.failure \in {"", "cascade", "skip-dependents", "abort"}
  /\ d.scheduler \in {"", "dependency-first", "round-robin", "least-busy"}

ValidateWorkflow(d) ==
  /\ d.name /\ d.steps # <<>> /\ d.version \in {0, 1}
  /\ \A a \in DOMAIN d.agents : AgentOK(d.agents[a])
  /\ IdsOK(d.steps)
  /\ \A s \in Element(d.steps) : ConditionsOK(s) /\ IncludeOK(s) /\ ToolOK(s)
  /\ \A s \in Element(d.steps) : \A l \in Element(s.loop) : LoopOK(d, l)
  /\ OptionsOK(d) /\ Resolved(d.steps) /\ ModesOK(d) /\ Sorted(d.steps)
-------------------------------------------------------------------------------
(* The steps of ParseWorkflow and ParseCoordinatorResponse.                   *)

Cleaned(n) == IF n \in DOMAIN Clean THEN Clean[n] ELSE n

\* The ids of steps are cleaned, the names in dependsOn and in inner steps are not.
Sanitize ==
  /\ Pass("read", Ids(doc.steps) \cap Unsafe = {} /\ DOMAIN doc.agents \subseteq Strict, "clean")
  /\ doc' = [doc EXCEPT !.steps = [i \in DOMAIN doc.steps |->
                                     [doc.steps[i] EXCEPT !.id = Cleaned(@)]]]
  /\ UNCHANGED <<origin, ref, trail, asked>>

Validate ==
  /\ Pass("clean", ValidateWorkflow(doc), "valid")
  /\ UNCHANGED <<origin, doc, ref, trail, asked>>

WithinLimits ==
  /\ Len(doc.steps) <= MaxSteps
  /\ \A s \in Element(doc.steps) : s.id \in Strict /\ s.instructions # "long"

EnforceLimits ==
  /\ Pass("valid", WithinLimits, IF origin = "file" THEN "limited" ELSE "plan")
  /\ UNCHANGED <<origin, doc, ref, trail, asked>>

WithDefaults(d) ==
  [d EXCEPT !.version = 1,
            !.failure = IF @ = "" THEN "cascade" ELSE @,
            !.scheduler = IF @ = "" THEN "dependency-first" ELSE @]

ApplyDefaults ==
  /\ Pass("limited", TRUE, IF doc.ref = "" THEN "loaded" ELSE "resolve")
  /\ doc' = WithDefaults(doc)
  /\ UNCHANGED <<origin, ref, trail, asked>>

\* One file of a chain of references: too deep, seen before, or read.
ResolveRef ==
  /\ phase = "resolve"
  /\ IF Len(trail) = MaxNesting \/ ref \in Element(trail) \/ Files[ref] = "missing"
     THEN phase' = "rejected" /\ UNCHANGED <<ref, trail>>
     ELSE /\ trail' = Append(trail, ref) /\ ref' = Files[ref]
          /\ phase' = IF Files[ref] = "text" THEN "loaded" ELSE "resolve"
  /\ UNCHANGED <<origin, doc, asked>>
-------------------------------------------------------------------------------
(* RunGoal.                                                                   *)

\* A model writes the plan; what it must not decide is taken out of it, but for the models
\* of inner steps.
Hyphens(steps) == Ids(steps) \cap Hyphenated # {}
NoHyphens ==
  /\ ~Hyphens(doc.steps)
  /\ \A s \in Element(doc.steps) : \A l \in Element(s.loop) :
       \A inner \in Element(l.steps) : ~Hyphens(inner)
Stripped(steps) == [i \in DOMAIN steps |-> [steps[i] EXCEPT !.timeout = 0]]
StripOuter(s) == [s EXCEPT !.timeout = 0]      \* mutant
StripLoop(l) == [l EXCEPT !.steps = [j \in DOMAIN @ |-> Stripped(@[j])]]
StripStep(s) ==
  [s EXCEPT !.timeout = 0, !.model = FALSE, !.loop = [i \in DOMAIN @ |-> StripLoop(@[i])]]

\* What ParseCoordinatorResponse does after the limits.
AcceptPlan ==
  /\ Pass("plan", NoHyphens, "parsed")
  /\ doc' = [WithDefaults(doc) EXCEPT !.timeout = 0,
                !.agents = [a \in DOMAIN @ |-> [@[a] EXCEPT !.model = FALSE]],
                !.steps = [i \in DOMAIN @ |-> StripStep(@[i])]]
  /\ UNCHANGED <<origin, ref, trail, asked>>

\* The answer is JSON, or not; the coordinator fails, or the context is done.
CoordinatorAnswers ==
  /\ phase = "ask"
  /\ phase' \in {"read", "garbled", "failed"}
  /\ UNCHANGED <<origin, doc, ref, trail, asked>>

Again(kind, limit) ==
  /\ asked[kind] < limit /\ phase' = "ask" /\ doc' \in Answers
  /\ asked' = [asked EXCEPT ![kind] = @ + 1]
  /\ UNCHANGED <<origin, ref, trail>>
RetryPlan ==
  /\ origin = "goal"
  /\ \/ phase = "garbled" /\ Again("json", JsonRetries)
     \/ phase = "rejected" /\ Again("content", ValRetries)

\* ValidateToolNames, of a plan and of a workflow that is run; a plan is not asked for again.
ToolNames ==
  /\ phase = IF origin = "goal" THEN "parsed" ELSE "loaded"
  /\ phase' = IF \E a \in DOMAIN doc.agents : ~(doc.agents[a].tools \subseteq Catalog)
              THEN "failed"
              ELSE IF origin = "goal" THEN "approve" ELSE "run"
  /\ UNCHANGED <<origin, doc, ref, trail, asked>>
ApproveGoal ==
  /\ phase = "approve" /\ phase' \in {"run", "denied"}
  /\ UNCHANGED <<origin, doc, ref, trail, asked>>

DocumentNext ==
  \/ Sanitize \/ Validate \/ EnforceLimits \/ ApplyDefaults \/ ResolveRef
  \/ CoordinatorAnswers \/ RetryPlan \/ AcceptPlan \/ ToolNames \/ ApproveGoal
DocumentSpec == DocumentInit /\ [][DocumentNext]_documentVars
-------------------------------------------------------------------------------
(* scheduleOrder: the order ready steps are started in.                       *)

\* scheduleRoundRobin deals the steps of each agent in turn, agents in the order of
\* their first ready step: steps are ordered by their number among their agent's.
Number(ready, i) == Cardinality({j \in 1 .. i : ready[j].agent = ready[i].agent})
First(ready, i) == CHOOSE j \in DOMAIN ready :
                     ready[j].agent = ready[i].agent /\ Number(ready, j) = 1
scheduleRoundRobin(ready) ==
  Arranged(DOMAIN ready,
    {p \in (DOMAIN ready) \X (DOMAIN ready) :
       LET m == Number(ready, p[1])
           n == Number(ready, p[2])
       IN  m < n \/ (m = n /\ First(ready, p[1]) < First(ready, p[2]))})

LoadOf(steps, running, agent) == Cardinality({s \in running : steps[s].agent = agent})
scheduleUnstable(ready, steps, running) ==      \* mutant
  Arranged(DOMAIN ready,
    {p \in (DOMAIN ready) \X (DOMAIN ready) :
       LET a == LoadOf(steps, running, ready[p[1]].agent)
           b == LoadOf(steps, running, ready[p[2]].agent)
       IN  a < b \/ (a = b /\ p[1] > p[2])})
scheduleLeastBusy(ready, steps, running) ==
  Arranged(DOMAIN ready,
    {p \in (DOMAIN ready) \X (DOMAIN ready) :
       LET a == LoadOf(steps, running, ready[p[1]].agent)
           b == LoadOf(steps, running, ready[p[2]].agent)
       IN  a < b \/ (a = b /\ p[1] < p[2])})

scheduleOrder(ready, steps, running) ==
  CASE doc.scheduler = "round-robin" -> scheduleRoundRobin(ready)
    [] doc.scheduler = "least-busy" -> scheduleLeastBusy(ready, steps, running)
    [] OTHER -> [i \in DOMAIN ready |-> i]
-------------------------------------------------------------------------------
DocumentTypeOK ==
  /\ origin \in {"file", "goal"}
  /\ phase \in {"ask", "garbled", "read", "clean", "valid", "limited", "resolve", "loaded", "plan",
                "parsed", "approve", "run", "rejected", "denied", "failed"}
  /\ trail \in Seq(DOMAIN Files) /\ Len(trail) <= MaxNesting
  /\ asked.json \in 0 .. JsonRetries /\ asked.content \in 0 .. ValRetries

\* No set of steps waits for itself.
Acyclic(steps) ==
  \A S \in (SUBSET Element(steps)) \ {{}} : \E s \in S : s.deps \cap {t.id : t \in S} = {}
Executable(d, steps) ==
  /\ Distinct(steps) /\ Resolved(steps) /\ Acyclic(steps)
  /\ \A s \in Element(steps) :
       /\ s.agent = "" \/ s.agent \in DOMAIN d.agents
       /\ ~(s.include /\ s.agent # "")

\* What the executor is given can be executed: distinct steps that can all become ready,
\* in the body of a loop too, agents there are, loops that end.  A plan, whatever the
\* coordinator answered first, carries no timeout, at no depth, and no model of an agent or
\* of a step of its own; a step inside a loop keeps its model (goal_decomposer.go:297-299).
WorkflowsSound ==
  phase = "run" =>
    /\ Executable(doc, doc.steps)
    /\ \A s \in Element(doc.steps) : \A l \in Element(s.loop) :
         /\ l.forEach = "absent" => l.maxIter # <<>> /\ l.maxIter[1] > 0
         /\ \A inner \in Element(l.steps) : inner # <<>> /\ Executable(doc, inner)
         /\ origin = "goal" =>
              \A inner \in Element(l.steps) : \A t \in Element(inner) : t.timeout = 0
    /\ origin = "goal" =>
         /\ doc.timeout = 0 /\ \A s \in Element(doc.steps) : s.timeout = 0 /\ ~s.model
         /\ \A a \in DOMAIN doc.agents : ~doc.agents[a].model

\* The starting order of the ready steps is one of all of them, keeps the order of one
\* agent's steps, serves agents in turn (round-robin) or the idle ones first (least-busy).
Ready ==
  LET free == Ascending({i \in DOMAIN doc.steps : doc.steps[i].deps = {}})
  IN  [k \in DOMAIN free |-> doc.steps[free[k]]]
OrdersSound ==
  phase = "run" =>
    \A running \in SUBSET DOMAIN doc.steps :
      LET order == scheduleOrder(Ready, doc.steps, running)
          Agent(k) == Ready[order[k]].agent
          Served(k, a) == Cardinality({j \in 1 .. k : Agent(j) = a})
          Busy(k) == LoadOf(doc.steps, running, Agent(k))
      IN  /\ Element(order) = DOMAIN Ready /\ Len(order) = Len(Ready)
          /\ \A j, k \in DOMAIN order : j < k /\ Agent(j) = Agent(k) => order[j] < order[k]
          /\ doc.scheduler = "round-robin" =>
               \A k \in DOMAIN order : \A j \in k + 1 .. Len(order) :
                 Served(k, Agent(k)) <= Served(k, Agent(j)) + 1
          /\ doc.scheduler = "least-busy" =>
               \A j, k \in DOMAIN order : j < k => Busy(j) <= Busy(k)

\* What reaches the executor can be executed, and its ready steps start in a fair order.
DocumentsSound == WorkflowsSound /\ OrdersSound
===============================================================================

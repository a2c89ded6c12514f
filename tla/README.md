# Verification of zenflow

zenflow runs a declarative workflow of LLM agents: a DAG of steps, each an agent
with tools, a mailbox and a coordinator that watches the run. This directory
holds TLA+ modules of its control logic, the TLC configurations that model-check
them, and proofs checked by TLAPS. Paths below are relative to the repository.

## 1. Inventory

| Component | State | Operations | Hard behaviour | What makes it correct |
|---|---|---|---|---|
| DAG scheduler, `internal/exec/executor.go` (`Executor.Run`) | results map, in-degrees, skip and cascade marks, semaphore, done channel, abort and caller contexts | `dispatch`, step goroutines, drains, snapshot | goroutines publish under `mu` while the main loop dispatches; abort against completion; orphans | order of the DAG, failure containment, every step reported, `Run` returns |
| Checkpoints and `ResumeFlow`, `zenflow.go`, `storage_file.go`, `storage_mem.go` | stored runs, step results and shared memory | `SaveStepResult`, `LoadStepResult`, `ResumeFlow`, atomic replacement of a file | process or power ends between two system calls, failed saves, concurrent read-merge-write | completed work is kept and not repeated; a reader finds a whole file |
| Step executor, `executor_step.go` | attempts, registration in the router | `runStep`, retries, hold timeout | teardown against late messages | every step deregisters, nothing left in its mailbox unreported |
| Message router and mailbox, `internal/router/` | inbox states, sender slots, step locks, stored messages with read marks | `Send`, `Close`, `RegisterInbox`, `OpenSender`, `MarkRead` | Send against Close, auto-open, bounded mailbox | a message is delivered or dropped once, never both and never silently |
| Delivery engine and termination, `delivery_engine.go`, `step_termination.go` | wake channel, poll loop, hold timer | `poll`, `waitForStepTermination`, `flushMailboxOnAbort` | wake coalescing, timeout against late message | an idle agent with mail is woken; termination is reached |
| Message-level resume, `executor_resume.go` | resume state of a step, mailbox of the resumed runner | `ResumeStep`, `runResume`, `drainCoordReverseReplies` | single flight, messages queued while a resume is set up or ends, abort | one resumed runner at a time, a queued message has one fate, its end is reported once |
| Transcript, `agent_runner.go`, `internal/resume/transcript_inmem.go` | stored conversation, count of what is persisted, seal | flush at every wake, cap, `Load` with truncation | a count kept over a conversation that is rebuilt, failing appends, second attempts | what is stored continues what was there, in order, and lacks nothing a resume needs |
| Agent runner, `agent_runner.go` | conversation, wake loop, iteration cap | `Run`, `drainMailboxIntoMessages`, `emitResidualDrops` | wake, cap and close race | every message read or dropped |
| Coordinator, `executor_coord.go`, `coord_loop.go`, `coord_lib.go` | coordinator mailbox, wake channel, bridge from the router's mailbox | pushes, `afterSend` bridge, reverse drains, `RunCoordinatorLoop`, waits at the end of a run | wake before append, two mailboxes drained by three parties, bounded waits | a lifecycle message is never slept on, a bridged one moves once, the run ends |
| Loops and includes, `executor_loop.go`, `executor_include.go` | iteration results, slots, recorded errors, tokens | `runRepeatUntil*`, `runForEach*`, `runIncludeStep`, the retries around them | parallel iterations with errors and panics, cancellation between iterations | a completed loop has a reason, fail-fast, tokens add up |
| Workflow parser and validation, `parse.go`, `limits.go`, `scheduler.go` | none | cleaning, validation, limits, defaults, references, starting orders | passes that look at different parts of a document | what passes can be executed |
| Goal decomposer, `goal_decomposer.go`, `zenflow.go` | attempts to get a plan | ask again, restrict, validate, approve | answers that need a correction more than once | a plan has no limits of its own choice, and no models on its agents and steps |
| Agent handles, `agent_handle.go` | registry of running agents, one result per handle | `RunAgentAsync`, `Cancel`, `finish`, watchdog, `Close` | close against register, four parties that finish a handle | every handle settles |
| Provider factory cache, `factory_cache.go` | cached orchestrator | `For`, `Close`, `CloseAll` | concurrent builds, eviction, time limit of a constructor | no orchestrator is open and unaccounted for |
| Agent tool, `agent_tool.go` | children of each agent, their results | spawn in foreground and background, wait, merge | agents that outlive their parent's run | limits of the tree, tokens, inboxes |
| Drop fan-out, progress pump, buffered sink, `drop_fanout.go`, `progress_pump.go`, `sink/buffered.go` | bounded queue, batch | offer, worker, `Stop` | stop against offer | an event is delivered once or counted |
| Permissions, approval, `cmd/zenflow/permission*.go`, `approval_timeout.go` | what was always allowed, prompt on the terminal, the context of an approval | decision, prompt, cancellation, deadline | abandoned readers, stale deadlines | nothing runs unasked |
| Conversions, `submit_result.go`, `internal/spec/duration.go`, `env_expand.go`, `storage_schema.go`, `shared_memory.go` | none | check, format, parse, expand, store | edge cases of recursion and rounding | what a reader relies on survives |
| Conditions (CEL), prompts, skills, MCP, isolation, observability, options, command line, DAG drawing | none or outside the process | text, files, network | none a model would reach | out of scope, see section 8 |

How they interact: `Executor.Run` starts one goroutine per ready step; `runStep`
registers an inbox at the router and runs an agent runner, whose tools may send
messages through the router to other steps and to the coordinator, or start
child agents. A message to a step that has ended may resume it (`ResumeStep`),
from the transcript its runner stored. Step ends are pushed to the coordinator's
own mailbox; what is routed to it lies in the router's mailbox until a hook of
`Send`, or the goroutine of a step that ends, moves it. Results are saved as they
are published; `ResumeFlow` starts a new `Run` from them. A loop or include is a
step whose goroutine runs agents or nested executors itself. Events go to sinks
and callbacks through the bounded queues.

## 2. Plan

1. `FlowContract`, `Scheduler`: the DAG scheduler with failures, aborts and
   resumes, and its proofs. Done, all its safety properties are proved.
2. `MailboxContract`, `MessageRouter`, `StepMessaging`: router, mailbox, wake
   loop, attempts, close, flush and drops, the abstract promise they implement,
   and their proofs. Done, the refinement proved too.
3. `StepResume` over `CoordBridge`: the resume of a step with the coordinator's
   two mailboxes, its loop and the end of the run, with liveness. Done, safety
   proved.
4. `LoopStep`, `WorkflowDocs`: loops and includes, the parser's passes and the
   scheduling orders. Done, proved.
5. `SessionAgents`, `EventQueues`, `RunStore`, `Transcript`, `Permissions`,
   `Spawner`, `Codecs`. Done, proved, and composed in `MCParts`.
6. Left: a run resumed beside the orphans of an aborted one (two runs over one
   store), tool calls and streaming inside an agent's turn, delegates of nested
   routers.

## 3. Modules

* `FlowContract` is the abstract specification of one workflow run: what a
  caller of `RunFlow` or `ResumeFlow` relies on, without locks and goroutines.
* `Scheduler` is `Executor.Run`. One variable per Go variable that matters:
  `results`, `inDegree`, `skipped`, `cascaded` are the maps of the same names
  (`inflight` is a `nil` entry, `absent` no entry); `done` is the length of the
  done channel; `main`, `round` and `condSkipped` are the main thread's place in
  `Run` and in `dispatch`; `pc` is the place of each step goroutine; `abort` and
  `ctxDone` are the two context cancellations; `store` is the storage. `mu` is
  held exactly while `main` is in `dispatch`, so an action of a goroutine that
  takes `mu` is guarded by `~MuHeld`.
  `Restart` is the end of the process at any moment followed by `ResumeFlow`.
* `MailboxContract` is the promise made about one message: it is refused at once,
  handed to a resumed step, or queued and then read in order or dropped.
* `MessageRouter` is `Router` over an in-memory store: the maps `open`, `closed`,
  `senders` and the flag `cancelled`; `locked` is the step lock held for writing
  (Close), and a message in the middle of its `Send` is the same lock held for
  reading; `box`, `shut`, `id` are the store. A `Send` is three actions (begin,
  append, check of the closed flag) and its return, Close is three as well.
* `StepMessaging` extends it with the readers: `runStep` with its attempts and
  deferred calls, the wake loop of `AgentRunner.Run`, the poll of the delivery
  engine, and the main thread that flushes mailboxes after an abort. `at` is the
  place of a step's goroutine; `batch` is what a drain has read and not marked.
  `read` and `events` count what became of a message and are used by properties
  only. An LLM call ends by itself, by the wake signal, with a submitted result,
  an error or a panic.
* `CoordBridge` is the coordinator and what reaches it: `cbox` is the mailbox of
  its own runner, `rbox` its inbox in the router, `wake` the wake channel. `push`
  is the place of each lifecycle message on its way (append, signal, then the
  drain of `rbox` by the goroutine that pushed), `hop` the place of a routed one
  in `Send`'s hook (signal, append to `cbox`, show, unshow in `rbox`: the order of
  `executor.go:737`). `coord` is the place of `RunCoordinatorLoop` and the wake
  loop inside it; `main` the end of `Run`, from the last step to the bounded waits
  and the deferred cancel.
* `StepResume` extends it with `ResumeStep`: `req` is the place of each forwarded
  message, first of the call (`Forward`, `Call`), then of the runner it started
  (`Runner`); `owner` and `mbox` are the resume state under its lock and the
  mailbox it installs; `into` is the mailbox a call read before it appends to it,
  outside the lock. `fate`, `heard`, `lost` and `told` record what became of it.
  The reply of a resumed runner is a routed message of `CoordBridge`.
* `LoopStep` is the goroutine of a loop or include step: `pc` its place, `it` the
  place of each goroutine of a forEach loop, `errs` the recorded errors, `res` and
  `paid` the results they stored. A release of a slot is a step of its own, and so
  is the recording of an error, in the order a return, an error and a panic make
  them.
* `SessionAgents` is the orchestrator cache (`ask` is the place of a call of `For`,
  `cached` the entry, `built`, `closed` and `doomed` what became of each
  orchestrator) with the handles of the agents its callers start and the `Close`
  that takes them. `EventQueues` is the three queues behind observers, one `kind`
  at a time. `RunStore` is `FileStorage` and `MemoryStorage`: a save is begin, read,
  write, sync, rename, return; `file` is what a reader finds, `kept` what the disk
  has if the power fails. `Transcript` is the store of a conversation and the
  counters that flush it. `Permissions` is the decision, the prompts on one
  terminal and the approval of a plan. `Spawner` is the tree of agents of one
  `RunAgent`. `WorkflowDocs` takes a document through cleaning, validation, limits,
  defaults and references, or an answer to a goal through its corrections, and has
  the scheduling orders as functions. `Codecs` has conversions as functions; what
  the code does by recursion or in a loop is a recursive function there, of the
  depth of a schema or of the number of rounds.
* `MCScheduler`, `MCMessaging` and `MCResume` hold the instances TLC runs; the
  `MC*.cfg` files choose one. `MCDocs` and `MCSamples` hold documents and data.
  `MCParts` puts the nine smaller components side by side: each initial state has
  one in `focus`, which moves while the others keep one initial state, so one run
  checks each of them on all its instances, without products of them. It extends
  the components, so a property of `parts` is the component's own definition, and
  TLC evaluates each component's assumption about its constants.
  `PinnedAssumption` says that a document and a sample out of focus are some of
  those the components may start with.
* The theorems of section 7 are in `SchedulerProofs`; `StepMessagingProofs` (with
  the refinement of `MailboxContract`); `StepResumeProofs` (with `CoordBridge`);
  `LoopStepProofs`; `AgentsProofs` (`SessionAgents`, `Spawner`, `Permissions`);
  `RecordsProofs` (`EventQueues`, `RunStore`, `Transcript`); `DataProofs`
  (`WorkflowDocs`, `Codecs`); and `PartsProofs` (`MCParts`).

Operators whose definition is marked `mutant` in a comment are wrong versions of
the definition below them. No specification uses them. Substituting one must
break the property it is paired with in `PROJECT.json`, which shows that the
property depends on that code.

## 4. Runs

| Run | Question | Result |
|---|---|---|
| `sched_graphs` | in-degrees, start order, marks, containment, over every three-step graph shape with an edge, every strategy, one condition with any outcome | holds, 1.0 million states |
| `sched_resume` | checkpoints, resumed in-degrees and refinement of `FlowContract`, process end at any step | holds, 0.7 million states |
| `sched_returns` | done channel and report on three four-step graphs with two slots; `Run` returns although a step ignores its context | holds, liveness, 0.85 million states |
| `msg_mailbox` | every message has one end, in order; every accepted one is read or reported; sender counts over retries; a closed step leaves at once | holds, liveness, 0.17 million states |
| `msg_grace` | closed mailboxes, single reading and the end of every step when an abort overtakes two agents, in an `Executor` built by itself, where steps hold slots of each other | holds, liveness, 0.37 million states |
| `step_resume` | one owner of a resume, one fate of each queued message, one report of each end; what a sleeping coordinator may have missed; resumes, coordinator and run end | holds, liveness, 1.2 million states |
| `parts` | the nine smaller components, each on all its instances | holds, liveness of handles, 0.6 million states |
| `sched_cascade` | no step downstream of a failed step runs under `cascade` | violated, see section 9 |
| `sched_status` | a run without completed step is `failed` | violated, see section 9 |
| `msg_flush` | no message is lost without a drop event | violated, see section 9 |
| `msg_cancel` | a cancelled run flushes every mailbox | violated, see section 9 |
| `script_twice` | a transcript stores each message once | violated, see section 9 |

`msg_mailbox` has `GraceExpires = FALSE`: agents end within the two seconds that
an abort grants them. Without that, `ImplementsMailbox`, `MailSettles` and
`BatchInBox` fail, because the flush then takes mailboxes from live agents
(`msg_flush` is the simplest case); what still holds is the subject of
`msg_grace`.

Several properties of the later modules state what the code does keep where it
does not keep everything: `QueuedOnce` lets a message be lost where
`executor_resume.go` loses it, `QueueConserves` counts what was queued after the
stop, `SleepsOnlyOnBridged` lets the coordinator miss a bridged message,
`TranscriptFaithful` excepts appends that failed and lets a wake repeat what is
stored, `CodecsSound` lets a bad element through where items are not read, and
`DocumentsSound` leaves their models to the inner steps of a plan's loops.
Section 9 names each of these.

## 5. Bounds

* Scheduler. Three steps give every shape in which a step has two dependencies
  or two dependents; four give the diamond, three sources that finish together,
  and the join whose two branches have different lengths. `MaxConc = 2` leaves
  one of three steps waiting for a slot, `MaxConc = 1` lets a stuck step starve
  the others. One process end (`MaxRestarts = 1`) is enough for every property of
  a resume, because a restart keeps nothing but `store`; the proofs cover any
  number. `Unreadable = {c}` is one stored result that cannot be loaded. A
  condition may have any of its four outcomes at one step at a time: two
  conditions in one graph only matter for `CascadeContainment` and
  `FailedWithoutCompleted`, whose runs have them.
* Messages. `msg_mailbox` sends three, of which one is a cancel message, one a
  reply (never resumes a step) and one goes to a stepID nobody registered;
  `Capacity = 1` fills the mailbox with one message, two attempts and two wake
  cycles reach a retry and the cap, and the step has a timeout of its own.
  `msg_grace` sends one message to one of two steps that hold slots of each
  other, as in an `Executor` built by itself: only there a hold timeout can fire, as
  `WaitReturnsAtOnceCorrect` shows. Two steps with two messages exceed a million
  states and show no further order of one mailbox: steps share nothing but the
  slots, the flush and the numbering of messages.
* Resume. `step_resume` takes four small workloads instead of one with
  everything in it: two messages forwarded at once; one, and two more while its
  resume is in flight; one while another step's end is pushed; and a step whose
  agent wrote to the coordinator before it ended. `Cap = 1` fills the mailbox of
  a resume with one message. A transcript is absent or stored, a model is the
  step's own or cannot be resolved, and the caller may cancel (`Impatient`).
  Three requests are the fewest that let a second resume start while the first
  one ends and a third message arrives between the two.
* Transcript. `script_twice` has a store that neither fails nor fills up, one
  attempt and two calls: one wake is enough. `TranscriptFaithful` is checked in
  `parts`.
* Parts. Repeat loops of at most two iterations or unbounded ones under a default
  of three, forEach loops of at most three items, limited to one, two (also by the
  executor's own limit) or no fewer than all of them, at
  most two retries; two callers of the orchestrator cache, each with one agent;
  queues of two places with three events, one of each urgency; three saves, two
  to the shared memory and one of a run; a transcript capped early or never, over
  two calls and two attempts; three askers of two tools, one of them safe; agents
  in a tree of depth two with at most two children each; families of small
  documents, each varying what one pass looks at (graphs, shapes, loops, options,
  judges, references, orders, plans); sampled values of each conversion, with
  texts over eleven characters (`Char`) and values as deep as their schemas, three
  levels (`SchemaDepth`). Each
  bound lets its limit be reached and passed by one: a third iteration that may
  not start, an item that waits for a slot, an event that finds its queue full, a
  child that may not be spawned. All properties of this run but `HandlesSettle`
  are proved without these bounds.

## 6. Fairness

`RunReturns` assumes weak fairness of the main thread and of each goroutine's
own steps, which the Go scheduler gives to runnable goroutines, and of
`RunStep` for steps that are not in `Stuck`: their provider call ends. A stuck
step may run for ever. Cancellation is never assumed: the property says that
`Run` returns if it happens, or if no step is stuck. `select` is not assumed to
be fair: every case of it is an action of the main thread under one fairness
condition. The main thread ends without it because every step sends `done` once.

`MailSettles` and `StepsLeave` assume weak fairness of each `Send` that has begun
and of each step's goroutine, which includes that an LLM call ends: its context is
cancelled by a timeout or an abort, and the provider is trusted to honour it.
A step that keeps waiting for senders reaches its hold timeout, because that is a
clock. Nothing is assumed of new messages, polls, step timeouts, aborts or the
main thread.

`AllLeave` assumes only that some goroutine that can run does: weak fairness of
the disjunction of all scheduled steps, LLM calls that end among them. That is
enough because every message is pushed, routed and forwarded at most once, so no
step repeats for ever and no goroutine can starve another.

`HandlesSettle` assumes weak fairness of the watchdog, which is a timer of its
own, and of the removal of a finished handle from the registry. An agent may run
for ever, and nobody needs to cancel it or close the orchestrator.

## 7. Proofs

TLAPS proves the following for every value of the constants that satisfies the
assumptions of the module. Acyclic graphs are never assumed.

`SchedulerProofs`, for every finite set of steps, every set of workflows over it
and every number of slots and restarts:

* `TypeCorrect`, `InDegreeCorrect`, `NoEarlyStartCorrect`, `StoreBackedCorrect`,
  `NeverRelaunched`: the properties `TypeOK`, `InDegreeExact`, `NoEarlyStart`,
  `StoreBacked`, `PersistedNeverRelaunched`. `InDegreeExact` is not inductive by
  itself: a goroutine may decrement only if its own step was not released before,
  and a step of the current round must still be unhandled and released. So the
  inductive invariant is `IInv == TypeOK /\ PcResults /\ RoundReady /\
  InDegreeExact`, where `PcResults` ties each goroutine's place to its entry in
  the results map and `RoundReady` says that every step collected in this round
  is absent from the results and has only released dependencies. `ReleaseOne` and
  `ReleaseNone` are the two lemmas every action uses: it releases one step,
  decrementing its dependents, or none.
* `DoneHasRoomCorrect`: no signal is lost, because `done` never holds more of them
  than there are goroutines past their signal (`SignalsCounted`).
* `ReportFaithfulCorrect`: the report gives each step its own final status or
  `cancelled`, and an orphan cannot falsify it later. It rests on `Drained` (a run
  that was not aborted leaves no goroutine behind) and `ReportMatches`.
* `MarksExactCorrect` and `NoSpuriousStopCorrect`, from `MarkInv`: marks are what
  lies downstream of failures, every stop has a cause in the run. Lemma `MarkAll`
  shows that a traversal that does not go past a mark still finds every
  descendant, because the marks are closed.
* `FailureContainedCorrect`: a running step has only completed ancestors, where
  none of them has a condition or comes from a checkpoint (`ReadyClean`,
  `PropagatedClean`).
* `ContractImplemented`: every step of `Scheduler` is a step of `FlowContract` or
  a stutter, if every stored result can be read. The assumption is needed for the
  theorem only: with several process ends a result that could not be read when its
  step was started again may be readable later.
* `CascadeContainmentCorrect` and `FailedWithoutCompletedCorrect` say where the two
  promises that `sched_cascade` and `sched_status` refute do hold: nothing runs
  below a failure in a workflow without conditions of which nothing was resumed
  (`NothingBetween`); and without a completed step the status is `failed`
  if some step has no condition (`SomeUnconditional`), because such a step is
  skipped only below a failure, which the report then has.

`StepMessagingProofs`, for any finite set of inboxes and messages, either store,
any number of attempts and cycles, and aborts at any time:

* `TypeCorrect`, with the bounds of attempts and cycles;
* `NothingStrandedCorrect`. The induction needs the two facts that make the step
  lock work (`LockedWhileClosing`, `ClosedHasLeft`): the lock is held for writing
  exactly while `Close` runs, and a closed inbox belongs to a step that has left
  and has no `Send` under way to it. `CalmStep` covers all actions that neither
  open nor close an inbox nor send;
* `SendersExactCorrect`, from `SInv == TypeOK /\ SlotWhileSending /\ SendersExact`:
  only a `Send` under way has a slot of its own, so none can open a second one.
  `SlotsKept` covers the actions that leave the slots alone; opening and closing
  are counted with the library's cardinality facts, which also show that the
  clamp at zero in `CloseSender` is never reached. It covers both settings of
  `DagAware`: the executor of an Orchestrator, whose steps hold their own slots,
  and an `Executor` built by itself without `SenderMatrixDAGAware`, whose steps
  hold those of each other;
* `WaitReturnsAtOnceCorrect`, if `DagAware`: from the two results above and
  `LeftClosed`, which says that a step that waits has closed its inbox;
* `ReadOnceCorrect`, also if the abort's grace passes. The invariant `OInv` adds
  that messages wait to be marked only at the three places of `Marking` and that
  a message in a mailbox has been read only if its reader is about to mark it.
  `ReaderSteps` sorts all actions into four kinds (take, mark, leave over, pass),
  so the invariant is proved for four cases instead of thirty;
* `BatchInBoxCorrect`, if `~GraceExpires`. The invariant adds that the main thread
  flushes only after the last agent has ended. The assumption is needed: TLC
  violates `BatchInBox` under the constants of `MCMsgGrace.cfg`;
* `ImplementsMailboxCorrect`, if `~GraceExpires`: every step of `StepMessaging` is
  a step of `MailboxContract` or a stutter. The fate of a message is defined by
  case over its ends, its place and its mailbox; the invariant `MInv` joins the
  ones above with `Settled` (a message is numbered once, has at most one end, and
  one that was numbered and left its mailbox has one), under which the fate is told
  by the `Send`, the number and the ends alone (`Told`, `FateTold`). A step of a
  `Send` refuses, hands on or queues its message, or leaves it (`SendKinds`); a
  step of an agent or of the flush reads, removes or drops what is in one mailbox,
  or leaves all fates alone (`StepKinds`). The assumption is needed here too:
  `msg_flush` loses a message without it;
* `NoSilentDropCorrect`, if `~GraceExpires`: the promise that `msg_flush` refutes
  holds, by `Settled`, whenever the abort outlasts the agents. So the flush around
  live agents is all that breaks it;
* `LeftEmptiedCorrect`, always: a step whose `Close` has returned has an empty
  mailbox for ever. With it `FlushesAllStartedCorrect`, if `~GraceExpires`: when an
  executor has returned, mail is left only for steps it never started and for names
  that are no step, which is the extent of what `msg_cancel` shows.

`StepResumeProofs`, with the proofs about `CoordBridge`, for any finite sets of lifecycle
messages, routed messages and requests and any cap:

* `SingleFlightCorrect`, `QueuedOnceCorrect`, `EndsReportedCorrect`. The invariant
  adds who owns the resume state (`OneOwner`), what fate each place of a request
  allows (`Fates`), that a message lies in the mailbox it was appended to or has
  left it (`Boxes`, `Kept`), and the caps;
* `TypeCorrect`, `BridgeMovesCorrect`, `SleepsOnlyOnBridgedCorrect`, from
  `BInv == BridgeType /\ Routing /\ MovedOnce /\ SleepsOnlyOnBridged` and
  `LateQueues`: the place of a routed message determines which of the two
  mailboxes may hold it.

The smaller components, each under the assumption of its module:

* `LoopStepProofs`: `FailFast`, from `FailureRecorded` (a failed iteration has
  recorded its error or still has its slot) and `ResultStored`; and
  `LoopResultSound`. That a completed loop is so for a reason needs what each
  place of the goroutine has seen (`Places`, `Explained`), the limit of slots a
  count of the iterations that hold one (`StepSlots`). For the tokens, `SpendInv`
  says that what is spent is what the iterations have paid while they run, each
  once, and what the result has after them, unless it is that of a panic.
  `LoopTypeCorrect` has the limits of attempts and iterations, from `OneMoreLeft`:
  where an attempt or an iteration begins, one is left;
* `AgentsProofs`: `OrchestratorsAccounted`, from `Shared` (whatever a caller has or
  looks at was published) and `OpenCached`; `SpawnSound`, from `SpawnInv`: a child
  is numbered after its parent and one deeper (`Tree`), the count of an agent is
  the number of its children (`Counted`), a parent collects a foreground child
  before it goes on (`ChildrenFirst`, `Collected`), and an inbox belongs to a child
  that lives (`InboxLive`); `AsksFirst`, from what the flags decide (`Decided`) and
  one prompt on the screen;
* `RecordsProofs`: `QueueConserves`, from `QueueInv`: an event that was
  offered occurs once, over the channel, the batch of a sink, what was delivered
  and what was given up, and any other nowhere (`Conserved`); what is found in the
  channel after the worker has gone came after the stop (`LateOnly`). The first lemmas count the
  occurrences of an element in a concatenation, a tail and an appended sequence.
  `StoreIntact`: one save holds the mutex, what it will write adds its entry to the
  file as it still is (`Prepared`), nothing is renamed before it is synced, so every
  file, and what the disk has of it, is whole.
  `TranscriptFaithful`, from `ScriptInv`: what an attempt believes to be flushed
  is what the store has of it (`Believed`), and a store that sealed is known to be
  sealed where an append told so (`SealKnown`). `PrefixExtended` is the lemma every
  flush uses: a prefix and the rest after it are a longer prefix. What that says of
  the messages, in which order they were written and which of them a prefix has,
  follows from how the conversation grows, of new messages and of repeated old
  responses (`Conversation`, with `NewAppended` and `OldAppended`);
* `DataProofs`: `DocumentsSound`, for documents, answers and files of any
  size. `TopoSortCorrect` is its core: Kahn's algorithm takes all steps exactly
  when no set of steps waits for itself. It rests on `KahnInv` (each step is queued
  or taken at most once, its in-degree counts the dependencies not yet taken, a
  taken step comes after its dependencies, one whose in-degree is zero is queued or
  taken), which holds after every round (`KahnAlways`). A valid document therefore
  can be executed (`ValidPasses`), and defaults, stripping and acceptance keep that
  because they change no id, dependency, agent or include (`AlikeExecutable`,
  `AcceptedKeeps`); `DocumentInv` says at which phases the document has passed, and
  where a plan's timeouts, at every depth, and the models of its agents and own
  steps have been taken out (`TakenOut`). For the
  starting orders, `ArrangedIs` shows that a finite set is sorted by any relation
  that orders it, and `RoundRobinIs` that dealing by the number of a step among its
  agent's serves no agent twice while another waits: the steps of the waiting
  agent with a smaller number, which are one less than the served one's number at
  least, are all placed before.
  `CodecsSound`, for every sample: values and schemas of any depth and width, any
  duration, text, error, count and set of keys. `ResultsAre`: the places of a value
  are all its fields and elements, as JSON Schema has them, also those that
  `validateResultSchema` never visits (`Visited` are those it does). Its recursion,
  unrolled to the depth of the schema, accepts every value without a contradiction,
  and where all items are read (`VisitedInside`) no other (by induction from the
  deepest level up). `DurationsAre`: the parts written have descending units and
  their amounts add up. `EscapedIs` and `WithoutReference`: an invariant of the
  expansion's rounds, which says how far it has read and what it has written.
  `KeysAre`: the first slash of a key ends the agent's name, so for names without a
  slash pairs of names and keys and the written keys are in bijection; for a name
  with one nothing is claimed. `StoredAre`: what is stored comes
  back;
* `PartsProofs`: `PartsImplemented`, the composition implements the specification of
  each of its components, because they share no variable and an initial state of
  the composition is one of each. So `PartsTypeCorrect` and `PartsSoundCorrect`
  follow: `TypeOK` of `MCParts`, and every safety property of the run `parts`.

Induction over the rounds of a loop, the depth of a schema and the size of a set
uses the least counterexample instead (`LeastNat`), which follows from the
library's theorem that the finite subsets of a set are well-founded.

Only model-checked are `RunReturns`, `MailSettles`, `StepsLeave`, `AllLeave` and
`HandlesSettle`, because liveness under fairness and `ENABLED` are beyond TLAPS.
Every safety property of a passing run is stated by a theorem.

In the modules with proofs transitive closure is written as the least closed set,
and a loop as a recursive function of the number of its rounds.

## 8. Not modelled

`PROJECT.json` lists every component with its status. Inside `Executor.Run` the
following is left out: event emission, token counts, tracing, the text of errors
and the coordinator call made between `signal` and the release of the slot (the
slot is held during it; the call is a step that may take any time). A resume in
the same process beside orphans of an aborted run is not modelled: `Restart`
ends every goroutine. Conditions are their outcome; their evaluation is a library.

Of the router, delegates of nested executors, wrapper steps, external inboxes and
`Seal` are left out. So are the executors of includes and loops as senders: the
inboxes of their steps have a prefix (`executor_step.go:34-36`), their sibling
slots are opened without it (`:311-329`), so no such slot belongs to an inbox
that any of their steps waits on. `DagAware = FALSE` is an `Executor` built by
itself, whose step ids have no prefix: `msg_grace` runs that one, the other runs
that of an Orchestrator, and the proofs cover both. A second iteration of a loop that registers an inbox
again (`RegisterInbox`, `router/router.go:628-644`) is a run of its own here. In `StepMessaging` the coordinator is a sender only and a
resumed step takes its message out of the model (`handed`); both continue in
`CoordBridge` and `StepResume`, which in turn take one step that has ended and
leave its first life to `StepMessaging`. `DropCallback` is not tracked: the
router's `OnDrop` calls it, while drops emitted by an agent, the hold timeout and
the abort flush are events only, although `internal/exec/options.go:342` says
"once per dropped router message"; no run checks this. A message that a failed
attempt had read counts as read, although the next attempt starts from a new
conversation.

An agent's turn is one step: tool calls within it, streaming and token counts
are left out, and so are portability lints and the decoding of YAML and JSON,
which give the document that `WorkflowDocs` starts from. Of the storage, listing
and pruning are left out. Prompt assembly, skills, MCP servers, isolation,
terminal output, observability, the options' plumbing, the drawing of graphs and
the command line apart from its permission code move text or talk to other
processes: they keep no state whose order matters here.

`Permissions` lets a line typed at a prompt reach that prompt or an abandoned
reader; a line that was typed earlier and still lies in the terminal's buffer is
not represented. In `Spawner` two children of different agents may have the same
id, and closing one's inbox closes the other's; no property says that a running
child keeps its inbox.

## 9. Where code and documentation disagree

Five disagreements have a run that TLC violates:

* **Cascade does not contain a failure next to a false condition**
  (`sched_cascade`). `dispatch` cancels marked steps in its first phase only.
  With `d` depending on `a` and `c`, `c` on `b`, and a condition on `c`: `a`
  fails and marks `d`; `b` completes; `c`'s condition is false, which releases
  `d` in the second phase, whose filter (`executor.go:948-958`) does not look at
  the marks although its comment says so. `d` runs after a failed dependency.
* **A run of skipped steps is reported completed** (`sched_status`), where
  `docs/concepts/dag-scheduling.md:186` says failed.
* **The abort flush can lose a message** (`msg_flush`). `flushMailboxOnAbort`
  reads a mailbox, reports what it read and closes the store, without the step
  lock. A `Send` that had passed the cancellation check appends in between, and
  the close deletes its message: no event, no error for the sender. The step's
  agent has to outlive the two seconds of grace for this, as `NoSilentDropCorrect`
  shows.
* **The abort flush covers only steps that were running** (`msg_cancel`). A
  message queued for a step that had not started stays unread and unreported,
  where `docs/api/errors.md:255` speaks of every mailbox.
* **A wake stores earlier responses again** (`script_twice`). The messages of the
  next call are the old ones, all responses so far and the new mail
  (`agent_runner.go:1207-1209`); the responses stay in the accumulated result as
  well (`:1415`), and the deferred flush stores messages and responses one after
  the other (`:750-768`). The responses from before the wake are stored twice,
  which the comment at `:667-670` means to avoid, and a resume shows them to the
  model twice; a second wake does so at once.

The following was met while modelling. The models keep to what the code does, so
the properties allow it; no run is made of it.

* Coordinator. The wake is signalled before the message is appended
  (`executor.go:737`), so a coordinator that drains in between sleeps on it; the
  hook shows a message before it is taken out of the router's mailbox
  (`executor.go:769-777`), so a drain may show it again. A message that comes after
  the coordinator's last look is dropped by its runner (`agent_runner.go:1257-1259`,
  `coord_lib.go:96-101`). `EventWorkflowEnd` need not be the last event
  (`executor.go:1523-1531`).
* Resume. Messages queued to a resume whose setup fails, or after the last drain
  of its runner, are lost without an event (`executor_resume.go:508`, `:707`).
* Sender slots. The executors of includes and loops leave `SenderMatrixDAGAware`
  false, and so does an `Executor` built by itself, where `executor.go:231` says
  "Defaults to true". In the nested ones the slots are opened under ids without
  prefix and so protect no inbox of theirs; by itself, a step that is done waits
  for its siblings, where `executor_step.go:271-272` says "returns immediately".
* Transcript. A retried attempt appends its conversation to that of the attempt
  before. A sealed store still accepts appends that fit.
* Agents. `RunAgent` does not wait for grandchildren in the background
  (`agent_tool.go:238-251`), where `docs/api/core-functions.md:185` says "Waits
  for the agent and any child agents to complete." An empty intersection of tools
  gives the whole set (`agent_tool.go:141-158`, `:361-373`). Child ids are unique
  within one parent only (`agent_tool.go:193`).
* Handles and cache. An agent registered after `Close` has drained the registry is
  not waited for (`agent_handle.go:372` against `:411`), and the bounded wait of
  `Close` finds nothing to wait for (`:614-650`). An orchestrator whose constructor
  returns after its time limit is never closed (`factory_cache.go:148-172`).
* Queues. What is offered after the stop has drained a queue stays in it, neither
  delivered nor counted.
* Loops. Retries of a loop discard the tokens of earlier attempts
  (`executor.go:1102`), those of an include add them. A panic gives its slot up
  before its error is recorded (`executor_loop.go:438-460`). A forEach loop with
  cancelled iterations only has no error (`:545`). A failed include emits no end
  event (`executor_include.go:233-239`).
* Storage. The directory of a file is not synced, so a loss of power may undo a
  rename; a save that fails or is cut off may leave its temporary file.
* Permissions. A reader abandoned by a cancelled prompt takes the next answer
  (`permission.go:338-348`); a deadline set as the prompt ends outlives its reset
  (`:302-314`). The goroutine of an approval handler may outlive its timeout.
* Documents. Step ids are cleaned but the dependencies on them are not; limits skip
  inner steps and are applied before references are resolved; tools, conditions and
  retries of inner steps are not validated. A rejected plan is asked for again for
  its JSON and once for its content, but not for unknown tools. The models a plan
  gives to the inner steps of a loop stay (`goal_decomposer.go:297-299`), although
  "coordinator-specified models often don't match the runtime provider"
  (`:280-281`).
* Conversions. `errorToSchema` loses the outer text of wrapped joined errors,
  `FormatDuration` writes negative durations that cannot be read back, items of
  an array are not checked if its schema has no type, or has `properties` or
  `required` as well (`submit_result.go:113-121`, `:136-141`, `:179-191`), where
  its comment says "arrays recurse via "items"" (`:76`), `ListByAgent` does not clean names with a slash.

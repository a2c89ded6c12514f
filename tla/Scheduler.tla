------------------------------- MODULE Scheduler -------------------------------
(***************************************************************************)
(* Executor.Run (internal/exec/executor.go): the DAG scheduler of one       *)
(* workflow run.  The main thread runs dispatch() while it holds mu: it     *)
(* propagates skips and cancels, collects the ready steps and launches one  *)
(* goroutine per step, then waits on the done channel or on the abort       *)
(* context.  Each step goroutine takes a slot of the concurrency semaphore, *)
(* runs the step, publishes its result under mu, saves it, signals done and *)
(* notifies the coordinator.  A run may stop at any point (process exit)    *)
(* and be resumed from storage by Orchestrator.ResumeFlow.                  *)
(* An operator marked "mutant" is a bug that the definition after it could  *)
(* have: nothing uses it, and the runs show that a property notices it.     *)
(***************************************************************************)
EXTENDS Integers, FiniteSets

CONSTANTS Step,          \* step IDs
          Workflows,     \* the workflows that may be run
          MaxConc,       \* maxConcurrency: slots of the semaphore
          Stuck,         \* steps whose provider call may ignore its context
          Unreadable,    \* steps whose stored result LoadStepResult may fail to read
          MaxRestarts,   \* bound: how often the process ends and is resumed
          NoReport       \* the value of report before Run returns

Outcomes == {"true", "false", "missing", "error"}
Strategies == {"cascade", "skip-dependents", "abort"}

\* Results of a step: absent = no key in the results map, inflight = nil entry.
Final == {"completed", "failed", "skipped", "cancelled"}

ASSUME SchedulerAssumption ==
  /\ IsFiniteSet(Step)
  /\ MaxConc \in Nat \ {0}
  /\ Stuck \subseteq Step
  /\ Unreadable \subseteq Step
  /\ MaxRestarts \in Nat
  /\ Workflows \subseteq [deps : [Step -> SUBSET Step],
                          cond : [Step -> SUBSET Outcomes],
                          strategy : Strategies]
  /\ NoReport \notin [Step -> Final \cup {"nil"}]

VARIABLES
  wf,          \* the workflow: dependsOn, possible condition outcomes, onStepFailure
  results,     \* results map
  inDegree,    \* dependencies of a step that are not yet released
  skipped,     \* steps marked to be skipped
  cascaded,    \* steps marked to be cancelled
  main,        \* where the main thread of Run is
  round,       \* ready steps the current round of dispatch still has to treat
  condSkipped, \* dispatch's conditionSkipped flag
  pc,          \* where the goroutine of a step is
  done,        \* number of signals in the done channel
  abort,       \* abortCancel was called
  ctxDone,     \* the caller's context is cancelled, or its timeout passed
  aborted,     \* Run gave up waiting for its goroutines
  report,      \* WorkflowResult.Steps, once Run has returned
  status,      \* WorkflowResult.Status
  store,       \* step results in Storage
  resumed,     \* keys of ResumeSteps
  restarts     \* how often the run was resumed so far

dagVars  == <<results, inDegree, skipped, cascaded>>
mainVars == <<main, round, condSkipped>>
ctxVars  == <<abort, ctxDone>>
endVars  == <<aborted, report, status>>
diskVars == <<wf, store, resumed, restarts>>
vars == <<dagVars, mainVars, pc, done, ctxVars, endVars, diskVars>>

MainPC == {"dispatch", "propagate", "collect", "round", "select",
           "abortDrain", "successDrain", "finish", "returned"}
StepPC == {"idle", "acquire", "run", "save", "signal", "notify", "exited",
           "quit", "gone"}
-------------------------------------------------------------------------------
(* The dependency graph.                                                     *)

Deps(s) == wf.deps[s]
Dependents(s) == {t \in Step : s \in Deps(t)}

\* Every step that depends on s, directly or through other steps.
Descendants(s) ==
  {t \in Step : \A S \in SUBSET Step :
     (Dependents(s) \subseteq S /\ \A r \in S : Dependents(r) \subseteq S) => t \in S}
Ancestors(s) == {a \in Step : s \in Descendants(a)}

Handled(s) == results[s] # "absent"
MuHeld == main \in {"propagate", "collect", "round"}
AbortErr == abort \/ ctxDone
Holders == {s \in Step : pc[s] \in {"run", "save", "signal", "notify"}}
Alive == {s \in Step : pc[s] \notin {"idle", "exited", "gone"}}

\* The goroutine of s ended its wait for a slot because of an abort.
GaveUp(s) == pc[s] \in {"quit", "gone"}
\* s has its result, and its dependents' in-degrees were decremented for it.
Released(s) == results[s] \in Final /\ ~GaveUp(s)
Unreleased(s) == {d \in Deps(s) : ~Released(d)}

MarkDirect(s, marked) == marked \cup Dependents(s)      \* mutant
MarkDependents(s, marked) ==
  marked \cup
  {t \in Step : \A S \in SUBSET Step :
     /\ Dependents(s) \ marked \subseteq S
     /\ \A r \in S : Dependents(r) \ marked \subseteq S
     => t \in S}

ReleaseUnmarked(s) ==      \* mutant
  inDegree' = [t \in Step |->
                 IF s \in Deps(t) /\ t \notin cascaded THEN inDegree[t] - 1 ELSE inDegree[t]]
ReleaseDependents(s) ==
  inDegree' = [t \in Step |-> IF s \in Deps(t) THEN inDegree[t] - 1 ELSE inDegree[t]]

\* onStepFailure for a step that failed by running or by its condition.
ApplyFailure(s) ==
  /\ abort' = (abort \/ wf.strategy = "abort")
  /\ cascaded' = IF wf.strategy = "cascade" THEN MarkDependents(s, cascaded) ELSE cascaded
  /\ skipped' = IF wf.strategy = "skip-dependents" THEN MarkDependents(s, skipped) ELSE skipped
-------------------------------------------------------------------------------
(* Start of a run, fresh or resumed.                                         *)

\* ResumeFlow keeps the steps whose stored result is completed; a result that
\* cannot be read counts as not stored.
KeepAll(lost) == {s \in Step : store[s] # "none"} \ lost      \* mutant
ResumeSet(lost) == {s \in Step : store[s] = "completed"} \ lost

StartAbsent(kept) == [s \in Step |-> "absent"]      \* mutant
StartResults(kept) == [s \in Step |-> IF s \in kept THEN "completed" ELSE "absent"]
StartInDegreeFresh(w, kept) == [s \in Step |-> Cardinality(w.deps[s])]      \* mutant
StartInDegree(w, kept) == [s \in Step |-> Cardinality(w.deps[s] \ kept)]

Init ==
  /\ wf \in Workflows
  /\ results = StartResults({})
  /\ inDegree = StartInDegree(wf, {})
  /\ skipped = {} /\ cascaded = {}
  /\ main = "dispatch" /\ round = {} /\ condSkipped = FALSE
  /\ pc = [s \in Step |-> "idle"]
  /\ done = 0
  /\ abort = FALSE /\ ctxDone = FALSE
  /\ aborted = FALSE /\ report = NoReport /\ status = "running"
  /\ store = [s \in Step |-> "none"]
  /\ resumed = {} /\ restarts = 0

\* The process ends, whatever it was doing, and ResumeFlow runs the same workflow.
Restart ==
  /\ restarts < MaxRestarts
  /\ restarts' = restarts + 1
  /\ \E lost \in SUBSET Unreadable :
       /\ resumed' = ResumeSet(lost)
       /\ results' = StartResults(ResumeSet(lost))
       /\ inDegree' = StartInDegree(wf, ResumeSet(lost))
  /\ skipped' = {} /\ cascaded' = {}
  /\ main' = "dispatch" /\ round' = {} /\ condSkipped' = FALSE
  /\ pc' = [s \in Step |-> "idle"]
  /\ done' = 0
  /\ abort' = FALSE /\ ctxDone' = FALSE
  /\ aborted' = FALSE /\ report' = NoReport /\ status' = "running"
  /\ UNCHANGED <<wf, store>>
-------------------------------------------------------------------------------
(* dispatch(), called with mu held.                                          *)

Remaining == {s \in Step : results[s] \notin Final}
AfterDispatch == IF Remaining = {} THEN "successDrain" ELSE "select"

\* dispatch returns at once when the run is being aborted.
BeginDispatch ==
  /\ main = "dispatch"
  /\ main' = IF AbortErr THEN AfterDispatch ELSE "propagate"
  /\ UNCHANGED <<dagVars, round, condSkipped, pc, done, ctxVars, endVars, diskVars>>

PropagatableSkips ==      \* mutant
  {s \in Step : inDegree[s] = 0 /\ ~Handled(s) /\ s \in skipped}
Propagatable ==
  {s \in Step : inDegree[s] = 0 /\ ~Handled(s) /\ s \in skipped \cup cascaded}

\* A marked step whose dependencies are settled gets its status without running.
Propagate(s) ==
  /\ main = "propagate"
  /\ s \in Propagatable
  /\ results' = [results EXCEPT ![s] = IF s \in cascaded THEN "cancelled" ELSE "skipped"]
  /\ ReleaseDependents(s)
  /\ skipped' = IF s \in skipped THEN skipped \cup Dependents(s) ELSE skipped
  /\ cascaded' = IF s \in skipped THEN cascaded ELSE cascaded \cup Dependents(s)
  /\ UNCHANGED <<mainVars, pc, done, ctxVars, endVars, diskVars>>

EndPropagate ==
  /\ main = "propagate"
  /\ Propagatable = {}
  /\ main' = "collect"
  /\ UNCHANGED <<dagVars, round, condSkipped, pc, done, ctxVars, endVars, diskVars>>

ReadyOneLeft == {s \in Step : inDegree[s] <= 1 /\ ~Handled(s)}      \* mutant
ReadyAgain == {s \in Step : inDegree[s] = 0}      \* mutant
ReadySteps == {s \in Step : inDegree[s] = 0 /\ ~Handled(s)}

Collect ==
  /\ main = "collect"
  /\ round' = ReadySteps
  /\ condSkipped' = FALSE
  /\ main' = IF ReadySteps = {} THEN AfterDispatch ELSE "round"
  /\ UNCHANGED <<dagVars, pc, done, ctxVars, endVars, diskVars>>

ConditionFalseCascades(s) ==      \* mutant
  /\ main = "round"
  /\ s \in round
  /\ wf.cond[s] \cap {"false", "missing"} # {}
  /\ results' = [results EXCEPT ![s] = "skipped"]
  /\ ReleaseDependents(s)
  /\ cascaded' = MarkDependents(s, cascaded)
  /\ round' = round \ {s}
  /\ condSkipped' = TRUE
  /\ UNCHANGED <<skipped, main, pc, done, ctxVars, endVars, diskVars>>

\* The ready steps are taken in the order scheduleOrder gives: any order here.
ConditionFalse(s) ==
  /\ main = "round"
  /\ s \in round
  /\ wf.cond[s] \cap {"false", "missing"} # {}
  /\ results' = [results EXCEPT ![s] = "skipped"]
  /\ ReleaseDependents(s)
  /\ round' = round \ {s}
  /\ condSkipped' = TRUE
  /\ UNCHANGED <<skipped, cascaded, main, pc, done, ctxVars, endVars, diskVars>>

ConditionError(s) ==
  /\ main = "round"
  /\ s \in round
  /\ "error" \in wf.cond[s]
  /\ results' = [results EXCEPT ![s] = "failed"]
  /\ ApplyFailure(s)
  /\ ReleaseDependents(s)
  /\ round' = round \ {s}
  /\ condSkipped' = TRUE
  /\ UNCHANGED <<main, pc, done, ctxDone, endVars, diskVars>>

Launch(s) ==
  /\ main = "round"
  /\ s \in round
  /\ "true" \in wf.cond[s]
  /\ results' = [results EXCEPT ![s] = "inflight"]
  /\ pc' = [pc EXCEPT ![s] = "acquire"]
  /\ round' = round \ {s}
  /\ UNCHANGED <<inDegree, skipped, cascaded, main, condSkipped, done, ctxVars,
                 endVars, diskVars>>

\* Another round when a condition may have freed new steps; else unlock mu.
EndRound ==
  /\ main = "round"
  /\ round = {}
  /\ main' = IF condSkipped THEN "collect" ELSE AfterDispatch
  /\ UNCHANGED <<dagVars, round, condSkipped, pc, done, ctxVars, endVars, diskVars>>
-------------------------------------------------------------------------------
(* The main loop, the drains and the report.                                 *)

ReceiveDone ==
  /\ main = "select"
  /\ done > 0
  /\ done' = done - 1
  /\ main' = "dispatch"
  /\ UNCHANGED <<dagVars, round, condSkipped, pc, ctxVars, endVars, diskVars>>

ObserveAbort ==
  /\ main = "select"
  /\ AbortErr
  /\ main' = "abortDrain"
  /\ UNCHANGED <<dagVars, round, condSkipped, pc, done, ctxVars, endVars, diskVars>>

AbortDrainPatient ==      \* mutant
  /\ main = "abortDrain"
  /\ main' = "finish"
  /\ Alive = {} /\ aborted' = FALSE
  /\ UNCHANGED <<dagVars, round, condSkipped, pc, done, ctxVars, report, status, diskVars>>

\* abortDrain waits for the goroutines, at most abortDrainGrace.
AbortDrain ==
  /\ main = "abortDrain"
  /\ main' = "finish"
  /\ \/ Alive = {} /\ aborted' = FALSE
     \/ aborted' = TRUE
  /\ UNCHANGED <<dagVars, round, condSkipped, pc, done, ctxVars, report, status, diskVars>>

\* successDrain waits for the goroutines until the caller's context ends.
SuccessDrain ==
  /\ main = "successDrain"
  /\ \/ Alive = {} /\ aborted' = FALSE
     \/ ctxDone    /\ aborted' = TRUE
  /\ main' = "finish"
  /\ UNCHANGED <<dagVars, round, condSkipped, pc, done, ctxVars, report, status, diskVars>>

ReportAsIs == results      \* mutant
ReportUnstarted ==      \* mutant
  [s \in Step |-> CASE results[s] \in Final -> results[s]
                    [] results[s] = "inflight" -> "nil"
                    [] OTHER -> "cancelled"]
FinalReport ==
  [s \in Step |-> CASE results[s] \in Final -> results[s]
                    [] results[s] = "inflight" -> IF aborted THEN "cancelled" ELSE "nil"
                    [] OTHER -> "cancelled"]

DeriveStatus(rep) ==
  LET hasCompleted == \E s \in Step : rep[s] = "completed"
      hasFailed    == \E s \in Step : rep[s] \in {"failed", "cancelled"}
  IN  CASE hasFailed /\ hasCompleted -> "partial"
        [] hasFailed /\ ~hasCompleted -> "failed"
        [] OTHER -> "completed"

\* The snapshot under mu; on return the deferred cancels end the contexts.
Finish ==
  /\ main = "finish"
  /\ main' = "returned"
  /\ report' = FinalReport
  /\ status' = DeriveStatus(FinalReport)
  /\ abort' = TRUE
  /\ UNCHANGED <<dagVars, round, condSkipped, pc, done, ctxDone, aborted, diskVars>>
-------------------------------------------------------------------------------
(* The goroutine of a step.                                                  *)

Goto(s, from, to) == pc[s] = from /\ pc' = [pc EXCEPT ![s] = to]

Acquire(s) ==
  /\ Goto(s, "acquire", "run")
  /\ Cardinality(Holders) < MaxConc
  /\ UNCHANGED <<dagVars, mainVars, done, ctxVars, endVars, diskVars>>

\* The abort wins the wait for a slot: a result, but no in-degree is released.
GiveUp(s) ==
  /\ Goto(s, "acquire", "quit")
  /\ AbortErr
  /\ ~MuHeld
  /\ results' = [results EXCEPT ![s] = "cancelled"]
  /\ UNCHANGED <<inDegree, skipped, cascaded, mainVars, done, ctxVars, endVars, diskVars>>

Complete(s) ==
  /\ Goto(s, "run", "save")
  /\ ~MuHeld
  /\ results' = [results EXCEPT ![s] = "completed"]
  /\ ReleaseDependents(s)
  /\ UNCHANGED <<skipped, cascaded, mainVars, done, ctxVars, endVars, diskVars>>

\* Retries exhausted, a panic, or the call returned its context's error.
Fail(s) ==
  /\ Goto(s, "run", "save")
  /\ ~MuHeld
  /\ results' = [results EXCEPT ![s] = "failed"]
  /\ ApplyFailure(s)
  /\ ReleaseDependents(s)
  /\ UNCHANGED <<mainVars, done, ctxDone, endVars, diskVars>>

\* SaveStepResult; its error is only reported as an event.
Save(s) ==
  /\ Goto(s, "save", "signal")
  /\ \/ store' = [store EXCEPT ![s] = results[s]]
     \/ UNCHANGED store
  /\ UNCHANGED <<dagVars, mainVars, done, ctxVars, endVars, wf, resumed, restarts>>

DoneCapSlots == MaxConc      \* mutant
DoneCap == Cardinality(Step)

\* select { case done <- stepID: default: }
SendDone == done' = IF done < DoneCap THEN done + 1 ELSE done

Signal(s) ==
  /\ Goto(s, "signal", "notify")
  /\ SendDone
  /\ UNCHANGED <<dagVars, mainVars, ctxVars, endVars, diskVars>>

SignalQuit(s) ==
  /\ Goto(s, "quit", "gone")
  /\ SendDone
  /\ UNCHANGED <<dagVars, mainVars, ctxVars, endVars, diskVars>>

\* The coordinator is notified, then the slot is given back.
Exit(s) ==
  /\ Goto(s, "notify", "exited")
  /\ UNCHANGED <<dagVars, mainVars, done, ctxVars, endVars, diskVars>>

\* The caller cancels, or the workflow's timeout passes.
CancelCtx ==
  /\ main # "returned"
  /\ ~ctxDone
  /\ ctxDone' = TRUE
  /\ UNCHANGED <<dagVars, mainVars, pc, done, abort, endVars, diskVars>>
-------------------------------------------------------------------------------
DispatchStep(s) == Propagate(s) \/ ConditionFalse(s) \/ ConditionError(s) \/ Launch(s)

MainNext ==
  \/ BeginDispatch
  \/ \E s \in Step : DispatchStep(s)
  \/ EndPropagate
  \/ Collect
  \/ EndRound
  \/ ReceiveDone
  \/ ObserveAbort
  \/ AbortDrain
  \/ SuccessDrain
  \/ Finish

RunStep(s) == Complete(s) \/ Fail(s)

AfterRun(s) == Save(s) \/ Signal(s) \/ SignalQuit(s) \/ Exit(s)

StepNext(s) == Acquire(s) \/ GiveUp(s) \/ RunStep(s) \/ AfterRun(s)

Next ==
  \/ MainNext
  \/ \E s \in Step : StepNext(s)
  \/ CancelCtx
  \/ Restart

Spec == Init /\ [][Next]_vars

\* The Go scheduler runs every runnable goroutine; a step that is not stuck ends.
Fairness ==
  /\ WF_vars(MainNext)
  /\ \A s \in Step :
       /\ WF_vars(Acquire(s) \/ GiveUp(s))
       /\ WF_vars(AfterRun(s))
       /\ s \notin Stuck => WF_vars(RunStep(s))

FairSpec == Spec /\ Fairness
-------------------------------------------------------------------------------
(* Properties.                                                               *)

TypeOK ==
  /\ wf \in Workflows
  /\ results \in [Step -> Final \cup {"absent", "inflight"}]
  /\ inDegree \in [Step -> Int]
  /\ skipped \in SUBSET Step /\ cascaded \in SUBSET Step
  /\ main \in MainPC /\ round \in SUBSET Step /\ condSkipped \in BOOLEAN
  /\ pc \in [Step -> StepPC]
  /\ done \in Nat
  /\ abort \in BOOLEAN /\ ctxDone \in BOOLEAN
  /\ aborted \in BOOLEAN
  /\ report \in [Step -> Final \cup {"nil"}] \cup {NoReport}
  /\ status \in {"running", "completed", "partial", "failed"}
  /\ store \in [Step -> Final \cup {"none"}]
  /\ resumed \in SUBSET Step
  /\ restarts \in Nat

\* The counter that dispatch trusts: every in-degree is the number of
\* dependencies not yet released, through launches, skips, failures, aborts
\* and resumed results, which release their dependents in different places.
InDegreeExact == \A s \in Step : inDegree[s] = Cardinality(Unreleased(s))

\* No goroutine is ever started for a step while one of the steps it depends on
\* has no final result, whatever released it.
NoEarlyStart ==
  \A s \in Step : pc[s] # "idle" => \A d \in Deps(s) : results[d] \in Final

\* markDependents, which stops at steps already marked, and the marks that
\* propagation adds, together mark exactly the descendants of failed steps, and
\* only in the set the strategy asks for.
MarksExact ==
  LET hit == UNION {Descendants(f) : f \in {s \in Step : results[s] = "failed"}}
  IN  /\ cascaded = IF wf.strategy = "cascade" THEN hit ELSE {}
      /\ skipped = IF wf.strategy = "skip-dependents" THEN hit ELSE {}

\* Under every strategy, a step that runs has only completed ancestors, provided
\* no ancestor has a condition or was taken from a checkpoint.
FailureContained ==
  \A s \in Step :
    /\ pc[s] # "idle"
    /\ \A a \in Ancestors(s) : wf.cond[a] = {"true"} /\ a \notin resumed
    => \A a \in Ancestors(s) : results[a] = "completed"

\* What the documentation says of the cascade strategy: once a step has failed,
\* no step downstream of it is run.
CascadeContainment ==
  wf.strategy = "cascade" =>
    \A s \in Step : pc[s] # "idle" =>
      \A a \in Ancestors(s) : results[a] # "failed"

\* Nothing is given up without a cause: an unconditional step is skipped, and any
\* step is cancelled, only by a failure upstream or by an abort.
NoSpuriousStop ==
  \A s \in Step :
    LET upstreamFailed == \E a \in Ancestors(s) : results[a] = "failed"
    IN  /\ results[s] = "skipped" /\ wf.cond[s] = {"true"}
           => upstreamFailed /\ wf.strategy = "skip-dependents"
        /\ results[s] = "cancelled"
           => AbortErr \/ (upstreamFailed /\ wf.strategy = "cascade")

\* The done channel, as large as the workflow, has room for every signal that is
\* about to be sent: the default branch of the send never loses a completion.
DoneHasRoom == \A s \in Step : pc[s] \in {"signal", "quit"} => done < DoneCap

\* The report covers every step with a terminal status (no nil entry reaches the
\* status derivation), and differs from the results map only where Run called an
\* unfinished step cancelled; a run that was not aborted leaves no orphan.
ReportFaithful ==
  main = "returned" =>
    \A s \in Step : /\ report[s] \in Final
                    /\ report[s] # "cancelled" => results[s] = report[s]
                    /\ ~aborted => pc[s] \in {"idle", "exited", "gone"}

\* A completed result in storage that can be read is a completed result of the
\* current run, over any number of process ends and resumes.
StoreBacked == \A s \in Step \ Unreadable : store[s] = "completed" => results[s] = "completed"

\* A step whose completed result can be read from storage is never launched again.
PersistedNeverRelaunched ==
  [][\A s \in Step \ Unreadable :
       store[s] = "completed" /\ pc'[s] = "acquire" => pc[s] = "acquire"]_vars

\* Run implements the contract its callers rely on.
Flow == INSTANCE FlowContract
          WITH deps <- wf.deps,
               outcome <- [s \in Step |-> CASE results[s] = "absent" -> "pending"
                                            [] results[s] = "inflight" -> "started"
                                            [] OTHER -> results[s]],
               report <- report
ImplementsContract == Flow!Contract

\* Run returns once its context or the abort strategy ends it, even when a step
\* ignores its context for ever; and it returns unaided when no step is stuck.
RunReturns == (AbortErr \/ Stuck = {}) ~> (main = "returned")

\* docs/concepts/dag-scheduling.md: without a completed step the workflow failed.
FailedWithoutCompleted ==
  status # "running" /\ (\A s \in Step : report[s] # "completed") => status = "failed"
===============================================================================

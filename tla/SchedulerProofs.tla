---------------------------- MODULE SchedulerProofs ----------------------------
(***************************************************************************)
(* Proofs about Scheduler, for every set of steps, every set of workflows,  *)
(* every concurrency limit and every number of resumes.                     *)
(***************************************************************************)
EXTENDS Scheduler, FiniteSetTheorems, TLAPS

\* Where the goroutine of a step is determines what the results map may hold.
PcResults ==
  \A s \in Step :
    /\ pc[s] = "idle" => results[s] # "inflight"
    /\ pc[s] \in {"acquire", "run"} => results[s] = "inflight"
    /\ pc[s] \in {"save", "signal", "notify", "exited"} => results[s] \in {"completed", "failed"}
    /\ pc[s] \in {"quit", "gone"} => results[s] = "cancelled"

\* A step of the current round is untouched and waits for nothing.
RoundReady ==
  \A s \in round : main = "round" /\ results[s] = "absent" /\ Unreleased(s) = {}

IInv == TypeOK /\ PcResults /\ RoundReady /\ InDegreeExact

LEMMA DepsFinite ==
  ASSUME TypeOK, NEW s \in Step
  PROVE  Deps(s) \subseteq Step /\ IsFiniteSet(Unreleased(s))
<1>1. Deps(s) \subseteq Step
  BY SchedulerAssumption DEF TypeOK, Deps
<1>2. Unreleased(s) \subseteq Step
  BY <1>1 DEF Unreleased
<1> QED
  BY <1>1, <1>2, SchedulerAssumption, FS_Subset

\* Releasing exactly one step keeps the in-degrees exact.
LEMMA ReleaseOne ==
  ASSUME TypeOK, InDegreeExact, wf' = wf, NEW s \in Step,
         ~Released(s), Released(s)',
         \A d \in Step : d # s => (Released(d)' <=> Released(d)),
         ReleaseDependents(s)
  PROVE  InDegreeExact'
<1> SUFFICES ASSUME NEW t \in Step
             PROVE  inDegree'[t] = Cardinality(Unreleased(t)')
  BY DEF InDegreeExact
<1>1. Deps(t) \subseteq Step /\ IsFiniteSet(Unreleased(t))
  BY DepsFinite
<1>2. Deps(t)' = Deps(t)
  BY DEF Deps
<1>3. inDegree[t] = Cardinality(Unreleased(t))
  BY DEF InDegreeExact
<1>4. CASE s \in Deps(t)
  <2>1. Unreleased(t)' = Unreleased(t) \ {s}
    BY <1>1, <1>2 DEF Unreleased
  <2>2. s \in Unreleased(t)
    BY <1>4 DEF Unreleased
  <2>3. Cardinality(Unreleased(t) \ {s}) = Cardinality(Unreleased(t)) - 1
    BY <1>1, <2>2, FS_RemoveElement
  <2>4. inDegree'[t] = inDegree[t] - 1
    BY <1>4 DEF ReleaseDependents
  <2> QED
    BY <1>3, <2>1, <2>3, <2>4
<1>5. CASE s \notin Deps(t)
  <2>1. Unreleased(t)' = Unreleased(t)
    BY <1>1, <1>2, <1>5 DEF Unreleased
  <2>2. inDegree'[t] = inDegree[t]
    BY <1>5 DEF ReleaseDependents
  <2> QED
    BY <1>3, <2>1, <2>2
<1> QED
  BY <1>4, <1>5

\* A step of the specification that releases nobody keeps them exact too.
LEMMA ReleaseNone ==
  ASSUME TypeOK, InDegreeExact, wf' = wf, inDegree' = inDegree,
         \A d \in Step : Released(d)' <=> Released(d)
  PROVE  InDegreeExact'
<1> SUFFICES ASSUME NEW t \in Step
             PROVE  inDegree'[t] = Cardinality(Unreleased(t)')
  BY DEF InDegreeExact
<1>1. Deps(t) \subseteq Step
  BY DepsFinite
<1>2. Unreleased(t)' = Unreleased(t)
  BY <1>1 DEF Unreleased, Deps
<1> QED
  BY <1>2 DEF InDegreeExact

\* A step that is marked to be skipped or cancelled stays within Step.
LEMMA MarkType ==
  ASSUME NEW s \in Step, NEW m \in SUBSET Step
  PROVE  MarkDependents(s, m) \in SUBSET Step
BY DEF MarkDependents

USE DEF Final, Outcomes, Strategies

\* onStepFailure keeps the marks within Step.
LEMMA FailureType ==
  ASSUME TypeOK, NEW s \in Step, ApplyFailure(s)
  PROVE  abort' \in BOOLEAN /\ skipped' \in SUBSET Step /\ cascaded' \in SUBSET Step
<1>1. MarkDependents(s, cascaded) \in SUBSET Step /\ MarkDependents(s, skipped) \in SUBSET Step
  BY MarkType DEF TypeOK
<1> QED
  BY <1>1 DEF ApplyFailure, TypeOK

\* Decrementing keeps the in-degrees integers.
LEMMA ReleaseType ==
  ASSUME TypeOK, NEW s \in Step, ReleaseDependents(s)
  PROVE  inDegree' \in [Step -> Int]
BY DEF ReleaseDependents, TypeOK

\* The values a run starts with are well typed, whatever was checkpointed.
LEMMA StartType ==
  ASSUME NEW kept \in SUBSET Step, NEW w \in Workflows
  PROVE  /\ StartResults(kept) \in [Step -> Final \cup {"absent", "inflight"}]
         /\ StartInDegree(w, kept) \in [Step -> Int]
<1>1. ASSUME NEW s \in Step
      PROVE  Cardinality(w.deps[s] \ kept) \in Int
  <2>1. w.deps[s] \ kept \subseteq Step
    BY SchedulerAssumption
  <2>2. IsFiniteSet(w.deps[s] \ kept)
    BY <2>1, SchedulerAssumption, FS_Subset
  <2> QED
    BY <2>2, FS_CardinalityType
<1> QED
  BY <1>1 DEF StartResults, StartInDegree

\* The report Run builds maps every step to a status or to a nil entry.
LEMMA ReportType ==
  ASSUME TypeOK
  PROVE  /\ FinalReport \in [Step -> Final \cup {"nil"}]
         /\ DeriveStatus(FinalReport) \in {"running", "completed", "partial", "failed"}
BY DEF FinalReport, DeriveStatus, TypeOK

LEMMA TypeInit == Init => TypeOK
<1> SUFFICES ASSUME Init PROVE TypeOK
  OBVIOUS
<1>1. results \in [Step -> Final \cup {"absent", "inflight"}] /\ inDegree \in [Step -> Int]
  BY StartType DEF Init
<1> QED
  BY <1>1 DEF Init, TypeOK, MainPC, StepPC

LEMMA TypeNext == TypeOK /\ PcResults /\ [Next]_vars => TypeOK'
<1> SUFFICES ASSUME TypeOK, PcResults, [Next]_vars PROVE TypeOK'
  OBVIOUS
<1> USE DEF dagVars, mainVars, ctxVars, endVars, diskVars, MainPC, StepPC, Goto,
            AfterDispatch
<1>1. CASE BeginDispatch
  BY <1>1 DEF BeginDispatch, TypeOK
<1>2. ASSUME NEW s \in Step, Propagate(s) PROVE TypeOK'
  <2>1. inDegree' \in [Step -> Int]
    BY <1>2, ReleaseType DEF Propagate
  <2>2. Dependents(s) \subseteq Step
    BY DEF Dependents
  <2> QED
    BY <1>2, <2>1, <2>2 DEF Propagate, TypeOK
<1>3. CASE EndPropagate
  BY <1>3 DEF EndPropagate, TypeOK
<1>4. CASE Collect
  BY <1>4 DEF Collect, ReadySteps, TypeOK
<1>5. ASSUME NEW s \in Step, ConditionFalse(s) PROVE TypeOK'
  <2>1. inDegree' \in [Step -> Int]
    BY <1>5, ReleaseType DEF ConditionFalse
  <2> QED
    BY <1>5, <2>1 DEF ConditionFalse, TypeOK
<1>6. ASSUME NEW s \in Step, ConditionError(s) PROVE TypeOK'
  <2>1. inDegree' \in [Step -> Int]
    BY <1>6, ReleaseType DEF ConditionError
  <2>2. abort' \in BOOLEAN /\ skipped' \in SUBSET Step /\ cascaded' \in SUBSET Step
    BY <1>6, FailureType DEF ConditionError
  <2> QED
    BY <1>6, <2>1, <2>2 DEF ConditionError, TypeOK
<1>7. ASSUME NEW s \in Step, Launch(s) PROVE TypeOK'
  BY <1>7 DEF Launch, TypeOK
<1>8. CASE EndRound
  BY <1>8 DEF EndRound, TypeOK
<1>9. CASE ReceiveDone
  BY <1>9 DEF ReceiveDone, TypeOK
<1>10. CASE ObserveAbort
  BY <1>10 DEF ObserveAbort, TypeOK
<1>11. CASE AbortDrain
  BY <1>11 DEF AbortDrain, TypeOK
<1>12. CASE SuccessDrain
  BY <1>12 DEF SuccessDrain, TypeOK
<1>13. CASE Finish
  BY <1>13, ReportType DEF Finish, TypeOK
<1>14. ASSUME NEW s \in Step, Acquire(s) PROVE TypeOK'
  BY <1>14 DEF Acquire, TypeOK
<1>15. ASSUME NEW s \in Step, GiveUp(s) PROVE TypeOK'
  BY <1>15 DEF GiveUp, TypeOK
<1>16. ASSUME NEW s \in Step, Complete(s) PROVE TypeOK'
  <2>1. inDegree' \in [Step -> Int]
    BY <1>16, ReleaseType DEF Complete
  <2>2. results' \in [Step -> Final \cup {"absent", "inflight"}] /\ pc' \in [Step -> StepPC]
    BY <1>16 DEF Complete, TypeOK, Final
  <2>3. UNCHANGED <<skipped, cascaded, mainVars, done, ctxVars, endVars, diskVars>>
    BY <1>16 DEF Complete
  <2> QED
    BY <2>1, <2>2, <2>3 DEF TypeOK
<1>17. ASSUME NEW s \in Step, Fail(s) PROVE TypeOK'
  <2>1. inDegree' \in [Step -> Int]
    BY <1>17, ReleaseType DEF Fail
  <2>2. abort' \in BOOLEAN /\ skipped' \in SUBSET Step /\ cascaded' \in SUBSET Step
    BY <1>17, FailureType DEF Fail
  <2> QED
    BY <1>17, <2>1, <2>2 DEF Fail, TypeOK
<1>18. ASSUME NEW s \in Step, Save(s) PROVE TypeOK'
  <2>1. results[s] \in Final
    BY <1>18 DEF Save, PcResults
  <2> QED
    BY <1>18, <2>1 DEF Save, TypeOK
<1>19. ASSUME NEW s \in Step, Signal(s) \/ SignalQuit(s) PROVE TypeOK'
  <2>1. done' \in Nat
    BY <1>19 DEF Signal, SignalQuit, SendDone, TypeOK
  <2> QED
    BY <1>19, <2>1 DEF Signal, SignalQuit, TypeOK
<1>20. ASSUME NEW s \in Step, Exit(s) PROVE TypeOK'
  BY <1>20 DEF Exit, TypeOK
<1>21. CASE CancelCtx
  BY <1>21 DEF CancelCtx, TypeOK
<1>22. CASE Restart
  <2> PICK lost \in SUBSET Unreadable :
             /\ resumed' = ResumeSet(lost) /\ results' = StartResults(ResumeSet(lost))
             /\ inDegree' = StartInDegree(wf, ResumeSet(lost))
    BY <1>22 DEF Restart
  <2>1. ResumeSet(lost) \in SUBSET Step
    BY DEF ResumeSet
  <2>2. /\ StartResults(ResumeSet(lost)) \in [Step -> Final \cup {"absent", "inflight"}]
        /\ StartInDegree(wf, ResumeSet(lost)) \in [Step -> Int]
    BY <2>1, StartType DEF TypeOK
  <2>3. /\ wf' = wf /\ store' = store /\ resumed' = ResumeSet(lost) /\ restarts' = restarts + 1
        /\ results' = StartResults(ResumeSet(lost)) /\ inDegree' = StartInDegree(wf, ResumeSet(lost))
        /\ pc' = [s \in Step |-> "idle"] /\ main' = "dispatch" /\ done' = 0
        /\ skipped' = {} /\ cascaded' = {} /\ round' = {}
    BY <1>22 DEF Restart
  <2>4. /\ condSkipped' = FALSE /\ abort' = FALSE /\ ctxDone' = FALSE /\ aborted' = FALSE
        /\ report' = NoReport /\ status' = "running"
    BY <1>22 DEF Restart
  <2>5. pc' \in [Step -> StepPC]
    BY <2>3
  <2>6. restarts' \in Nat /\ wf' \in Workflows /\ store' \in [Step -> Final \cup {"none"}]
    BY <2>3 DEF TypeOK
  <2>7. resumed' \in SUBSET Step /\ skipped' \in SUBSET Step /\ cascaded' \in SUBSET Step
        /\ round' \in SUBSET Step
    BY <2>1, <2>3
  <2>8. condSkipped' \in BOOLEAN /\ abort' \in BOOLEAN /\ ctxDone' \in BOOLEAN
        /\ aborted' \in BOOLEAN
    BY <2>4
  <2>9. main' \in MainPC /\ done' \in Nat
        /\ status' \in {"running", "completed", "partial", "failed"}
        /\ report' \in [Step -> Final \cup {"nil"}] \cup {NoReport}
    BY <2>3, <2>4
  <2>10. /\ results' \in [Step -> Final \cup {"absent", "inflight"}]
         /\ inDegree' \in [Step -> Int]
    BY <2>2, <2>3
  <2> QED
    BY <2>5, <2>6, <2>7, <2>8, <2>9, <2>10 DEF TypeOK
<1>23. CASE UNCHANGED vars
  BY <1>23 DEF TypeOK, vars
<1> QED
  BY <1>1, <1>2, <1>3, <1>4, <1>5, <1>6, <1>7, <1>8, <1>9, <1>10, <1>11, <1>12, <1>13,
     <1>14, <1>15, <1>16, <1>17, <1>18, <1>19, <1>20, <1>21, <1>22, <1>23
  DEF Next, MainNext, DispatchStep, StepNext, RunStep, AfterRun

(* Steps of the main thread that touch neither the results nor a goroutine.   *)
Quiet == \/ BeginDispatch \/ EndPropagate \/ Collect \/ EndRound \/ ReceiveDone
         \/ ObserveAbort \/ AbortDrain \/ SuccessDrain \/ Finish \/ CancelCtx

LEMMA QuietUnchanged ==
  ASSUME Quiet
  PROVE  wf' = wf /\ results' = results /\ inDegree' = inDegree /\ pc' = pc /\ store' = store
BY DEF Quiet, BeginDispatch, EndPropagate, Collect, EndRound, ReceiveDone, ObserveAbort,
       AbortDrain, SuccessDrain, Finish, CancelCtx, dagVars, diskVars

LEMMA PcInit == Init => PcResults
BY DEF Init, StartResults, PcResults

LEMMA PcNext == TypeOK /\ PcResults /\ RoundReady /\ [Next]_vars => PcResults'
<1> SUFFICES ASSUME TypeOK, PcResults, RoundReady, [Next]_vars PROVE PcResults'
  OBVIOUS
<1> USE DEF dagVars, Goto
<1>1. CASE Quiet
  BY <1>1, QuietUnchanged DEF PcResults
<1>2. ASSUME NEW s \in Step, Propagate(s) PROVE PcResults'
  <2>1. results[s] = "absent" /\ pc' = pc
    BY <1>2 DEF Propagate, Propagatable, Handled
  <2>2. pc[s] = "idle"
    BY <2>1 DEF TypeOK, StepPC, PcResults
  <2>3. results' = [results EXCEPT ![s] = IF s \in cascaded THEN "cancelled" ELSE "skipped"]
    BY <1>2 DEF Propagate
  <2> QED
    BY <2>1, <2>2, <2>3 DEF TypeOK, PcResults
<1>3. ASSUME NEW s \in Step, ConditionFalse(s) \/ ConditionError(s) PROVE PcResults'
  <2>1. results[s] = "absent" /\ pc' = pc
    BY <1>3 DEF ConditionFalse, ConditionError, RoundReady
  <2>2. pc[s] = "idle"
    BY <2>1 DEF TypeOK, StepPC, PcResults
  <2>3. \E r \in {"skipped", "failed"} : results' = [results EXCEPT ![s] = r]
    BY <1>3 DEF ConditionFalse, ConditionError
  <2> QED
    BY <2>1, <2>2, <2>3 DEF TypeOK, PcResults
<1>4. ASSUME NEW s \in Step, Launch(s) PROVE PcResults'
  BY <1>4 DEF Launch, TypeOK, PcResults
<1>5. ASSUME NEW s \in Step, Acquire(s) PROVE PcResults'
  BY <1>5 DEF Acquire, TypeOK, PcResults
<1>6. ASSUME NEW s \in Step, GiveUp(s) PROVE PcResults'
  BY <1>6 DEF GiveUp, TypeOK, PcResults
<1>7. ASSUME NEW s \in Step, RunStep(s) PROVE PcResults'
  BY <1>7 DEF RunStep, Complete, Fail, TypeOK, PcResults
<1>8. ASSUME NEW s \in Step, AfterRun(s) PROVE PcResults'
  BY <1>8 DEF AfterRun, Save, Signal, SignalQuit, Exit, TypeOK, PcResults
<1>9. CASE Restart
  BY <1>9 DEF Restart, StartResults, PcResults
<1>10. CASE UNCHANGED vars
  BY <1>10 DEF PcResults, vars
<1> QED
  BY <1>1, <1>2, <1>3, <1>4, <1>5, <1>6, <1>7, <1>8, <1>9, <1>10
  DEF Next, MainNext, DispatchStep, StepNext, Quiet

\* A fresh run has released nobody and has no round.
LEMMA RoundInit == Init => RoundReady /\ InDegreeExact
<1> SUFFICES ASSUME Init PROVE RoundReady /\ InDegreeExact
  OBVIOUS
<1>1. RoundReady
  BY DEF Init, RoundReady
<1>2. ASSUME NEW s \in Step PROVE inDegree[s] = Cardinality(Unreleased(s))
  <2>1. Unreleased(s) = Deps(s)
    BY SchedulerAssumption DEF Init, Unreleased, Released, Deps, StartResults
  <2>2. inDegree[s] = Cardinality(Deps(s))
    <3>1. Deps(s) \ {} = Deps(s)
      OBVIOUS
    <3> QED
      BY <3>1 DEF Init, StartInDegree, Deps
  <2> QED
    BY <2>1, <2>2
<1> QED
  BY <1>1, <1>2 DEF InDegreeExact

\* While mu is not taken for a round there is no round, and one that goes on keeps
\* its steps ready: nobody is ever unreleased.
LEMMA RoundKeep ==
  ASSUME TypeOK, RoundReady, wf' = wf, round' \subseteq round,
         round' # {} => main' = main,
         \A t \in round' : results'[t] = results[t],
         \A d \in Step : Released(d) => Released(d)'
  PROVE  RoundReady'
<1> SUFFICES ASSUME NEW t \in round'
             PROVE  main' = "round" /\ results'[t] = "absent" /\ Unreleased(t)' = {}
  BY DEF RoundReady
<1>1. t \in round /\ main = "round" /\ results[t] = "absent" /\ Unreleased(t) = {}
  BY DEF RoundReady
<1>2. Deps(t) \subseteq Step
  BY <1>1, DepsFinite DEF TypeOK
<1>3. Unreleased(t)' = {}
  BY <1>1, <1>2 DEF Unreleased, Deps
<1> QED
  BY <1>1, <1>3

\* A ready step has no unreleased dependency.
LEMMA ReadyUnreleased ==
  ASSUME TypeOK, InDegreeExact, NEW t \in ReadySteps
  PROVE  results[t] = "absent" /\ Unreleased(t) = {}
<1>1. inDegree[t] = 0 /\ results[t] = "absent" /\ t \in Step
  BY DEF ReadySteps, Handled
<1>2. Cardinality(Unreleased(t)) = 0
  BY <1>1 DEF InDegreeExact
<1> QED
  BY <1>1, <1>2, DepsFinite, FS_EmptySet

LEMMA ExactNext == IInv /\ [Next]_vars => RoundReady' /\ InDegreeExact'
<1> SUFFICES ASSUME TypeOK, PcResults, RoundReady, InDegreeExact, [Next]_vars
             PROVE  RoundReady' /\ InDegreeExact'
  BY DEF IInv
<1> USE DEF dagVars, mainVars, diskVars, Goto
<1>1. CASE Quiet
  <2>1. wf' = wf /\ results' = results /\ inDegree' = inDegree /\ pc' = pc
    BY <1>1, QuietUnchanged
  <2>2. \A d \in Step : Released(d)' <=> Released(d)
    BY <2>1 DEF Released, GaveUp
  <2>3. InDegreeExact'
    BY <2>1, <2>2, ReleaseNone
  <2>4. CASE Collect
    <3> SUFFICES ASSUME NEW t \in round'
                 PROVE  main' = "round" /\ results'[t] = "absent" /\ Unreleased(t)' = {}
      BY <2>3 DEF RoundReady
    <3>1. t \in ReadySteps /\ main' = "round"
      BY <2>4 DEF Collect, ReadySteps
    <3>2. Deps(t) \subseteq Step
      BY <3>1, DepsFinite DEF ReadySteps
    <3>3. Unreleased(t)' = Unreleased(t)
      BY <2>1, <2>2, <3>2 DEF Unreleased, Deps
    <3>4. results[t] = "absent" /\ Unreleased(t) = {}
      BY <3>1, ReadyUnreleased
    <3>5. results'[t] = "absent"
      BY <2>1, <3>4
    <3>6. Unreleased(t)' = {}
      BY <3>3, <3>4
    <3> QED
      BY <3>1, <3>5, <3>6
  <2>5. CASE CancelCtx
    <3>1. round' = round /\ main' = main
      BY <2>5 DEF CancelCtx
    <3> QED
      BY <2>1, <2>2, <2>3, <3>1, RoundKeep
  <2>6. CASE ~Collect /\ ~CancelCtx
    <3>1. round' = {}
      BY <1>1, <2>6 DEF Quiet, BeginDispatch, EndPropagate, EndRound, ReceiveDone,
         ObserveAbort, AbortDrain, SuccessDrain, Finish, RoundReady
    <3> QED
      BY <2>3, <3>1 DEF RoundReady
  <2> QED
    BY <2>4, <2>5, <2>6
<1>2. ASSUME NEW s \in Step, Propagate(s) PROVE RoundReady' /\ InDegreeExact'
  <2>1. /\ results[s] = "absent" /\ pc' = pc /\ wf' = wf
        /\ results'[s] \in {"cancelled", "skipped"}
        /\ \A d \in Step : d # s => results'[d] = results[d]
        /\ ReleaseDependents(s)
    BY <1>2 DEF Propagate, Propagatable, Handled, TypeOK
  <2>2. pc[s] = "idle"
    BY <2>1 DEF TypeOK, StepPC, PcResults
  <2>3. ~Released(s) /\ Released(s)' /\ \A d \in Step : d # s => (Released(d)' <=> Released(d))
    BY <2>1, <2>2 DEF Released, GaveUp
  <2>4. round' = {}
    BY <1>2 DEF Propagate, RoundReady
  <2> QED
    BY <2>1, <2>3, <2>4, ReleaseOne DEF RoundReady
<1>3. ASSUME NEW s \in Step, ConditionFalse(s) \/ ConditionError(s)
      PROVE  RoundReady' /\ InDegreeExact'
  <2>1. /\ results[s] = "absent" /\ pc' = pc /\ wf' = wf
        /\ results'[s] \in {"failed", "skipped"}
        /\ \A d \in Step : d # s => results'[d] = results[d]
        /\ ReleaseDependents(s)
        /\ round' = round \ {s} /\ main' = main
    BY <1>3 DEF ConditionFalse, ConditionError, RoundReady, TypeOK
  <2>2. pc[s] = "idle"
    BY <2>1 DEF TypeOK, StepPC, PcResults
  <2>3. ~Released(s) /\ Released(s)' /\ \A d \in Step : d # s => (Released(d)' <=> Released(d))
    BY <2>1, <2>2 DEF Released, GaveUp
  <2>4. InDegreeExact'
    BY <2>1, <2>3, ReleaseOne
  <2>5. RoundReady'
    <3>1. \A t \in round' : results'[t] = results[t]
      BY <2>1 DEF TypeOK
    <3>2. \A d \in Step : Released(d) => Released(d)'
      BY <2>3
    <3> QED
      BY <2>1, <3>1, <3>2, RoundKeep
  <2> QED
    BY <2>4, <2>5
<1>4. ASSUME NEW s \in Step, Launch(s) PROVE RoundReady' /\ InDegreeExact'
  <2>1. /\ results[s] = "absent" /\ results'[s] = "inflight" /\ wf' = wf /\ inDegree' = inDegree
        /\ \A d \in Step : d # s => results'[d] = results[d] /\ pc'[d] = pc[d]
        /\ round' = round \ {s} /\ main' = main
    BY <1>4 DEF Launch, RoundReady, TypeOK
  <2>2. \A d \in Step : Released(d)' <=> Released(d)
    BY <2>1 DEF Released, GaveUp
  <2>3. \A t \in round' : results'[t] = results[t]
    BY <2>1 DEF TypeOK
  <2> QED
    BY <2>1, <2>2, <2>3, ReleaseNone, RoundKeep
<1>5. ASSUME NEW s \in Step, Acquire(s) \/ AfterRun(s) PROVE RoundReady' /\ InDegreeExact'
  <2>1. /\ results' = results /\ wf' = wf /\ inDegree' = inDegree
        /\ round' = round /\ main' = main
    BY <1>5 DEF Acquire, AfterRun, Save, Signal, SignalQuit, Exit
  <2>2. \A d \in Step : GaveUp(d)' <=> GaveUp(d)
    BY <1>5 DEF Acquire, AfterRun, Save, Signal, SignalQuit, Exit, GaveUp, TypeOK
  <2>3. \A d \in Step : Released(d)' <=> Released(d)
    BY <2>1, <2>2 DEF Released
  <2> QED
    BY <2>1, <2>3, ReleaseNone, RoundKeep
<1>6. ASSUME NEW s \in Step, GiveUp(s) PROVE RoundReady' /\ InDegreeExact'
  <2>1. /\ results[s] = "inflight" /\ wf' = wf /\ inDegree' = inDegree
        /\ pc'[s] = "quit"
        /\ \A d \in Step : d # s => results'[d] = results[d] /\ pc'[d] = pc[d]
    BY <1>6 DEF GiveUp, PcResults, TypeOK
  <2>2. \A d \in Step : Released(d)' <=> Released(d)
    BY <2>1 DEF Released, GaveUp
  <2>3. round' = {}
    BY <1>6 DEF GiveUp, MuHeld, RoundReady
  <2> QED
    BY <2>1, <2>2, <2>3, ReleaseNone DEF RoundReady
<1>7. ASSUME NEW s \in Step, RunStep(s) PROVE RoundReady' /\ InDegreeExact'
  <2>1. /\ results[s] = "inflight" /\ wf' = wf
        /\ results'[s] \in {"completed", "failed"} /\ pc'[s] = "save"
        /\ \A d \in Step : d # s => results'[d] = results[d] /\ pc'[d] = pc[d]
        /\ ReleaseDependents(s)
    BY <1>7 DEF RunStep, Complete, Fail, PcResults, TypeOK
  <2>2. ~Released(s) /\ Released(s)' /\ \A d \in Step : d # s => (Released(d)' <=> Released(d))
    BY <2>1 DEF Released, GaveUp
  <2>3. round' = {}
    BY <1>7 DEF RunStep, Complete, Fail, MuHeld, RoundReady
  <2> QED
    BY <2>1, <2>2, <2>3, ReleaseOne DEF RoundReady
<1>8. CASE Restart
  <2> PICK lost \in SUBSET Unreadable :
             /\ results' = StartResults(ResumeSet(lost))
             /\ inDegree' = StartInDegree(wf, ResumeSet(lost))
    BY <1>8 DEF Restart
  <2>1. /\ wf' = wf /\ results' = StartResults(ResumeSet(lost)) /\ round' = {}
        /\ inDegree' = StartInDegree(wf, ResumeSet(lost)) /\ pc' = [s \in Step |-> "idle"]
    BY <1>8 DEF Restart
  <2>2. ASSUME NEW t \in Step PROVE inDegree'[t] = Cardinality(Unreleased(t)')
    <3>1. Deps(t) \subseteq Step
      BY DepsFinite
    <3>2. Unreleased(t)' = Deps(t) \ ResumeSet(lost)
      BY <2>1, <3>1 DEF Unreleased, Released, GaveUp, Deps, StartResults
    <3>3. inDegree'[t] = Cardinality(Deps(t) \ ResumeSet(lost))
      BY <2>1 DEF StartInDegree, Deps
    <3> QED
      BY <3>2, <3>3
  <2> QED
    BY <2>1, <2>2 DEF RoundReady, InDegreeExact
<1>9. CASE UNCHANGED vars
  <2>1. wf' = wf /\ results' = results /\ inDegree' = inDegree /\ pc' = pc
        /\ round' = round /\ main' = main
    BY <1>9 DEF vars
  <2>2. \A d \in Step : Released(d)' <=> Released(d)
    BY <2>1 DEF Released, GaveUp
  <2> QED
    BY <2>1, <2>2, ReleaseNone, RoundKeep
<1> QED
  BY <1>1, <1>2, <1>3, <1>4, <1>5, <1>6, <1>7, <1>8, <1>9
  DEF Next, MainNext, DispatchStep, StepNext, Quiet

LEMMA Inductive == Spec => []IInv
<1>1. Init => IInv
  BY TypeInit, PcInit, RoundInit DEF IInv
<1>2. IInv /\ [Next]_vars => IInv'
  BY TypeNext, PcNext, ExactNext DEF IInv
<1> QED
  BY <1>1, <1>2, PTL DEF Spec

\* Every variable of a run keeps its type (executor.go, Run).
THEOREM TypeCorrect == Spec => []TypeOK
<1>1. IInv => TypeOK
  BY DEF IInv
<1> QED
  BY <1>1, Inductive, PTL

\* The in-degree that dispatch reads is at every moment the number of
\* dependencies not yet released: for every workflow, concurrency limit, order of
\* events and number of resumes.
THEOREM InDegreeCorrect == Spec => []InDegreeExact
<1>1. IInv => InDegreeExact
  BY DEF IInv
<1> QED
  BY <1>1, Inductive, PTL
-------------------------------------------------------------------------------
\* Within a run a step's final result is never replaced.
LEMMA FinalStays ==
  ASSUME IInv, [Next]_vars, ~Restart, NEW d \in Step, results[d] \in Final
  PROVE  results'[d] = results[d]
<1> USE DEF dagVars, Goto
<1>0. TypeOK /\ PcResults /\ RoundReady
  BY DEF IInv
<1>1. CASE Quiet
  BY <1>1, QuietUnchanged
<1>2. ASSUME NEW s \in Step, DispatchStep(s) PROVE results'[d] = results[d]
  <2>1. results[s] = "absent"
    BY <1>0, <1>2 DEF DispatchStep, Propagate, Propagatable, Handled, ConditionFalse,
       ConditionError, Launch, RoundReady
  <2>2. \A e \in Step : e # s => results'[e] = results[e]
    BY <1>0, <1>2 DEF DispatchStep, Propagate, ConditionFalse, ConditionError, Launch, TypeOK
  <2> QED
    BY <2>1, <2>2
<1>3. ASSUME NEW s \in Step, Acquire(s) \/ AfterRun(s) PROVE results'[d] = results[d]
  BY <1>3 DEF Acquire, AfterRun, Save, Signal, SignalQuit, Exit
<1>4. ASSUME NEW s \in Step, GiveUp(s) \/ RunStep(s) PROVE results'[d] = results[d]
  <2>1. results[s] = "inflight"
    BY <1>0, <1>4 DEF GiveUp, RunStep, Complete, Fail, PcResults
  <2>2. \A e \in Step : e # s => results'[e] = results[e]
    BY <1>0, <1>4 DEF GiveUp, RunStep, Complete, Fail, TypeOK
  <2> QED
    BY <2>1, <2>2
<1>5. CASE UNCHANGED vars
  BY <1>5 DEF vars
<1> QED
  BY <1>1, <1>2, <1>3, <1>4, <1>5 DEF Next, MainNext, StepNext, Quiet

\* A goroutine is created by Launch only.
LEMMA OnlyLaunch ==
  ASSUME IInv, [Next]_vars, ~Restart, NEW s \in Step, pc[s] = "idle", pc'[s] # "idle"
  PROVE  Launch(s)
<1> USE DEF Goto
<1>0. TypeOK
  BY DEF IInv
<1>1. CASE Quiet
  BY <1>1, QuietUnchanged
<1>2. ASSUME NEW t \in Step, DispatchStep(t) PROVE Launch(s)
  <2>1. CASE Launch(t)
    BY <1>0, <2>1 DEF Launch, TypeOK
  <2>2. CASE ~Launch(t)
    BY <1>2, <2>2 DEF DispatchStep, Propagate, ConditionFalse, ConditionError
  <2> QED
    BY <2>1, <2>2
<1>3. ASSUME NEW t \in Step, StepNext(t) PROVE Launch(s)
  BY <1>0, <1>3 DEF StepNext, Acquire, GiveUp, RunStep, Complete, Fail, AfterRun, Save,
     Signal, SignalQuit, Exit, TypeOK
<1>4. CASE UNCHANGED vars
  BY <1>4 DEF vars
<1> QED
  BY <1>1, <1>2, <1>3, <1>4 DEF Next, MainNext, Quiet

\* A goroutine is at its wait for a slot only after it was launched.
LEMMA OnlyLaunchAcquires ==
  ASSUME IInv, [Next]_vars, ~Restart, NEW s \in Step, pc[s] # "acquire", pc'[s] = "acquire"
  PROVE  Launch(s)
<1> USE DEF Goto
<1>0. TypeOK
  BY DEF IInv
<1>1. CASE Quiet
  BY <1>1, QuietUnchanged
<1>2. ASSUME NEW t \in Step, DispatchStep(t) PROVE Launch(s)
  <2>1. CASE Launch(t)
    BY <1>0, <2>1 DEF Launch, TypeOK
  <2>2. CASE ~Launch(t)
    BY <1>2, <2>2 DEF DispatchStep, Propagate, ConditionFalse, ConditionError
  <2> QED
    BY <2>1, <2>2
<1>3. ASSUME NEW t \in Step, StepNext(t) PROVE Launch(s)
  BY <1>0, <1>3 DEF StepNext, Acquire, GiveUp, RunStep, Complete, Fail, AfterRun, Save,
     Signal, SignalQuit, Exit, TypeOK
<1>4. CASE UNCHANGED vars
  BY <1>4 DEF vars
<1> QED
  BY <1>1, <1>2, <1>3, <1>4 DEF Next, MainNext, Quiet

\* A step that is launched has only released dependencies.
LEMMA LaunchReady ==
  ASSUME IInv, NEW s \in Step, Launch(s), NEW d \in Deps(s)
  PROVE  results[s] = "absent" /\ d \in Step /\ results[d] \in Final
<1>1. results[s] = "absent" /\ Unreleased(s) = {}
  BY DEF IInv, RoundReady, Launch
<1>2. d \in Step
  BY DepsFinite DEF IInv
<1>3. Released(d)
  BY <1>1 DEF Unreleased
<1> QED
  BY <1>1, <1>2, <1>3 DEF Released

LEMMA NoEarlyStartNext == IInv /\ NoEarlyStart /\ [Next]_vars => NoEarlyStart'
<1> SUFFICES ASSUME IInv, NoEarlyStart, [Next]_vars,
                    NEW s \in Step, pc'[s] # "idle", NEW d \in Deps(s)'
             PROVE  results'[d] \in Final
  BY DEF NoEarlyStart
<1>1. ~Restart
  BY DEF Restart
<1>2. wf' = wf
  BY <1>1, QuietUnchanged DEF Next, MainNext, Quiet, DispatchStep, Propagate, ConditionFalse,
     ConditionError, Launch, StepNext, Acquire, GiveUp, RunStep, Complete, Fail, AfterRun,
     Save, Signal, SignalQuit, Exit, vars, diskVars
<1>3. d \in Deps(s) /\ d \in Step
  BY <1>2, DepsFinite DEF Deps, IInv
<1>4. results[d] \in Final
  <2>1. CASE pc[s] = "idle"
    BY <1>1, <1>3, <2>1, OnlyLaunch, LaunchReady
  <2>2. CASE pc[s] # "idle"
    BY <1>3, <2>2 DEF NoEarlyStart
  <2> QED
    BY <2>1, <2>2
<1> QED
  BY <1>1, <1>3, <1>4, FinalStays

\* No goroutine is started for a step before all the steps it depends on are
\* settled (dispatch, executor.go).
THEOREM NoEarlyStartCorrect == Spec => []NoEarlyStart
<1>1. Init => NoEarlyStart
  BY DEF Init, NoEarlyStart
<1> QED
  BY <1>1, Inductive, NoEarlyStartNext, PTL DEF Spec
-------------------------------------------------------------------------------
LEMMA StoreBackedNext == IInv /\ StoreBacked /\ [Next]_vars => StoreBacked'
<1> SUFFICES ASSUME IInv, StoreBacked, [Next]_vars,
                    NEW s \in Step \ Unreadable, store'[s] = "completed"
             PROVE  results'[s] = "completed"
  BY DEF StoreBacked
<1>1. CASE Restart
  BY <1>1 DEF Restart, StartResults, ResumeSet
<1>2. CASE ~Restart
  <2>1. results[s] = "completed"
    <3>1. CASE \E t \in Step : Save(t)
      BY <3>1 DEF Save, StoreBacked, IInv, TypeOK
    <3>2. CASE ~\E t \in Step : Save(t)
      <4>1. store' = store
        BY <1>2, <3>2, QuietUnchanged DEF Next, MainNext, Quiet, DispatchStep, Propagate,
           ConditionFalse, ConditionError, Launch, StepNext, Acquire, GiveUp, RunStep,
           Complete, Fail, AfterRun, Signal, SignalQuit, Exit, vars, diskVars
      <4> QED
        BY <4>1 DEF StoreBacked
    <3> QED
      BY <3>1, <3>2
  <2> QED
    BY <1>2, <2>1, FinalStays
<1> QED
  BY <1>1, <1>2

\* What is stored as completed and can be read is completed in the current run, over any number
\* of process ends and resumes (SaveStepResult, ResumeFlow).
THEOREM StoreBackedCorrect == Spec => []StoreBacked
<1>1. Init => StoreBacked
  BY DEF Init, StoreBacked
<1> QED
  BY <1>1, Inductive, StoreBackedNext, PTL DEF Spec

\* A step whose completed result was saved, and can be read, is never launched again, in this run
\* or in a resumed one.
THEOREM NeverRelaunched == Spec => PersistedNeverRelaunched
<1>1. ASSUME IInv, StoreBacked, [Next]_vars, NEW s \in Step \ Unreadable,
             store[s] = "completed", pc'[s] = "acquire"
      PROVE  pc[s] = "acquire"
  <2>1. ~Restart
    BY <1>1 DEF Restart
  <2>2. results[s] = "completed"
    BY <1>1 DEF StoreBacked
  <2>3. CASE pc[s] # "acquire"
    <3>1. Launch(s)
      BY <1>1, <2>1, <2>3, OnlyLaunchAcquires
    <3> QED
      BY <1>1, <2>2, <3>1 DEF IInv, RoundReady, Launch
  <2> QED
    BY <2>3
<1>2. IInv /\ StoreBacked /\ [Next]_vars =>
        [\A s \in Step \ Unreadable :
           store[s] = "completed" /\ pc'[s] = "acquire" => pc[s] = "acquire"]_vars
  BY <1>1
<1> QED
  BY <1>2, Inductive, StoreBackedCorrect, PTL DEF Spec, PersistedNeverRelaunched
-------------------------------------------------------------------------------
\* The goroutines that have sent their signal.
Senders == {s \in Step : pc[s] \in {"notify", "exited", "gone"}}

\* No signal in the done channel without a goroutine of this run that sent it.
SignalsCounted == done <= Cardinality(Senders)

\* As many signals as senders, and nobody leaves the senders: still counted.
LEMMA CountedKeep ==
  ASSUME TypeOK, SignalsCounted, done' \in Nat, done' <= done,
         \A s \in Step : pc'[s] = pc[s] \/ {pc[s], pc'[s]} \cap {"notify", "exited", "gone"} = {}
                                        \/ {pc[s], pc'[s]} \subseteq {"notify", "exited", "gone"}
  PROVE  SignalsCounted'
<1>1. Senders' = Senders
  BY DEF Senders
<1>2. Cardinality(Senders) \in Nat
  <2>1. Senders \subseteq Step
    BY DEF Senders
  <2> QED
    BY <2>1, SchedulerAssumption, FS_Subset, FS_CardinalityType
<1> QED
  BY <1>1, <1>2 DEF SignalsCounted, TypeOK

LEMMA CountedNext == IInv /\ SignalsCounted /\ [Next]_vars => SignalsCounted'
<1> SUFFICES ASSUME IInv, SignalsCounted, [Next]_vars PROVE SignalsCounted'
  OBVIOUS
<1> USE DEF dagVars, mainVars, Goto
<1>0. TypeOK /\ TypeOK'
  BY TypeNext DEF IInv
<1>1. CASE Quiet
  <2>1. done' \in Nat /\ done' <= done
    BY <1>0, <1>1 DEF Quiet, BeginDispatch, EndPropagate, Collect, EndRound, ReceiveDone,
       ObserveAbort, AbortDrain, SuccessDrain, Finish, CancelCtx, TypeOK
  <2> QED
    BY <1>0, <1>1, <2>1, CountedKeep, QuietUnchanged
<1>2. ASSUME NEW s \in Step, DispatchStep(s) PROVE SignalsCounted'
  <2>1. done' = done
    BY <1>2 DEF DispatchStep, Propagate, ConditionFalse, ConditionError, Launch
  <2>2. CASE Launch(s)
    <3>1. pc[s] = "idle"
      BY <1>0, <2>2 DEF Launch, IInv, PcResults, RoundReady, TypeOK, StepPC
    <3>2. \A t \in Step : pc'[t] = IF t = s THEN "acquire" ELSE pc[t]
      BY <1>0, <2>2 DEF Launch, TypeOK
    <3> QED
      BY <1>0, <2>1, <3>1, <3>2, CountedKeep DEF TypeOK
  <2>3. CASE ~Launch(s)
    <3>1. pc' = pc
      BY <1>2, <2>3 DEF DispatchStep, Propagate, ConditionFalse, ConditionError
    <3> QED
      BY <1>0, <2>1, <3>1, CountedKeep DEF TypeOK
  <2> QED
    BY <2>2, <2>3
<1>3. ASSUME NEW s \in Step, Acquire(s) \/ GiveUp(s) \/ RunStep(s) \/ Save(s) \/ Exit(s)
      PROVE  SignalsCounted'
  <2>1. done' = done
    BY <1>3 DEF Acquire, GiveUp, RunStep, Complete, Fail, Save, Exit
  <2>2. \A t \in Step : t # s => pc'[t] = pc[t]
    BY <1>0, <1>3 DEF Acquire, GiveUp, RunStep, Complete, Fail, Save, Exit, TypeOK
  <2>3. \/ pc[s] \in {"acquire", "run", "save"} /\ pc'[s] \in {"run", "quit", "save", "signal"}
        \/ pc[s] = "notify" /\ pc'[s] = "exited"
    BY <1>0, <1>3 DEF Acquire, GiveUp, RunStep, Complete, Fail, Save, Exit, TypeOK
  <2> QED
    BY <1>0, <2>1, <2>2, <2>3, CountedKeep DEF TypeOK
<1>4. ASSUME NEW s \in Step, Signal(s) \/ SignalQuit(s) PROVE SignalsCounted'
  <2>1. s \notin Senders /\ Senders' = Senders \cup {s}
    BY <1>0, <1>4 DEF Signal, SignalQuit, Senders, TypeOK
  <2>2. IsFiniteSet(Senders)
    <3>1. Senders \subseteq Step
      BY DEF Senders
    <3> QED
      BY <3>1, SchedulerAssumption, FS_Subset
  <2>3. /\ Cardinality(Senders) \in Nat
        /\ Cardinality(Senders \cup {s}) = Cardinality(Senders) + 1
    BY <2>1, <2>2, FS_CardinalityType, FS_AddElement
  <2>4. done' <= done + 1
    BY <1>0, <1>4 DEF Signal, SignalQuit, SendDone, TypeOK
  <2> QED
    BY <1>0, <2>1, <2>3, <2>4 DEF SignalsCounted, TypeOK
<1>5. CASE Restart
  <2>1. done' = 0 /\ Senders' = {}
    BY <1>5 DEF Restart, Senders
  <2> QED
    BY <2>1, FS_EmptySet DEF SignalsCounted
<1>6. CASE UNCHANGED vars
  BY <1>0, <1>6, CountedKeep DEF vars, TypeOK
<1> QED
  BY <1>1, <1>2, <1>3, <1>4, <1>5, <1>6
  DEF Next, MainNext, Quiet, StepNext, AfterRun

\* The done channel, with one place per step, never drops the signal of a goroutine that is
\* about to send one: for every workflow and in every order of completions, skips, aborts and
\* receives (executor.go, the select with a default branch).
THEOREM DoneHasRoomCorrect == Spec => []DoneHasRoom
<1>1. Init => SignalsCounted
  <2> SUFFICES ASSUME Init PROVE SignalsCounted
    OBVIOUS
  <2>1. done = 0 /\ Senders = {}
    BY DEF Init, Senders
  <2> QED
    BY <2>1, FS_EmptySet DEF SignalsCounted
<1>2. IInv /\ SignalsCounted => DoneHasRoom
  <2> SUFFICES ASSUME IInv, SignalsCounted, NEW s \in Step, pc[s] \in {"signal", "quit"}
               PROVE  done < DoneCap
    BY DEF DoneHasRoom
  <2>1. Senders \subseteq Step \ {s}
    BY DEF Senders
  <2>2. /\ IsFiniteSet(Step \ {s})
        /\ Cardinality(Step \ {s}) = Cardinality(Step) - 1
        /\ Cardinality(Step) \in Nat
    BY SchedulerAssumption, FS_RemoveElement, FS_CardinalityType
  <2>3. Cardinality(Senders) \in Nat /\ Cardinality(Senders) <= Cardinality(Step \ {s})
    BY <2>1, <2>2, FS_Subset, FS_CardinalityType
  <2> QED
    BY <2>2, <2>3 DEF SignalsCounted, DoneCap, IInv, TypeOK
<1> QED
  BY <1>1, <1>2, Inductive, CountedNext, PTL DEF Spec
-------------------------------------------------------------------------------
\* Run that does not give up waiting has outlived its goroutines, from the drain on.
Drained == main \in {"finish", "returned"} /\ ~aborted => Alive = {}

\* The report says what the results map holds, or that an unfinished step is cancelled.
ReportMatches ==
  main = "returned" =>
    \A s \in Step : report[s] \in Final /\ (report[s] # "cancelled" => results[s] = report[s])

\* With no goroutine left, an unfinished result is that of a step never launched.
LEMMA ReportBuilt ==
  ASSUME IInv, Alive = {} \/ aborted, NEW s \in Step
  PROVE  /\ FinalReport[s] \in Final
         /\ FinalReport[s] # "cancelled" => results[s] = FinalReport[s]
<1>1. results[s] \in Final \cup {"absent", "inflight"} /\ pc[s] \in StepPC
  BY DEF IInv, TypeOK
<1>2. CASE results[s] = "inflight"
  <2>1. s \in Alive
    BY <1>1, <1>2 DEF Alive, IInv, PcResults, StepPC
  <2> QED
    BY <1>2, <2>1 DEF FinalReport
<1>3. CASE results[s] # "inflight"
  BY <1>1, <1>3 DEF FinalReport
<1> QED
  BY <1>2, <1>3

LEMMA ReportNext == IInv /\ Drained /\ ReportMatches /\ [Next]_vars => Drained' /\ ReportMatches'
<1> SUFFICES ASSUME IInv, Drained, ReportMatches, [Next]_vars
             PROVE  Drained' /\ ReportMatches'
  OBVIOUS
<1> USE DEF dagVars, mainVars, endVars, Goto
<1>0. TypeOK
  BY DEF IInv
<1>1. CASE Finish
  <2>1. /\ main = "finish" /\ report' = FinalReport /\ results' = results
        /\ pc' = pc /\ aborted' = aborted
    BY <1>1 DEF Finish
  <2>2. Alive = {} \/ aborted
    BY <2>1 DEF Drained
  <2>3. Alive' = Alive
    BY <2>1 DEF Alive
  <2> QED
    BY <2>1, <2>2, <2>3, ReportBuilt DEF Drained, ReportMatches
<1>2. CASE AbortDrain \/ SuccessDrain
  <2>1. pc' = pc /\ main' = "finish" /\ (aborted' \/ Alive = {})
    BY <1>2 DEF AbortDrain, SuccessDrain
  <2>2. Alive' = Alive
    BY <2>1 DEF Alive
  <2> QED
    BY <2>1, <2>2 DEF Drained, ReportMatches
<1>3. CASE Restart
  BY <1>3 DEF Restart, Drained, ReportMatches
<1>4. CASE \/ BeginDispatch \/ EndPropagate \/ Collect \/ EndRound \/ ReceiveDone \/ ObserveAbort
           \/ \E s \in Step : DispatchStep(s)
  <2>1. main' \notin {"finish", "returned"}
    BY <1>4 DEF BeginDispatch, EndPropagate, Collect, EndRound, ReceiveDone, ObserveAbort,
       DispatchStep, Propagate, ConditionFalse, ConditionError, Launch, AfterDispatch
  <2> QED
    BY <2>1 DEF Drained, ReportMatches
<1>5. CASE CancelCtx \/ UNCHANGED vars
  <2>1. main' = main /\ aborted' = aborted /\ report' = report /\ pc' = pc /\ results' = results
    BY <1>5 DEF CancelCtx, vars
  <2>2. Alive' = Alive
    BY <2>1 DEF Alive
  <2> QED
    BY <2>1, <2>2 DEF Drained, ReportMatches
<1>6. ASSUME NEW s \in Step, StepNext(s) PROVE Drained' /\ ReportMatches'
  <2>1. main' = main /\ aborted' = aborted /\ report' = report /\ s \in Alive /\ ~Restart
    BY <1>0, <1>6 DEF StepNext, Acquire, GiveUp, RunStep, Complete, Fail, AfterRun, Save, Signal,
       SignalQuit, Exit, Alive, Restart, TypeOK
  <2>2. Drained'
    BY <2>1 DEF Drained
  <2>3. ReportMatches'
    <3> SUFFICES ASSUME main' = "returned", NEW t \in Step
                 PROVE  /\ report'[t] \in Final
                        /\ report'[t] # "cancelled" => results'[t] = report'[t]
      BY DEF ReportMatches
    <3>1. report[t] \in Final /\ (report[t] # "cancelled" => results[t] = report[t])
      BY <2>1 DEF ReportMatches
    <3>2. results[t] \in Final => results'[t] = results[t]
      BY <2>1, FinalStays
    <3> QED
      BY <2>1, <3>1, <3>2
  <2> QED
    BY <2>2, <2>3
<1> QED
  BY <1>1, <1>2, <1>3, <1>4, <1>5, <1>6 DEF Next, MainNext

\* The report that Run returns gives every step a final status, and the one that its goroutine
\* published unless it says cancelled; the goroutines of an aborted run, which live on, do not
\* make it untrue later (executor.go, the snapshot at the end of Run).
THEOREM ReportFaithfulCorrect == Spec => []ReportFaithful
<1>1. Init => Drained /\ ReportMatches
  BY DEF Init, Drained, ReportMatches
<1>2. IInv /\ Drained /\ ReportMatches => ReportFaithful
  BY DEF Drained, ReportMatches, ReportFaithful, Alive
<1> QED
  BY <1>1, <1>2, Inductive, ReportNext, PTL DEF Spec
-------------------------------------------------------------------------------
(* The marks of the failure strategies.                                      *)

\* Every step downstream of a step that failed.
FailedSteps == {s \in Step : results[s] = "failed"}
Hit == UNION {Descendants(f) : f \in FailedSteps}

\* The descendants of a step are its dependents and theirs, and nothing else.
LEMMA DescendantsClosed ==
  ASSUME NEW s \in Step
  PROVE  /\ Descendants(s) \subseteq Step
         /\ Dependents(s) \subseteq Descendants(s)
         /\ \A r \in Descendants(s) : Dependents(r) \subseteq Descendants(s)
<1>1. \A r \in Step : Dependents(r) \subseteq Step
  BY DEF Dependents
<1>2. Descendants(s) \subseteq Step /\ Dependents(s) \subseteq Descendants(s)
  BY <1>1 DEF Descendants
<1>3. ASSUME NEW r \in Descendants(s), NEW t \in Dependents(r) PROVE t \in Descendants(s)
  <2>1. t \in Step
    BY <1>1, <1>2, <1>3
  <2>2. ASSUME NEW S \in SUBSET Step, Dependents(s) \subseteq S,
               \A q \in S : Dependents(q) \subseteq S
        PROVE  t \in S
    BY <1>3, <2>2 DEF Descendants
  <2> QED
    BY <2>1, <2>2 DEF Descendants
<1> QED
  BY <1>2, <1>3

LEMMA DescendantsLeast ==
  ASSUME NEW s \in Step, NEW S \in SUBSET Step, Dependents(s) \subseteq S,
         \A r \in S : Dependents(r) \subseteq S
  PROVE  Descendants(s) \subseteq S
BY DEF Descendants

\* The traversal that stops at marked steps marks all descendants, if it finds the marks closed.
LEMMA MarkAll ==
  ASSUME NEW s \in Step, NEW m \in SUBSET Step, \A r \in m : Dependents(r) \subseteq m
  PROVE  MarkDependents(s, m) = m \cup Descendants(s)
<1> DEFINE M == MarkDependents(s, m)
<1>0. M \subseteq Step /\ m \subseteq M
  BY MarkType DEF MarkDependents
<1>1. Descendants(s) \subseteq M
  <2>1. Dependents(s) \subseteq M
    BY DEF MarkDependents, Dependents
  <2>2. ASSUME NEW r \in M, NEW t \in Dependents(r) PROVE t \in M
    <3>1. t \in Step
      BY DEF Dependents
    <3>2. CASE r \in m \/ t \in m
      BY <1>0, <2>2, <3>2
    <3>3. CASE r \notin m /\ t \notin m
      <4>1. ASSUME NEW S \in SUBSET Step, Dependents(s) \ m \subseteq S,
                   \A q \in S : Dependents(q) \ m \subseteq S
            PROVE  t \in S
        <5>1. r \in S
          BY <2>2, <3>3, <4>1 DEF MarkDependents
        <5> QED
          BY <2>2, <3>3, <4>1, <5>1
      <4> QED
        BY <3>1, <4>1 DEF MarkDependents
    <3> QED
      BY <3>2, <3>3
  <2> HIDE DEF M
  <2> QED
    BY <1>0, <2>1, <2>2, DescendantsLeast
<1>2. M \subseteq m \cup Descendants(s)
  <2> SUFFICES ASSUME NEW t \in M, t \notin m PROVE t \in Descendants(s)
    OBVIOUS
  <2>1. /\ Descendants(s) \in SUBSET Step
        /\ Dependents(s) \ m \subseteq Descendants(s)
        /\ \A r \in Descendants(s) : Dependents(r) \ m \subseteq Descendants(s)
    BY DescendantsClosed
  <2> QED
    BY <2>1 DEF MarkDependents
<1> QED
  BY <1>0, <1>1, <1>2

\* The graph of a run does not change.
LEMMA GraphKept ==
  ASSUME wf' = wf
  PROVE  \A s \in Step : Descendants(s)' = Descendants(s) /\ Dependents(s)' = Dependents(s)
BY DEF Descendants, Dependents, Deps

LEMMA HitClosed == Hit \subseteq Step /\ \A r \in Hit : Dependents(r) \subseteq Hit
BY DescendantsClosed DEF Hit, FailedSteps

\* An abort of the run follows a failure under that strategy; dispatch began before it.
AbortRaised ==
  /\ wf.strategy = "abort" /\ FailedSteps # {} => abort
  /\ main = "propagate" => ~abort

\* What gave a step up without running it.
Caused ==
  \A s \in Step :
    /\ results[s] = "skipped" /\ wf.cond[s] = {"true"} => s \in skipped
    /\ results[s] = "cancelled" => GaveUp(s) \/ s \in cascaded
    /\ GaveUp(s) => AbortErr

\* A completed result that was not resumed is that of a goroutine of this run.
RanHere == \A s \in Step : results[s] = "completed" /\ s \notin resumed => pc[s] # "idle"

MarkInv == MarksExact /\ AbortRaised /\ Caused /\ RanHere

\* Nothing fails in this step: the marks may stay, and so do the facts about them.
LEMMA MarksKeep ==
  ASSUME TypeOK, MarkInv, wf' = wf, FailedSteps' = FailedSteps,
         skipped' = skipped, cascaded' = cascaded, abort => abort'
  PROVE  MarksExact' /\ (wf.strategy = "abort" /\ FailedSteps' # {} => abort')
<1>1. \A s \in Step : Descendants(s)' = Descendants(s)
  BY GraphKept
<1>2. Hit' = Hit
  <2>1. FailedSteps \subseteq Step
    BY DEF FailedSteps
  <2> QED
    BY <1>1, <2>1 DEF Hit
<1>3. MarksExact <=> /\ cascaded = IF wf.strategy = "cascade" THEN Hit ELSE {}
                     /\ skipped = IF wf.strategy = "skip-dependents" THEN Hit ELSE {}
  BY DEF MarksExact, Hit, FailedSteps
<1>4. MarksExact' <=> /\ cascaded' = IF wf'.strategy = "cascade" THEN Hit' ELSE {}
                      /\ skipped' = IF wf'.strategy = "skip-dependents" THEN Hit' ELSE {}
  BY DEF MarksExact, Hit, FailedSteps
<1> QED
  BY <1>2, <1>3, <1>4 DEF MarkInv, AbortRaised

\* A step fails: its descendants join those downstream of a failure.
LEMMA MarksGrow ==
  ASSUME TypeOK, MarkInv, NEW s \in Step, wf' = wf, ApplyFailure(s),
         FailedSteps' = FailedSteps \cup {s}
  PROVE  MarksExact' /\ (wf.strategy = "abort" /\ FailedSteps' # {} => abort')
         /\ skipped \subseteq skipped' /\ cascaded \subseteq cascaded' /\ (abort => abort')
<1>1. \A t \in Step : Descendants(t)' = Descendants(t)
  BY GraphKept
<1>2. Hit' = Hit \cup Descendants(s)
  <2>1. FailedSteps \subseteq Step
    BY DEF FailedSteps
  <2>2. Hit' = UNION {Descendants(f)' : f \in FailedSteps'}
    BY DEF Hit
  <2>3. Hit' = UNION {Descendants(f) : f \in FailedSteps'}
    BY <1>1, <2>1, <2>2
  <2> QED
    BY <2>3 DEF Hit
<1>3. MarkDependents(s, Hit) = Hit \cup Descendants(s)
  BY HitClosed, MarkAll
<1>4. MarksExact <=> /\ cascaded = IF wf.strategy = "cascade" THEN Hit ELSE {}
                     /\ skipped = IF wf.strategy = "skip-dependents" THEN Hit ELSE {}
  BY DEF MarksExact, Hit, FailedSteps
<1>5. MarksExact' <=> /\ cascaded' = IF wf'.strategy = "cascade" THEN Hit' ELSE {}
                      /\ skipped' = IF wf'.strategy = "skip-dependents" THEN Hit' ELSE {}
  BY DEF MarksExact, Hit, FailedSteps
<1> QED
  BY <1>2, <1>3, <1>4, <1>5 DEF MarkInv, AbortRaised, ApplyFailure

\* The marks are closed, so propagation does not add any.
LEMMA MarksClosed ==
  ASSUME TypeOK, MarkInv
  PROVE  /\ \A r \in cascaded : Dependents(r) \subseteq cascaded
         /\ \A r \in skipped : Dependents(r) \subseteq skipped
         /\ cascaded \cap skipped = {}
BY HitClosed DEF MarkInv, MarksExact, Hit, FailedSteps

LEMMA MarkNext == IInv /\ MarkInv /\ [Next]_vars => MarkInv'
<1> SUFFICES ASSUME IInv, MarkInv, [Next]_vars PROVE MarkInv'
  OBVIOUS
<1> USE DEF dagVars, mainVars, ctxVars, diskVars, Goto, GaveUp, AbortErr
<1>0. TypeOK /\ PcResults /\ RoundReady
  BY DEF IInv
<1>1. CASE Quiet
  <2>1. /\ wf' = wf /\ results' = results /\ pc' = pc /\ resumed' = resumed
        /\ skipped' = skipped /\ cascaded' = cascaded
        /\ (abort => abort') /\ (ctxDone => ctxDone')
        /\ main' = "propagate" => ~abort'
    BY <1>0, <1>1, QuietUnchanged DEF Quiet, BeginDispatch, EndPropagate, Collect, EndRound,
       ReceiveDone, ObserveAbort, AbortDrain, SuccessDrain, Finish, CancelCtx, AfterDispatch,
       MarkInv, AbortRaised
  <2>2. FailedSteps' = FailedSteps
    BY <2>1 DEF FailedSteps
  <2>3. MarksExact' /\ AbortRaised'
    BY <1>0, <2>1, <2>2, MarksKeep DEF AbortRaised
  <2> QED
    BY <2>1, <2>3 DEF MarkInv, Caused, RanHere
<1>2. ASSUME NEW s \in Step, Propagate(s) PROVE MarkInv'
  <2>1. /\ results[s] = "absent" /\ s \in skipped \cup cascaded
        /\ wf' = wf /\ pc' = pc /\ resumed' = resumed /\ abort' = abort /\ ctxDone' = ctxDone
        /\ main' = main
        /\ \A t \in Step : results'[t] = IF t # s THEN results[t] ELSE
                             IF s \in cascaded THEN "cancelled" ELSE "skipped"
    BY <1>0, <1>2 DEF Propagate, Propagatable, Handled, TypeOK
  <2>2. skipped' = skipped /\ cascaded' = cascaded
    BY <1>0, <1>2, <2>1, MarksClosed DEF Propagate
  <2>3. FailedSteps' = FailedSteps
    BY <2>1 DEF FailedSteps
  <2>4. MarksExact' /\ AbortRaised'
    BY <1>0, <2>1, <2>2, <2>3, MarksKeep DEF AbortRaised, MarkInv
  <2> QED
    BY <2>1, <2>2, <2>4 DEF MarkInv, Caused, RanHere
<1>3. ASSUME NEW s \in Step, ConditionFalse(s) PROVE MarkInv'
  <2>1. /\ results[s] = "absent" /\ wf.cond[s] # {"true"}
        /\ wf' = wf /\ pc' = pc /\ resumed' = resumed /\ abort' = abort /\ ctxDone' = ctxDone
        /\ main' = main /\ skipped' = skipped /\ cascaded' = cascaded
        /\ \A t \in Step : results'[t] = IF t # s THEN results[t] ELSE "skipped"
    BY <1>0, <1>3 DEF ConditionFalse, RoundReady, TypeOK
  <2>2. FailedSteps' = FailedSteps
    BY <2>1 DEF FailedSteps
  <2>3. MarksExact' /\ AbortRaised'
    BY <1>0, <2>1, <2>2, MarksKeep DEF AbortRaised, MarkInv
  <2> QED
    BY <2>1, <2>3 DEF MarkInv, Caused, RanHere
<1>4. ASSUME NEW s \in Step, ConditionError(s) \/ Fail(s) PROVE MarkInv'
  <2>1. /\ results[s] \notin Final /\ ApplyFailure(s) /\ wf' = wf /\ resumed' = resumed
        /\ ctxDone' = ctxDone /\ main' = main /\ main # "propagate"
        /\ \A t \in Step : results'[t] = IF t # s THEN results[t] ELSE "failed"
        /\ \A t \in Step : t # s => pc'[t] = pc[t]
        /\ pc'[s] \in {pc[s], "save"} /\ pc[s] \notin {"quit", "gone"}
    BY <1>0, <1>4 DEF ConditionError, Fail, RoundReady, PcResults, TypeOK, MuHeld
  <2>2. FailedSteps' = FailedSteps \cup {s}
    BY <2>1 DEF FailedSteps
  <2>3. /\ MarksExact' /\ AbortRaised'
        /\ skipped \subseteq skipped' /\ cascaded \subseteq cascaded' /\ (abort => abort')
    BY <1>0, <2>1, <2>2, MarksGrow DEF AbortRaised
  <2> QED
    BY <2>1, <2>3 DEF MarkInv, Caused, RanHere
<1>5. ASSUME NEW s \in Step, Launch(s) \/ Acquire(s) \/ GiveUp(s) \/ Complete(s) \/ AfterRun(s)
      PROVE MarkInv'
  <2>1. /\ wf' = wf /\ resumed' = resumed /\ abort' = abort /\ ctxDone' = ctxDone
        /\ main' = main /\ skipped' = skipped /\ cascaded' = cascaded
        /\ \A t \in Step : t # s => results'[t] = results[t] /\ pc'[t] = pc[t]
    BY <1>0, <1>5 DEF Launch, Acquire, GiveUp, Complete, AfterRun, Save, Signal, SignalQuit,
       Exit, TypeOK
  <2>2. /\ pc'[s] # "idle"
        /\ \/ results'[s] = results[s] /\ (GaveUp(s)' <=> GaveUp(s))
           \/ results[s] \in {"absent", "inflight"} /\ results'[s] \in {"inflight", "completed"}
              /\ pc'[s] \notin {"quit", "gone"}
           \/ results[s] = "inflight" /\ results'[s] = "cancelled" /\ GaveUp(s)' /\ AbortErr
    BY <1>0, <1>5 DEF Launch, Acquire, GiveUp, Complete, AfterRun, Save, Signal, SignalQuit,
       Exit, TypeOK, PcResults, RoundReady
  <2>3. FailedSteps' = FailedSteps
    BY <2>1, <2>2 DEF FailedSteps
  <2>4. MarksExact' /\ AbortRaised'
    BY <1>0, <2>1, <2>3, MarksKeep DEF AbortRaised, MarkInv
  <2>5. Caused' /\ RanHere'
    BY <2>1, <2>2 DEF MarkInv, Caused, RanHere
  <2> QED
    BY <2>4, <2>5 DEF MarkInv
<1>6. CASE Restart
  <2> PICK lost \in SUBSET Unreadable :
             resumed' = ResumeSet(lost) /\ results' = StartResults(ResumeSet(lost))
    BY <1>6 DEF Restart
  <2>1. /\ skipped' = {} /\ cascaded' = {} /\ main' = "dispatch"
        /\ pc' = [s \in Step |-> "idle"]
        /\ \A s \in Step : results'[s] = IF s \in resumed' THEN "completed" ELSE "absent"
    BY <1>6 DEF Restart, StartResults
  <2>2. FailedSteps' = {}
    BY <2>1 DEF FailedSteps
  <2>3. MarksExact'
    BY <2>1, <2>2 DEF MarksExact, FailedSteps
  <2> QED
    BY <2>1, <2>2, <2>3 DEF MarkInv, AbortRaised, Caused, RanHere
<1>7. CASE UNCHANGED vars
  <2>1. FailedSteps' = FailedSteps
    BY <1>7 DEF vars, FailedSteps
  <2>2. MarksExact'
    BY <1>0, <1>7, <2>1, MarksKeep DEF vars
  <2> QED
    BY <1>7, <2>1, <2>2 DEF vars, MarkInv, AbortRaised, Caused, RanHere
<1> QED
  BY <1>1, <1>2, <1>3, <1>4, <1>5, <1>6, <1>7
  DEF Next, MainNext, DispatchStep, StepNext, RunStep, Quiet

LEMMA MarkInit == Init => MarkInv
<1> SUFFICES ASSUME Init PROVE MarkInv
  OBVIOUS
<1>1. \A s \in Step : results[s] = "absent" /\ pc[s] = "idle"
  BY DEF Init, StartResults
<1>2. FailedSteps = {}
  BY <1>1 DEF FailedSteps
<1>3. MarksExact
  BY <1>2 DEF MarksExact, FailedSteps, Init
<1> QED
  BY <1>1, <1>2, <1>3 DEF MarkInv, AbortRaised, Caused, RanHere, Init, GaveUp

LEMMA MarkInductive == Spec => []MarkInv
BY MarkInit, MarkNext, Inductive, PTL DEF Spec

\* The traversal of markDependents and the marks that propagation adds mark exactly the steps
\* downstream of a failed one, for every graph and every order of failures.
THEOREM MarksExactCorrect == Spec => []MarksExact
<1>1. MarkInv => MarksExact
  BY DEF MarkInv
<1> QED
  BY <1>1, MarkInductive, PTL

\* No unconditional step is skipped and no step cancelled without a failure upstream, under the
\* strategy that asks for it, or an abort (dispatch, the wait for a slot).
THEOREM NoSpuriousStopCorrect == Spec => []NoSpuriousStop
<1>1. IInv /\ MarkInv => NoSpuriousStop
  <2> SUFFICES ASSUME MarkInv, NEW s \in Step
               PROVE  /\ results[s] = "skipped" /\ wf.cond[s] = {"true"}
                         => s \in Hit /\ wf.strategy = "skip-dependents"
                      /\ results[s] = "cancelled"
                         => AbortErr \/ (s \in Hit /\ wf.strategy = "cascade")
    BY DEF NoSpuriousStop, Hit, FailedSteps, Ancestors
  <2>1. /\ cascaded = IF wf.strategy = "cascade" THEN Hit ELSE {}
        /\ skipped = IF wf.strategy = "skip-dependents" THEN Hit ELSE {}
    BY DEF MarkInv, MarksExact, Hit, FailedSteps
  <2> QED
    BY <2>1 DEF MarkInv, Caused
<1> QED
  BY <1>1, Inductive, MarkInductive, PTL
-------------------------------------------------------------------------------
(* Containment of failures.                                                  *)

\* The ancestors of a step are its dependencies and their ancestors.
LEMMA AncestorsOf ==
  ASSUME TypeOK, NEW s \in Step
  PROVE  /\ \A d \in Deps(s) : d \in Ancestors(s) /\ Ancestors(d) \subseteq Ancestors(s)
         /\ \A a \in Ancestors(s) : a \in Deps(s) \/ \E d \in Deps(s) : a \in Ancestors(d)
<1>1. Deps(s) \subseteq Step
  BY DepsFinite
<1>2. ASSUME NEW d \in Deps(s)
      PROVE  d \in Ancestors(s) /\ Ancestors(d) \subseteq Ancestors(s)
  <2>1. d \in Step /\ s \in Dependents(d)
    BY <1>1 DEF Dependents
  <2> QED
    BY <2>1, DescendantsClosed DEF Ancestors
<1>3. ASSUME NEW a \in Ancestors(s), a \notin Deps(s)
      PROVE  \E d \in Deps(s) : a \in Ancestors(d)
  <2> DEFINE S == {t \in Step : t \in Dependents(a) \/ \E r \in Descendants(a) : t \in Dependents(r)}
  <2>1. a \in Step /\ s \in Descendants(a)
    BY DEF Ancestors
  <2>2. S \subseteq Descendants(a) /\ Dependents(a) \subseteq S
    BY <2>1, DescendantsClosed DEF Dependents
  <2>3. \A r \in S : Dependents(r) \subseteq S
    BY <2>2 DEF Dependents
  <2>4. s \in S
    <3>1. S \in SUBSET Step
      OBVIOUS
    <3> HIDE DEF S
    <3> QED
      BY <2>1, <2>2, <2>3, <3>1, DescendantsLeast
  <2>5. s \notin Dependents(a)
    BY <1>3 DEF Dependents
  <2>6. PICK r \in Descendants(a) : s \in Dependents(r)
    BY <2>4, <2>5
  <2>7. r \in Step /\ r \in Deps(s)
    BY <2>1, <2>6, DescendantsClosed DEF Dependents
  <2> QED
    BY <2>1, <2>6, <2>7 DEF Ancestors
<1> QED
  BY <1>2, <1>3

\* No ancestor of s has a condition or was taken from a checkpoint.
Clean(s) == \A a \in Ancestors(s) : wf.cond[a] = {"true"} /\ a \notin resumed

\* What dispatch may launch once it has propagated the marks.
ReadyClean ==
  main \in {"collect", "round"} =>
    \A s \in Step : results[s] = "absent" /\ Unreleased(s) = {} /\ Clean(s)
                      => \A d \in Deps(s) : results[d] = "completed"

\* After propagation, a step that waits for nothing has no dependency that failed, or was stopped
\* by a failure: it would be marked, or the run aborted.
LEMMA PropagatedClean ==
  ASSUME IInv, MarkInv, main = "propagate", Propagatable = {},
         NEW s \in Step, results[s] = "absent", Unreleased(s) = {}, Clean(s), NEW d \in Deps(s)
  PROVE  results[d] = "completed"
<1>0. TypeOK /\ InDegreeExact
  BY DEF IInv
<1>1. d \in Step /\ d \in Ancestors(s) /\ wf.cond[d] = {"true"} /\ s \in Dependents(d)
  BY <1>0, DepsFinite, AncestorsOf DEF Clean, Dependents
<1>2. results[d] \in Final /\ ~GaveUp(d)
  BY <1>1 DEF Unreleased, Released
<1>3. s \notin skipped \cup cascaded
  <2>1. inDegree[s] = 0
    BY <1>0, FS_EmptySet DEF InDegreeExact
  <2> QED
    BY <2>1 DEF Propagatable, Handled
<1>4. d \notin skipped \cup cascaded
  BY <1>0, <1>1, <1>3, MarksClosed
<1>5. results[d] # "failed"
  <2> SUFFICES ASSUME results[d] = "failed" PROVE FALSE
    OBVIOUS
  <2>1. d \in FailedSteps
    BY <1>1 DEF FailedSteps
  <2>2. s \in Hit
    BY <1>1, <2>1, DescendantsClosed DEF Hit
  <2>3. wf.strategy = "abort"
    <3>1. wf.strategy \in Strategies
      BY <1>0, SchedulerAssumption DEF TypeOK
    <3>2. wf.strategy \notin {"cascade", "skip-dependents"}
      BY <1>3, <2>2 DEF MarkInv, MarksExact, Hit, FailedSteps
    <3> QED
      BY <3>1, <3>2
  <2> QED
    BY <2>1, <2>3 DEF MarkInv, AbortRaised
<1> QED
  BY <1>1, <1>2, <1>4, <1>5 DEF MarkInv, Caused

LEMMA ReadyCleanNext == IInv /\ MarkInv /\ ReadyClean /\ [Next]_vars => ReadyClean'
<1> SUFFICES ASSUME IInv, MarkInv, ReadyClean, [Next]_vars,
                    main' \in {"collect", "round"},
                    NEW s \in Step, results'[s] = "absent", Unreleased(s)' = {}, Clean(s)',
                    NEW d \in Deps(s)'
             PROVE  results'[d] = "completed"
  BY DEF ReadyClean
<1> USE DEF dagVars, mainVars, ctxVars, diskVars, Goto
<1>0. TypeOK /\ PcResults /\ RoundReady
  BY DEF IInv
<1>1. ~Restart
  BY DEF Restart
<1>2. wf' = wf /\ resumed' = resumed
  BY <1>1 DEF Next, MainNext, BeginDispatch, EndPropagate, Collect, EndRound, ReceiveDone,
     ObserveAbort, AbortDrain, SuccessDrain, Finish, CancelCtx, DispatchStep, Propagate,
     ConditionFalse, ConditionError, Launch, StepNext, Acquire, GiveUp, RunStep, Complete,
     Fail, AfterRun, Save, Signal, SignalQuit, Exit, vars
<1>3. d \in Deps(s) /\ Clean(s) /\ Deps(s)' = Deps(s) /\ Deps(s) \subseteq Step
  <2>1. Ancestors(s)' = Ancestors(s)
    BY <1>2, GraphKept DEF Ancestors
  <2> QED
    BY <1>0, <1>2, <2>1, DepsFinite DEF Deps, Clean
<1>4. ASSUME results' = results, \A e \in Step : GaveUp(e)' <=> GaveUp(e),
             main \in {"collect", "round"}
      PROVE  results'[d] = "completed"
  <2>1. Unreleased(s) = {}
    BY <1>3, <1>4 DEF Unreleased, Released
  <2> QED
    BY <1>3, <1>4, <2>1 DEF ReadyClean
<1>5. CASE EndPropagate
  <2>1. /\ main = "propagate" /\ Propagatable = {} /\ results' = results /\ pc' = pc
    BY <1>5 DEF EndPropagate
  <2>2. Unreleased(s) = {}
    BY <1>3, <2>1 DEF Unreleased, Released, GaveUp
  <2> QED
    BY <1>3, <2>1, <2>2, PropagatedClean
<1>6. CASE Quiet /\ ~EndPropagate
  <2>1. main \in {"collect", "round"}
    BY <1>6 DEF Quiet, BeginDispatch, Collect, EndRound, ReceiveDone, ObserveAbort, AbortDrain,
       SuccessDrain, Finish, CancelCtx, AfterDispatch
  <2> QED
    BY <1>4, <1>6, <2>1, QuietUnchanged DEF GaveUp
<1>7. ASSUME NEW e \in Step, DispatchStep(e) PROVE results'[d] = "completed"
  <2>1. /\ main = "round" /\ results[e] = "absent" /\ results'[e] # "absent"
        /\ \A t \in Step : t # e => results'[t] = results[t] /\ pc'[t] = pc[t]
        /\ Launch(e) \/ wf.cond[e] # {"true"}
        /\ Launch(e) => results'[e] = "inflight"
    BY <1>0, <1>7 DEF DispatchStep, Propagate, ConditionFalse, ConditionError, Launch, RoundReady,
       TypeOK
  <2>2. e \notin Deps(s)
    <3>1. CASE Launch(e)
      <4>1. ~Released(e)'
        BY <2>1, <3>1 DEF Released
      <4> QED
        BY <1>3, <4>1 DEF Unreleased
    <3>2. CASE ~Launch(e)
      BY <1>0, <1>3, <2>1, <3>2, AncestorsOf DEF Clean
    <3> QED
      BY <3>1, <3>2
  <2>3. Unreleased(s) = {}
    BY <1>3, <2>1, <2>2 DEF Unreleased, Released, GaveUp
  <2>4. results[s] = "absent" /\ d # e /\ d \in Step
    BY <1>3, <2>1, <2>2
  <2> QED
    BY <1>3, <2>1, <2>3, <2>4 DEF ReadyClean
<1>8. ASSUME NEW e \in Step, Acquire(e) \/ AfterRun(e) PROVE results'[d] = "completed"
  <2>1. results' = results /\ main' = main
    BY <1>8 DEF Acquire, AfterRun, Save, Signal, SignalQuit, Exit
  <2>2. \A t \in Step : GaveUp(t)' <=> GaveUp(t)
    BY <1>0, <1>8 DEF Acquire, AfterRun, Save, Signal, SignalQuit, Exit, GaveUp, TypeOK
  <2> QED
    BY <1>4, <2>1, <2>2
<1>9. ASSUME NEW e \in Step, GiveUp(e) \/ RunStep(e) PROVE FALSE
  BY <1>9 DEF GiveUp, RunStep, Complete, Fail, MuHeld
<1>10. CASE UNCHANGED vars
  BY <1>4, <1>10 DEF vars, GaveUp
<1> QED
  BY <1>1, <1>5, <1>6, <1>7, <1>8, <1>9, <1>10 DEF Next, MainNext, StepNext, Quiet

LEMMA ContainedNext ==
  IInv /\ MarkInv /\ ReadyClean /\ FailureContained /\ [Next]_vars => FailureContained'
<1> SUFFICES ASSUME IInv, MarkInv, ReadyClean, FailureContained, [Next]_vars,
                    NEW s \in Step, pc'[s] # "idle", Clean(s)', NEW a \in Ancestors(s)'
             PROVE  results'[a] = "completed"
  BY DEF FailureContained, Clean
<1> USE DEF dagVars, mainVars, ctxVars, diskVars, Goto
<1>0. TypeOK
  BY DEF IInv
<1>1. ~Restart
  BY DEF Restart
<1>2. wf' = wf /\ resumed' = resumed
  BY <1>1 DEF Next, MainNext, BeginDispatch, EndPropagate, Collect, EndRound, ReceiveDone,
     ObserveAbort, AbortDrain, SuccessDrain, Finish, CancelCtx, DispatchStep, Propagate,
     ConditionFalse, ConditionError, Launch, StepNext, Acquire, GiveUp, RunStep, Complete,
     Fail, AfterRun, Save, Signal, SignalQuit, Exit, vars
<1>3. a \in Ancestors(s) /\ Clean(s) /\ a \in Step
  <2>1. Ancestors(s)' = Ancestors(s)
    BY <1>2, GraphKept DEF Ancestors
  <2> QED
    BY <1>2, <2>1 DEF Clean, Ancestors
<1>4. results[a] = "completed"
  <2>1. CASE pc[s] # "idle"
    BY <1>3, <2>1 DEF FailureContained, Clean
  <2>2. CASE pc[s] = "idle"
    <3>1. Launch(s)
      BY <1>1, <2>2, OnlyLaunch
    <3>2. main = "round" /\ results[s] = "absent" /\ Unreleased(s) = {}
      BY <3>1 DEF Launch, IInv, RoundReady
    <3>3. \A d \in Deps(s) : results[d] = "completed"
      BY <1>3, <3>2 DEF ReadyClean
    <3>4. CASE a \in Deps(s)
      BY <3>3, <3>4
    <3>5. CASE a \notin Deps(s)
      <4>1. PICK d \in Deps(s) : a \in Ancestors(d)
        BY <1>0, <1>3, <3>5, AncestorsOf
      <4>2. d \in Step /\ d \in Ancestors(s) /\ Clean(d)
        BY <1>0, <1>3, DepsFinite, AncestorsOf DEF Clean
      <4>3. pc[d] # "idle"
        BY <1>3, <3>3, <4>2 DEF MarkInv, RanHere, Clean
      <4> QED
        BY <4>1, <4>2, <4>3 DEF FailureContained, Clean
    <3> QED
      BY <3>4, <3>5
  <2> QED
    BY <2>1, <2>2
<1> QED
  BY <1>1, <1>3, <1>4, FinalStays

\* Under every strategy a failure stays contained: a step that runs has only completed ancestors,
\* provided none of them has a condition or was taken from a checkpoint (dispatch, executor.go).
THEOREM FailureContainedCorrect == Spec => []FailureContained
<1>1. Init => ReadyClean /\ FailureContained
  BY DEF Init, ReadyClean, FailureContained
<1> QED
  BY <1>1, Inductive, MarkInductive, ReadyCleanNext, ContainedNext, PTL DEF Spec
-------------------------------------------------------------------------------
(* The contract of a run.                                                    *)

\* What the results map means to the contract.
Outcome == [s \in Step |-> CASE results[s] = "absent" -> "pending"
                             [] results[s] = "inflight" -> "started"
                             [] OTHER -> results[s]]

\* There is no report before Run returns.
NoReportYet == main # "returned" => report = NoReport

LEMMA NoReportNext == IInv /\ NoReportYet /\ [Next]_vars => NoReportYet'
<1> SUFFICES ASSUME IInv, NoReportYet, [Next]_vars PROVE NoReportYet'
  OBVIOUS
<1> USE DEF mainVars, endVars, NoReportYet
<1>1. CASE Finish \/ Restart
  BY <1>1 DEF Finish, Restart
<1>2. CASE MainNext /\ ~Finish
  BY <1>2 DEF MainNext, BeginDispatch, EndPropagate, Collect, EndRound, ReceiveDone, ObserveAbort,
     AbortDrain, SuccessDrain, DispatchStep, Propagate, ConditionFalse, ConditionError, Launch
<1>3. CASE CancelCtx \/ UNCHANGED vars
  BY <1>3 DEF CancelCtx, vars
<1>4. ASSUME NEW s \in Step, StepNext(s) PROVE NoReportYet'
  BY <1>4 DEF StepNext, Acquire, GiveUp, RunStep, Complete, Fail, AfterRun, Save, Signal,
     SignalQuit, Exit
<1> QED
  BY <1>1, <1>2, <1>3, <1>4 DEF Next

\* One entry of the results map changes.
LEMMA OutcomeMoves ==
  ASSUME TypeOK, NEW s \in Step, NEW r \in Final \cup {"inflight"},
         results' = [results EXCEPT ![s] = r]
  PROVE  Outcome' = [Outcome EXCEPT ![s] = IF r = "inflight" THEN "started" ELSE r]
BY DEF Outcome, TypeOK

LEMMA ContractNext ==
  ASSUME Unreadable = {}, IInv, StoreBacked, Drained, NoReportYet, [Next]_vars
  PROVE  [Flow!CNext]_(Flow!cvars)
<1> USE DEF dagVars, mainVars, endVars, diskVars, Goto
<1>0. TypeOK /\ PcResults /\ RoundReady /\ InDegreeExact
  BY DEF IInv
<1>1. \A s \in Step : Outcome[s] = IF results[s] = "absent" THEN "pending"
                                   ELSE IF results[s] = "inflight" THEN "started" ELSE results[s]
  BY <1>0 DEF Outcome, TypeOK
<1>2. ASSUME NEW s \in Step, results[s] = "absent", Unreleased(s) = {}, main # "returned"
      PROVE  /\ Outcome[s] = "pending" /\ report = NoReport
             /\ \A d \in wf.deps[s] : Outcome[d] \in Flow!Terminal
  <2>1. \A d \in Deps(s) : d \in Step /\ results[d] \in Final
    BY <1>0, <1>2, DepsFinite DEF Unreleased, Released
  <2> QED
    BY <1>1, <1>2, <2>1 DEF NoReportYet, Deps, Flow!Terminal
<1>3. CASE results' = results /\ wf' = wf /\ report' = report
  BY <1>3 DEF Flow!cvars
<1>4. ASSUME NEW s \in Step, Launch(s) PROVE Flow!CNext
  <2>1. /\ results[s] = "absent" /\ Unreleased(s) = {} /\ main = "round"
        /\ results' = [results EXCEPT ![s] = "inflight"] /\ wf' = wf /\ report' = report
    BY <1>0, <1>4 DEF Launch, RoundReady
  <2>2. Outcome' = [Outcome EXCEPT ![s] = "started"]
    BY <1>0, <2>1, OutcomeMoves
  <2>3. Flow!Start(s)
    BY <1>2, <2>1, <2>2 DEF Flow!Start, Flow!DepsSettled, Outcome
  <2> QED
    BY <2>3 DEF Flow!CNext
<1>5. ASSUME NEW s \in Step, Propagate(s) \/ ConditionFalse(s) \/ ConditionError(s)
      PROVE  Flow!CNext
  <2>1. /\ results[s] = "absent" /\ Unreleased(s) = {} /\ main # "returned"
    <3>1. CASE Propagate(s)
      <4>1. inDegree[s] = 0 /\ results[s] = "absent" /\ main # "returned"
        BY <3>1 DEF Propagate, Propagatable, Handled
      <4> QED
        BY <1>0, <4>1, DepsFinite, FS_EmptySet DEF InDegreeExact
    <3>2. CASE ~Propagate(s)
      BY <1>0, <1>5, <3>2 DEF ConditionFalse, ConditionError, RoundReady
    <3> QED
      BY <3>1, <3>2
  <2>2. PICK o \in {"skipped", "cancelled", "failed"} : results' = [results EXCEPT ![s] = o]
    BY <1>5 DEF Propagate, ConditionFalse, ConditionError
  <2>3. wf' = wf /\ report' = report
    BY <1>5 DEF Propagate, ConditionFalse, ConditionError
  <2>4. Outcome' = [Outcome EXCEPT ![s] = o]
    BY <1>0, <2>2, OutcomeMoves
  <2>5. Flow!Settle(s)
    BY <1>2, <2>1, <2>3, <2>4 DEF Flow!Settle, Flow!DepsSettled, Outcome
  <2> QED
    BY <2>5 DEF Flow!CNext
<1>6. ASSUME NEW s \in Step, GiveUp(s) \/ RunStep(s) PROVE Flow!CNext
  <2>1. results[s] = "inflight" /\ wf' = wf /\ report' = report
    BY <1>0, <1>6 DEF GiveUp, RunStep, Complete, Fail, PcResults
  <2>2. PICK o \in {"completed", "failed", "cancelled"} : results' = [results EXCEPT ![s] = o]
    BY <1>6 DEF GiveUp, RunStep, Complete, Fail
  <2>3. Outcome' = [Outcome EXCEPT ![s] = o] /\ Outcome[s] = "started"
    BY <1>0, <1>1, <2>1, <2>2, OutcomeMoves
  <2>4. Flow!End(s)
    BY <2>1, <2>3 DEF Flow!End, Outcome
  <2> QED
    BY <2>4 DEF Flow!CNext
<1>7. CASE Finish
  <2>1. /\ main = "finish" /\ report' = FinalReport /\ results' = results /\ wf' = wf
    BY <1>7 DEF Finish
  <2>2. \A s \in Step : FinalReport[s] = IF Outcome[s] \in Flow!Terminal THEN Outcome[s]
                                         ELSE "cancelled"
    <3> SUFFICES ASSUME NEW s \in Step
                 PROVE  FinalReport[s] = IF Outcome[s] \in Flow!Terminal THEN Outcome[s]
                                         ELSE "cancelled"
      OBVIOUS
    <3>1. results[s] = "inflight" => aborted
      BY <1>0, <2>1 DEF Drained, Alive, PcResults, TypeOK, StepPC
    <3>2. results[s] \in Final \cup {"absent", "inflight"}
      BY <1>0 DEF TypeOK
    <3>3. FinalReport[s] = IF results[s] \in Final THEN results[s] ELSE "cancelled"
      BY <3>1, <3>2 DEF FinalReport
    <3> QED
      BY <1>1, <3>2, <3>3 DEF Flow!Terminal
  <2>3. FinalReport = [s \in Step |-> IF Outcome[s] \in Flow!Terminal THEN Outcome[s]
                                      ELSE "cancelled"]
    BY <2>2 DEF FinalReport
  <2>4. Flow!Return
    BY <2>1, <2>3 DEF Flow!Return, Outcome, NoReportYet
  <2> QED
    BY <2>4 DEF Flow!CNext
<1>8. CASE Restart
  <2> PICK lost \in SUBSET Unreadable : results' = StartResults(ResumeSet(lost))
    BY <1>8 DEF Restart
  <2>1. wf' = wf /\ report' = NoReport /\ results' = StartResults(ResumeSet(lost))
    BY <1>8 DEF Restart
  <2>2. ResumeSet(lost) \in SUBSET {s \in Step : Outcome[s] = "completed"}
    BY <1>1 DEF ResumeSet, StoreBacked
  <2>3. Outcome' = [s \in Step |-> IF s \in ResumeSet(lost) THEN "completed" ELSE "pending"]
    BY <2>1 DEF Outcome, StartResults
  <2>4. Flow!Resume
    BY <2>1, <2>2, <2>3 DEF Flow!Resume, Outcome
  <2> QED
    BY <2>4 DEF Flow!CNext
<1>9. CASE Quiet /\ ~Finish
  BY <1>3, <1>9, QuietUnchanged DEF Quiet, BeginDispatch, EndPropagate, Collect, EndRound,
     ReceiveDone, ObserveAbort, AbortDrain, SuccessDrain, CancelCtx
<1>10. ASSUME NEW s \in Step, Acquire(s) \/ AfterRun(s) PROVE [Flow!CNext]_(Flow!cvars)
  BY <1>3, <1>10 DEF Acquire, AfterRun, Save, Signal, SignalQuit, Exit
<1>11. CASE UNCHANGED vars
  BY <1>3, <1>11 DEF vars
<1> QED
  BY <1>4, <1>5, <1>6, <1>7, <1>8, <1>9, <1>10, <1>11
  DEF Next, MainNext, DispatchStep, StepNext, Quiet

LEMMA ContractInit == Init => Flow!CInit
<1> SUFFICES ASSUME Init PROVE Flow!CInit
  OBVIOUS
<1>1. wf.deps \in [Step -> SUBSET Step]
  BY SchedulerAssumption DEF Init
<1>2. \A s \in Step : results[s] = "absent"
  BY DEF Init, StartResults
<1> QED
  BY <1>1, <1>2 DEF Flow!CInit, Init

\* Run, with its locks, channels, goroutines and resumes, implements the contract of FlowContract,
\* as long as every stored result can be read.
THEOREM ContractImplemented ==
  ASSUME Unreadable = {} PROVE Spec => ImplementsContract
<1>1. Init => NoReportYet /\ Drained /\ ReportMatches /\ StoreBacked
  BY DEF Init, NoReportYet, Drained, ReportMatches, StoreBacked
<1>2. IInv /\ StoreBacked /\ Drained /\ NoReportYet /\ [Next]_vars => [Flow!CNext]_(Flow!cvars)
  BY ContractNext
<1> QED
  BY <1>1, <1>2, ContractInit, Inductive, StoreBackedCorrect, ReportNext, NoReportNext, PTL
  DEF Spec, ImplementsContract, Flow!Contract
-------------------------------------------------------------------------------
(* Where the two promises of the documentation that runs refute do hold.     *)

\* A step without a condition, which dispatch always launches when it takes it.
Unconditional(s) == wf.cond[s] = {"true"}
NothingBetween == resumed = {} /\ \A s \in Step : Unconditional(s)

\* docs/concepts/dag-scheduling.md says of cascade that nothing downstream of a failed step runs.
\* It is so in every run that took nothing from storage of a workflow without conditions: what
\* breaks the promise is a condition that skips a step, or a resumed step, between the two.
THEOREM CascadeContainmentCorrect == Spec => [](NothingBetween => CascadeContainment)
<1>1. ASSUME FailureContained, NothingBetween PROVE CascadeContainment
  <2> SUFFICES ASSUME NEW s \in Step, pc[s] # "idle", NEW a \in Ancestors(s)
               PROVE  results[a] # "failed"
    BY DEF CascadeContainment
  <2>1. Ancestors(s) \subseteq Step
    BY DEF Ancestors
  <2>2. \A x \in Ancestors(s) : wf.cond[x] = {"true"} /\ x \notin resumed
    BY <1>1, <2>1 DEF NothingBetween, Unconditional
  <2>3. results[a] = "completed"
    BY <1>1, <2>2 DEF FailureContained
  <2> QED
    BY <2>3
<1>2. FailureContained => (NothingBetween => CascadeContainment)
  BY <1>1
<1> QED
  BY <1>2, FailureContainedCorrect, PTL

\* The status is that of the report, and there is none before Run returns.
StatusDerived == status # "running" => main = "returned" /\ status = DeriveStatus(report)

LEMMA StatusNext == StatusDerived /\ [Next]_vars => StatusDerived'
<1> SUFFICES ASSUME StatusDerived, [Next]_vars PROVE StatusDerived'
  OBVIOUS
<1> USE DEF mainVars, endVars, StatusDerived
<1>1. CASE Finish
  <2>1. main' = "returned" /\ report' = FinalReport /\ status' = DeriveStatus(FinalReport)
    BY <1>1 DEF Finish
  <2> QED
    BY <2>1 DEF DeriveStatus
<1>2. CASE Restart
  BY <1>2 DEF Restart
<1>3. CASE MainNext /\ ~Finish
  <2>1. main # "returned" /\ status' = status
    BY <1>3 DEF MainNext, BeginDispatch, EndPropagate, Collect, EndRound, ReceiveDone,
       ObserveAbort, AbortDrain, SuccessDrain, DispatchStep, Propagate, ConditionFalse,
       ConditionError, Launch
  <2> QED
    BY <2>1
<1>4. CASE CancelCtx \/ UNCHANGED vars \/ \E s \in Step : StepNext(s)
  <2>1. main' = main /\ status' = status /\ report' = report
    BY <1>4 DEF CancelCtx, vars, StepNext, Acquire, GiveUp, RunStep, Complete, Fail, AfterRun,
       Save, Signal, SignalQuit, Exit
  <2> QED
    BY <2>1 DEF DeriveStatus
<1> QED
  BY <1>1, <1>2, <1>3, <1>4 DEF Next

SomeUnconditional == \E s \in Step : Unconditional(s)

\* docs/concepts/dag-scheduling.md says that a workflow without a completed step has failed.  It
\* is so, through skips, aborts and resumes, for every workflow that has a step without a
\* condition: deriveStatus reports success instead only if every step was skipped, and such a
\* step is skipped only below a failure.
THEOREM FailedWithoutCompletedCorrect == Spec => [](SomeUnconditional => FailedWithoutCompleted)
<1>1. ASSUME StatusDerived, ReportFaithful, NoSpuriousStop, SomeUnconditional
      PROVE  FailedWithoutCompleted
  <2>0. PICK s \in Step : Unconditional(s)
    BY <1>1 DEF SomeUnconditional
  <2> SUFFICES ASSUME status # "running", \A t \in Step : report[t] # "completed"
               PROVE  status = "failed"
    BY DEF FailedWithoutCompleted
  <2>1. status = DeriveStatus(report)
    BY <1>1 DEF StatusDerived
  <2>2. \A t \in Step : /\ report[t] \in Final
                        /\ report[t] # "cancelled" => results[t] = report[t]
    BY <1>1 DEF StatusDerived, ReportFaithful
  <2>3. \E t \in Step : report[t] \in {"failed", "cancelled"}
    <3>1. CASE report[s] = "skipped"
      <4>1. results[s] = "skipped" /\ wf.cond[s] = {"true"}
        BY <2>0, <2>2, <3>1 DEF Unconditional
      <4>2. PICK a \in Ancestors(s) : results[a] = "failed"
        BY <1>1, <4>1 DEF NoSpuriousStop
      <4>3. a \in Step
        BY DEF Ancestors
      <4> QED
        BY <2>2, <4>2, <4>3 DEF Final
    <3>2. CASE report[s] # "skipped"
      BY <2>2, <3>2 DEF Final
    <3> QED
      BY <3>1, <3>2
  <2> QED
    BY <2>1, <2>3 DEF DeriveStatus
<1>2. StatusDerived /\ ReportFaithful /\ NoSpuriousStop =>
        (SomeUnconditional => FailedWithoutCompleted)
  BY <1>1
<1>3. Init => StatusDerived
  BY DEF Init, StatusDerived
<1> QED
  BY <1>2, <1>3, StatusNext, ReportFaithfulCorrect, NoSpuriousStopCorrect, PTL DEF Spec
===============================================================================

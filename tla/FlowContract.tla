----------------------------- MODULE FlowContract -----------------------------
(***************************************************************************)
(* What Executor.Run promises the caller of RunFlow / ResumeFlow, without   *)
(* in-degrees, locks, channels or goroutines: a step starts only after all  *)
(* the steps it dependsOn have a terminal status, gets one terminal status  *)
(* per run, and the returned report covers every step.  A run resumed from  *)
(* its checkpoint may keep completed steps and starts the others afresh.    *)
(* Scheduler.tla implements this specification.                             *)
(***************************************************************************)
EXTENDS FiniteSets

CONSTANTS Step,        \* step IDs
          NoReport     \* the report before Run returns

VARIABLES deps,        \* [Step -> SUBSET Step]: the workflow's dependsOn
          outcome,     \* [Step -> status], "pending" and "started" before the end
          report       \* the returned map, or NoReport

cvars == <<deps, outcome, report>>

Terminal == {"completed", "failed", "skipped", "cancelled"}

DepsSettled(s) == \A d \in deps[s] : outcome[d] \in Terminal

CInit == /\ deps \in [Step -> SUBSET Step]
         /\ outcome = [s \in Step |-> "pending"]
         /\ report = NoReport

\* A step is started once, after its dependencies, and not after the return.
Start(s) == /\ report = NoReport
            /\ outcome[s] = "pending"
            /\ DepsSettled(s)
            /\ outcome' = [outcome EXCEPT ![s] = "started"]
            /\ UNCHANGED <<deps, report>>

\* A started step ends; a goroutine orphaned by an abort may end after the return.
End(s) == /\ outcome[s] = "started"
          /\ \E o \in {"completed", "failed", "cancelled"} :
                outcome' = [outcome EXCEPT ![s] = o]
          /\ UNCHANGED <<deps, report>>

\* A step that never starts: condition false or broken, or a failed dependency.
Settle(s) == /\ report = NoReport
             /\ outcome[s] = "pending"
             /\ DepsSettled(s)
             /\ \E o \in {"skipped", "cancelled", "failed"} :
                   outcome' = [outcome EXCEPT ![s] = o]
             /\ UNCHANGED <<deps, report>>

\* The report repeats every terminal status and calls the rest cancelled.
Return == /\ report = NoReport
          /\ report' = [s \in Step |-> IF outcome[s] \in Terminal
                                       THEN outcome[s] ELSE "cancelled"]
          /\ UNCHANGED <<deps, outcome>>

\* The process ends and the run is resumed from what was checkpointed.
Resume == /\ \E kept \in SUBSET {s \in Step : outcome[s] = "completed"} :
                outcome' = [s \in Step |-> IF s \in kept THEN "completed"
                                           ELSE "pending"]
          /\ report' = NoReport
          /\ UNCHANGED deps

CNext == \/ \E s \in Step : Start(s) \/ End(s) \/ Settle(s)
         \/ Return
         \/ Resume

Contract == CInit /\ [][CNext]_cvars
===============================================================================

-------------------------------- MODULE LoopStep --------------------------------
(***************************************************************************)
(* A step that is a loop or an include, from its goroutine's call to the    *)
(* result it publishes: the retries around runLoopStep, the iterations of a *)
(* repeat loop with its condition and its judge, the parallel iterations of *)
(* a forEach loop, and the attempts of an include.  One iteration is its    *)
(* outcome, of an agent's run or of a nested DAG.                           *)
(***************************************************************************)
EXTENDS Integers, FiniteSets

CONSTANTS
  Loops,       \* the steps a run may execute, see LoopType
  DefaultMax,  \* iterations of a loop that names no limit (100)
  ConcLimit    \* forEachMaxConcurrency

LoopType ==
  [kind : {"repeat"}, max : Int, inner : BOOLEAN, delay : BOOLEAN, until : BOOLEAN,
   judge : {"none", "known", "unknown"}, retries : Nat]
    \cup [kind : {"forEach"}, items : Nat, inner : BOOLEAN, broken : BOOLEAN, conc : Int,
          retries : Nat]
    \cup [kind : {"include"}, retries : Nat]

ASSUME LoopAssumption ==
  /\ Loops \subseteq LoopType
  /\ DefaultMax \in Nat \ {0} /\ ConcLimit \in Nat \ {0}

VARIABLES
  loop,      \* the step
  pc,        \* where its goroutine is
  attempt,   \* attempts started
  iteration, \* 0-based iteration of a repeat loop
  last,      \* lastResult: the status of the result so far
  reason,    \* what ended a repeat loop
  spent,     \* tokens spent since the start event of the attempt
  tokens,    \* tokens of the result
  it,        \* where each goroutine of a forEach loop is
  res,       \* the status each of them stored
  paid,      \* those whose result has tokens
  errs,      \* iterations whose error is recorded
  ctxDone    \* the context of the step is done

loopVars == <<loop, pc, attempt, iteration, last, reason, spent, tokens, it, res, paid, errs, ctxDone>>
repeatVars == <<iteration, last, reason, spent, tokens>>
eachVars == <<it, res, paid, errs>>

Item == IF loop.kind = "forEach" THEN 1 .. loop.items ELSE {}
Status == {"none", "completed", "failed", "cancelled"}
AgentOutcome == {"completed", "failed", "cancelled"}
\* A nested DAG that did not complete, or could not run, has failed.
RepeatOutcome == IF loop.inner THEN {"completed", "failed"} ELSE AgentOutcome
ItemOutcome == IF loop.inner THEN {"completed", "failed"} ELSE AgentOutcome
Spend == {0, 1}

LoopInit ==
  /\ loop \in Loops
  /\ pc = "attempt" /\ attempt = 0
  /\ iteration = 0 /\ last = "none" /\ reason = "none"
  /\ spent = 0 /\ tokens = 0
  /\ it = [i \in Item |-> "wait"] /\ res = [i \in Item |-> "none"]
  /\ paid = {} /\ errs = {}
  /\ ctxDone = FALSE

Proceed(from, to) == pc = from /\ pc' = to
-------------------------------------------------------------------------------
(* runLoopStep: repeat until.                                                *)

MaxIter == IF loop.max > 0 THEN loop.max ELSE DefaultMax

StartRepeat ==
  /\ loop.kind = "repeat" /\ Proceed("attempt", "iterate")
  /\ attempt' = attempt + 1
  /\ iteration' = 0 /\ last' = "none" /\ reason' = "none"
  /\ spent' = 0 /\ tokens' = 0
  /\ UNCHANGED <<loop, eachVars, ctxDone>>

\* The pause between iterations; a timer that has fired may win over the context.
DelayCancelled ==
  /\ loop.kind = "repeat" /\ loop.delay /\ iteration > 0 /\ ctxDone
  /\ Proceed("iterate", "return")
  /\ last' = "failed" /\ reason' = "context"
  /\ UNCHANGED <<loop, attempt, iteration, spent, tokens, eachVars, ctxDone>>

Iterate ==
  /\ pc = "iterate"
  /\ \E o \in RepeatOutcome, t \in Spend :
       /\ last' = o /\ spent' = spent + t /\ tokens' = tokens + t
       /\ pc' = IF o = "completed" THEN "until" ELSE "return"
       /\ reason' = IF o = "completed" THEN "none" ELSE "iteration"
  /\ UNCHANGED <<loop, attempt, iteration, eachVars, ctxDone>>

Ends(status, why, next) == last' = status /\ reason' = why /\ pc' = next

Until ==
  /\ pc = "until"
  /\ \/ ~loop.until /\ Ends("completed", "none", "judge")
     \/ loop.until /\ Ends("completed", "none", "judge")
     \/ loop.until /\ Ends("completed", "until", "return")
     \/ loop.until /\ Ends("failed", "condition", "return")
  /\ UNCHANGED <<loop, attempt, iteration, spent, tokens, eachVars, ctxDone>>

\* A judge that fails is asked again after the next iteration.
Judge ==
  /\ pc = "judge"
  /\ \/ loop.judge = "none" /\ Ends("completed", "none", "next") /\ UNCHANGED <<spent, tokens>>
     \/ loop.judge = "unknown" /\ Ends("failed", "judge", "return") /\ UNCHANGED <<spent, tokens>>
     \/ /\ loop.judge = "known"
        /\ \E t \in Spend : spent' = spent + t /\ tokens' = tokens + t
        /\ \/ Ends("completed", "done", "return")
           \/ Ends("completed", "none", "next")
  /\ UNCHANGED <<loop, attempt, iteration, eachVars, ctxDone>>

NextKeepsResult ==      \* mutant
  /\ pc = "next"
  /\ \/ iteration + 1 < MaxIter /\ Ends(last, reason, "iterate")
     \/ iteration + 1 = MaxIter /\ Ends(last, "exhausted", "return")
  /\ iteration' = iteration + 1
  /\ UNCHANGED <<loop, attempt, spent, tokens, eachVars, ctxDone>>
\* A loop with a condition or a judge that runs out of iterations has failed.
NextIteration ==
  /\ pc = "next"
  /\ \/ iteration + 1 < MaxIter /\ Ends(last, reason, "iterate")
     \/ /\ iteration + 1 = MaxIter /\ (loop.until \/ loop.judge # "none")
        /\ Ends("failed", "exhausted", "return")
     \/ /\ iteration + 1 = MaxIter /\ ~loop.until /\ loop.judge = "none"
        /\ Ends(last, "exhausted", "return")
  /\ iteration' = iteration + 1
  /\ UNCHANGED <<loop, attempt, spent, tokens, eachVars, ctxDone>>
-------------------------------------------------------------------------------
(* runForEachStep.                                                           *)

SlotLimit ==
  LET asked == IF loop.conc > 0 THEN loop.conc ELSE loop.items
  IN  IF asked > ConcLimit THEN ConcLimit ELSE asked

StartForEach ==
  /\ loop.kind = "forEach" /\ pc = "attempt"
  /\ attempt' = attempt + 1
  /\ IF loop.broken
     THEN pc' = "return" /\ last' = "failed" /\ reason' = "condition"
     ELSE pc' = "parallel" /\ last' = "none" /\ reason' = "none"
  /\ spent' = 0 /\ tokens' = 0
  /\ it' = [i \in Item |-> "wait"] /\ res' = [i \in Item |-> "none"]
  /\ paid' = {} /\ errs' = {}
  /\ UNCHANGED <<loop, iteration, ctxDone>>

Holding == {i \in Item : it[i] \in {"check", "run", "record", "release", "unwind"}}

Move(i, from, to) == pc = "parallel" /\ it[i] = from /\ it' = [it EXCEPT ![i] = to]
StoreOutcome(i, s) == res' = [res EXCEPT ![i] = s]

\* The semaphore, or the context.
Admit(i) ==
  /\ \/ Cardinality(Holding) < SlotLimit /\ Move(i, "wait", "check") /\ UNCHANGED res
     \/ ctxDone /\ Move(i, "wait", "done") /\ StoreOutcome(i, "cancelled")
  /\ UNCHANGED <<loop, pc, attempt, repeatVars, paid, errs, ctxDone>>

CheckErrors(i) ==
  /\ \/ errs = {} /\ Move(i, "check", "run") /\ UNCHANGED res
     \/ errs # {} /\ Move(i, "check", "release") /\ StoreOutcome(i, "cancelled")
  /\ UNCHANGED <<loop, pc, attempt, repeatVars, paid, errs, ctxDone>>

RunItemRecordsLate(i) ==      \* mutant
  /\ \E o \in ItemOutcome, t \in Spend :
       /\ Move(i, "run", IF o = "failed" THEN "unwind" ELSE "release") /\ StoreOutcome(i, o)
       /\ paid' = (IF t = 1 THEN paid \cup {i} ELSE paid) /\ spent' = spent + t
  /\ UNCHANGED <<loop, pc, attempt, iteration, last, reason, tokens, errs, ctxDone>>
RunItem(i) ==
  /\ \E o \in ItemOutcome, t \in Spend :
       /\ Move(i, "run", IF o = "failed" THEN "record" ELSE "release") /\ StoreOutcome(i, o)
       /\ paid' = (IF t = 1 THEN paid \cup {i} ELSE paid) /\ spent' = spent + t
  /\ UNCHANGED <<loop, pc, attempt, iteration, last, reason, tokens, errs, ctxDone>>

RunItemPanics(i) ==
  /\ Move(i, "run", "unwind")
  /\ UNCHANGED <<loop, pc, attempt, repeatVars, res, paid, errs, ctxDone>>

\* A panic gives the slot up first and is recorded then.
RecordError(i) ==
  /\ \/ Move(i, "record", "release") /\ UNCHANGED res
     \/ Move(i, "recover", "done") /\ StoreOutcome(i, "failed")
  /\ errs' = errs \cup {i}
  /\ UNCHANGED <<loop, pc, attempt, repeatVars, paid, ctxDone>>

ReleaseSlot(i) ==
  /\ Move(i, "release", "done") \/ Move(i, "unwind", "recover")
  /\ UNCHANGED <<loop, pc, attempt, repeatVars, res, paid, errs, ctxDone>>

AggregateCompleted ==      \* mutant
  /\ pc = "parallel" /\ \A i \in Item : it[i] = "done"
  /\ last' = IF \E i \in Item : res[i] \in {"failed", "cancelled"} THEN "failed" ELSE "completed"
  /\ tokens' = Cardinality({i \in paid : res[i] = "completed"})
  /\ pc' = "return" /\ reason' = "items"
  /\ UNCHANGED <<loop, attempt, iteration, spent, eachVars, ctxDone>>
Aggregate ==
  /\ pc = "parallel" /\ \A i \in Item : it[i] = "done"
  /\ last' = IF \E i \in Item : res[i] \in {"failed", "cancelled"} THEN "failed" ELSE "completed"
  /\ tokens' = Cardinality(paid)
  /\ pc' = "return" /\ reason' = "items"
  /\ UNCHANGED <<loop, attempt, iteration, spent, eachVars, ctxDone>>
-------------------------------------------------------------------------------
(* runIncludeStep: rejected before it starts, or run up to retries + 1 times. *)

StartInclude ==
  /\ loop.kind = "include" /\ attempt = 0
  /\ \/ Proceed("attempt", "done") /\ last' = "failed" /\ reason' = "rejected"
     \/ Proceed("attempt", "nested") /\ UNCHANGED <<last, reason>>
  /\ UNCHANGED <<loop, attempt, iteration, spent, tokens, eachVars, ctxDone>>

NestedRun ==
  /\ pc = "nested"
  /\ attempt' = attempt + 1
  /\ \E o \in {"completed", "failed"}, t \in Spend :
       /\ last' = o /\ spent' = spent + t /\ tokens' = tokens + t
       /\ pc' = IF o = "completed" \/ ctxDone \/ attempt' = loop.retries + 1
                THEN "done" ELSE "nested"
       /\ reason' = IF o = "completed" THEN "nested" ELSE "iteration"
  /\ UNCHANGED <<loop, iteration, eachVars, ctxDone>>
-------------------------------------------------------------------------------
RetryOneMore ==      \* mutant
  /\ pc = "return"
  /\ pc' = IF last # "failed" \/ ctxDone \/ attempt > loop.retries + 1
           THEN "done" ELSE "attempt"
  /\ UNCHANGED <<loop, attempt, repeatVars, eachVars, ctxDone>>
\* The retries of the executor's goroutine around a loop.
RetryLoop ==
  /\ pc = "return"
  /\ pc' = IF last # "failed" \/ ctxDone \/ attempt = loop.retries + 1
           THEN "done" ELSE "attempt"
  /\ UNCHANGED <<loop, attempt, repeatVars, eachVars, ctxDone>>

\* A panic on the goroutine itself is recovered outside the retries.
Panic ==
  /\ Proceed("iterate", "done") \/ Proceed("nested", "done")
  /\ last' = "failed" /\ reason' = "panic" /\ tokens' = 0
  /\ UNCHANGED <<loop, attempt, iteration, spent, eachVars, ctxDone>>

Cancel ==
  /\ ~ctxDone /\ pc # "done"
  /\ ctxDone' = TRUE
  /\ UNCHANGED <<loop, pc, attempt, repeatVars, eachVars>>

LoopNext ==
  \/ StartRepeat \/ DelayCancelled \/ Iterate \/ Until \/ Judge \/ NextIteration
  \/ StartForEach \/ Aggregate
  \/ \E i \in Item : \/ Admit(i) \/ CheckErrors(i) \/ RunItem(i) \/ RunItemPanics(i)
                     \/ RecordError(i) \/ ReleaseSlot(i)
  \/ StartInclude \/ NestedRun \/ Panic
  \/ RetryLoop \/ Cancel

LoopSpec == LoopInit /\ [][LoopNext]_loopVars
-------------------------------------------------------------------------------
LoopTypeOK ==
  /\ loop \in Loops
  /\ pc \in {"attempt", "iterate", "until", "judge", "next", "parallel", "nested", "return", "done"}
  /\ attempt \in 0 .. loop.retries + 1
  /\ iteration \in Nat /\ (loop.kind = "repeat" => iteration <= MaxIter)
  /\ last \in Status
  /\ reason \in {"none", "context", "iteration", "panic", "until", "condition", "judge", "done",
                 "exhausted", "items", "rejected", "nested"}
  /\ spent \in Nat /\ tokens \in Nat
  /\ it \in [Item -> {"wait", "check", "run", "record", "release", "unwind", "recover", "done"}]
  /\ res \in [Item -> Status] /\ paid \subseteq Item
  /\ errs \subseteq Item /\ ctxDone \in BOOLEAN

\* A loop or include is reported completed for a reason: the condition or the judge
\* said so of the last iteration, or there is neither and every iteration ran; every
\* item completed; or the nested run did.  And it never exceeds its limits.
CompletedForAReason ==
  /\ pc = "done" /\ last = "completed" =>
       CASE loop.kind = "repeat" ->
              \/ reason = "until" /\ loop.until
              \/ reason = "done" /\ loop.judge = "known"
              \/ reason = "exhausted" /\ ~loop.until /\ loop.judge = "none" /\ iteration = MaxIter
         [] loop.kind = "forEach" -> \A i \in Item : res[i] = "completed"
         [] OTHER -> reason = "nested"
  /\ loop.kind = "forEach" => Cardinality(Holding) <= ConcLimit

\* The tokens of the published result are those its last attempt spent (all attempts of
\* an include), unless the result is that of a recovered panic.
SpendReported ==
  pc = "done" =>
    /\ tokens <= spent
    /\ reason # "panic" => tokens = spent

\* What the result of a loop or include says, of its outcome and of its tokens.
LoopResultSound == CompletedForAReason /\ SpendReported

\* No iteration of a forEach loop starts once one has failed and given its slot up: the
\* failure is recorded first.  A panic stores no result before it is recorded, but gives
\* its slot up before that, and an iteration may start in between.
FailFast ==
  [][\A i \in Item :
       (it[i] = "check" /\ it'[i] = "run")
         => \A j \in Item : ~(res[j] = "failed" /\ j \notin Holding)]_loopVars
===============================================================================

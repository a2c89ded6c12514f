----------------------------- MODULE LoopStepProofs -----------------------------
(***************************************************************************)
(* Proofs about LoopStep, for any loops and includes, any limits, and any   *)
(* order of the parallel iterations.                                        *)
(***************************************************************************)
EXTENDS LoopStep, TLAPS, FiniteSetTheorems

\* The types of what the proofs below look at.
EachType ==
  /\ loop \in Loops
  /\ it \in [Item -> {"wait", "check", "run", "record", "release", "unwind", "recover", "done"}]
  /\ res \in [Item -> Status]
  /\ errs \subseteq Item

\* A failure is recorded, or its iteration still holds its slot to do so.
FailureRecorded ==
  \A i \in Item : res[i] = "failed" => i \in errs \/ it[i] = "record"

\* An iteration that has ended, without a panic, has stored a result.
ResultStored ==
  \A i \in Item : it[i] \in {"record", "release", "done"} => res[i] # "none"

EachInv == EachType /\ FailureRecorded /\ ResultStored

LEMMA InitEach ==
  LoopInit => EachInv
BY DEF LoopInit, EachInv, EachType, FailureRecorded, ResultStored, Item, Status

\* A step that leaves the iterations of a forEach loop alone.
LEMMA EachAlone ==
  ASSUME EachInv, UNCHANGED <<loop, eachVars>>
  PROVE  EachInv'
BY DEF EachInv, EachType, FailureRecorded, ResultStored, Item, eachVars

\* A step of one iteration: what it must show of that iteration, and that errors are kept.
LEMMA OneItem ==
  ASSUME EachInv, NEW i \in Item, UNCHANGED loop,
         NEW to \in {"wait", "check", "run", "record", "release", "unwind", "recover", "done"},
         NEW s \in Status,
         it' = [it EXCEPT ![i] = to], res' = [res EXCEPT ![i] = s],
         errs' = errs \/ errs' = errs \cup {i},
         s = "failed" => i \in errs' \/ to = "record",
         to \in {"record", "release", "done"} => s # "none"
  PROVE  EachInv'
<1>1. Item' = Item
  BY DEF Item
<1>2. EachType'
  BY <1>1 DEF EachInv, EachType
<1>3. FailureRecorded'
  BY <1>1 DEF EachInv, EachType, FailureRecorded
<1>4. ResultStored'
  BY <1>1 DEF EachInv, EachType, ResultStored
<1> QED
  BY <1>2, <1>3, <1>4 DEF EachInv

LEMMA StepEach ==
  ASSUME EachInv, [LoopNext]_loopVars
  PROVE  EachInv'
<1>1. CASE \/ StartRepeat \/ DelayCancelled \/ Iterate \/ Until \/ Judge \/ NextIteration
           \/ Aggregate \/ StartInclude \/ NestedRun \/ Panic \/ RetryLoop \/ Cancel
           \/ UNCHANGED loopVars
  BY <1>1, EachAlone DEF StartRepeat, DelayCancelled, Iterate, Until, Judge, NextIteration,
     Aggregate, StartInclude, NestedRun, Panic, RetryLoop, Cancel, repeatVars, eachVars, loopVars
<1>2. CASE StartForEach
  BY <1>2 DEF StartForEach, EachInv, EachType, FailureRecorded, ResultStored, Item, Status
<1>3. ASSUME NEW i \in Item, Admit(i) \/ CheckErrors(i) \/ RunItemPanics(i) \/ ReleaseSlot(i)
      PROVE  EachInv'
  <2>1. /\ res[i] \in Status
        /\ res[i] = "failed" => i \in errs \/ it[i] = "record"
        /\ it[i] \in {"record", "release"} => res[i] # "none"
        /\ res = [res EXCEPT ![i] = res[i]]
    BY DEF EachInv, EachType, FailureRecorded, ResultStored
  <2>2. CASE Admit(i)
    <3>1. CASE Move(i, "wait", "check") /\ UNCHANGED <<loop, res, errs>>
      BY <2>1, <3>1, OneItem DEF Move
    <3>2. CASE Move(i, "wait", "done") /\ StoreOutcome(i, "cancelled") /\ UNCHANGED <<loop, errs>>
      BY <3>2, OneItem DEF Move, StoreOutcome, Status
    <3> QED
      BY <2>2, <3>1, <3>2 DEF Admit
  <2>3. CASE CheckErrors(i)
    <3>1. CASE Move(i, "check", "run") /\ UNCHANGED <<loop, res, errs>>
      BY <2>1, <3>1, OneItem DEF Move
    <3>2. CASE Move(i, "check", "release") /\ StoreOutcome(i, "cancelled") /\ UNCHANGED <<loop, errs>>
      BY <3>2, OneItem DEF Move, StoreOutcome, Status
    <3> QED
      BY <2>3, <3>1, <3>2 DEF CheckErrors
  <2>4. CASE RunItemPanics(i)
    BY <2>1, <2>4, OneItem DEF RunItemPanics, Move
  <2>5. CASE ReleaseSlot(i)
    BY <2>1, <2>5, OneItem DEF ReleaseSlot, Move
  <2> QED
    BY <1>3, <2>2, <2>3, <2>4, <2>5
<1>4. ASSUME NEW i \in Item, RunItem(i)
      PROVE  EachInv'
  <2>1. PICK o \in ItemOutcome :
          Move(i, "run", IF o = "failed" THEN "record" ELSE "release") /\ StoreOutcome(i, o)
    BY <1>4 DEF RunItem
  <2>2. o \in Status /\ o # "none"
    BY DEF ItemOutcome, AgentOutcome, Status
  <2> QED
    BY <1>4, <2>1, <2>2, OneItem DEF RunItem, Move, StoreOutcome
<1>5. ASSUME NEW i \in Item, RecordError(i)
      PROVE  EachInv'
  <2>1. CASE Move(i, "record", "release") /\ UNCHANGED res
    <3>1. res[i] \in Status \ {"none"} /\ res = [res EXCEPT ![i] = res[i]]
      BY <2>1 DEF EachInv, EachType, ResultStored, Move
    <3> QED
      BY <1>5, <2>1, <3>1, OneItem DEF RecordError, Move
  <2>2. CASE Move(i, "recover", "done") /\ StoreOutcome(i, "failed")
    BY <1>5, <2>2, OneItem DEF RecordError, Move, StoreOutcome, Status
  <2> QED
    BY <1>5, <2>1, <2>2 DEF RecordError
<1> QED
  BY <1>1, <1>2, <1>3, <1>4, <1>5 DEF LoopNext

\* In every forEach loop, no iteration starts once a failed one has given its slot up:
\* an error is recorded under the lock before the deferred release (executor_loop.go).
THEOREM FailFastCorrect ==
  LoopSpec => FailFast
<1>1. LoopInit => EachInv
  BY InitEach
<1>2. EachInv /\ [LoopNext]_loopVars => EachInv'
  BY StepEach
<1>3. ASSUME EachInv, [LoopNext]_loopVars
      PROVE  [\A i \in Item : (it[i] = "check" /\ it'[i] = "run")
                => \A j \in Item : ~(res[j] = "failed" /\ j \notin Holding)]_loopVars
  <2> SUFFICES ASSUME LoopNext, NEW i \in Item, it[i] = "check", it'[i] = "run",
                      NEW j \in Item, res[j] = "failed", j \notin Holding
               PROVE  FALSE
    BY <1>3
  <2>1. errs = {}
    <3>1. CASE \/ StartRepeat \/ DelayCancelled \/ Iterate \/ Until \/ Judge \/ NextIteration
               \/ Aggregate \/ StartInclude \/ NestedRun \/ Panic \/ RetryLoop \/ Cancel
      BY <3>1 DEF StartRepeat, DelayCancelled, Iterate, Until, Judge, NextIteration,
         Aggregate, StartInclude, NestedRun, Panic, RetryLoop, Cancel, repeatVars, eachVars, loopVars
    <3>2. CASE StartForEach
      BY <3>2 DEF StartForEach, Item
    <3>3. ASSUME NEW k \in Item,
                 Admit(k) \/ RunItem(k) \/ RunItemPanics(k) \/ RecordError(k) \/ ReleaseSlot(k)
          PROVE  FALSE
      BY <1>3, <3>3 DEF Admit, RunItem, RunItemPanics, RecordError, ReleaseSlot, Move,
         EachInv, EachType
    <3>4. ASSUME NEW k \in Item, CheckErrors(k)
          PROVE  errs = {}
      BY <1>3, <3>4 DEF CheckErrors, Move, EachInv, EachType
    <3> QED
      BY <3>1, <3>2, <3>3, <3>4 DEF LoopNext
  <2> QED
    BY <1>3, <2>1 DEF EachInv, FailureRecorded, Holding
<1> QED
  BY <1>1, <1>2, <1>3, PTL DEF LoopSpec, FailFast
-------------------------------------------------------------------------------
\* Each kind of step has places of its own.
Places ==
  /\ pc \in {"iterate", "until", "judge", "next"} => loop.kind = "repeat"
  /\ pc = "parallel" => loop.kind = "forEach"
  /\ pc = "nested" => loop.kind = "include"

\* The reason is known as soon as the attempt has ended.
Reason ==
  CASE loop.kind = "repeat" ->
         \/ reason = "until" /\ loop.until
         \/ reason = "done" /\ loop.judge = "known"
         \/ reason = "exhausted" /\ ~loop.until /\ loop.judge = "none" /\ iteration = MaxIter
    [] loop.kind = "forEach" -> \A i \in Item : res[i] = "completed"
    [] OTHER -> reason = "nested"
Explained == pc \in {"return", "done"} /\ last = "completed" => Reason

SlotsLimited == loop.kind = "forEach" => Cardinality(Holding) <= ConcLimit

ReasonInv == EachInv /\ Places /\ Explained

LEMMA InitReason ==
  LoopInit => ReasonInv
BY InitEach DEF LoopInit, ReasonInv, Places, Explained

LEMMA StepReason ==
  ASSUME ReasonInv, [LoopNext]_loopVars
  PROVE  ReasonInv'
<1> USE DEF ReasonInv, Places
<1>1. EachInv'
  BY StepEach
<1>2. Places' /\ Explained'
  <2>1. CASE StartRepeat \/ DelayCancelled \/ Iterate \/ Judge
    BY <2>1 DEF StartRepeat, DelayCancelled, Iterate, Judge, Ends, Proceed, Explained, Reason
  <2>2. CASE Until
    BY <2>2 DEF Until, Ends, Explained, Reason
  <2>3. CASE NextIteration
    BY <2>3 DEF NextIteration, Ends, Explained, Reason, MaxIter
  <2>4. CASE StartForEach
    BY <2>4 DEF StartForEach, Explained
  <2>5. CASE Aggregate
    <3>1. last' = "completed" => \A i \in Item : res[i] = "completed"
      BY <2>5 DEF Aggregate, EachInv, EachType, ResultStored, Status
    <3> QED
      BY <2>5, <3>1 DEF Aggregate, Explained, Reason, Item, eachVars
  <2>6. CASE StartInclude \/ NestedRun \/ Panic
    BY <2>6 DEF StartInclude, NestedRun, Panic, Proceed, Explained, Reason
  <2>7. CASE RetryLoop \/ Cancel \/ UNCHANGED loopVars
    BY <2>7 DEF RetryLoop, Cancel, loopVars, repeatVars, eachVars, Explained, Reason, Item, MaxIter
  <2>8. ASSUME NEW i \in Item, \/ Admit(i) \/ CheckErrors(i) \/ RunItem(i) \/ RunItemPanics(i)
                               \/ RecordError(i) \/ ReleaseSlot(i)
        PROVE  Places' /\ Explained'
    BY <2>8 DEF Admit, CheckErrors, RunItem, RunItemPanics, RecordError, ReleaseSlot, Move, Explained
  <2> QED
    BY <2>1, <2>2, <2>3, <2>4, <2>5, <2>6, <2>7, <2>8 DEF LoopNext
<1> QED
  BY <1>1, <1>2

LEMMA StepSlots ==
  ASSUME EachInv, SlotsLimited, [LoopNext]_loopVars
  PROVE  SlotsLimited'
<1> SUFFICES ASSUME loop.kind = "forEach", loop' = loop PROVE Cardinality(Holding') <= ConcLimit
  <2>1. loop' = loop
    BY DEF LoopNext, loopVars, StartRepeat, DelayCancelled, Iterate, Until, Judge, NextIteration,
       StartForEach, Aggregate, Admit, CheckErrors, RunItem, RunItemPanics, RecordError,
       ReleaseSlot, StartInclude, NestedRun, Panic, RetryLoop, Cancel
  <2> QED
    BY <2>1 DEF SlotsLimited
<1>1. /\ loop.items \in Nat /\ loop.conc \in Int /\ ConcLimit \in Nat
      /\ Item = 1 .. loop.items /\ Item' = Item
  BY LoopAssumption DEF LoopType, EachInv, EachType, Item
<1>2. IsFiniteSet(Item)
  BY <1>1, FS_Interval
<1>3. IsFiniteSet(Holding) /\ Cardinality(Holding) \in Nat /\ Cardinality(Holding) <= ConcLimit
  BY <1>2, FS_Subset, FS_CardinalityType DEF Holding, SlotsLimited
<1>4. Holding' \subseteq Holding => Cardinality(Holding') <= ConcLimit
  <2>1. SUFFICES ASSUME Holding' \subseteq Holding PROVE Cardinality(Holding') <= ConcLimit
    OBVIOUS
  <2>2. Cardinality(Holding') \in Nat /\ Cardinality(Holding') <= Cardinality(Holding)
    BY <1>3, <2>1, FS_Subset, FS_CardinalityType
  <2> QED
    BY <1>1, <1>3, <2>2
<1>5. CASE \/ StartRepeat \/ DelayCancelled \/ Iterate \/ Until \/ Judge \/ NextIteration
           \/ StartForEach \/ Aggregate \/ StartInclude \/ NestedRun \/ Panic \/ RetryLoop \/ Cancel
           \/ UNCHANGED loopVars
  <2>1. Holding' \subseteq Holding
    BY <1>1, <1>5 DEF StartRepeat, DelayCancelled, Iterate, Until, Judge, NextIteration,
       StartForEach, Aggregate, StartInclude, NestedRun, Panic, RetryLoop, Cancel, repeatVars,
       eachVars, loopVars, Holding
  <2> QED
    BY <1>4, <2>1
<1>6. ASSUME NEW i \in Item, CheckErrors(i) \/ RunItem(i) \/ RunItemPanics(i) \/ RecordError(i)
                              \/ ReleaseSlot(i)
      PROVE  Cardinality(Holding') <= ConcLimit
  <2>1. Holding' \subseteq Holding
    BY <1>1, <1>6 DEF CheckErrors, RunItem, RunItemPanics, RecordError, ReleaseSlot, Move,
       Holding, EachInv, EachType
  <2> QED
    BY <1>4, <2>1
<1>7. ASSUME NEW i \in Item, Admit(i)
      PROVE  Cardinality(Holding') <= ConcLimit
  <2>1. CASE ~(Cardinality(Holding) < SlotLimit /\ Move(i, "wait", "check"))
    <3>1. Holding' \subseteq Holding
      BY <1>1, <1>7, <2>1 DEF Admit, Move, Holding, EachInv, EachType
    <3> QED
      BY <1>4, <3>1
  <2>2. CASE Cardinality(Holding) < SlotLimit /\ Move(i, "wait", "check")
    <3>1. Holding' = Holding \cup {i} /\ i \notin Holding
      BY <1>1, <2>2 DEF Move, Holding, EachInv, EachType
    <3>2. Cardinality(Holding') = Cardinality(Holding) + 1
      BY <1>3, <3>1, FS_AddElement
    <3>3. SlotLimit \in Int /\ SlotLimit <= ConcLimit
      BY <1>1 DEF SlotLimit
    <3> QED
      BY <1>1, <1>3, <2>2, <3>2, <3>3
  <2> QED
    BY <2>1, <2>2
<1> QED
  BY <1>5, <1>6, <1>7 DEF LoopNext

\* A loop or include that is reported completed is so for a reason, and a forEach loop
\* never holds more slots than its limit, for any limits and items (executor_loop.go,
\* executor_include.go).
THEOREM CompletedForAReasonCorrect ==
  LoopSpec => []CompletedForAReason
<1>1. LoopInit => ReasonInv /\ SlotsLimited
  <2> SUFFICES ASSUME LoopInit PROVE SlotsLimited
    BY InitReason
  <2>1. Holding = {}
    BY DEF LoopInit, Holding
  <2> QED
    BY <2>1, FS_EmptySet, LoopAssumption DEF SlotsLimited
<1>2. ReasonInv /\ SlotsLimited /\ [LoopNext]_loopVars => (ReasonInv /\ SlotsLimited)'
  BY StepReason, StepSlots DEF ReasonInv
<1>3. ReasonInv /\ SlotsLimited => CompletedForAReason
  BY DEF ReasonInv, Explained, Reason, SlotsLimited, CompletedForAReason
<1> QED
  BY <1>1, <1>2, <1>3, PTL DEF LoopSpec
-------------------------------------------------------------------------------
\* While the items of a forEach loop run, what is spent is what they have paid, and only
\* an iteration that has run has paid.
ItemsPaid ==
  /\ paid \subseteq Item
  /\ pc = "parallel" =>
       /\ spent = Cardinality(paid)
       /\ \A i \in paid : it[i] \notin {"wait", "check", "run"}

\* Everywhere else the result has the tokens that were spent, but after a panic.
TokensSpent ==
  /\ spent \in Nat /\ tokens \in Nat
  /\ reason = "panic" => pc = "done" /\ tokens = 0
  /\ pc # "parallel" /\ reason # "panic" => tokens = spent

SpendInv == ItemsPaid /\ TokensSpent

\* The items of a loop are finitely many.
LEMMA ItemsFinite ==
  ASSUME EachInv PROVE IsFiniteSet(Item)
<1>1. CASE loop.kind = "forEach"
  <2>1. loop.items \in Nat
    BY <1>1, LoopAssumption DEF LoopType, EachInv, EachType
  <2> QED
    BY <1>1, <2>1, FS_Interval DEF Item
<1>2. CASE loop.kind # "forEach"
  BY <1>2, FS_EmptySet DEF Item
<1> QED
  BY <1>1, <1>2

LEMMA InitSpend ==
  LoopInit => SpendInv
BY DEF LoopInit, SpendInv, ItemsPaid, TokensSpent

\* A step that leaves the items alone: what it must show of the tokens.
LEMMA ItemsAlone ==
  ASSUME SpendInv, UNCHANGED <<loop, it, paid>>, TokensSpent',
         pc' = "parallel" => pc = "parallel" /\ spent' = spent
  PROVE  SpendInv'
BY DEF SpendInv, ItemsPaid, Item

LEMMA StepSpend ==
  ASSUME ReasonInv, SpendInv, [LoopNext]_loopVars
  PROVE  SpendInv'
<1> USE DEF SpendInv
<1>1. CASE StartRepeat \/ DelayCancelled \/ Until \/ NextIteration \/ StartInclude
  BY <1>1, ItemsAlone DEF StartRepeat, DelayCancelled, Until, NextIteration, StartInclude,
     Proceed, Ends, eachVars, TokensSpent
<1>2. CASE Iterate \/ Judge \/ NestedRun
  <2>1. \A t \in Spend : t \in Nat
    BY DEF Spend
  <2>2. TokensSpent' /\ pc' # "parallel" /\ UNCHANGED <<loop, it, paid>>
    <3>1. CASE Iterate
      BY <2>1, <3>1 DEF Iterate, TokensSpent, eachVars
    <3>2. CASE Judge
      BY <2>1, <3>2 DEF Judge, Ends, TokensSpent, eachVars
    <3>3. CASE NestedRun
      BY <2>1, <3>3 DEF NestedRun, TokensSpent, eachVars
    <3> QED
      BY <1>2, <3>1, <3>2, <3>3
  <2> QED
    BY <2>2, ItemsAlone
<1>3. CASE Panic \/ RetryLoop \/ Cancel \/ UNCHANGED loopVars
  BY <1>3, ItemsAlone DEF Panic, RetryLoop, Cancel, loopVars, Proceed, repeatVars, eachVars,
     TokensSpent
<1>4. CASE StartForEach
  <2>1. TokensSpent'
    BY <1>4 DEF StartForEach, TokensSpent
  <2>2. ItemsPaid'
    BY <1>4, FS_EmptySet DEF StartForEach, ItemsPaid
  <2> QED
    BY <2>1, <2>2
<1>5. CASE Aggregate
  BY <1>5, ItemsAlone DEF Aggregate, ItemsPaid, TokensSpent, eachVars
<1>6. ASSUME NEW i \in Item, Admit(i) \/ CheckErrors(i) \/ RunItemPanics(i) \/ RecordError(i)
                              \/ ReleaseSlot(i)
      PROVE  SpendInv'
  <2>1. UNCHANGED <<loop, pc, paid, spent, tokens, reason>> /\ Item' = Item
    BY <1>6 DEF Admit, CheckErrors, RunItemPanics, RecordError, ReleaseSlot, repeatVars, Item
  <2>2. /\ pc = "parallel" /\ \A j \in Item \ {i} : it'[j] = it[j]
        /\ i \in paid => it'[i] \notin {"wait", "check", "run"}
    BY <1>6 DEF Admit, CheckErrors, RunItemPanics, RecordError, ReleaseSlot, Move, ReasonInv,
       EachInv, EachType, ItemsPaid
  <2> QED
    BY <2>1, <2>2 DEF ItemsPaid, TokensSpent
<1>7. ASSUME NEW i \in Item, RunItem(i)
      PROVE  SpendInv'
  <2>1. PICK t \in Spend :
          paid' = (IF t = 1 THEN paid \cup {i} ELSE paid) /\ spent' = spent + t
    BY <1>7 DEF RunItem
  <2>2. /\ pc = "parallel" /\ UNCHANGED <<loop, pc, reason, tokens>> /\ Item' = Item
        /\ i \notin paid /\ it'[i] \in {"record", "release"}
        /\ \A j \in Item \ {i} : it'[j] = it[j]
    BY <1>7 DEF RunItem, Move, Item, ItemsPaid, ReasonInv, EachInv, EachType
  <2>3. IsFiniteSet(paid)
    BY ItemsFinite, FS_Subset DEF ReasonInv, ItemsPaid
  <2>4. Cardinality(paid \cup {i}) = Cardinality(paid) + 1
    BY <2>2, <2>3, FS_AddElement
  <2>5. spent' = Cardinality(paid') /\ spent' \in Nat
    BY <2>1, <2>2, <2>4 DEF Spend, ItemsPaid, TokensSpent
  <2> QED
    BY <2>1, <2>2, <2>5 DEF ItemsPaid, TokensSpent
<1> QED
  BY <1>1, <1>2, <1>3, <1>4, <1>5, <1>6, <1>7 DEF LoopNext

\* A loop or include that is reported completed is so for a reason, within its limits, and
\* its result has the tokens its iterations spent, unless it is that of a recovered panic
\* (executor_loop.go, executor_include.go).
THEOREM LoopResultSoundCorrect ==
  LoopSpec => []LoopResultSound
<1>1. LoopInit => ReasonInv /\ SpendInv
  BY InitReason, InitSpend
<1>2. ReasonInv /\ SpendInv /\ [LoopNext]_loopVars => (ReasonInv /\ SpendInv)'
  BY StepReason, StepSpend
<1>3. SpendInv => SpendReported
  BY DEF SpendInv, TokensSpent, SpendReported
<1>4. LoopResultSound <=> CompletedForAReason /\ SpendReported
  BY DEF LoopResultSound
<1> QED
  BY <1>1, <1>2, <1>3, <1>4, CompletedForAReasonCorrect, PTL DEF LoopSpec
-------------------------------------------------------------------------------
(* Types, and the limits on attempts and iterations.                         *)

\* There is an attempt left where one begins, and an iteration left inside a repeat loop.
OneMoreLeft ==
  /\ pc \in {"attempt", "nested"} => attempt <= loop.retries
  /\ pc \in {"iterate", "until", "judge", "next"} => iteration < MaxIter

LimitsInv == LoopTypeOK /\ Places /\ OneMoreLeft

\* The numbers in a step of the workflow.
LEMMA LoopNumbers ==
  ASSUME loop \in Loops
  PROVE  /\ loop.retries \in Nat
         /\ loop.kind \in {"repeat", "forEach", "include"}
         /\ loop.kind = "repeat" => MaxIter \in Nat \ {0}
<1>1. loop \in LoopType
  BY LoopAssumption
<1>2. loop.kind = "repeat" => loop.max \in Int
  BY <1>1 DEF LoopType
<1> QED
  BY <1>1, <1>2, LoopAssumption DEF LoopType, MaxIter

LEMMA InitLimits ==
  LoopInit => LimitsInv
<1> SUFFICES ASSUME LoopInit PROVE LimitsInv
  OBVIOUS
<1>1. loop.retries \in Nat /\ (loop.kind = "repeat" => MaxIter \in Nat)
  BY LoopNumbers DEF LoopInit
<1>2. /\ it \in [Item -> {"wait", "check", "run", "record", "release", "unwind", "recover", "done"}]
      /\ res \in [Item -> Status] /\ paid \subseteq Item /\ errs \subseteq Item
  BY DEF LoopInit, Status
<1>3. /\ attempt \in 0 .. loop.retries + 1 /\ iteration \in Nat
      /\ loop.kind = "repeat" => iteration <= MaxIter
  BY <1>1 DEF LoopInit
<1>4. LoopTypeOK
  BY <1>2, <1>3 DEF LoopInit, LoopTypeOK, Status
<1> QED
  BY <1>1, <1>4 DEF LoopInit, LimitsInv, Places, OneMoreLeft

LEMMA StepLimits ==
  ASSUME LimitsInv, [LoopNext]_loopVars
  PROVE  LimitsInv'
<1>0. /\ loop.retries \in Nat
      /\ loop.kind = "repeat" => MaxIter \in Nat \ {0}
  BY LoopNumbers DEF LimitsInv, LoopTypeOK
<1> USE DEF LimitsInv, LoopTypeOK, Places, OneMoreLeft, repeatVars, eachVars
<1>1. ASSUME loop' = loop, UNCHANGED <<it, res, paid, errs>>,
             /\ pc' \in {"attempt", "iterate", "until", "judge", "next", "parallel", "nested",
                         "return", "done"}
             /\ attempt' \in 0 .. loop.retries + 1
             /\ iteration' \in Nat /\ (loop.kind = "repeat" => iteration' <= MaxIter)
             /\ last' \in Status
             /\ reason' \in {"none", "context", "iteration", "panic", "until", "condition", "judge",
                             "done", "exhausted", "items", "rejected", "nested"}
             /\ spent' \in Nat /\ tokens' \in Nat /\ ctxDone' \in BOOLEAN,
             Places', OneMoreLeft'
      PROVE  LimitsInv'
  <2>1. Item' = Item /\ (MaxIter' = MaxIter)
    BY <1>1 DEF Item, MaxIter
  <2> QED
    BY <1>1, <2>1
<1>2. CASE StartRepeat \/ DelayCancelled \/ Until \/ NextIteration
  <2>1. MaxIter' = MaxIter
    BY <1>2 DEF StartRepeat, DelayCancelled, Until, NextIteration, MaxIter
  <2> QED
    BY <1>0, <1>1, <1>2, <2>1 DEF StartRepeat, DelayCancelled, Until, NextIteration, Ends, Proceed,
       Status
<1>3. CASE Iterate \/ Judge
  <2>1. MaxIter' = MaxIter
    BY <1>3 DEF Iterate, Judge, MaxIter
  <2>2. RepeatOutcome \subseteq Status /\ Spend \subseteq Nat
    BY DEF RepeatOutcome, AgentOutcome, Status, Spend
  <2> QED
    BY <1>0, <1>1, <1>3, <2>1, <2>2 DEF Iterate, Judge, Ends, Status
<1>4. CASE StartForEach
  BY <1>0, <1>4 DEF StartForEach, Item, Status
<1>5. CASE Aggregate
  <2>1. IsFiniteSet(Item)
    <3>1. CASE loop.kind = "forEach"
      <4>1. loop.items \in Nat
        BY <3>1, LoopAssumption DEF LoopType
      <4> QED
        BY <3>1, <4>1, FS_Interval DEF Item
    <3>2. CASE loop.kind # "forEach"
      BY <3>2, FS_EmptySet DEF Item
    <3> QED
      BY <3>1, <3>2
  <2>2. Cardinality(paid) \in Nat
    BY <2>1, FS_Subset, FS_CardinalityType
  <2> QED
    BY <1>0, <1>1, <1>5, <2>2 DEF Aggregate, Status
<1>6. CASE StartInclude \/ NestedRun
  <2>1. Spend \subseteq Nat
    BY DEF Spend
  <2> QED
    BY <1>0, <1>1, <1>6, <2>1 DEF StartInclude, NestedRun, Proceed, Status
<1>7. CASE Panic \/ RetryLoop \/ Cancel \/ UNCHANGED loopVars
  <2>1. MaxIter' = MaxIter /\ UNCHANGED <<loop, attempt, iteration, it, res, paid, errs>>
    BY <1>7 DEF Panic, RetryLoop, Cancel, loopVars, MaxIter
  <2>2. CASE Cancel \/ UNCHANGED loopVars
    <3>1. UNCHANGED <<pc, last, reason, spent, tokens>> /\ ctxDone' \in BOOLEAN
      BY <2>2 DEF Cancel, loopVars
    <3>2. Places' /\ OneMoreLeft'
      BY <2>1, <3>1
    <3> QED
      BY <1>1, <2>1, <3>1, <3>2
  <2>3. CASE Panic
    BY <1>0, <1>1, <2>1, <2>3 DEF Panic, Proceed, Status
  <2>4. CASE RetryLoop
    BY <1>0, <1>1, <2>1, <2>4 DEF RetryLoop
  <2> QED
    BY <1>7, <2>2, <2>3, <2>4
<1>8. ASSUME NEW i \in Item, \/ Admit(i) \/ CheckErrors(i) \/ RunItem(i) \/ RunItemPanics(i)
                              \/ RecordError(i) \/ ReleaseSlot(i)
      PROVE  LimitsInv'
  <2>1. /\ UNCHANGED <<loop, pc, attempt, iteration, last, reason, tokens, ctxDone>>
        /\ Item' = Item /\ (loop.kind = "repeat" => MaxIter' = MaxIter)
        /\ pc = "parallel"
    BY <1>8 DEF Admit, CheckErrors, RunItem, RunItemPanics, RecordError, ReleaseSlot, Move, Item,
       MaxIter
  <2>2. ItemOutcome \subseteq Status /\ Spend \subseteq Nat
    BY DEF ItemOutcome, AgentOutcome, Status, Spend
  <2>3. /\ it' \in [Item -> {"wait", "check", "run", "record", "release", "unwind", "recover", "done"}]
        /\ res' \in [Item -> Status] /\ paid' \subseteq Item /\ errs' \subseteq Item
        /\ spent' \in Nat
    BY <1>8, <2>2 DEF Admit, CheckErrors, RunItem, RunItemPanics, RecordError, ReleaseSlot, Move,
       StoreOutcome, Status
  <2> QED
    BY <2>1, <2>3
<1> QED
  BY <1>2, <1>3, <1>4, <1>5, <1>6, <1>7, <1>8 DEF LoopNext

\* The goroutine of a loop or an include starts no attempt beyond its retries and no iteration
\* beyond its limit, through retries, panics and a context that ends (executor_loop.go and
\* executor_include.go).
THEOREM LoopTypeCorrect ==
  LoopSpec => []LoopTypeOK
<1>1. LoopInit => LimitsInv
  BY InitLimits
<1>2. LimitsInv /\ [LoopNext]_loopVars => LimitsInv'
  BY StepLimits
<1>3. LimitsInv => LoopTypeOK
  BY DEF LimitsInv
<1> QED
  BY <1>1, <1>2, <1>3, PTL DEF LoopSpec
=============================================================================

--------------------------- MODULE StepResumeProofs ---------------------------
(***************************************************************************)
(* Proofs about StepResume, for any number of forwarded messages, any cap, *)
(* any transcript, and any moment of an abort or a timeout; then about the *)
(* coordinator's mail in it (CoordBridge), for any messages pushed and     *)
(* routed and any number of resumes that reply.                            *)
(***************************************************************************)
EXTENDS StepResume, TLAPS, FiniteSetTheorems

ResumeType ==
  /\ req \in [Request -> ReqPC]
  /\ owner \in Request \cup {None}
  /\ into \in [Request -> Request \cup {None}]
  /\ mbox \in [Request -> SUBSET Request]
  /\ fate \in [Request -> {"none", "refused", "queued", "full", "failed", "started"}]
  /\ heard \in [Request -> {0, 1}] /\ lost \in [Request -> {0, 1}] /\ told \in [Request -> {0, 1}]
  /\ transcript \in Transcripts /\ model \in Models /\ aborted \in BOOLEAN

OneOwner == \A r \in Request : Owns(r) <=> owner = r

\* What a call has returned and counted, by the place it is at.
Fates ==
  \A r \in Request :
    /\ req[r] \in {"idle"} \cup Caller => fate[r] = "none" /\ told[r] = 0
    /\ req[r] \in Live \cup {"panicked"} => fate[r] = "started"
    /\ req[r] \in (Live \ {"release"}) \cup {"panicked"} => told[r] = 0
    /\ req[r] = "release" => told[r] = 1
    /\ req[r] = "done" /\ fate[r] = "started" => told[r] = 1
    /\ req[r] = "done" => fate[r] # "none"

\* Only a message that was queued is counted as heard, and only that or one refused by a
\* full mailbox as lost.
Counted ==
  \A r \in Request :
    /\ fate[r] # "queued" => heard[r] = 0
    /\ fate[r] \notin {"queued", "full"} => lost[r] = 0
    /\ req[r] = "queue" \/ fate[r] = "queued" => into[r] \in Request

\* A mailbox holds what was queued to it and neither heard nor lost yet.
Boxes ==
  \A q, r \in Request :
    r \in mbox[q] => fate[r] = "queued" /\ into[r] = q /\ heard[r] = 0 /\ lost[r] = 0
Kept ==
  \A r \in Request :
    fate[r] = "queued" => r \in mbox[into[r]] \/ heard[r] + lost[r] = 1

Capped == \A q \in Request : Cap > 0 => Cardinality(mbox[q]) <= Cap

IInv == ResumeType /\ OneOwner /\ Fates /\ Counted /\ Boxes /\ Kept /\ Capped

LEMMA InitInv ==
  Init => IInv
<1> SUFFICES ASSUME Init PROVE IInv
  OBVIOUS
<1> USE ResumeAssumption DEF Init
<1>1. ResumeType
  BY DEF ResumeType, ReqPC
<1>2. OneOwner /\ Fates
  BY DEF OneOwner, Fates, Owns, Caller, Live
<1>3. Counted /\ Boxes /\ Kept
  BY DEF Counted, Boxes, Kept
<1>4. Capped
  BY FS_EmptySet DEF Capped
<1> QED
  BY <1>1, <1>2, <1>3, <1>4 DEF IInv

\* A runner that goes on by itself keeps its mailbox, and nothing is counted.
LEMMA RunnerMoves ==
  ASSUME IInv, NEW r \in Request, NEW to \in Live \ {"release"},
         req[r] \in Live \ {"release"}, req' = [req EXCEPT ![r] = to],
         UNCHANGED <<owner, into, mbox, fate, heard, lost, told, constVars>>
  PROVE  IInv'
<1> USE DEF IInv, constVars
<1>1. ResumeType'
  BY DEF ResumeType, ReqPC
<1>2. OneOwner' /\ Fates'
  BY DEF OneOwner, Fates, Owns, Caller, Live, ResumeType
<1>3. Counted' /\ Boxes' /\ Kept' /\ Capped'
  BY DEF Counted, Boxes, Kept, Capped, Live, ResumeType
<1> QED
  BY <1>1, <1>2, <1>3

\* A runner that takes what is in its mailbox, or drops it.
LEMMA RunnerEmpties ==
  ASSUME IInv, NEW r \in Request, NEW to \in Live \ {"release"},
         req[r] \in Live \ {"release"}, req' = [req EXCEPT ![r] = to],
         mbox' = [mbox EXCEPT ![r] = {}],
         \/ heard' = Count(heard, mbox[r]) /\ UNCHANGED lost
         \/ lost' = Count(lost, mbox[r]) /\ UNCHANGED heard,
         UNCHANGED <<owner, into, fate, told, constVars>>
  PROVE  IInv'
<1> USE DEF IInv, constVars, Count
<1>1. ResumeType'
  BY DEF ResumeType, ReqPC, Boxes
<1>2. OneOwner' /\ Fates'
  BY DEF OneOwner, Fates, Owns, Caller, Live, ResumeType
<1>3. Counted'
  BY DEF Counted, Boxes, Live, ResumeType
<1>4. Boxes'
  BY DEF Boxes, ResumeType
<1>5. Kept'
  BY DEF Kept, Boxes, Counted, ResumeType
<1>6. Capped'
  <2> SUFFICES ASSUME NEW q \in Request, Cap > 0 PROVE Cardinality(mbox'[q]) <= Cap
    BY DEF Capped
  <2>1. CASE q = r
    BY <2>1, FS_EmptySet, ResumeAssumption DEF ResumeType
  <2>2. CASE q # r
    BY <2>2 DEF Capped, ResumeType
  <2> QED
    BY <2>1, <2>2
<1> QED
  BY <1>1, <1>2, <1>3, <1>4, <1>5, <1>6

LEMMA ForwardInv ==
  ASSUME IInv, NEW r \in Request, Forward(r)
  PROVE  IInv'
<1> USE ResumeAssumption DEF IInv, Forward, Goto, Returns, constVars
<1>1. ResumeType'
  BY DEF ResumeType, ReqPC, Caller, Live
<1>2. OneOwner'
  BY DEF OneOwner, Owns, Caller, Live, ResumeType
<1>3. Fates'
  BY DEF Fates, Caller, Live, ResumeType
<1>4. Counted' /\ Boxes' /\ Kept' /\ Capped'
  BY DEF Counted, Boxes, Kept, Capped, Fates, Caller, ResumeType
<1> QED
  BY <1>1, <1>2, <1>3, <1>4

LEMMA EnqueueInv ==
  ASSUME IInv, NEW r \in Request, Enqueue(r)
  PROVE  IInv'
<1> USE DEF IInv, Enqueue, Goto, Returns, Tell, constVars
<1>1. /\ into[r] \in Request /\ fate[r] = "none" /\ told[r] = 0 /\ heard[r] = 0 /\ lost[r] = 0
      /\ \A q \in Request : r \notin mbox[q]
  BY DEF Fates, Counted, Boxes, Caller, ResumeType
<1>2. ResumeType'
  BY <1>1 DEF ResumeType, ReqPC
<1>3. OneOwner' /\ Fates'
  BY <1>1 DEF OneOwner, Owns, Fates, Caller, Live, ResumeType
<1>4. Counted'
  BY <1>1 DEF Counted, ResumeType
<1>5. Boxes'
  BY <1>1 DEF Boxes, ResumeType
<1>6. Kept'
  <2> SUFFICES ASSUME NEW u \in Request, fate'[u] = "queued", heard'[u] + lost'[u] # 1
               PROVE  u \in mbox'[into'[u]]
    BY DEF Kept
  <2>1. CASE u = r
    BY <1>1, <2>1 DEF ResumeType
  <2>2. CASE u # r
    <3>1. fate[u] = "queued" /\ into[u] \in Request /\ heard[u] + lost[u] # 1
      BY <2>2 DEF ResumeType, Counted
    <3>2. u \in mbox[into[u]]
      BY <3>1 DEF Kept
    <3> QED
      BY <1>1, <3>1, <3>2 DEF ResumeType
  <2> QED
    BY <2>1, <2>2
<1>7. Capped'
  <2> SUFFICES ASSUME NEW q \in Request, Cap > 0 PROVE Cardinality(mbox'[q]) <= Cap
    BY DEF Capped
  <2>1. CASE mbox'[q] = mbox[q]
    BY <2>1 DEF Capped
  <2>2. CASE mbox'[q] # mbox[q]
    <3>1. q = into[r] /\ Room(q) /\ mbox'[q] = mbox[q] \cup {r} /\ r \notin mbox[q]
      BY <1>1, <2>2 DEF ResumeType
    <3>2. IsFiniteSet(mbox[q])
      BY FS_Subset, ResumeAssumption DEF ResumeType
    <3>3. Cardinality(mbox'[q]) = Cardinality(mbox[q]) + 1 /\ Cardinality(mbox[q]) \in Nat
      BY <3>1, <3>2, FS_AddElement, FS_CardinalityType
    <3> QED
      BY <3>1, <3>3, ResumeAssumption DEF Room
  <2> QED
    BY <2>1, <2>2
<1> QED
  BY <1>2, <1>3, <1>4, <1>5, <1>6, <1>7

LEMMA LoadInv ==
  ASSUME IInv, NEW r \in Request, Load(r)
  PROVE  IInv'
<1> USE ResumeAssumption DEF IInv, Load, Goto, Returns, Tell, ReleaseState, constVars
<1>1. req[r] = "load" /\ fate[r] = "none" /\ told[r] = 0 /\ owner = r
  BY DEF Fates, OneOwner, Owns, Caller
<1>2. ResumeType'
  BY <1>1 DEF ResumeType, ReqPC, Live
<1>3. OneOwner'
  BY <1>1 DEF OneOwner, Owns, Caller, Live, ResumeType
<1>4. Fates'
  BY <1>1 DEF Fates, Caller, Live, ResumeType
<1>5. Counted' /\ Boxes' /\ Kept' /\ Capped'
  BY <1>1 DEF Counted, Boxes, Kept, Capped, ResumeType
<1> QED
  BY <1>2, <1>3, <1>4, <1>5

\* The end is reported, then the state is released.
LEMMA ReportInv ==
  ASSUME IInv, NEW r \in Request, Report(r) \/ Release(r)
  PROVE  IInv'
<1> USE ResumeAssumption DEF IInv, Report, Release, Goto, Tell, ReleaseState, constVars
<1>1. req[r] \in Live /\ fate[r] = "started" /\ owner = r
  BY DEF Fates, OneOwner, Owns, Live
<1>2. CASE Report(r)
  <2>1. told[r] = 0
    BY <1>2 DEF Fates, Live
  <2>2. ResumeType'
    BY <1>2, <2>1 DEF ResumeType, ReqPC, Live
  <2>3. OneOwner' /\ Fates'
    BY <1>1, <1>2, <2>1 DEF OneOwner, Owns, Fates, Caller, Live, ResumeType
  <2>4. Counted' /\ Boxes' /\ Kept' /\ Capped'
    BY <1>2 DEF Counted, Boxes, Kept, Capped, Live, ResumeType
  <2> QED
    BY <2>2, <2>3, <2>4
<1>3. CASE Release(r)
  <2>1. ResumeType'
    BY <1>3 DEF ResumeType, ReqPC
  <2>2. OneOwner'
    BY <1>1, <1>3 DEF OneOwner, Owns, Caller, Live, ResumeType
  <2>3. Fates'
    BY <1>1, <1>3 DEF Fates, Caller, Live, ResumeType
  <2>4. Counted' /\ Boxes' /\ Kept' /\ Capped'
    BY <1>3 DEF Counted, Boxes, Kept, Capped, ResumeType
  <2> QED
    BY <2>1, <2>2, <2>3, <2>4
<1> QED
  BY <1>2, <1>3

\* Nothing of the bridge, the coordinator or Run touches the resume.
LEMMA ResumeAlone ==
  ASSUME IInv, UNCHANGED resumeVars
  PROVE  IInv'
BY DEF IInv, resumeVars, ResumeType, OneOwner, Owns, Fates, Counted, Boxes, Kept, Capped

LEMMA StepInv ==
  ASSUME IInv, [Next]_vars
  PROVE  IInv'
<1>1. CASE UNCHANGED resumeVars
  BY <1>1, ResumeAlone
<1>2. ASSUME NEW r \in Request, Forward(r) \/ Enqueue(r) \/ Load(r) \/ Report(r) \/ Release(r)
      PROVE  IInv'
  BY <1>2, ForwardInv, EnqueueInv, LoadInv, ReportInv
<1>3. ASSUME NEW r \in Request,
             \/ Begin(r) \/ RunnerTakes(r) \/ RunnerCalls(r) \/ RunnerLooks(r) \/ RunnerLeaves(r)
             \/ ReverseReply(r)
      PROVE  IInv'
  <2>1. CASE Begin(r)
    BY <2>1, RunnerMoves, RunnerEmpties DEF Begin, Goto, Drain, Live
  <2>2. CASE RunnerTakes(r)
    BY <2>2, RunnerEmpties DEF RunnerTakes, Goto, Drain, Live
  <2>3. CASE RunnerCalls(r) \/ RunnerLooks(r)
    BY <2>3, RunnerMoves DEF RunnerCalls, RunnerLooks, Goto, Live
  <2>4. CASE RunnerLeaves(r)
    BY <2>4, RunnerEmpties DEF RunnerLeaves, DropUnread, Goto, Live
  <2>5. CASE ReverseReply(r)
    BY <2>5, RunnerMoves DEF ReverseReply, Goto, Live
  <2> QED
    BY <1>3, <2>1, <2>2, <2>3, <2>4, <2>5
<1>4. CASE MarkWorkflowCancelled
  BY <1>4 DEF MarkWorkflowCancelled, IInv, ResumeType, OneOwner, Owns, Fates, Counted, Boxes, Kept,
              Capped
<1> QED
  BY <1>1, <1>2, <1>3, <1>4 DEF Next, Environment, Scheduled, Runner, Call, vars

LEMMA InvAlways ==
  Spec => []IInv
<1>1. Init => IInv
  BY InitInv
<1>2. IInv /\ [Next]_vars => IInv'
  BY StepInv
<1> QED
  BY <1>1, <1>2, PTL DEF Spec

\* One runner at a time owns the resume of a step, the one whose mailbox is installed
\* (ResumeStep and its goroutine, executor_resume.go).
THEOREM SingleFlightCorrect ==
  Spec => []SingleFlight
<1>1. IInv => SingleFlight
  BY DEF IInv, OneOwner, Fates, Counted, SingleFlight, Owns, Caller, Live
<1> QED
  BY <1>1, InvAlways, PTL

\* A message queued to a resume is heard once, reported dropped once, or still lies in
\* the mailbox it was queued to, within its cap (executor_resume.go, mailbox.go).
THEOREM QueuedOnceCorrect ==
  Spec => []QueuedOnce
<1>1. ASSUME IInv, NEW r \in Request, fate[r] = "queued"
      PROVE  heard[r] + lost[r] + (IF r \in mbox[into[r]] THEN 1 ELSE 0) = 1
  <2>1. into[r] \in Request
    BY <1>1 DEF IInv, Counted
  <2>2. CASE r \in mbox[into[r]]
    BY <1>1, <2>1, <2>2 DEF IInv, Boxes
  <2>3. CASE r \notin mbox[into[r]]
    BY <1>1, <2>3 DEF IInv, Kept, ResumeType
  <2> QED
    BY <2>2, <2>3
<1>2. IInv => QueuedOnce
  BY <1>1 DEF IInv, Capped, QueuedOnce
<1> QED
  BY <1>2, InvAlways, PTL

\* The end of a started resume is reported exactly once, unless its runner panicked.
THEOREM EndsReportedCorrect ==
  Spec => []EndsReported
<1>1. IInv => EndsReported
  BY DEF IInv, ResumeType, Fates, EndsReported
<1> QED
  BY <1>1, InvAlways, PTL
-------------------------------------------------------------------------------
(* The coordinator's mail.                                                   *)

BridgeType ==
  /\ work \in Works /\ coord \in CoordPC
  /\ cbox \subseteq Letter /\ rbox \subseteq Routed /\ wake \in BOOLEAN
  /\ push \in [Pushed -> PushPC] /\ hop \in [Routed -> HopPC]
  /\ drain \in [Pushed -> SUBSET Routed]
  /\ read \in [Routed -> {0, 1}] /\ dropped \in [Routed -> {0, 1}] /\ shown \in [Routed -> Nat]
  /\ main \in MainPC
  /\ runEnded \in BOOLEAN /\ quit \in BOOLEAN

\* A routed message lies in the router's mailbox while it is being moved, at most, and is
\* shown by then.
Routing ==
  \A m \in Routed :
    /\ hop[m] \in {"idle", "done"} => m \notin rbox
    /\ hop[m] = "done" => shown[m] >= 1

\* It reaches the coordinator's mailbox once, and leaves it once.
Arrived(m) == hop[m] \in {"moved", "done"}
MovedOnce ==
  \A m \in Routed :
    /\ m \in cbox => Arrived(m) /\ read[m] = 0 /\ dropped[m] = 0
    /\ ~Arrived(m) => read[m] = 0 /\ dropped[m] = 0
    /\ Arrived(m) /\ m \notin cbox => read[m] + dropped[m] = 1

BInv == BridgeType /\ Routing /\ MovedOnce /\ SleepsOnlyOnBridged

\* Requests that are bounded to be made during a resume never become one.
LateQueues == \A r \in Late : ~Owns(r)

LEMMA InitBridge ==
  Init => BInv /\ LateQueues
<1> SUFFICES ASSUME Init PROVE BInv /\ LateQueues
  OBVIOUS
<1> USE DEF Init, BInit
<1>1. BridgeType
  BY DEF BridgeType, CoordPC, PushPC, HopPC, MainPC
<1>2. Routing /\ MovedOnce /\ SleepsOnlyOnBridged
  BY DEF Routing, MovedOnce, Arrived, SleepsOnlyOnBridged
<1>3. LateQueues
  BY ResumeAssumption DEF LateQueues, Owns, Caller, Live
<1> QED
  BY <1>1, <1>2, <1>3 DEF BInv

\* A step of the run that leaves the mailboxes, the wake channel and what is known of
\* messages alone, and does not put the coordinator to sleep.
LEMMA MailAlone ==
  ASSUME BInv, UNCHANGED <<work, cbox, wake, push, hop, read, dropped>>,
         rbox' \subseteq rbox, shown' = shown \/ \E M : shown' = Count(shown, M),
         drain' \in [Pushed -> SUBSET Routed],
         coord' \in CoordPC, coord' = "sleep" => coord = "sleep" \/ cbox = {},
         main' \in MainPC, runEnded' \in BOOLEAN, quit' \in BOOLEAN
  PROVE  BInv'
<1> USE DEF BInv
<1>1. shown' \in [Routed -> Nat] /\ \A m \in Routed : shown'[m] >= shown[m]
  BY DEF BridgeType, Count
<1>2. BridgeType'
  BY <1>1 DEF BridgeType
<1>3. Routing'
  BY <1>1 DEF Routing, BridgeType
<1>4. MovedOnce' /\ SleepsOnlyOnBridged'
  BY DEF MovedOnce, Arrived, SleepsOnlyOnBridged
<1> QED
  BY <1>2, <1>3, <1>4

\* A lifecycle message is appended, or signalled.
LEMMA PushInv ==
  ASSUME BInv, NEW p \in Pushed, UNCHANGED <<work, coord, rbox, hop, drain, countVars, runEnded, quit>>,
         main' \in MainPC,
         \/ AppendPush(p) /\ UNCHANGED wake
         \/ (\E next \in {"drain", "done"} : SignalPush(p, next)) /\ UNCHANGED cbox
  PROVE  BInv'
<1> USE BridgeAssumption DEF BInv, AppendPush, SignalPush, countVars
<1>1. BridgeType'
  BY DEF BridgeType, PushPC, Letter
<1>2. Routing'
  BY DEF Routing
<1>3. MovedOnce'
  BY DEF MovedOnce, Arrived, Letter
<1>4. SleepsOnlyOnBridged'
  BY DEF SleepsOnlyOnBridged, BridgeType
<1> QED
  BY <1>1, <1>2, <1>3, <1>4

LEMMA RunInv ==
  ASSUME BInv, NEW resuming, RunStep(resuming)
  PROVE  BInv'
<1> USE DEF mailVars
<1>0. Push \subseteq Pushed /\ Start \in Pushed /\ End \in Pushed
  BY DEF Pushed
<1>1. CASE PushStart
  BY <1>0, <1>1, PushInv DEF PushStart, MainPC, BInv, BridgeType
<1>2. ASSUME NEW p \in Push, PushStep(p) PROVE BInv'
  BY <1>0, <1>2, PushInv DEF PushStep, BInv, BridgeType
<1>3. CASE PushEnd
  BY <1>0, <1>3, PushInv DEF PushEnd, MainPC
<1>4. ASSUME NEW p \in Push, DrainStep(p) PROVE BInv'
  <2> USE <1>4 DEF DrainStep, Show, Unshow, BInv
  <2>1. shown' \in [Routed -> Nat] /\ \A m \in Routed : shown'[m] >= shown[m]
    BY DEF BridgeType, Count
  <2>2. rbox' \subseteq rbox
    OBVIOUS
  <2>3. BridgeType'
    BY <1>0, <2>1 DEF BridgeType, PushPC
  <2>4. Routing'
    BY <2>1, <2>2 DEF Routing, BridgeType
  <2>5. MovedOnce'
    BY DEF MovedOnce, Arrived
  <2>6. SleepsOnlyOnBridged'
    BY <1>0 DEF SleepsOnlyOnBridged, BridgeType
  <2> QED
    BY <2>3, <2>4, <2>5, <2>6
<1>5. CASE EndWait(resuming) \/ CancelRun \/ RunReturns(resuming) \/ Cleanup
  BY <1>5, MailAlone DEF EndWait, CancelRun, RunReturns, Cleanup, countVars, MainPC, BInv, BridgeType
<1>6. CASE EndDrain
  <2>1. drain' \in [Pushed -> SUBSET Routed] /\ rbox' \subseteq rbox
    BY <1>0, <1>6 DEF EndDrain, Show, Unshow, BInv, BridgeType
  <2>2. coord \in CoordPC /\ runEnded \in BOOLEAN /\ quit \in BOOLEAN /\ main' \in MainPC
    BY <1>6 DEF EndDrain, MainPC, BInv, BridgeType
  <2> QED
    BY <1>6, <2>1, <2>2, MailAlone DEF EndDrain, Show, Unshow
<1> QED
  BY <1>1, <1>2, <1>3, <1>4, <1>5, <1>6 DEF RunStep

LEMMA DeliverInv ==
  ASSUME BInv, NEW m \in Routed, Deliver(m)
  PROVE  BInv'
<1> USE DEF BInv, Deliver, Hop, countVars
<1>1. BridgeType'
  BY DEF BridgeType, HopPC
<1>2. Routing'
  BY DEF Routing, BridgeType
<1>3. MovedOnce'
  BY DEF MovedOnce, Arrived, BridgeType
<1>4. SleepsOnlyOnBridged'
  BY DEF SleepsOnlyOnBridged
<1> QED
  BY <1>1, <1>2, <1>3, <1>4

LEMMA BridgeInv ==
  ASSUME BInv, NEW m \in Routed, BridgeStep(m)
  PROVE  BInv'
<1> USE DEF BInv, BridgeStep, Bridge, Hop, Count
<1>1. BridgeType'
  <2>1. shown' \in [Routed -> Nat]
    BY DEF BridgeType
  <2>2. hop' \in [Routed -> HopPC]
    BY DEF BridgeType, HopPC
  <2>3. cbox' \subseteq Letter /\ rbox' \subseteq Routed /\ wake' \in BOOLEAN
    BY DEF BridgeType, Letter
  <2> QED
    BY <2>1, <2>2, <2>3 DEF BridgeType
<1>2. Routing'
  BY DEF Routing, BridgeType
<1>3. MovedOnce'
  BY DEF MovedOnce, Arrived, BridgeType
<1>4. SleepsOnlyOnBridged'
  BY DEF SleepsOnlyOnBridged
<1> QED
  BY <1>1, <1>2, <1>3, <1>4

\* The coordinator takes what is unread into its conversation, or drops it.
LEMMA EmptiesInv ==
  ASSUME BInv, cbox' = {},
         \/ read' = Count(read, cbox) /\ UNCHANGED dropped
         \/ dropped' = Count(dropped, cbox) /\ UNCHANGED read,
         coord' \in CoordPC,
         UNCHANGED <<work, rbox, wake, push, hop, drain, shown, main, runEnded, quit>>
  PROVE  BInv'
<1> USE DEF BInv, Count
<1>1. BridgeType'
  BY DEF BridgeType, MovedOnce
<1>2. Routing'
  BY DEF Routing
<1>3. MovedOnce'
  BY DEF MovedOnce, Arrived, BridgeType
<1>4. SleepsOnlyOnBridged'
  BY DEF SleepsOnlyOnBridged
<1> QED
  BY <1>1, <1>2, <1>3, <1>4

\* The signal is spent on the way out of the sleep, or while it looks.
LEMMA UnwakeInv ==
  ASSUME BInv, coord' \in CoordPC \ {"sleep"}, wake' \in BOOLEAN,
         UNCHANGED <<work, cbox, rbox, push, hop, drain, countVars, main, runEnded, quit>>
  PROVE  BInv'
BY DEF BInv, countVars, BridgeType, Routing, MovedOnce, Arrived, SleepsOnlyOnBridged

LEMMA CoordInv ==
  ASSUME BInv, Coordinator
  PROVE  BInv'
<1> USE DEF mailVars, countVars, Step
<1>1. CASE CoordStart \/ CoordTake \/ CoordResidual
  BY <1>1, EmptiesInv DEF CoordStart, CoordTake, CoordResidual, Take, Residual, CoordPC
<1>2. CASE CoordUnwake \/ CoordWake
  BY <1>2, UnwakeInv DEF CoordUnwake, CoordWake, CoordPC, BInv, BridgeType
<1>3. CASE CoordCall \/ CoordInspect \/ CoordCheck
  <2>1. coord' \in CoordPC /\ (coord' = "sleep" => cbox = {})
    BY <1>3 DEF CoordCall, CallOutcome, CoordInspect, CoordCheck, CoordPC
  <2>2. drain \in [Pushed -> SUBSET Routed] /\ main \in MainPC /\ runEnded \in BOOLEAN
        /\ quit \in BOOLEAN
    BY DEF BInv, BridgeType
  <2> QED
    BY <1>3, <2>1, <2>2, MailAlone DEF CoordCall, CoordInspect, CoordCheck
<1> QED
  BY <1>1, <1>2, <1>3 DEF Coordinator

LEMMA LateInv ==
  ASSUME LateQueues, ResumeType, [Next]_vars
  PROVE  LateQueues'
<1> USE ResumeAssumption DEF LateQueues, ResumeType, Owns, Caller, Live, Goto
<1>1. ASSUME NEW r \in Request, Forward(r) PROVE LateQueues'
  BY <1>1 DEF Forward
<1>2. ASSUME NEW r \in Request, Call(r) PROVE LateQueues'
  BY <1>2 DEF Call, Enqueue, Load
<1>3. ASSUME NEW r \in Request, Runner(r) PROVE LateQueues'
  BY <1>3 DEF Runner, Begin, RunnerTakes, RunnerCalls, RunnerLooks, RunnerLeaves, Report, Release,
              ReverseReply
<1>4. CASE UNCHANGED req
  BY <1>4
<1> QED
  BY <1>1, <1>2, <1>3, <1>4 DEF Next, Environment, Scheduled, MarkWorkflowCancelled, resumeVars, vars

LEMMA StepBridge ==
  ASSUME BInv, LateQueues, ResumeType, [Next]_vars
  PROVE  BInv'
<1>1. CASE UNCHANGED bridgeVars
  BY <1>1 DEF bridgeVars, mailVars, countVars, BInv, BridgeType, Routing, MovedOnce, Arrived,
              SleepsOnlyOnBridged
<1>2. CASE RunStep(Runners # {})
  BY <1>2, RunInv
<1>3. CASE Coordinator
  BY <1>3, CoordInv
<1>4. ASSUME NEW m \in Routed, BridgeStep(m) \/ Send(m) PROVE BInv'
  BY <1>4, BridgeInv, DeliverInv DEF Send
<1>5. CASE CancelParent
  <2>1. drain' \in [Pushed -> SUBSET Routed] /\ main' \in MainPC /\ runEnded' \in BOOLEAN
        /\ quit' \in BOOLEAN /\ coord' \in CoordPC
    BY <1>5 DEF CancelParent, BInv, BridgeType
  <2> QED
    BY <1>5, <2>1, MailAlone DEF CancelParent, mailVars, countVars
<1>6. ASSUME NEW r \in Request, ReverseReply(r) PROVE BInv'
  <2>1. CASE Goto(r, "reply", "replying") /\ Deliver(Reply[r])
    <3>1. r \notin Late
      BY <2>1 DEF LateQueues, Owns, Goto, Live
    <3> QED
      BY <2>1, <3>1, DeliverInv, ResumeAssumption
  <2>2. CASE UNCHANGED bridgeVars
    BY <1>1, <2>2
  <2> QED
    BY <1>6, <2>1, <2>2 DEF ReverseReply, bridgeVars
<1> QED
  BY <1>1, <1>2, <1>3, <1>4, <1>5, <1>6
     DEF Next, Environment, Scheduled, Coordinates, Runner, vars

LEMMA BridgeAlways ==
  Spec => [](IInv /\ BInv)
<1>1. Init => IInv /\ BInv /\ LateQueues
  BY InitInv, InitBridge
<1>2. IInv /\ BInv /\ LateQueues /\ [Next]_vars => (IInv /\ BInv /\ LateQueues)'
  BY StepInv, StepBridge, LateInv DEF IInv
<1> QED
  BY <1>1, <1>2, PTL DEF Spec

\* TypeOK holds in every reachable state of the coordinator, its bridge and the resumes;
\* no message is put into the conversation, or reported dropped, twice.
THEOREM TypeCorrect ==
  Spec => []TypeOK
<1>1. IInv /\ BInv => TypeOK
  BY DEF IInv, BInv, ResumeType, BridgeType, TypeOK
<1> QED
  BY <1>1, BridgeAlways, PTL

\* Every routed message that was moved is shown, no longer in the router's mailbox, and
\* unread, read or dropped once on the coordinator's side (afterSend, drainCoordReverseReplies
\* in executor.go; drainMailboxIntoMessages in agent_runner.go).
THEOREM BridgeMovesCorrect ==
  Spec => []BridgeMoves
<1>1. BInv => BridgeMoves
  BY DEF BInv, BridgeType, Routing, MovedOnce, Arrived, BridgeMoves
<1> QED
  BY <1>1, BridgeAlways, PTL

\* A coordinator that sleeps with no signal pending has missed a bridged message at most,
\* never a lifecycle message (WaitForCoordWake, coord_lib.go).
THEOREM SleepsOnlyOnBridgedCorrect ==
  Spec => []SleepsOnlyOnBridged
<1>1. BInv => SleepsOnlyOnBridged
  BY DEF BInv
<1> QED
  BY <1>1, BridgeAlways, PTL
===============================================================================

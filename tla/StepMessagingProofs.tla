------------------------- MODULE StepMessagingProofs --------------------------
(***************************************************************************)
(* Proofs about StepMessaging, for every set of steps and messages, every  *)
(* store and any number of attempts and wake cycles, in spite of Sends,    *)
(* agents, retries and aborts: a mailbox that was closed is empty for ever,*)
(* its counter of senders is exact, a message is read once, and Send keeps *)
(* the promise of MailboxContract.                                         *)
(***************************************************************************)
EXTENDS StepMessaging, FiniteSetTheorems, TLAPS

\* The step lock is held for writing while Router.Close runs, and only then.
LockedWhileClosing ==
  \A s \in Known : s \in locked <=> at[s] \in {"close", "closeEnd"}

\* A closed inbox belongs to a step that left, and no Send is under way to it.
ClosedHasLeft ==
  \A s \in closed : /\ s \in Known
                    /\ at[s] \in {"close", "closeEnd", "wait", "gone"}
                    /\ Sending(s) = {}

IInv == TypeOK /\ LockedWhileClosing /\ ClosedHasLeft /\ NothingStranded
-------------------------------------------------------------------------------
(* Types.                                                                    *)

LEMMA TypeInit == Init => TypeOK
<1> SUFFICES ASSUME Init PROVE TypeOK
  OBVIOUS
<1>1. 0 \in 0..MaxWake /\ 0 \in 0..Attempts
  BY MessagingAssumption
<1>2. /\ send \in [Msg -> SendPC] /\ at \in [Known -> StepPC]
      /\ senders \in [Inbox -> Nat] /\ box \in [Inbox -> SUBSET Msg]
  BY DEF Init, RInit, SendPC, StepPC
<1> QED
  BY <1>1, <1>2 DEF Init, RInit, TypeOK

\* A Send changes the router's variables only, and the wake channels at its end.
LEMMA TypeSend == ASSUME TypeOK, NEW m \in Msg, SendStep(m) PROVE TypeOK'
<1> USE RouterAssumption DEF TypeOK, SendPC, Emit, Refuse, Begin, Reachable, CloseSlot,
        CloseSender, inboxVars, storeVars, sendVars
<1>1. To[m] \in Inbox
  OBVIOUS
<1>2. CASE /\ UNCHANGED <<at, agentVars, expired, wake, read, runVars>>
           /\ SendCancelled(m) \/ SendClosed(m) \/ SendUnknown(m)
  BY <1>1, <1>2 DEF SendCancelled, SendClosed, SendUnknown, agentVars, runVars
<1>3. CASE UNCHANGED <<at, agentVars, expired, wake, read, runVars>> /\ SendOpen(m)
  BY <1>1, <1>3 DEF SendOpen, agentVars, runVars
<1>4. CASE UNCHANGED <<at, agentVars, expired, wake, read, runVars>> /\ SendAppend(m)
  BY <1>1, <1>4 DEF SendAppend, Append, agentVars, runVars
<1>5. CASE UNCHANGED <<at, agentVars, expired, wake, read, runVars>> /\ SendCheck(m)
  BY <1>1, <1>5 DEF SendCheck, agentVars, runVars
<1>6. CASE Notify(m)
  BY <1>1, <1>6 DEF Notify, SendReturn, SignalWake, Registered, agentVars, runVars
<1> QED
  BY <1>2, <1>3, <1>4, <1>5, <1>6 DEF SendStep

LEMMA TypeAgent == ASSUME TypeOK, NEW s \in Known, Agent(s) PROVE TypeOK'
<1> USE RouterAssumption, MessagingAssumption
    DEF TypeOK, StepPC, Goto, inboxVars, storeVars, sendVars, agentVars, runVars, routerVars
<1>1. CASE PreStart(s)
  BY <1>1 DEF PreStart, Take, Consumed
<1>2. CASE PreMark(s)
  BY <1>2 DEF PreMark, Mark, MarkRead
<1>3. CASE Call(s)
  BY <1>3 DEF Call, CallsLeft
<1>4. CASE CallFails(s)
  BY <1>4 DEF CallFails, MayFail
<1>5. CASE Panics(s)
  BY <1>5 DEF Panics
<1>6. CASE LoopEnds(s)
  BY <1>6 DEF LoopEnds, MayFail
<1>7. CASE Submitted(s)
  BY <1>7 DEF Submitted
<1>8. CASE Inspect(s)
  BY <1>8 DEF Inspect, MayFail
<1>9. CASE Drain(s)
  BY <1>9 DEF Drain, Take, Consumed
<1>10. CASE NothingDrained(s)
  BY <1>10 DEF NothingDrained, MayFail
<1>11. CASE DrainMark(s)
  BY <1>11 DEF DrainMark, Mark, MarkRead
<1>12. CASE Leftover(s)
  BY <1>12 DEF Leftover, EmitResidual, Emit
<1>13. CASE LeftMark(s)
  BY <1>13 DEF LeftMark, Mark, MarkRead
<1> QED
  BY <1>1, <1>2, <1>3, <1>4, <1>5, <1>6, <1>7, <1>8, <1>9, <1>10, <1>11, <1>12, <1>13 DEF Agent

LEMMA TypeRunStep == ASSUME TypeOK, NEW s \in Known, RunStep(s) PROVE TypeOK'
<1> USE RouterAssumption, MessagingAssumption
    DEF TypeOK, StepPC, Goto, inboxVars, storeVars, sendVars, agentVars, runVars, routerVars
<1>1. CASE Retry(s)
  BY <1>1 DEF Retry, MayRetry
<1>2. CASE Leave(s)
  BY <1>2 DEF Leave, CloseBegin, CloseSlots
<1>3. CASE ReportClosed(s)
  BY <1>3 DEF ReportClosed, CloseDrop, Emit
<1>4. CASE Closed(s)
  BY <1>4 DEF Closed, CloseEnd, CloseStore
<1>5. CASE Terminated(s)
  BY <1>5 DEF Terminated
<1>6. CASE HoldTimeout(s)
  BY <1>6 DEF HoldTimeout, Emit, MarkRead
<1> QED
  BY <1>1, <1>2, <1>3, <1>4, <1>5, <1>6, TypeAgent DEF RunStep

LEMMA TypeOthers ==
  ASSUME TypeOK, NEW s \in Known,
         StartStep(s) \/ Expire(s) \/ Poll(s) \/ FlushRead(s) \/ FlushClose(s)
  PROVE  TypeOK'
<1> USE RouterAssumption, MessagingAssumption
    DEF TypeOK, StepPC, Goto, inboxVars, storeVars, sendVars, agentVars, runVars, routerVars
<1>1. CASE StartStep(s)
  BY <1>1 DEF StartStep, RegisterInbox
<1>2. CASE Expire(s) \/ Poll(s)
  BY <1>2 DEF Expire, Poll
<1>3. CASE FlushRead(s)
  BY <1>3 DEF FlushRead, Emit
<1>4. CASE FlushClose(s)
  BY <1>4 DEF FlushClose, CloseStore
<1> QED
  BY <1>1, <1>2, <1>3, <1>4

LEMMA TypeMain == ASSUME TypeOK, ObserveAbort \/ GraceOver \/ Return \/ Abort PROVE TypeOK'
  BY DEF TypeOK, ObserveAbort, GraceOver, Return, Abort, Active, MarkWorkflowCancelled,
     inboxVars, storeVars, sendVars, agentVars, runVars, routerVars

LEMMA TypeNext == TypeOK /\ [Next]_vars => TypeOK'
<1> SUFFICES ASSUME TypeOK, [Next]_vars PROVE TypeOK'
  OBVIOUS
<1>1. CASE \E m \in Msg : SendStep(m)
  BY <1>1, TypeSend
<1>2. CASE \E s \in Known : RunStep(s)
  BY <1>2, TypeRunStep
<1>3. CASE \E s \in Known : StartStep(s) \/ Expire(s) \/ Poll(s) \/ FlushRead(s) \/ FlushClose(s)
  BY <1>3, TypeOthers
<1>4. CASE ObserveAbort \/ GraceOver \/ Return \/ Abort
  BY <1>4, TypeMain
<1>5. CASE UNCHANGED vars
  BY <1>5 DEF TypeOK, vars, routerVars, inboxVars, storeVars, sendVars, agentVars, runVars
<1> QED
  BY <1>1, <1>2, <1>3, <1>4, <1>5 DEF Next, Main

\* Every variable of the router, of the agents and of the main thread keeps its type; the wake
\* cycles and the attempts never pass their bounds.
THEOREM TypeCorrect == Spec => []TypeOK
<1> QED
  BY TypeInit, TypeNext, PTL DEF Spec
-------------------------------------------------------------------------------
(* Closed mailboxes.                                                         *)

LEMMA ClosedInit == Init => IInv
  BY TypeInit DEF Init, RInit, IInv, LockedWhileClosing, ClosedHasLeft, NothingStranded

\* A step that neither closes nor opens an inbox, nor sends: mailboxes only shrink.
LEMMA CalmStep ==
  ASSUME IInv, TypeOK', UNCHANGED <<closed, locked, send>>,
         \A x \in Inbox : box'[x] \subseteq box[x],
         \A x \in Known : /\ at'[x] \in {"close", "closeEnd"} <=> at[x] \in {"close", "closeEnd"}
                          /\ at[x] \in {"wait", "gone"} => at'[x] \in {"wait", "gone"}
  PROVE  IInv'
<1>1. LockedWhileClosing'
  BY DEF IInv, LockedWhileClosing
<1>2. ClosedHasLeft'
  BY DEF IInv, ClosedHasLeft, Sending
<1>3. NothingStranded'
  <2> SUFFICES ASSUME NEW s \in closed \ locked
               PROVE  box'[s] = {}
    BY DEF NothingStranded
  <2> QED
    BY DEF IInv, NothingStranded, TypeOK
<1> QED
  BY <1>1, <1>2, <1>3 DEF IInv

\* The agent's own steps: they read and mark, and do not leave.
LEMMA AgentCalm ==
  ASSUME TypeOK, NEW s \in Known, Agent(s) \/ Retry(s)
  PROVE  /\ UNCHANGED <<closed, locked, send>>
         /\ \A x \in Inbox : box'[x] \subseteq box[x]
         /\ \A x \in Known \ {s} : at'[x] = at[x]
         /\ {at[s], at'[s]} \cap {"idle", "close", "closeEnd", "wait", "gone"} = {}
<1> USE DEF TypeOK, Goto, inboxVars, storeVars, sendVars, agentVars, runVars, routerVars
<1>1. CASE \/ PreStart(s) \/ Call(s) \/ CallFails(s) \/ Panics(s) \/ LoopEnds(s)
           \/ Submitted(s) \/ Drain(s) \/ NothingDrained(s) \/ Leftover(s) \/ Retry(s)
  BY <1>1 DEF PreStart, Call, CallFails, Panics, LoopEnds, Submitted, Drain, NothingDrained,
     Leftover, Retry
<1>2. CASE Inspect(s)
  BY <1>2 DEF Inspect
<1>3. CASE PreMark(s) \/ DrainMark(s) \/ LeftMark(s)
  <2>1. s \in Inbox
    BY RouterAssumption
  <2> QED
    BY <1>3, <2>1 DEF PreMark, DrainMark, LeftMark, Mark, MarkRead
<1> QED
  BY <1>1, <1>2, <1>3 DEF Agent

\* A Send reaches the store only while the inbox is not closed.
LEMMA SendKeeps == ASSUME IInv, TypeOK', NEW m \in Msg, SendStep(m) PROVE IInv'
<1> USE DEF IInv, TypeOK, inboxVars, storeVars, sendVars, Refuse, CloseSlot
<1>1. /\ UNCHANGED <<closed, locked, at>>
      /\ \A n \in Msg \ {m} : send'[n] = send[n]
  BY DEF SendStep, Notify, SendCancelled, SendClosed, SendUnknown, SendOpen, SendAppend,
     SendCheck, SendReturn
<1>2. \/ send'[m] \notin {"append", "check", "notify"}
      \/ send[m] \in {"append", "check", "notify"}
      \/ To[m] \notin closed
  BY DEF SendStep, Notify, SendCancelled, SendClosed, SendUnknown, SendOpen, SendAppend,
     SendCheck, SendReturn
<1>3. \/ box' = box
      \/ send[m] = "append" /\ \A x \in Inbox \ {To[m]} : box'[x] = box[x]
  BY DEF SendStep, Notify, SendCancelled, SendClosed, SendUnknown, SendOpen, SendAppend,
     SendCheck, SendReturn, Append
<1>4. LockedWhileClosing'
  BY <1>1 DEF LockedWhileClosing
<1>5. ClosedHasLeft'
  BY <1>1, <1>2 DEF ClosedHasLeft, Sending
<1>6. send[m] = "append" => To[m] \notin closed
  BY DEF ClosedHasLeft, Sending
<1>7. NothingStranded'
  BY <1>1, <1>3, <1>6 DEF NothingStranded
<1> QED
  BY <1>4, <1>5, <1>7

\* The inbox is opened by a step that has not run, and closed by one that leaves while no Send
\* holds the lock; the store is emptied before the lock is released.
LEMMA OpenCloseKeeps ==
  ASSUME IInv, TypeOK', NEW s \in Known, StartStep(s) \/ Leave(s) \/ Closed(s)
  PROVE  IInv'
<1> USE DEF IInv, TypeOK, Goto, inboxVars, storeVars, sendVars
<1>1. s \in Inbox
  BY RouterAssumption
<1>2. CASE StartStep(s)
  BY <1>1, <1>2 DEF StartStep, RegisterInbox, LockedWhileClosing, ClosedHasLeft,
     NothingStranded, Sending
<1>3. CASE Leave(s)
  BY <1>1, <1>3 DEF Leave, CloseBegin, LockedWhileClosing, ClosedHasLeft, NothingStranded, Sending
<1>4. CASE Closed(s)
  <2>1. LockedWhileClosing'
    BY <1>4 DEF Closed, CloseEnd, LockedWhileClosing
  <2>2. ClosedHasLeft'
    BY <1>4 DEF Closed, CloseEnd, ClosedHasLeft, Sending
  <2>3. NothingStranded'
    BY <1>1, <1>4 DEF Closed, CloseEnd, CloseStore, NothingStranded
  <2> QED
    BY <2>1, <2>2, <2>3
<1> QED
  BY <1>2, <1>3, <1>4

LEMMA ClosedNext == IInv /\ [Next]_vars => IInv'
<1> SUFFICES ASSUME IInv, [Next]_vars PROVE IInv'
  OBVIOUS
<1>1. TypeOK'
  BY TypeNext DEF IInv
<1>2. CASE \E m \in Msg : SendStep(m)
  BY <1>1, <1>2, SendKeeps
<1>3. CASE \E s \in Known : Agent(s) \/ Retry(s)
  <2> PICK s \in Known : Agent(s) \/ Retry(s)
    BY <1>3
  <2>1. /\ UNCHANGED <<closed, locked, send>>
        /\ \A x \in Inbox : box'[x] \subseteq box[x]
        /\ \A x \in Known \ {s} : at'[x] = at[x]
        /\ {at[s], at'[s]} \cap {"idle", "close", "closeEnd", "wait", "gone"} = {}
    BY AgentCalm DEF IInv
  <2> QED
    BY <1>1, <2>1, CalmStep
<1>4. CASE \E s \in Known : StartStep(s) \/ Leave(s) \/ Closed(s)
  BY <1>1, <1>4, OpenCloseKeeps
<1>5. CASE \E s \in Known : ReportClosed(s) \/ Terminated(s)
  <2>1. /\ UNCHANGED <<closed, locked, send, box>>
        /\ \A x \in Known : /\ at'[x] \in {"close", "closeEnd"} <=> at[x] \in {"close", "closeEnd"}
                            /\ at[x] \in {"wait", "gone"} => at'[x] \in {"wait", "gone"}
    BY <1>5 DEF IInv, TypeOK, ReportClosed, Terminated, Goto, inboxVars, storeVars, sendVars, routerVars
  <2> QED
    BY <1>1, <2>1, CalmStep
<1>6. CASE \E s \in Known : HoldTimeout(s)
  <2> PICK s \in Known : HoldTimeout(s)
    BY <1>6
  <2>1. /\ UNCHANGED <<closed, locked, send>>
        /\ \A x \in Inbox : box'[x] \subseteq box[x]
        /\ \A x \in Known : /\ at'[x] \in {"close", "closeEnd"} <=> at[x] \in {"close", "closeEnd"}
                            /\ at[x] \in {"wait", "gone"} => at'[x] \in {"wait", "gone"}
    BY DEF IInv, TypeOK, HoldTimeout, MarkRead, Goto, inboxVars, sendVars
  <2> QED
    BY <1>1, <2>1, CalmStep
<1>7. CASE \E s \in Known : Expire(s) \/ Poll(s) \/ FlushRead(s)
  <2>1. UNCHANGED <<closed, locked, send, box, at>>
    BY <1>7 DEF Expire, Poll, FlushRead, inboxVars, storeVars, sendVars, routerVars
  <2> QED
    BY <1>1, <2>1, CalmStep
<1>8. CASE \E s \in Known : FlushClose(s)
  <2>1. /\ UNCHANGED <<closed, locked, send, at>>
        /\ \A x \in Inbox : box'[x] \subseteq box[x]
    BY <1>8 DEF IInv, TypeOK, FlushClose, CloseStore, inboxVars, sendVars
  <2> QED
    BY <1>1, <2>1, CalmStep
<1>9. CASE ObserveAbort \/ GraceOver \/ Return \/ Abort \/ UNCHANGED vars
  <2>1. UNCHANGED <<closed, locked, send, box, at>>
    BY <1>9 DEF ObserveAbort, GraceOver, Return, Abort, MarkWorkflowCancelled, vars, routerVars,
       inboxVars, storeVars, sendVars
  <2> QED
    BY <1>1, <2>1, CalmStep
<1> QED
  BY <1>2, <1>3, <1>4, <1>5, <1>6, <1>7, <1>8, <1>9 DEF Next, Main, RunStep

\* Once Router.Close has released the step lock, nothing is ever left in the mailbox of the step,
\* whatever Sends were under way and however the run ends: waitForStepTermination and the
\* hold timeout never find a message there.
THEOREM NothingStrandedCorrect == Spec => []NothingStranded
<1>1. IInv => NothingStranded
  BY DEF IInv
<1> QED
  BY <1>1, ClosedInit, ClosedNext, PTL DEF Spec
-------------------------------------------------------------------------------
(* Sender slots.                                                             *)

\* The two kinds of slot that the count of an inbox is made of.
SendSlots(s) == {m \in slot : To[m] = s}
StepSlots(s) == {x \in Known : Registered(x) /\ s \in Slots(x)}

\* Only a Send that is under way has a slot of its own.
SlotWhileSending == \A m \in slot : send[m] \in {"append", "check", "notify"}

SInv == TypeOK /\ SlotWhileSending /\ SendersExact

LEMMA SlotsFinite ==
  ASSUME TypeOK, NEW s \in Inbox
  PROVE  /\ IsFiniteSet(SendSlots(s)) /\ Cardinality(SendSlots(s)) \in Nat
         /\ IsFiniteSet(StepSlots(s)) /\ Cardinality(StepSlots(s)) \in Nat
<1>1. SendSlots(s) \subseteq Msg /\ StepSlots(s) \subseteq Inbox
  BY RouterAssumption DEF TypeOK, SendSlots, StepSlots
<1> QED
  BY <1>1, RouterAssumption, FS_Subset, FS_CardinalityType

\* A step of the specification that opens and closes no slot.
LEMMA SlotsKept ==
  ASSUME SInv, TypeOK', SlotWhileSending', UNCHANGED <<senders, slot>>,
         \A x \in Known : Registered(x)' <=> Registered(x)
  PROVE  SInv'
<1>1. ASSUME NEW s \in Inbox
      PROVE  SendSlots(s)' = SendSlots(s) /\ StepSlots(s)' = StepSlots(s)
  BY DEF SendSlots, StepSlots, Slots
<1> QED
  BY <1>1 DEF SInv, SendersExact, SendSlots, StepSlots

\* A Send opens the slot that it has not got yet.
LEMMA SlotOpened == ASSUME SInv, TypeOK', NEW m \in Msg, SendOpen(m), at' = at PROVE SInv'
<1>1. SlotWhileSending'
  BY DEF SInv, TypeOK, SlotWhileSending, SendOpen, Begin
<1>2. CASE Reachable(To[m])
  BY <1>1, <1>2, SlotsKept DEF SendOpen, Registered
<1>3. CASE ~Reachable(To[m])
  <2>1. /\ slot' = slot \cup {m} /\ m \notin slot /\ To[m] \in Inbox
        /\ senders' = [senders EXCEPT ![To[m]] = @ + 1]
    BY <1>3, RouterAssumption DEF SInv, SlotWhileSending, SendOpen, Begin
  <2>2. ASSUME NEW s \in Inbox
        PROVE  senders'[s] = Cardinality(SendSlots(s)') + Cardinality(StepSlots(s)')
    <3>1. StepSlots(s)' = StepSlots(s)
      BY DEF StepSlots, Registered, Slots
    <3>2. senders[s] = Cardinality(SendSlots(s)) + Cardinality(StepSlots(s))
      BY DEF SInv, SendersExact, SendSlots, StepSlots
    <3>3. /\ IsFiniteSet(SendSlots(s)) /\ Cardinality(SendSlots(s)) \in Nat
          /\ Cardinality(StepSlots(s)) \in Nat
      BY SlotsFinite DEF SInv
    <3>4. CASE s = To[m]
      <4>1. SendSlots(s)' = SendSlots(s) \cup {m} /\ m \notin SendSlots(s)
        BY <2>1, <3>4 DEF SendSlots
      <4>2. Cardinality(SendSlots(s) \cup {m}) = Cardinality(SendSlots(s)) + 1
        BY <3>3, <4>1, FS_AddElement
      <4>3. senders'[s] = senders[s] + 1
        BY <2>1, <3>4 DEF SInv, TypeOK
      <4> QED
        BY <3>1, <3>2, <3>3, <4>1, <4>2, <4>3
    <3>5. CASE s # To[m]
      <4>1. SendSlots(s)' = SendSlots(s) /\ senders'[s] = senders[s]
        BY <2>1, <3>5 DEF SendSlots, SInv, TypeOK
      <4> QED
        BY <3>1, <3>2, <4>1
    <3> QED
      BY <3>4, <3>5
  <2> QED
    BY <1>1, <2>2 DEF SInv, SendersExact, SendSlots, StepSlots
<1> QED
  BY <1>2, <1>3

\* A Send closes its slot, once, on every return; the clamp of CloseSender is never needed.
LEMMA SlotClosed ==
  ASSUME SInv, TypeOK', NEW m \in Msg, CloseSlot(m), at' = at,
         \A n \in Msg \ {m} : send'[n] = send[n]
  PROVE  SInv'
<1>1. SlotWhileSending'
  BY DEF SInv, TypeOK, SlotWhileSending, CloseSlot, CloseSender
<1>2. CASE m \notin slot
  BY <1>1, <1>2, SlotsKept DEF CloseSlot, Registered
<1>3. CASE m \in slot
  <2>1. ASSUME NEW s \in Inbox
        PROVE  senders'[s] = Cardinality(SendSlots(s)') + Cardinality(StepSlots(s)')
    <3>1. StepSlots(s)' = StepSlots(s)
      BY DEF StepSlots, Registered, Slots
    <3>2. senders[s] = Cardinality(SendSlots(s)) + Cardinality(StepSlots(s))
      BY DEF SInv, SendersExact, SendSlots, StepSlots
    <3>3. /\ IsFiniteSet(SendSlots(s)) /\ Cardinality(SendSlots(s)) \in Nat
          /\ Cardinality(StepSlots(s)) \in Nat
      BY SlotsFinite DEF SInv
    <3>4. CASE s = To[m]
      <4>1. SendSlots(s)' = SendSlots(s) \ {m} /\ m \in SendSlots(s)
        BY <1>3, <3>4 DEF SendSlots, CloseSlot
      <4>2. /\ Cardinality(SendSlots(s) \ {m}) = Cardinality(SendSlots(s)) - 1
            /\ Cardinality(SendSlots(s) \ {m}) \in Nat
        BY <3>3, <4>1, FS_RemoveElement, FS_CardinalityType
      <4>3. senders[s] > 0
        BY <3>2, <3>3, <4>2
      <4>4. senders'[s] = senders[s] - 1
        BY <1>3, <3>4, <4>3 DEF CloseSlot, CloseSender, SInv, TypeOK
      <4> QED
        BY <3>1, <3>2, <3>3, <4>1, <4>2, <4>4
    <3>5. CASE s # To[m]
      <4>1. SendSlots(s)' = SendSlots(s) /\ senders'[s] = senders[s]
        BY <1>3, <3>5 DEF SendSlots, CloseSlot, CloseSender, SInv, TypeOK
      <4> QED
        BY <3>1, <3>2, <4>1
    <3> QED
      BY <3>4, <3>5
  <2> QED
    BY <1>1, <2>1 DEF SInv, SendersExact, SendSlots, StepSlots
<1> QED
  BY <1>2, <1>3

LEMMA SlotsSend == ASSUME SInv, TypeOK', NEW m \in Msg, SendStep(m) PROVE SInv'
<1>1. at' = at /\ \A n \in Msg \ {m} : send'[n] = send[n]
  BY DEF SInv, TypeOK, SendStep, Notify, SendCancelled, SendClosed, SendUnknown, SendOpen,
     SendAppend, SendCheck, SendReturn, Refuse, sendVars
<1>2. CASE SendOpen(m)
  BY <1>1, <1>2, SlotOpened
<1>3. CASE CloseSlot(m)
  BY <1>1, <1>3, SlotClosed
<1>4. CASE /\ UNCHANGED <<senders, slot>>
           /\ send[m] = "idle" \/ send'[m] \in {"append", "check", "notify"}
  <2>1. SlotWhileSending'
    BY <1>1, <1>4 DEF SInv, TypeOK, SlotWhileSending
  <2> QED
    BY <1>1, <1>4, <2>1, SlotsKept DEF Registered
<1>5. \/ SendOpen(m) \/ CloseSlot(m)
      \/ /\ UNCHANGED <<senders, slot>>
         /\ send[m] = "idle" \/ send'[m] \in {"append", "check", "notify"}
  <2> USE DEF SInv, TypeOK
  <2>1. CASE SendCancelled(m) \/ SendClosed(m) \/ SendUnknown(m)
    BY <2>1 DEF SendCancelled, SendClosed, SendUnknown, Begin
  <2>2. CASE SendAppend(m) \/ SendCheck(m) \/ Notify(m)
    BY <2>2 DEF SendAppend, SendCheck, Notify, SendReturn
  <2> QED
    BY <2>1, <2>2 DEF SendStep
<1> QED
  BY <1>2, <1>3, <1>4, <1>5

LEMMA SlotsInit == Init => SInv
<1> SUFFICES ASSUME Init PROVE SInv
  OBVIOUS
<1>1. TypeOK
  BY TypeInit
<1>2. slot = {} /\ \A x \in Known : ~Registered(x)
  BY DEF Init, RInit, Registered
<1>3. SendersExact
  <2>1. ASSUME NEW s \in Inbox PROVE SendSlots(s) = {} /\ StepSlots(s) = {} /\ senders[s] = 0
    BY <1>2 DEF SendSlots, StepSlots, Init, RInit
  <2> QED
    BY <2>1, FS_EmptySet DEF SendersExact, SendSlots, StepSlots
<1> QED
  BY <1>1, <1>2, <1>3 DEF SInv, SlotWhileSending

\* A step that starts gets a slot of each inbox of Slots(s), and gives them back as it leaves.
LEMMA SlotsStart == ASSUME SInv, TypeOK', NEW s \in Known, StartStep(s) PROVE SInv'
<1>1. /\ UNCHANGED <<slot, send>>
      /\ ~Registered(s) /\ Registered(s)'
      /\ \A x \in Known \ {s} : Registered(x)' <=> Registered(x)
  BY DEF SInv, TypeOK, StartStep, Goto, Registered, sendVars
<1>2. ASSUME NEW x \in Inbox
      PROVE  senders'[x] = Cardinality(SendSlots(x)') + Cardinality(StepSlots(x)')
  <2>1. SendSlots(x)' = SendSlots(x)
    BY <1>1 DEF SendSlots
  <2>2. senders[x] = Cardinality(SendSlots(x)) + Cardinality(StepSlots(x))
    BY DEF SInv, SendersExact, SendSlots, StepSlots
  <2>3. /\ Cardinality(SendSlots(x)) \in Nat
        /\ IsFiniteSet(StepSlots(x)) /\ Cardinality(StepSlots(x)) \in Nat
    BY SlotsFinite DEF SInv
  <2>4. CASE x \in Slots(s)
    <3>1. StepSlots(x)' = StepSlots(x) \cup {s} /\ s \notin StepSlots(x)
      BY <1>1, <2>4 DEF StepSlots, Slots
    <3>2. Cardinality(StepSlots(x) \cup {s}) = Cardinality(StepSlots(x)) + 1
      BY <2>3, <3>1, FS_AddElement
    <3>3. senders'[x] = senders[x] + 1
      BY <2>4 DEF StartStep
    <3> QED
      BY <2>1, <2>2, <2>3, <3>1, <3>2, <3>3
  <2>5. CASE x \notin Slots(s)
    <3>1. StepSlots(x)' = StepSlots(x) /\ senders'[x] = senders[x]
      BY <1>1, <2>5 DEF StepSlots, Slots, StartStep
    <3> QED
      BY <2>1, <2>2, <3>1
  <2> QED
    BY <2>4, <2>5
<1>3. SlotWhileSending'
  BY <1>1 DEF SInv, SlotWhileSending
<1> QED
  BY <1>2, <1>3 DEF SInv, SendersExact, SendSlots, StepSlots

LEMMA SlotsLeave == ASSUME SInv, TypeOK', NEW s \in Known, Leave(s) PROVE SInv'
<1>1. /\ UNCHANGED <<slot, send>>
      /\ Registered(s) /\ ~Registered(s)'
      /\ \A x \in Known \ {s} : Registered(x)' <=> Registered(x)
  BY DEF SInv, TypeOK, Leave, Goto, Registered, sendVars
<1>2. ASSUME NEW x \in Inbox
      PROVE  senders'[x] = Cardinality(SendSlots(x)') + Cardinality(StepSlots(x)')
  <2>1. SendSlots(x)' = SendSlots(x)
    BY <1>1 DEF SendSlots
  <2>2. senders[x] = Cardinality(SendSlots(x)) + Cardinality(StepSlots(x))
    BY DEF SInv, SendersExact, SendSlots, StepSlots
  <2>3. /\ Cardinality(SendSlots(x)) \in Nat
        /\ IsFiniteSet(StepSlots(x)) /\ Cardinality(StepSlots(x)) \in Nat
    BY SlotsFinite DEF SInv
  <2>4. CASE x \in Slots(s)
    <3>1. StepSlots(x)' = StepSlots(x) \ {s} /\ s \in StepSlots(x)
      BY <1>1, <2>4 DEF StepSlots, Slots
    <3>2. /\ Cardinality(StepSlots(x) \ {s}) = Cardinality(StepSlots(x)) - 1
          /\ Cardinality(StepSlots(x) \ {s}) \in Nat
      BY <2>3, <3>1, FS_RemoveElement, FS_CardinalityType
    <3>3. senders[x] > 0
      BY <2>2, <2>3, <3>2
    <3>4. senders'[x] = senders[x] - 1
      BY <2>4, <3>3 DEF Leave, CloseSlots
    <3> QED
      BY <2>1, <2>2, <2>3, <3>1, <3>2, <3>4
  <2>5. CASE x \notin Slots(s)
    <3>1. StepSlots(x)' = StepSlots(x) /\ senders'[x] = senders[x]
      BY <1>1, <2>5 DEF StepSlots, Slots, Leave, CloseSlots
    <3> QED
      BY <2>1, <2>2, <3>1
  <2> QED
    BY <2>4, <2>5
<1>3. SlotWhileSending'
  BY <1>1 DEF SInv, SlotWhileSending
<1> QED
  BY <1>2, <1>3 DEF SInv, SendersExact, SendSlots, StepSlots

\* Every other step of the executor leaves the slots as they are.
LEMMA SlotsAgent == ASSUME SInv, TypeOK', NEW s \in Known, Agent(s) \/ Retry(s) PROVE SInv'
<1>1. /\ send' = send
      /\ \A x \in Known \ {s} : at'[x] = at[x]
      /\ {at[s], at'[s]} \cap {"idle", "close", "closeEnd", "wait", "gone"} = {}
  BY AgentCalm DEF SInv
<1>2. UNCHANGED <<senders, slot>>
  BY DEF Agent, PreStart, PreMark, Call, CallFails, Panics, LoopEnds, Submitted, Inspect, Drain,
     NothingDrained, DrainMark, Leftover, LeftMark, Retry, sendVars, routerVars
<1>3. SlotWhileSending'
  BY <1>1, <1>2 DEF SInv, SlotWhileSending
<1>4. \A x \in Known : Registered(x)' <=> Registered(x)
  BY <1>1 DEF Registered
<1> QED
  BY <1>2, <1>3, <1>4, SlotsKept

LEMMA SlotsNext == SInv /\ [Next]_vars => SInv'
<1> SUFFICES ASSUME SInv, [Next]_vars PROVE SInv'
  OBVIOUS
<1>1. TypeOK'
  BY TypeNext DEF SInv
<1>2. CASE \E m \in Msg : SendStep(m)
  BY <1>1, <1>2, SlotsSend
<1>3. CASE \E s \in Known : StartStep(s) \/ Leave(s) \/ Agent(s) \/ Retry(s)
  BY <1>1, <1>3, SlotsStart, SlotsLeave, SlotsAgent
<1>4. CASE \E s \in Known : ReportClosed(s) \/ Closed(s) \/ Terminated(s) \/ HoldTimeout(s)
  <2>1. /\ UNCHANGED <<senders, slot, send>>
        /\ \A x \in Known : Registered(x)' <=> Registered(x)
    BY <1>4 DEF SInv, TypeOK, ReportClosed, Closed, Terminated, HoldTimeout, Goto, Registered,
       sendVars, routerVars
  <2>2. SlotWhileSending'
    BY <2>1 DEF SInv, SlotWhileSending
  <2> QED
    BY <1>1, <2>1, <2>2, SlotsKept
<1>5. CASE \/ \E s \in Known : Expire(s) \/ Poll(s) \/ FlushRead(s) \/ FlushClose(s)
           \/ ObserveAbort \/ GraceOver \/ Return \/ Abort \/ UNCHANGED vars
  <2>1. UNCHANGED <<senders, slot, send, at>>
    BY <1>5 DEF Expire, Poll, FlushRead, FlushClose, ObserveAbort, GraceOver, Return, Abort, vars,
       sendVars, routerVars
  <2>2. SlotWhileSending'
    BY <2>1 DEF SInv, SlotWhileSending
  <2>3. \A x \in Known : Registered(x)' <=> Registered(x)
    BY <2>1 DEF Registered
  <2> QED
    BY <1>1, <2>1, <2>2, <2>3, SlotsKept
<1> QED
  BY <1>2, <1>3, <1>4, <1>5 DEF Next, Main, RunStep

\* The sender count of every inbox, on which waitForStepTermination decides, is exactly the
\* running steps that hold a slot of it and the Sends under way that opened one: no return of
\* Send, no retry and no end of a step leaks a slot or closes one twice.
THEOREM SendersExactCorrect == Spec => []SendersExact
<1>1. SInv => SendersExact
  BY DEF SInv
<1> QED
  BY <1>1, SlotsInit, SlotsNext, PTL DEF Spec
-------------------------------------------------------------------------------
(* Reading and marking.                                                      *)

\* Messages wait to be marked only between a read and the step that marks them.
Marking == {"premark", "mark", "leftmark"}
BatchMarked == \A s \in Known : batch[s] # {} => at[s] \in Marking

\* What is in a mailbox has been read only if it is about to be marked, and what
\* has been read was appended, and will not be again.
UnreadOnce ==
  \A m \in Msg :
    /\ send[m] \in {"idle", "append"} => read[m] = 0 /\ m \notin box[To[m]]
    /\ \A s \in Inbox : m \in box[s] => /\ To[m] = s
                                        /\ read[m] = 0 \/ (s \in Known /\ m \in batch[s])

OInv == TypeOK /\ BatchMarked /\ UnreadOnce /\ ReadOnce

\* The steps of the specification by what they do to a mailbox and its reader.
Takes(s) ==
  /\ UNCHANGED <<send, box>>
  /\ at[s] \notin Marking
  /\ at'[s] \in Marking \/ box[s] = {}
  /\ \A x \in Known \ {s} : at'[x] = at[x]
  /\ Take(s)
Marks(s) ==
  /\ UNCHANGED <<send, read>>
  /\ at[s] \in Marking
  /\ \A x \in Known \ {s} : at'[x] = at[x]
  /\ MarkRead(s, batch[s])
  /\ batch' = [batch EXCEPT ![s] = {}]
LeavesOver(s) ==
  /\ UNCHANGED <<send, box, read>>
  /\ at[s] \notin Marking /\ at'[s] \in Marking
  /\ \A x \in Known \ {s} : at'[x] = at[x]
  /\ batch' = [batch EXCEPT ![s] = box[s]]
Passes ==
  /\ UNCHANGED <<send, read, batch>>
  /\ \A x \in Inbox : box'[x] \subseteq box[x]
  /\ \A x \in Known : at[x] \in Marking => /\ at'[x] = at[x]
                                           /\ box'[x] = box[x] \/ x \in flushing

LEMMA ReaderSteps ==
  ASSUME TypeOK, NEW s \in Known,
         RunStep(s) \/ StartStep(s) \/ Expire(s) \/ Poll(s) \/ FlushRead(s) \/ FlushClose(s)
  PROVE  Takes(s) \/ Marks(s) \/ LeavesOver(s) \/ Passes
<1> USE DEF TypeOK, Goto, Marking
<1>0. s \in Inbox
  BY RouterAssumption
<1>1. CASE PreStart(s) \/ Drain(s)
  BY <1>1 DEF PreStart, Drain, Takes, routerVars, storeVars, sendVars
<1>2. CASE PreMark(s) \/ DrainMark(s) \/ LeftMark(s)
  BY <1>2 DEF PreMark, DrainMark, LeftMark, Mark, Marks, sendVars
<1>3. CASE Leftover(s)
  BY <1>3 DEF Leftover, LeavesOver, storeVars, sendVars
<1>4. CASE \/ Call(s) \/ CallFails(s) \/ Panics(s) \/ LoopEnds(s) \/ Submitted(s) \/ Inspect(s)
           \/ NothingDrained(s) \/ Retry(s)
  BY <1>4 DEF Call, CallFails, Panics, LoopEnds, Submitted, Inspect, NothingDrained, Retry, Passes,
     routerVars, storeVars, sendVars, agentVars
<1>5. CASE \/ Leave(s) \/ ReportClosed(s) \/ Terminated(s) \/ StartStep(s) \/ Expire(s) \/ Poll(s)
           \/ FlushRead(s)
  BY <1>5 DEF Leave, ReportClosed, Terminated, StartStep, Expire, Poll, FlushRead, Passes,
     routerVars, storeVars, sendVars, agentVars
<1>6. CASE Closed(s) \/ FlushClose(s)
  <2>1. /\ UNCHANGED <<send, read, batch>>
        /\ \A x \in Inbox : box'[x] \subseteq box[x]
        /\ \A x \in Inbox \ {s} : box'[x] = box[x]
        /\ \A x \in Known \ {s} : at'[x] = at[x]
    BY <1>0, <1>6 DEF Closed, FlushClose, CloseEnd, CloseStore, sendVars, agentVars
  <2>2. at[s] \in Marking => at'[s] = at[s] /\ s \in flushing
    BY <1>6 DEF Closed, FlushClose
  <2> QED
    BY <2>1, <2>2, RouterAssumption DEF Passes
<1>7. CASE HoldTimeout(s)
  BY <1>0, <1>7, RouterAssumption DEF HoldTimeout, MarkRead, Passes, sendVars, agentVars
<1> QED
  BY <1>1, <1>2, <1>3, <1>4, <1>5, <1>6, <1>7 DEF RunStep, Agent

LEMMA MainPasses ==
  ASSUME TypeOK, ObserveAbort \/ GraceOver \/ Return \/ Abort \/ UNCHANGED vars
  PROVE  Passes
<1>1. UNCHANGED <<send, read, batch, box, at>>
  BY DEF ObserveAbort, GraceOver, Return, Abort, vars, routerVars, inboxVars, storeVars, sendVars,
     agentVars, runVars
<1> QED
  BY <1>1 DEF Passes

LEMMA OncePasses == ASSUME OInv, TypeOK', Passes PROVE OInv'
<1> USE DEF OInv, TypeOK, Passes
<1>1. BatchMarked' /\ ReadOnce'
  BY DEF BatchMarked, ReadOnce
<1>2. ASSUME NEW m \in Msg, send'[m] \in {"idle", "append"}
      PROVE  read'[m] = 0 /\ m \notin box'[To[m]]
  BY <1>2, RouterAssumption DEF UnreadOnce
<1>3. ASSUME NEW m \in Msg, NEW x \in Inbox, m \in box'[x]
      PROVE  To[m] = x /\ (read'[m] = 0 \/ (x \in Known /\ m \in batch'[x]))
  BY <1>3 DEF UnreadOnce
<1> QED
  BY <1>1, <1>2, <1>3 DEF UnreadOnce

LEMMA OnceReader ==
  ASSUME OInv, TypeOK', NEW s \in Known, Takes(s) \/ Marks(s) \/ LeavesOver(s) \/ Passes
  PROVE  OInv'
<1> USE DEF OInv, TypeOK
<1>0. s \in Inbox /\ Known \subseteq Inbox
  BY RouterAssumption
<1>1. CASE Takes(s)
  <2>1. batch[s] = {}
    BY <1>1 DEF Takes, BatchMarked
  <2>2. Consumed(box[s]) \subseteq box[s]
    BY DEF Consumed
  <2>3. BatchMarked'
    BY <1>1, <2>2 DEF Takes, Take, BatchMarked
  <2>4. \A m \in Consumed(box[s]) : m \in Msg /\ To[m] = s /\ read[m] = 0 /\ read'[m] = 1
    BY <1>0, <1>1, <2>1, <2>2 DEF Takes, Take, UnreadOnce
  <2>5. \A m \in Msg \ Consumed(box[s]) : read'[m] = read[m]
    BY <1>1 DEF Takes, Take
  <2>6. ReadOnce'
    BY <2>4, <2>5 DEF ReadOnce
  <2>7. UnreadOnce'
    <3>1. \A m \in Consumed(box[s]) : send[m] \notin {"idle", "append"}
      BY <2>2, <2>4 DEF UnreadOnce
    <3>2. send' = send /\ box' = box
      BY <1>1 DEF Takes
    <3>3. \A x \in Known : batch'[x] = IF x = s THEN Consumed(box[s]) ELSE batch[x]
      BY <1>1 DEF Takes, Take
    <3>4. ASSUME NEW m \in Msg, NEW x \in Inbox, m \in box[x]
          PROVE  To[m] = x /\ (read'[m] = 0 \/ (x \in Known /\ m \in batch'[x]))
      BY <1>0, <2>1, <2>4, <2>5, <3>3, <3>4 DEF UnreadOnce
    <3> QED
      BY <2>4, <2>5, <3>1, <3>2, <3>4 DEF UnreadOnce
  <2> QED
    BY <2>3, <2>6, <2>7
<1>2. CASE Marks(s)
  <2>1. /\ UNCHANGED <<send, read>>
        /\ box'[s] = box[s] \ batch[s] /\ batch'[s] = {}
        /\ \A x \in Inbox \ {s} : box'[x] = box[x]
        /\ \A x \in Known \ {s} : batch'[x] = batch[x] /\ at'[x] = at[x]
    BY <1>0, <1>2 DEF Marks, MarkRead
  <2>2. BatchMarked' /\ ReadOnce'
    BY <2>1 DEF BatchMarked, ReadOnce
  <2>3. \A x \in Inbox : box'[x] \subseteq box[x]
    BY <2>1
  <2>4. ASSUME NEW m \in Msg, NEW x \in Inbox, m \in box'[x]
        PROVE  To[m] = x /\ (read'[m] = 0 \/ (x \in Known /\ m \in batch'[x]))
    BY <2>1, <2>3, <2>4 DEF UnreadOnce
  <2>5. ASSUME NEW m \in Msg, send'[m] \in {"idle", "append"}
        PROVE  read'[m] = 0 /\ m \notin box'[To[m]]
    BY <2>1, <2>3, <2>5, RouterAssumption DEF UnreadOnce
  <2>6. UnreadOnce'
    BY <2>4, <2>5 DEF UnreadOnce
  <2> QED
    BY <2>2, <2>6
<1>3. CASE LeavesOver(s)
  BY <1>0, <1>3 DEF LeavesOver, BatchMarked, UnreadOnce, ReadOnce
<1>4. CASE Passes
  BY <1>4, OncePasses
<1> QED
  BY <1>1, <1>2, <1>3, <1>4

LEMMA OnceSend == ASSUME OInv, TypeOK', NEW m \in Msg, SendStep(m) PROVE OInv'
<1> USE DEF OInv, TypeOK
<1>1. /\ UNCHANGED <<at, batch, read>>
      /\ \A n \in Msg \ {m} : send'[n] = send[n]
      /\ send'[m] # "idle"
  BY DEF SendStep, Notify, SendCancelled, SendClosed, SendUnknown, SendOpen, SendAppend,
     SendCheck, SendReturn, Refuse, sendVars, agentVars
<1>2. \/ box' = box /\ (send'[m] = "append" => send[m] = "idle")
      \/ /\ send[m] = "append" /\ send'[m] = "check"
         /\ box' = [box EXCEPT ![To[m]] = @ \cup {m}]
  BY DEF SendStep, Notify, SendCancelled, SendClosed, SendUnknown, SendOpen, SendAppend,
     SendCheck, SendReturn, Begin, Refuse, Append, storeVars
<1>3. BatchMarked' /\ ReadOnce'
  BY <1>1 DEF BatchMarked, ReadOnce
<1>4. CASE box' = box /\ (send'[m] = "append" => send[m] = "idle")
  BY <1>1, <1>3, <1>4 DEF UnreadOnce
<1>5. CASE /\ send[m] = "append" /\ send'[m] = "check"
           /\ box' = [box EXCEPT ![To[m]] = @ \cup {m}]
  <2>1. read[m] = 0
    BY <1>5 DEF UnreadOnce
  <2> QED
    BY <1>1, <1>3, <1>5, <2>1, RouterAssumption DEF UnreadOnce
<1> QED
  BY <1>2, <1>4, <1>5

LEMMA OnceNext == OInv /\ [Next]_vars => OInv'
<1> SUFFICES ASSUME OInv, [Next]_vars PROVE OInv'
  OBVIOUS
<1>1. TypeOK'
  BY TypeNext DEF OInv
<1>2. CASE \E m \in Msg : SendStep(m)
  BY <1>1, <1>2, OnceSend
<1>3. CASE \E s \in Known : RunStep(s) \/ StartStep(s) \/ Expire(s) \/ Poll(s) \/ FlushRead(s)
                            \/ FlushClose(s)
  BY <1>1, <1>3, ReaderSteps, OnceReader DEF OInv
<1>4. CASE ObserveAbort \/ GraceOver \/ Return \/ Abort \/ UNCHANGED vars
  <2>1. Passes
    BY <1>4, MainPasses DEF OInv
  <2> QED
    BY <1>1, <2>1, OncePasses
<1> QED
  BY <1>2, <1>3, <1>4 DEF Next, Main

LEMMA OnceInit == Init => OInv
  BY TypeInit, RouterAssumption DEF Init, RInit, OInv, BatchMarked, UnreadOnce, ReadOnce

\* No message enters a conversation twice, although nothing protects the time between a read and
\* its marking: Sends, retries, Close and the abort flush may all fall in between, also when
\* the grace of the abort passes while agents run.
THEOREM ReadOnceCorrect == Spec => []ReadOnce
<1>1. OInv => ReadOnce
  BY DEF OInv
<1> QED
  BY <1>1, OnceInit, OnceNext, PTL DEF Spec

\* When the abort waits for the agents, the main thread flushes after the last of them.
FlushAfterAgents ==
  /\ flushing # {} => main \in {"flush", "returned"}
  /\ main \in {"flush", "returned"} => Active = {}

WInv == TypeOK /\ BatchMarked /\ FlushAfterAgents /\ BatchInBox

LEMMA FlushLast ==
  ASSUME WInv, [Next]_vars, ~GraceExpires
  PROVE  FlushAfterAgents'
<1> USE DEF WInv, TypeOK, FlushAfterAgents
<1>1. CASE \E m \in Msg : SendStep(m)
  <2>1. UNCHANGED <<at, main, flushing>>
    BY <1>1 DEF SendStep, Notify, runVars
  <2> QED
    BY <2>1 DEF Active
<1>2. ASSUME NEW s \in Known, RunStep(s) PROVE FlushAfterAgents'
  <2>1. UNCHANGED <<main, flushing>>
    BY <1>2 DEF RunStep, Agent, PreStart, PreMark, Call, CallFails, Panics, LoopEnds, Submitted,
       Inspect, Drain, NothingDrained, DrainMark, Leftover, LeftMark, Retry, Leave, ReportClosed,
       Closed, Terminated, HoldTimeout, runVars
  <2>2. at[s] \notin {"idle", "gone"} /\ \A x \in Known \ {s} : at'[x] = at[x]
    <3>1. CASE Agent(s) \/ Retry(s)
      BY <3>1, AgentCalm
    <3>2. CASE Leave(s) \/ ReportClosed(s) \/ Closed(s) \/ Terminated(s) \/ HoldTimeout(s)
      BY <3>2 DEF Leave, ReportClosed, Closed, Terminated, HoldTimeout, Goto
    <3> QED
      BY <1>2, <3>1, <3>2 DEF RunStep
  <2> QED
    BY <2>1, <2>2 DEF Active
<1>3. CASE \E s \in Known : StartStep(s)
  BY <1>3 DEF StartStep, runVars
<1>4. CASE \/ \E s \in Known : Expire(s) \/ Poll(s) \/ FlushRead(s) \/ FlushClose(s)
           \/ Abort \/ UNCHANGED vars
  <2>1. /\ UNCHANGED <<at, main>>
        /\ flushing' # {} => main \in {"flush", "returned"}
    BY <1>4 DEF Expire, Poll, FlushRead, FlushClose, Abort, vars, runVars
  <2> QED
    BY <2>1 DEF Active
<1>5. CASE ObserveAbort \/ GraceOver \/ Return
  BY <1>5 DEF ObserveAbort, GraceOver, Return, Drained, Active
<1> QED
  BY <1>1, <1>2, <1>3, <1>4, <1>5 DEF Next, Main

\* Nothing but the agent's own marking takes from its mailbox what it has read.
LEMMA BatchKept ==
  ASSUME WInv, NEW s \in Known,
         RunStep(s) \/ StartStep(s) \/ Expire(s) \/ Poll(s) \/ FlushRead(s) \/ FlushClose(s)
  PROVE  BatchMarked' /\ BatchInBox'
<1> USE DEF WInv, TypeOK, BatchMarked
<1>0. s \in Inbox /\ Known \subseteq Inbox
  BY RouterAssumption
<1>1. CASE Takes(s)
  BY <1>0, <1>1 DEF Takes, Take, Consumed, BatchInBox
<1>2. CASE Marks(s)
  BY <1>0, <1>2 DEF Marks, MarkRead, BatchInBox
<1>3. CASE LeavesOver(s)
  BY <1>0, <1>3 DEF LeavesOver, BatchInBox
<1>4. CASE Passes
  <2>1. \A x \in Known : at[x] \in Marking => box'[x] = box[x] /\ at'[x] = at[x]
    BY <1>4 DEF Passes, FlushAfterAgents, Active, Marking
  <2> QED
    BY <1>4, <2>1 DEF Passes, BatchInBox
<1> QED
  BY <1>1, <1>2, <1>3, <1>4, ReaderSteps

LEMMA BatchNext == ~GraceExpires /\ WInv /\ [Next]_vars => WInv'
<1> SUFFICES ASSUME ~GraceExpires, WInv, [Next]_vars PROVE WInv'
  OBVIOUS
<1>1. TypeOK' /\ FlushAfterAgents'
  BY TypeNext, FlushLast DEF WInv
<1>2. CASE \E m \in Msg : SendStep(m)
  <2>1. /\ UNCHANGED <<at, batch>>
        /\ \A x \in Inbox : box[x] \subseteq box'[x]
    BY <1>2 DEF WInv, TypeOK, SendStep, Notify, SendCancelled, SendClosed, SendUnknown, SendOpen,
       SendAppend, SendCheck, SendReturn, Append, storeVars, agentVars
  <2> QED
    BY <1>1, <2>1, RouterAssumption DEF WInv, BatchMarked, BatchInBox
<1>3. CASE \E s \in Known : RunStep(s) \/ StartStep(s) \/ Expire(s) \/ Poll(s) \/ FlushRead(s)
                            \/ FlushClose(s)
  BY <1>1, <1>3, BatchKept DEF WInv
<1>4. CASE ObserveAbort \/ GraceOver \/ Return \/ Abort \/ UNCHANGED vars
  <2>1. UNCHANGED <<at, batch, box>>
    BY <1>4 DEF ObserveAbort, GraceOver, Return, Abort, vars, routerVars, storeVars, agentVars
  <2> QED
    BY <1>1, <2>1 DEF WInv, BatchMarked, BatchInBox
<1> QED
  BY <1>2, <1>3, <1>4 DEF Next, Main

LEMMA BatchInit == Init => WInv
  BY TypeInit DEF Init, RInit, WInv, BatchMarked, FlushAfterAgents, BatchInBox

\* If an abort waits until the agents have ended before it flushes, a message that an agent has
\* read stays in its mailbox until that agent marks it: no Send, Close, hold timeout or flush
\* empties the mailbox between the two.  Without the assumption it is false.
THEOREM BatchInBoxCorrect == ~GraceExpires /\ Spec => []BatchInBox
<1>1. WInv => BatchInBox
  BY DEF WInv
<1>2. ASSUME ~GraceExpires PROVE Spec => []BatchInBox
  <2>1. WInv /\ [Next]_vars => WInv'
    BY <1>2, BatchNext
  <2> QED
    BY <1>1, <2>1, BatchInit, PTL DEF Spec
<1> QED
  BY <1>2
-------------------------------------------------------------------------------
(* The wait of a step that has closed its inbox.                             *)

\* A step that has left has closed its inbox for ever.
LeftClosed ==
  \A s \in Known : at[s] \in {"close", "closeEnd", "wait", "gone"} => s \in closed

LEMMA LeftNext == TypeOK /\ LeftClosed /\ [Next]_vars => LeftClosed'
<1> SUFFICES ASSUME TypeOK, LeftClosed, [Next]_vars PROVE LeftClosed'
  OBVIOUS
<1> USE DEF TypeOK, LeftClosed, Goto, inboxVars, storeVars, sendVars, routerVars
<1>1. ASSUME NEW m \in Msg, SendStep(m) PROVE LeftClosed'
  BY <1>1 DEF SendStep, Notify, SendCancelled, SendClosed, SendUnknown, SendOpen, SendAppend,
     SendCheck, SendReturn
<1>2. ASSUME NEW s \in Known, Agent(s) \/ Retry(s) PROVE LeftClosed'
  <2>1. /\ closed' = closed
        /\ \A x \in Known \ {s} : at'[x] = at[x]
        /\ at'[s] \notin {"close", "closeEnd", "wait", "gone"}
    BY <1>2, AgentCalm
  <2> QED
    BY <2>1
<1>3. ASSUME NEW s \in Known, StartStep(s) PROVE LeftClosed'
  BY <1>3 DEF StartStep, RegisterInbox
<1>4. ASSUME NEW s \in Known, Leave(s) PROVE LeftClosed'
  BY <1>4 DEF Leave, CloseBegin
<1>5. ASSUME NEW s \in Known, ReportClosed(s) \/ Closed(s) \/ Terminated(s) \/ HoldTimeout(s)
      PROVE  LeftClosed'
  BY <1>5 DEF ReportClosed, Closed, CloseEnd, Terminated, HoldTimeout
<1>6. ASSUME NEW s \in Known, Expire(s) \/ Poll(s) \/ FlushRead(s) \/ FlushClose(s)
      PROVE  LeftClosed'
  BY <1>6 DEF Expire, Poll, FlushRead, FlushClose
<1>7. CASE ObserveAbort \/ GraceOver \/ Return \/ Abort \/ UNCHANGED vars
  BY <1>7 DEF ObserveAbort, GraceOver, Return, Abort, MarkWorkflowCancelled, vars
<1> QED
  BY <1>1, <1>2, <1>3, <1>4, <1>5, <1>6, <1>7 DEF Next, Main, RunStep

\* In the executor of an Orchestrator the wait of a step for its termination never waits, as the
\* comment in executor_step.go says: once Close has returned there is no message and no sender
\* left.  In an Executor built by itself, without the flag, it is false.
THEOREM WaitReturnsAtOnceCorrect == DagAware /\ Spec => []WaitReturnsAtOnce
<1>1. Init => LeftClosed
  BY DEF Init, LeftClosed
<1>2. ASSUME DagAware, IInv, SInv, LeftClosed PROVE WaitReturnsAtOnce
  <2> SUFFICES ASSUME NEW s \in Known, at[s] = "wait" PROVE senders[s] = 0 /\ box[s] = {}
    BY DEF WaitReturnsAtOnce, Quiet
  <2>1. s \in closed \ locked /\ s \in Inbox
    BY <1>2, RouterAssumption DEF LeftClosed, IInv, LockedWhileClosing
  <2>2. box[s] = {}
    BY <1>2, <2>1 DEF IInv, NothingStranded
  <2>3. SendSlots(s) = {}
    <3>1. Sending(s) = {}
      BY <1>2, <2>1 DEF IInv, ClosedHasLeft
    <3>2. slot \subseteq Msg
      BY <1>2 DEF IInv, TypeOK
    <3> QED
      BY <1>2, <3>1, <3>2 DEF SendSlots, SInv, SlotWhileSending, Sending
  <2>4. StepSlots(s) = {}
    BY <1>2 DEF StepSlots, Slots, Registered
  <2>5. senders[s] = Cardinality(SendSlots(s)) + Cardinality(StepSlots(s))
    BY <1>2, <2>1 DEF SInv, SendersExact, SendSlots, StepSlots
  <2> QED
    BY <2>2, <2>3, <2>4, <2>5, FS_EmptySet
<1>3. ASSUME DagAware PROVE Spec => []WaitReturnsAtOnce
  <2>1. IInv /\ SInv /\ LeftClosed => WaitReturnsAtOnce
    BY <1>2, <1>3
  <2>2. IInv => TypeOK
    BY DEF IInv
  <2> QED
    BY <1>1, <2>1, <2>2, ClosedInit, ClosedNext, SlotsInit, SlotsNext, LeftNext, PTL DEF Spec
<1> QED
  BY <1>3
-------------------------------------------------------------------------------
(* The contract of a mailbox.                                                *)

\* A message has a number from its append on, and numbers grow.
Numbered ==
  \A m \in Msg : /\ id[m] <= idSeq
                 /\ id[m] > 0 <=> send[m] \in {"check", "notify", "accepted"}

\* Nothing is read and reported, or twice; nothing happens to a message before its append but
\* that it is refused.
OneEnd ==
  \A m \in Msg :
    /\ events[m] + read[m] <= 1
    /\ id[m] = 0 => /\ read[m] = 0 /\ \A s \in Inbox : m \notin box[s]
                    /\ events[m] = IF send[m] = "refused" THEN 1 ELSE 0

\* What has left its mailbox was read or reported.
NoneLost == \A m \in Msg : id[m] > 0 /\ m \notin box[To[m]] => events[m] + read[m] = 1

\* What has been read or reported is still in its mailbox only for the step that removes it.
EndedInBox ==
  \A s \in Inbox : \A m \in box[s] :
    events[m] + read[m] = 1 <=> s \in Known /\ (m \in batch[s] \/ at[s] = "closeEnd")

\* The store of a mailbox is closed after its inbox, and a flush is of a step that started.
FlushLeft == shut \subseteq closed /\ \A s \in toFlush \cup flushing : at[s] # "idle"

Settled == Numbered /\ OneEnd /\ NoneLost /\ EndedInBox
MInv == IInv /\ OInv /\ WInv /\ LeftClosed /\ FlushLeft /\ Settled

\* What becomes of a message, told by its Send, its number and its ends alone.
Told(m) ==
  IF send[m] = "handed" THEN "handed" ELSE
  IF events[m] = 1 THEN "dropped" ELSE
  IF read[m] = 1 THEN "read" ELSE
  IF id[m] > 0 THEN "queued" ELSE "new"

\* The invariant tells a fate from the mailbox: none is lost and none has two.
LEMMA FateTold ==
  ASSUME MInv, NEW m \in Msg
  PROVE  Fate(m) = Told(m)
<1>1. /\ events[m] \in Nat /\ read[m] \in Nat /\ id[m] \in Nat /\ To[m] \in Inbox
  BY RouterAssumption DEF MInv, IInv, TypeOK
<1>2. /\ events[m] + read[m] <= 1
      /\ id[m] > 0 <=> send[m] \in {"check", "notify", "accepted"}
      /\ id[m] = 0 => read[m] = 0 /\ m \notin box[To[m]] /\ (send[m] # "refused" => events[m] = 0)
      /\ id[m] > 0 /\ m \notin box[To[m]] => events[m] + read[m] = 1
  BY <1>1 DEF MInv, Settled, Numbered, OneEnd, NoneLost
<1>3. CASE send[m] = "handed"
  <2>1. id[m] = 0 /\ events[m] = 0 /\ read[m] = 0
    BY <1>1, <1>2, <1>3
  <2>2. Ends(m) = 1
    BY <1>3, <2>1 DEF Ends
  <2> QED
    BY <1>3, <2>1, <2>2 DEF Fate, Told
<1>4. CASE send[m] # "handed" /\ events[m] = 1
  <2>1. Ends(m) = 1 /\ read[m] = 0
    BY <1>1, <1>2, <1>4 DEF Ends
  <2> QED
    BY <1>4, <2>1 DEF Fate, Told
<1>5. CASE send[m] # "handed" /\ events[m] = 0 /\ read[m] = 1
  <2>1. Ends(m) = 1
    BY <1>5 DEF Ends
  <2> QED
    BY <1>5, <2>1 DEF Fate, Told
<1>6. CASE send[m] # "handed" /\ events[m] = 0 /\ read[m] = 0
  <2>1. Ends(m) = 0
    BY <1>6 DEF Ends
  <2>2. CASE m \in box[To[m]]
    BY <1>1, <1>2, <1>6, <2>1, <2>2 DEF Fate, Told
  <2>3. CASE m \notin box[To[m]]
    <3>1. id[m] = 0 /\ send[m] # "accepted"
      BY <1>1, <1>2, <1>6, <2>3
    <3> QED
      BY <1>6, <2>1, <2>3, <3>1 DEF Fate, Told
  <2> QED
    BY <2>2, <2>3
<1> QED
  BY <1>1, <1>2, <1>3, <1>4, <1>5, <1>6

\* The steps of the specification by what they do to mail.
OtherSteps(s) == \A x \in Known \ {s} : at'[x] = at[x]
Refuses(m) ==
  /\ send[m] \in {"idle", "append"} /\ send' = [send EXCEPT ![m] = "refused"]
  /\ Emit({m}) /\ UNCHANGED <<box, id, idSeq, read, batch, at>>
Hands(m) ==
  /\ send[m] = "idle" /\ send' = [send EXCEPT ![m] = "handed"]
  /\ UNCHANGED <<box, id, idSeq, events, read, batch, at>>
Moves(m) ==
  /\ \/ send[m] = "idle" /\ send' = [send EXCEPT ![m] = "append"]
     \/ send[m] = "check" /\ send' = [send EXCEPT ![m] = "notify"]
     \/ send[m] = "notify" /\ send' = [send EXCEPT ![m] = "accepted"]
  /\ UNCHANGED <<box, id, idSeq, events, read, batch, at>>
Queues(m) ==
  /\ send[m] = "append" /\ send' = [send EXCEPT ![m] = "check"]
  /\ Append(m) /\ UNCHANGED <<events, read, batch, at>>
Reads(s) ==
  /\ at[s] \in {"prestart", "drain"} /\ at'[s] # "closeEnd" /\ OtherSteps(s)
  /\ Take(s) /\ UNCHANGED <<box, id, idSeq, send, events>>
Removes(s) ==
  /\ at[s] \in Marking /\ at'[s] # "closeEnd" /\ OtherSteps(s)
  /\ Mark(s) /\ UNCHANGED <<send, events, read>>
DropsLeft(s) ==
  /\ at[s] = "leftover" /\ at'[s] = "leftmark" /\ OtherSteps(s)
  /\ Emit(box[s]) /\ batch' = [batch EXCEPT ![s] = box[s]]
  /\ UNCHANGED <<box, id, idSeq, send, read>>
DropsClosed(s) ==
  /\ at[s] = "close" /\ at'[s] = "closeEnd" /\ OtherSteps(s)
  /\ Emit(box[s]) /\ UNCHANGED <<box, id, idSeq, send, read, batch>>
Empties(s) ==
  /\ at[s] = "closeEnd" /\ at'[s] = "wait" /\ OtherSteps(s)
  /\ box' = [box EXCEPT ![s] = {}] /\ UNCHANGED <<id, idSeq, send, events, read, batch>>
Still ==
  /\ UNCHANGED <<box, id, idSeq, send, events, read, batch>>
  /\ \A x \in Known : at'[x] = "closeEnd" <=> at[x] = "closeEnd"

\* No Send finds the store of its mailbox closed: the inbox was closed before, and Close waits
\* for the Sends under way.
LEMMA SendKinds ==
  ASSUME MInv, NEW m \in Msg, SendStep(m)
  PROVE  Refuses(m) \/ Hands(m) \/ Moves(m) \/ Queues(m)
<1>0. To[m] \in Inbox /\ batch' = batch /\ read' = read /\ at' = at
  BY RouterAssumption DEF SendStep, Notify, agentVars
<1>1. send[m] \in {"append", "check", "notify"} => To[m] \notin shut
  BY <1>0 DEF MInv, FlushLeft, IInv, ClosedHasLeft, Sending
<1>2. CASE SendCancelled(m) \/ SendClosed(m) \/ SendUnknown(m)
  BY <1>0, <1>2 DEF SendCancelled, SendClosed, SendUnknown, Begin, Refuse, Refuses, Hands, storeVars
<1>3. CASE SendOpen(m)
  BY <1>0, <1>3 DEF SendOpen, Begin, Moves, storeVars
<1>4. CASE SendAppend(m)
  BY <1>0, <1>1, <1>4 DEF SendAppend, Refuse, Refuses, Queues, storeVars
<1>5. CASE SendCheck(m)
  BY <1>0, <1>1, <1>5 DEF SendCheck, Moves, storeVars
<1>6. CASE Notify(m)
  BY <1>0, <1>6 DEF Notify, SendReturn, Moves, storeVars
<1> QED
  BY <1>2, <1>3, <1>4, <1>5, <1>6 DEF SendStep

\* The inbox of a step that has returned from Close is empty.
LEMMA LeftEmpty ==
  ASSUME MInv, NEW s \in Known, at[s] \in {"wait", "gone"}
  PROVE  s \in Inbox /\ s \in closed /\ box[s] = {}
<1>1. s \in Inbox
  BY RouterAssumption
<1>2. s \in closed /\ s \notin locked
  BY DEF MInv, LeftClosed, IInv, LockedWhileClosing
<1> QED
  BY <1>1, <1>2 DEF MInv, IInv, NothingStranded

\* A flush comes after the agents: it finds nothing.
LEMMA FlushGone ==
  ASSUME MInv, NEW s \in Known, FlushRead(s) \/ FlushClose(s)
  PROVE  at[s] = "gone"
<1>1. s \in toFlush \cup flushing /\ main \in {"flush", "returned"}
  BY DEF FlushRead, FlushClose, MInv, WInv, FlushAfterAgents
<1>2. at[s] # "idle" /\ Active = {}
  BY <1>1 DEF MInv, FlushLeft, WInv, FlushAfterAgents
<1> QED
  BY <1>2 DEF Active

\* To report no message, or to remove none, changes nothing.
LEMMA NothingEmitted ==
  ASSUME TypeOK, NEW s \in Inbox, box[s] = {}
  PROVE  /\ Emit(box[s]) => events' = events
         /\ MarkRead(s, box[s]) => box' = box
         /\ box' = [box EXCEPT ![s] = {}] => box' = box
<1>1. events = [m \in Msg |-> events[m]] /\ box = [x \in Inbox |-> box[x]]
  BY DEF TypeOK
<1> QED
  BY <1>1 DEF Emit, MarkRead

LEMMA StepKinds ==
  ASSUME MInv, NEW s \in Known,
         RunStep(s) \/ StartStep(s) \/ Expire(s) \/ Poll(s) \/ FlushRead(s) \/ FlushClose(s)
  PROVE  Reads(s) \/ Removes(s) \/ DropsLeft(s) \/ DropsClosed(s) \/ Empties(s) \/ Still
<1>0. s \in Inbox /\ TypeOK
  BY RouterAssumption DEF MInv, IInv
<1> USE DEF TypeOK, Goto
<1>1. CASE PreStart(s) \/ Drain(s)
  BY <1>0, <1>1 DEF PreStart, Drain, Reads, OtherSteps, routerVars, storeVars, sendVars
<1>2. CASE PreMark(s) \/ DrainMark(s) \/ LeftMark(s)
  BY <1>0, <1>2 DEF PreMark, DrainMark, LeftMark, Removes, OtherSteps, Marking, sendVars
<1>3. CASE Leftover(s)
  BY <1>0, <1>3 DEF Leftover, EmitResidual, DropsLeft, OtherSteps, storeVars, sendVars
<1>4. CASE \/ Call(s) \/ CallFails(s) \/ Panics(s) \/ LoopEnds(s) \/ Submitted(s) \/ Inspect(s)
           \/ NothingDrained(s) \/ Retry(s) \/ Leave(s) \/ Terminated(s) \/ StartStep(s)
           \/ Expire(s) \/ Poll(s)
  BY <1>0, <1>4 DEF Call, CallFails, Panics, LoopEnds, Submitted, Inspect, NothingDrained, Retry,
     Leave, Terminated, StartStep, Expire, Poll, Still, routerVars, storeVars, sendVars, agentVars
<1>5. CASE ReportClosed(s)
  BY <1>0, <1>5 DEF ReportClosed, CloseDrop, DropsClosed, OtherSteps, storeVars, sendVars, agentVars
<1>6. CASE Closed(s)
  BY <1>0, <1>6 DEF Closed, CloseEnd, CloseStore, Empties, OtherSteps, sendVars, agentVars
<1>7. CASE HoldTimeout(s)
  <2>1. at[s] = "wait" /\ box[s] = {}
    BY <1>7, LeftEmpty DEF HoldTimeout
  <2>2. events' = events /\ box' = box
    BY <1>0, <1>7, <2>1, NothingEmitted DEF HoldTimeout
  <2> QED
    BY <1>0, <1>7, <2>2 DEF HoldTimeout, Still, sendVars, agentVars
<1>8. CASE FlushRead(s) \/ FlushClose(s)
  <2>1. box[s] = {}
    BY <1>8, FlushGone, LeftEmpty
  <2>2. events' = events /\ box' = box
    BY <1>0, <1>8, <2>1, NothingEmitted DEF FlushRead, FlushClose, CloseStore, storeVars
  <2> QED
    BY <1>8, <2>2 DEF FlushRead, FlushClose, CloseStore, Still, storeVars, sendVars, agentVars
<1> QED
  BY <1>1, <1>2, <1>3, <1>4, <1>5, <1>6, <1>7, <1>8 DEF RunStep, Agent

LEMMA MainStill ==
  ASSUME ObserveAbort \/ GraceOver \/ Return \/ Abort \/ UNCHANGED vars
  PROVE  Still
BY DEF ObserveAbort, GraceOver, Return, Abort, Still, vars, routerVars, storeVars, sendVars,
   agentVars, runVars

LEMMA SettledSend ==
  ASSUME MInv, NEW m \in Msg, SendStep(m), TypeOK'
  PROVE  Settled'
<1> USE DEF TypeOK
<1>0. /\ To[m] \in Inbox /\ To \in [Msg -> Inbox] /\ Known \subseteq Inbox
      /\ TypeOK /\ Numbered /\ OneEnd /\ NoneLost /\ EndedInBox
  BY RouterAssumption DEF MInv, IInv, Settled
<1>T. \A n \in Msg : id[n] \in Nat /\ events[n] \in Nat /\ read[n] \in Nat
  BY <1>0
<1>U. ASSUME NEW n \in Msg, send[n] \in {"idle", "append", "handed", "refused"}
      PROVE  /\ id[n] = 0 /\ read[n] = 0 /\ \A s \in Inbox : n \notin box[s]
             /\ send[n] # "refused" => events[n] = 0
  <2>1. ~(id[n] > 0) /\ id[n] \in Nat
    BY <1>0, <1>T, <1>U DEF Numbered
  <2>2. id[n] = 0
    BY <2>1
  <2> QED
    BY <1>0, <2>2 DEF OneEnd
<1>1. CASE Refuses(m) \/ Hands(m) \/ Moves(m)
  <2>1. /\ UNCHANGED <<box, id, idSeq, read, batch, at>>
        /\ \A n \in Msg \ {m} : send'[n] = send[n] /\ events'[n] = events[n]
        /\ \/ /\ send[m] \in {"idle", "append"} /\ send'[m] = "refused"
              /\ events'[m] = events[m] + 1
           \/ /\ send[m] = "idle" /\ send'[m] \in {"append", "handed"}
              /\ events'[m] = events[m]
           \/ /\ send[m] \in {"check", "notify"} /\ send'[m] \in {"notify", "accepted"}
              /\ events'[m] = events[m]
    BY <1>0, <1>1 DEF Refuses, Hands, Moves, Emit
  <2>2. send[m] \in {"idle", "append"} => id[m] = 0 /\ read[m] = 0 /\ events[m] = 0
    BY <1>U
  <2>3. Numbered'
    BY <1>0, <2>1 DEF Numbered
  <2>4. OneEnd'
    <3> SUFFICES ASSUME NEW n \in Msg
                 PROVE  /\ events'[n] + read'[n] <= 1
                        /\ id'[n] = 0 => /\ read'[n] = 0 /\ \A s \in Inbox : n \notin box'[s]
                                         /\ events'[n] = IF send'[n] = "refused" THEN 1 ELSE 0
      BY DEF OneEnd
    <3>1. /\ events[n] + read[n] <= 1
          /\ id[n] = 0 => /\ read[n] = 0 /\ \A s \in Inbox : n \notin box[s]
                          /\ events[n] = IF send[n] = "refused" THEN 1 ELSE 0
      BY <1>0 DEF OneEnd
    <3>2. CASE n # m
      BY <2>1, <3>1, <3>2
    <3>3. CASE n = m /\ id[m] = 0
      BY <1>T, <2>1, <2>2, <3>1, <3>3
    <3>4. CASE n = m /\ id[m] # 0
      <4>1. send[m] \notin {"idle", "append"}
        BY <2>2, <3>4
      <4> QED
        BY <2>1, <3>1, <3>4, <4>1
    <3> QED
      BY <3>2, <3>3, <3>4
  <2>5. NoneLost'
    BY <1>0, <2>1, <2>2 DEF NoneLost
  <2>6. EndedInBox'
    BY <1>0, <2>1, <2>2 DEF EndedInBox, OneEnd
  <2> QED
    BY <2>3, <2>4, <2>5, <2>6 DEF Settled
<1>2. CASE Queues(m)
  <2>1. /\ UNCHANGED <<events, read, batch, at>>
        /\ \A n \in Msg \ {m} : send'[n] = send[n] /\ id'[n] = id[n]
        /\ send[m] = "append" /\ send'[m] = "check" /\ id'[m] = idSeq + 1 /\ idSeq' = idSeq + 1
        /\ box'[To[m]] = box[To[m]] \cup {m}
        /\ \A s \in Inbox \ {To[m]} : box'[s] = box[s]
    BY <1>0, <1>2 DEF Queues, Append
  <2>2. id[m] = 0 /\ read[m] = 0 /\ events[m] = 0 /\ m \notin box[To[m]]
    BY <1>0, <1>U, <2>1
  <2>3. To[m] \in Known => m \notin batch[To[m]] /\ at[To[m]] # "closeEnd"
    BY <1>0, <2>1, <2>2 DEF MInv, WInv, BatchInBox, LeftClosed, IInv, ClosedHasLeft, Sending
  <2>4. Numbered'
    BY <1>0, <2>1 DEF Numbered
  <2>5. OneEnd'
    <3> SUFFICES ASSUME NEW n \in Msg
                 PROVE  /\ events'[n] + read'[n] <= 1
                        /\ id'[n] = 0 => /\ read'[n] = 0 /\ \A s \in Inbox : n \notin box'[s]
                                         /\ events'[n] = IF send'[n] = "refused" THEN 1 ELSE 0
      BY DEF OneEnd
    <3>1. /\ events[n] + read[n] <= 1
          /\ id[n] = 0 => /\ read[n] = 0 /\ \A s \in Inbox : n \notin box[s]
                          /\ events[n] = IF send[n] = "refused" THEN 1 ELSE 0
      BY <1>0 DEF OneEnd
    <3>2. CASE n # m
      BY <2>1, <3>1, <3>2
    <3>3. CASE n = m
      <4>1. id'[m] # 0
        BY <1>0, <2>1
      <4> QED
        BY <2>1, <3>1, <3>3, <4>1
    <3> QED
      BY <3>2, <3>3
  <2>6. NoneLost'
    BY <1>0, <2>1, <2>2 DEF NoneLost
  <2>7. EndedInBox'
    <3> SUFFICES ASSUME NEW x \in Inbox, NEW n \in box'[x]
                 PROVE  events'[n] + read'[n] = 1
                          <=> x \in Known /\ (n \in batch'[x] \/ at'[x] = "closeEnd")
      BY DEF EndedInBox
    <3>1. CASE x = To[m] /\ n = m
      BY <2>1, <2>2, <2>3, <3>1
    <3>2. CASE x # To[m] \/ n # m
      <4>1. n \in box[x]
        BY <2>1, <3>2
      <4>2. events[n] + read[n] = 1
              <=> x \in Known /\ (n \in batch[x] \/ at[x] = "closeEnd")
        BY <1>0, <4>1, Zenon DEF EndedInBox
      <4> QED
        BY <2>1, <4>2
    <3> QED
      BY <3>1, <3>2
  <2> QED
    BY <2>4, <2>5, <2>6, <2>7 DEF Settled
<1> QED
  BY <1>1, <1>2, SendKinds

LEMMA SettledStill ==
  ASSUME MInv, Still
  PROVE  Settled'
BY RouterAssumption DEF MInv, Settled, Still, Numbered, OneEnd, NoneLost, EndedInBox

LEMMA SettledStep ==
  ASSUME MInv, NEW s \in Known, TypeOK',
         Reads(s) \/ Removes(s) \/ DropsLeft(s) \/ DropsClosed(s) \/ Empties(s)
  PROVE  Settled'
<1> USE DEF TypeOK
<1>0. /\ s \in Inbox /\ To \in [Msg -> Inbox] /\ Known \subseteq Inbox
      /\ TypeOK /\ Numbered /\ OneEnd /\ NoneLost /\ EndedInBox
      /\ \A x \in Inbox : \A m \in box[x] : To[m] = x /\ m \in Msg
  BY RouterAssumption DEF MInv, IInv, OInv, UnreadOnce, Settled
<1>E. \A x \in Inbox : \A m \in box[x] :
        events[m] + read[m] = 1 <=> x \in Known /\ (m \in batch[x] \/ at[x] = "closeEnd")
  BY <1>0, Zenon DEF EndedInBox
<1>1. ASSUME NEW m \in box[s], at[s] \notin Marking, at[s] # "closeEnd"
      PROVE  events[m] = 0 /\ read[m] = 0 /\ id[m] > 0
  <2>1. batch[s] = {}
    BY <1>1 DEF MInv, WInv, BatchMarked
  <2>2. m \in Msg /\ events[m] + read[m] # 1 /\ events[m] + read[m] <= 1 /\ id[m] # 0
    BY <1>0, <1>1, <2>1 DEF EndedInBox, OneEnd
  <2>3. id[m] \in Nat /\ events[m] \in Nat /\ read[m] \in Nat
    BY <1>0, <2>2
  <2> QED
    BY <2>2, <2>3
<1>2. CASE Reads(s)
  <2>1. /\ UNCHANGED <<box, id, idSeq, send, events>> /\ at[s] \in {"prestart", "drain"}
        /\ at'[s] # "closeEnd" /\ \A x \in Known \ {s} : at'[x] = at[x] /\ batch'[x] = batch[x]
        /\ batch'[s] = Consumed(box[s]) /\ Consumed(box[s]) \subseteq box[s]
        /\ \A m \in Consumed(box[s]) : read'[m] = read[m] + 1
        /\ \A m \in Msg \ Consumed(box[s]) : read'[m] = read[m]
    BY <1>0, <1>2 DEF Reads, OtherSteps, Take, Consumed
  <2>2. \A m \in box[s] : events[m] = 0 /\ read[m] = 0 /\ id[m] > 0
    BY <1>1, <2>1 DEF Marking
  <2>3. Numbered'
    BY <2>1, <1>0 DEF Numbered
  <2>4. OneEnd'
    BY <1>0, <2>1, <2>2 DEF OneEnd
  <2>5. NoneLost'
    BY <1>0, <2>1, <2>2 DEF NoneLost
  <2>6. EndedInBox'
    BY <1>0, <2>1, <2>2 DEF EndedInBox
  <2> QED
    BY <2>3, <2>4, <2>5, <2>6 DEF Settled
<1>3. CASE Removes(s)
  <2>1. /\ UNCHANGED <<id, idSeq, send, events, read>>
        /\ at[s] # "closeEnd" /\ at'[s] # "closeEnd"
        /\ \A x \in Known \ {s} : at'[x] = at[x] /\ batch'[x] = batch[x]
        /\ batch'[s] = {} /\ box'[s] = box[s] \ batch[s]
        /\ \A x \in Inbox \ {s} : box'[x] = box[x]
    BY <1>0, <1>3 DEF Removes, OtherSteps, Mark, MarkRead, Marking
  <2>2. \A m \in batch[s] : m \in box[s] /\ events[m] + read[m] = 1
    BY <1>0 DEF MInv, WInv, BatchInBox, EndedInBox
  <2>3. Numbered' /\ OneEnd'
    BY <1>0, <2>1 DEF Numbered, OneEnd
  <2>4. NoneLost'
    BY <1>0, <2>1, <2>2 DEF NoneLost
  <2>5. EndedInBox'
    <3> SUFFICES ASSUME NEW x \in Inbox, NEW m \in box'[x]
                 PROVE  events'[m] + read'[m] = 1
                          <=> x \in Known /\ (m \in batch'[x] \/ at'[x] = "closeEnd")
      BY DEF EndedInBox
    <3>1. m \in box[x] /\ events'[m] = events[m] /\ read'[m] = read[m]
      BY <1>0, <2>1
    <3>2. events[m] + read[m] = 1 <=> x \in Known /\ (m \in batch[x] \/ at[x] = "closeEnd")
      BY <3>1, <1>E, Zenon
    <3>3. CASE x = s
      BY <2>1, <3>1, <3>2, <3>3
    <3>4. CASE x # s
      BY <2>1, <3>1, <3>2, <3>4
    <3> QED
      BY <3>3, <3>4
  <2> QED
    BY <2>3, <2>4, <2>5 DEF Settled
<1>4. CASE DropsLeft(s) \/ DropsClosed(s)
  <2>1. /\ UNCHANGED <<box, id, idSeq, send, read>> /\ at[s] \in {"leftover", "close"}
        /\ \A x \in Known \ {s} : at'[x] = at[x] /\ batch'[x] = batch[x]
        /\ batch'[s] = box[s] \/ at'[s] = "closeEnd"
        /\ at'[s] = "closeEnd" => batch'[s] = batch[s]
        /\ \A m \in box[s] : events'[m] = events[m] + 1
        /\ \A m \in Msg \ box[s] : events'[m] = events[m]
    BY <1>0, <1>4 DEF DropsLeft, DropsClosed, OtherSteps, Emit
  <2>2. \A m \in box[s] : events[m] = 0 /\ read[m] = 0 /\ id[m] > 0
    BY <1>1, <2>1 DEF Marking
  <2>3. Numbered'
    BY <2>1, <1>0 DEF Numbered
  <2>4. OneEnd'
    BY <1>0, <2>1, <2>2 DEF OneEnd
  <2>5. NoneLost'
    BY <1>0, <2>1, <2>2 DEF NoneLost
  <2>6. EndedInBox'
    <3> SUFFICES ASSUME NEW x \in Inbox, NEW m \in box'[x]
                 PROVE  events'[m] + read'[m] = 1
                          <=> x \in Known /\ (m \in batch'[x] \/ at'[x] = "closeEnd")
      BY DEF EndedInBox
    <3>1. m \in box[x] /\ m \in Msg /\ To[m] = x /\ read'[m] = read[m]
      BY <1>0, <2>1
    <3>2. events[m] + read[m] = 1 <=> x \in Known /\ (m \in batch[x] \/ at[x] = "closeEnd")
      BY <3>1, <1>E, Zenon
    <3>3. CASE x = s
      BY <2>1, <2>2, <3>1, <3>3
    <3>4. CASE x # s
      <4>1. m \notin box[s] /\ events'[m] = events[m]
        BY <1>0, <2>1, <3>1, <3>4
      <4> QED
        BY <2>1, <3>1, <3>2, <3>4, <4>1
    <3> QED
      BY <3>3, <3>4
  <2> QED
    BY <2>3, <2>4, <2>5, <2>6 DEF Settled
<1>5. CASE Empties(s)
  <2>1. /\ UNCHANGED <<id, idSeq, send, events, read, batch>> /\ at[s] = "closeEnd"
        /\ \A x \in Known \ {s} : at'[x] = at[x]
        /\ box'[s] = {} /\ \A x \in Inbox \ {s} : box'[x] = box[x]
    BY <1>0, <1>5 DEF Empties, OtherSteps
  <2>2. \A m \in box[s] : events[m] + read[m] = 1
    BY <1>0, <2>1 DEF EndedInBox
  <2>3. Numbered' /\ OneEnd'
    BY <1>0, <2>1 DEF Numbered, OneEnd
  <2>4. NoneLost'
    BY <1>0, <2>1, <2>2 DEF NoneLost
  <2>5. EndedInBox'
    BY <1>0, <2>1 DEF EndedInBox
  <2> QED
    BY <2>3, <2>4, <2>5 DEF Settled
<1> QED
  BY <1>2, <1>3, <1>4, <1>5

LEMMA FlushNext ==
  ASSUME MInv, [Next]_vars
  PROVE  FlushLeft'
<1> USE DEF TypeOK, FlushLeft
<1>0. TypeOK /\ FlushLeft
  BY DEF MInv, IInv
<1>1. ASSUME NEW m \in Msg, SendStep(m) PROVE FlushLeft'
  BY <1>0, <1>1 DEF SendStep, Notify, SendCancelled, SendClosed, SendUnknown, SendOpen, SendAppend,
     SendCheck, SendReturn, Append, Refuse, inboxVars, storeVars, runVars
<1>2. ASSUME NEW s \in Known, Agent(s) \/ Retry(s) PROVE FlushLeft'
  <2>1. /\ closed' = closed /\ \A x \in Known \ {s} : at'[x] = at[x]
        /\ at'[s] # "idle"
    BY <1>0, <1>2, AgentCalm
  <2>2. UNCHANGED <<shut, toFlush, flushing>>
    <3>1. CASE \/ PreStart(s) \/ Call(s) \/ CallFails(s) \/ Panics(s) \/ LoopEnds(s)
               \/ Submitted(s) \/ Drain(s) \/ NothingDrained(s) \/ Leftover(s) \/ Retry(s)
      BY <3>1 DEF PreStart, Call, CallFails, Panics, LoopEnds, Submitted, Drain, NothingDrained,
         Leftover, Retry, runVars, routerVars, inboxVars, storeVars
    <3>2. CASE PreMark(s) \/ DrainMark(s) \/ LeftMark(s) \/ Inspect(s)
      BY <3>2 DEF PreMark, DrainMark, LeftMark, Inspect, Mark, runVars, routerVars, inboxVars, storeVars
    <3> QED
      BY <1>2, <3>1, <3>2 DEF Agent
  <2> QED
    BY <1>0, <2>1, <2>2
<1>3. ASSUME NEW s \in Known,
             \/ Leave(s) \/ ReportClosed(s) \/ Terminated(s) \/ HoldTimeout(s)
             \/ Expire(s) \/ Poll(s) \/ FlushRead(s)
      PROVE  FlushLeft'
  BY <1>0, <1>3 DEF Leave, CloseBegin, ReportClosed, Terminated, HoldTimeout, Expire, Poll,
     FlushRead, Goto, runVars, routerVars, inboxVars, storeVars
<1>4. ASSUME NEW s \in Known, Closed(s) PROVE FlushLeft'
  <2>1. s \in closed
    BY <1>4 DEF Closed, Goto, MInv, LeftClosed
  <2> QED
    BY <1>0, <1>4, <2>1 DEF Closed, CloseEnd, CloseStore, Goto, runVars
<1>5. ASSUME NEW s \in Known, FlushClose(s) PROVE FlushLeft'
  <2>1. s \in closed
    BY <1>5, FlushGone, LeftEmpty
  <2> QED
    BY <1>0, <1>5, <2>1 DEF FlushClose, CloseStore, inboxVars
<1>6. ASSUME NEW s \in Known, StartStep(s) PROVE FlushLeft'
  <2>1. s \notin closed
    BY <1>6 DEF StartStep, Goto, MInv, IInv, ClosedHasLeft
  <2> QED
    BY <1>0, <1>6, <2>1 DEF StartStep, RegisterInbox, Goto, runVars, storeVars
<1>7. CASE ObserveAbort \/ GraceOver \/ Return \/ Abort \/ UNCHANGED vars
  BY <1>0, <1>7 DEF ObserveAbort, GraceOver, Return, Abort, MarkWorkflowCancelled, Active, vars,
     runVars, routerVars, inboxVars, storeVars
<1> QED
  BY <1>1, <1>2, <1>3, <1>4, <1>5, <1>6, <1>7 DEF Next, Main, RunStep

LEMMA MailInit == Init => MInv
<1> SUFFICES ASSUME Init PROVE MInv
  OBVIOUS
<1>1. IInv /\ OInv /\ WInv
  BY ClosedInit, OnceInit, BatchInit
<1>2. LeftClosed /\ FlushLeft /\ Settled
  BY RouterAssumption DEF Init, RInit, LeftClosed, FlushLeft, Settled, Numbered, OneEnd, NoneLost,
     EndedInBox
<1> QED
  BY <1>1, <1>2 DEF MInv

LEMMA MailNext == ~GraceExpires /\ MInv /\ [Next]_vars => MInv'
<1> SUFFICES ASSUME ~GraceExpires, MInv, [Next]_vars PROVE MInv'
  OBVIOUS
<1>1. IInv' /\ OInv' /\ WInv' /\ LeftClosed'
  BY ClosedNext, OnceNext, BatchNext, LeftNext DEF MInv, IInv
<1>2. TypeOK' /\ FlushLeft'
  BY <1>1, FlushNext DEF IInv
<1>3. ASSUME NEW m \in Msg, SendStep(m) PROVE Settled'
  BY <1>2, <1>3, SettledSend
<1>4. ASSUME NEW s \in Known,
             RunStep(s) \/ StartStep(s) \/ Expire(s) \/ Poll(s) \/ FlushRead(s) \/ FlushClose(s)
      PROVE  Settled'
  BY <1>2, <1>4, StepKinds, SettledStep, SettledStill
<1>5. ASSUME ObserveAbort \/ GraceOver \/ Return \/ Abort \/ UNCHANGED vars PROVE Settled'
  BY <1>5, MainStill, SettledStill
<1>6. Settled'
  BY <1>3, <1>4, <1>5 DEF Next, Main
<1> QED
  BY <1>1, <1>2, <1>6 DEF MInv

AllTold == \A m \in Msg : Fate(m) = Told(m)

LEMMA FatesTold == MInv => AllTold
  BY FateTold DEF AllTold

LEMMA FatesToldNext == MInv' => AllTold'
  BY FatesTold, PTL

fates == [m \in Msg |-> Fate(m)]

\* What the contract says of the fates, said of what tells them.
LEMMA FateSteps ==
  ASSUME MInv, MInv'
  PROVE  fates = [m \in Msg |-> Told(m)] /\ fates' = [m \in Msg |-> Told(m)']
<1>1. fates = [m \in Msg |-> Told(m)]
  BY FatesTold DEF AllTold, fates
<1>2. fates' = [m \in Msg |-> Told(m)']
  <2>1. \A m \in Msg : Fate(m)' = Told(m)'
    BY FatesToldNext DEF AllTold
  <2> QED
    BY <2>1 DEF fates
<1> QED
  BY <1>1, <1>2

\* The numbers of a message: of one not yet queued there are none.
LEMMA FateNumbers ==
  ASSUME MInv, NEW m \in Msg
  PROVE  /\ id[m] \in Nat /\ events[m] \in Nat /\ read[m] \in Nat /\ idSeq \in Nat
         /\ id[m] <= idSeq
         /\ send[m] \in {"idle", "append"} => id[m] = 0 /\ read[m] = 0 /\ events[m] = 0
<1>1. /\ idSeq \in Nat /\ id[m] \in Nat /\ events[m] \in Nat /\ read[m] \in Nat
  BY DEF MInv, IInv, TypeOK
<1>2. /\ id[m] <= idSeq
      /\ send[m] \in {"idle", "append"} => ~(id[m] > 0)
  BY DEF MInv, Settled, Numbered
<1>3. id[m] = 0 => read[m] = 0 /\ (send[m] # "refused" => events[m] = 0)
  BY DEF MInv, Settled, OneEnd
<1> QED
  BY <1>1, <1>2, <1>3

\* A step of a Send is a step of the contract, or none.
LEMMA ContractSend ==
  ASSUME MInv, MInv', NEW m \in Msg, SendStep(m)
  PROVE  Box!Queue(m) \/ Box!Refuse(m) \/ UNCHANGED <<fates, id>>
<1>0. fates = [n \in Msg |-> Told(n)] /\ fates' = [n \in Msg |-> Told(n)']
  BY FateSteps
<1>t. id \in [Msg -> Nat] /\ send \in [Msg -> SendPC] /\ events \in [Msg -> Nat]
  BY DEF MInv, IInv, TypeOK
<1>1. CASE Refuses(m) \/ Hands(m)
  <2>1. /\ read' = read /\ id' = id /\ send[m] \in {"idle", "append"}
        /\ \A n \in Msg \ {m} : send'[n] = send[n] /\ events'[n] = events[n]
        /\ \/ send'[m] = "refused" /\ events'[m] = events[m] + 1
           \/ send'[m] = "handed" /\ events'[m] = events[m]
    BY <1>t, <1>1 DEF Refuses, Hands, Emit
  <2>2. Told(m) = "new" /\ Told(m)' \in {"dropped", "handed"}
    <3>1. id[m] = 0 /\ read[m] = 0 /\ events[m] = 0 /\ send[m] # "handed"
      BY <2>1, FateNumbers
    <3>2. \/ send'[m] # "handed" /\ events'[m] = 1
          \/ send'[m] = "handed"
      BY <2>1, <3>1
    <3> QED
      BY <3>1, <3>2 DEF Told
  <2>3. \A n \in Msg \ {m} : Told(n)' = Told(n)
    BY <2>1 DEF Told
  <2>4. fates[m] = "new" /\ fates' = [fates EXCEPT ![m] = Told(m)']
    BY <1>0, <2>2, <2>3
  <2> QED
    BY <2>1, <2>2, <2>4 DEF Box!Refuse, fates
<1>2. CASE Moves(m)
  <2>1. /\ UNCHANGED <<events, read, id>> /\ \A n \in Msg \ {m} : send'[n] = send[n]
        /\ send[m] # "handed" /\ send'[m] # "handed"
    BY <1>t, <1>2 DEF Moves
  <2>2. \A n \in Msg : Told(n)' = Told(n)
    BY <2>1 DEF Told
  <2> QED
    BY <1>0, <2>1, <2>2
<1>3. CASE Queues(m)
  <2>1. /\ UNCHANGED <<events, read>> /\ \A n \in Msg \ {m} : send'[n] = send[n] /\ id'[n] = id[n]
        /\ send[m] = "append" /\ send'[m] = "check" /\ id'[m] = idSeq + 1
    BY <1>t, <1>3 DEF Queues, Append
  <2>2. Told(m) = "new" /\ Told(m)' = "queued"
    <3>1. id[m] = 0 /\ read[m] = 0 /\ events[m] = 0 /\ idSeq \in Nat
      BY <2>1, FateNumbers
    <3>2. id'[m] > 0 /\ events'[m] = 0 /\ read'[m] = 0
      BY <2>1, <3>1
    <3> QED
      BY <2>1, <3>1, <3>2 DEF Told
  <2>3. \A n \in Msg \ {m} : Told(n)' = Told(n)
    BY <2>1 DEF Told
  <2>4. fates[m] = "new" /\ fates' = [fates EXCEPT ![m] = "queued"]
    BY <1>0, <2>2, <2>3
  <2>5. ASSUME NEW n \in Msg PROVE id[n] < id'[m]
    <3>1. id[n] \in Nat /\ id[n] <= idSeq /\ idSeq \in Nat /\ id'[m] = idSeq + 1
      BY <2>1, FateNumbers
    <3> QED
      BY <3>1
  <2> QED
    BY <2>1, <2>4, <2>5 DEF Box!Queue, fates
<1> QED
  BY <1>1, <1>2, <1>3, SendKinds

\* The reader takes the head of the queue; what it removes, and what Close empties, has its
\* fate already.
LEMMA ContractStep ==
  ASSUME MInv, MInv', NEW s \in Known,
         Reads(s) \/ Removes(s) \/ DropsLeft(s) \/ DropsClosed(s) \/ Empties(s) \/ Still
  PROVE  \/ \E S \in SUBSET Msg : Box!Read(S) \/ Box!Drop(S)
         \/ UNCHANGED <<fates, id>>
<1>0. /\ fates = [n \in Msg |-> Told(n)] /\ fates' = [n \in Msg |-> Told(n)']
      /\ \A n \in Msg : id[n] \in Nat /\ events[n] \in Nat /\ read[n] \in Nat
      /\ s \in Inbox
  <2>1. s \in Inbox
    BY RouterAssumption
  <2>2. \A n \in Msg : id[n] \in Nat /\ events[n] \in Nat /\ read[n] \in Nat
    BY FateNumbers
  <2> QED
    BY <2>1, <2>2, FateSteps
<1>1. \A x \in Inbox : \A m \in box[x] : To[m] = x /\ m \in Msg /\ id[m] > 0 /\ send[m] # "handed"
  <2> SUFFICES ASSUME NEW x \in Inbox, NEW m \in box[x]
               PROVE  To[m] = x /\ m \in Msg /\ id[m] > 0 /\ send[m] # "handed"
    OBVIOUS
  <2>1. To[m] = x /\ m \in Msg
    BY DEF MInv, IInv, TypeOK, OInv, UnreadOnce
  <2>2. id[m] # 0
    BY <2>1 DEF MInv, Settled, OneEnd
  <2>3. id[m] > 0
    BY <1>0, <2>1, <2>2
  <2> QED
    BY <2>1, <2>3 DEF MInv, Settled, Numbered
<1>2. CASE Removes(s) \/ Empties(s) \/ Still
  <2>1. UNCHANGED <<events, read, id, send>>
    BY <1>2 DEF Removes, Empties, Still, Mark
  <2>2. \A n \in Msg : Told(n)' = Told(n)
    BY <2>1 DEF Told
  <2> QED
    BY <1>0, <2>1, <2>2
<1>3. ASSUME NEW m \in box[s], at[s] \notin Marking, at[s] # "closeEnd"
      PROVE  events[m] = 0 /\ read[m] = 0
  <2>1. batch[s] = {}
    BY <1>3 DEF MInv, WInv, BatchMarked
  <2>2. m \in Msg /\ events[m] + read[m] # 1 /\ events[m] + read[m] <= 1
    BY <1>0, <1>1, <1>3, <2>1 DEF MInv, Settled, EndedInBox, OneEnd
  <2> QED
    BY <1>0, <2>2
<1>4. CASE Reads(s)
  <2>. DEFINE S == Consumed(box[s])
  <2>1. /\ UNCHANGED <<events, id, send>> /\ at[s] \in {"prestart", "drain"}
        /\ read' = [m \in Msg |-> IF m \in S THEN read[m] + 1 ELSE read[m]]
        /\ S \subseteq box[s]
    BY <1>4 DEF Reads, Take, Consumed
  <2>2. \A m \in box[s] : events[m] = 0 /\ read[m] = 0
    BY <1>3, <2>1 DEF Marking
  <2>3. S \subseteq Msg
    BY <1>0, <1>1, <2>1
  <2>4. \A m \in S : Told(m) = "queued" /\ Told(m)' = "read"
    BY <1>0, <1>1, <2>1, <2>2, <2>3 DEF Told
  <2>5. \A m \in Msg \ S : Told(m)' = Told(m)
    BY <2>1 DEF Told
  <2>6. \A m \in S : fates[m] = "queued"
    BY <1>0, <2>3, <2>4
  <2>7. fates' = [m \in Msg |-> IF m \in S THEN "read" ELSE fates[m]]
    BY <1>0, <2>4, <2>5
  <2>8. ASSUME NEW m \in S, NEW n \in Msg, To[n] = To[m], fates[n] = "queued", id[n] < id[m]
        PROVE  n \in S
    <3>1. Told(n) = "queued"
      BY <1>0, <2>8
    <3>2. events[n] # 1 /\ read[n] # 1 /\ id[n] > 0
      BY <3>1 DEF Told
    <3>3. events[n] + read[n] # 1
      <4>1. events[n] + read[n] <= 1
        BY DEF MInv, Settled, OneEnd
      <4> QED
        BY <1>0, <3>2, <4>1
    <3>4. n \in box[s]
      <4>1. To[n] = s
        BY <1>0, <1>1, <2>1, <2>8
      <4> QED
        BY <3>2, <3>3, <4>1 DEF MInv, Settled, NoneLost
    <3>5. ASSUME NEW c \in box[s] \cap Cancels PROVE id[n] <= id[c]
      <4>1. id[m] <= id[c] /\ c \in Msg /\ m \in Msg
        BY <1>0, <1>1, <2>1, <3>5 DEF Consumed
      <4> QED
        BY <1>0, <2>8, <4>1
    <3> QED
      BY <3>4, <3>5 DEF Consumed
  <2>. HIDE DEF S
  <2>9. Box!Read(S)
    BY <2>1, <2>3, <2>6, <2>7, <2>8 DEF Box!Read, fates
  <2> QED
    BY <2>3, <2>9
<1>5. CASE DropsLeft(s) \/ DropsClosed(s)
  <2>. DEFINE S == box[s]
  <2>1. /\ UNCHANGED <<read, id, send>> /\ at[s] \in {"leftover", "close"}
        /\ events' = [m \in Msg |-> IF m \in S THEN events[m] + 1 ELSE events[m]]
    BY <1>5 DEF DropsLeft, DropsClosed, Emit
  <2>2. \A m \in S : events[m] = 0 /\ read[m] = 0
    BY <1>3, <2>1 DEF Marking
  <2>3. S \subseteq Msg
    BY <1>0, <1>1
  <2>4. \A m \in S : Told(m) = "queued" /\ Told(m)' = "dropped"
    BY <1>0, <1>1, <2>1, <2>2, <2>3 DEF Told
  <2>5. \A m \in Msg \ S : Told(m)' = Told(m)
    BY <2>1 DEF Told
  <2>6. \A m \in S : fates[m] = "queued"
    BY <1>0, <2>3, <2>4
  <2>7. fates' = [m \in Msg |-> IF m \in S THEN "dropped" ELSE fates[m]]
    BY <1>0, <2>4, <2>5
  <2>. HIDE DEF S
  <2>8. Box!Drop(S)
    BY <2>1, <2>3, <2>6, <2>7 DEF Box!Drop, fates
  <2> QED
    BY <2>3, <2>8
<1> QED
  BY <1>2, <1>4, <1>5

LEMMA ContractNext ==
  ASSUME MInv, MInv', [Next]_vars
  PROVE  [Box!MNext]_<<fates, id>>
<1>1. ASSUME NEW m \in Msg, SendStep(m) PROVE [Box!MNext]_<<fates, id>>
  BY <1>1, ContractSend DEF Box!MNext
<1>2. ASSUME NEW s \in Known,
             RunStep(s) \/ StartStep(s) \/ Expire(s) \/ Poll(s) \/ FlushRead(s) \/ FlushClose(s)
      PROVE  [Box!MNext]_<<fates, id>>
  <2>1. Reads(s) \/ Removes(s) \/ DropsLeft(s) \/ DropsClosed(s) \/ Empties(s) \/ Still
    BY <1>2, StepKinds
  <2> QED
    BY <2>1, ContractStep DEF Box!MNext
<1>3. ASSUME ObserveAbort \/ GraceOver \/ Return \/ Abort \/ UNCHANGED vars
      PROVE  [Box!MNext]_<<fates, id>>
  <2>1. UNCHANGED <<events, read, id, send>>
    BY <1>3, MainStill DEF Still
  <2>2. \A n \in Msg : Told(n)' = Told(n)
    BY <2>1 DEF Told
  <2>3. fates' = fates
    BY <2>2, FateSteps
  <2> QED
    BY <2>1, <2>3
<1> QED
  BY <1>1, <1>2, <1>3 DEF Next, Main

LEMMA ContractInit == Init => Box!MInit
<1> SUFFICES ASSUME Init PROVE Box!MInit
  OBVIOUS
<1>1. \A m \in Msg : Fate(m) = "new"
  BY RouterAssumption DEF Init, RInit, Fate, Ends
<1> QED
  BY <1>1 DEF Init, RInit, Box!MInit

\* Router.Send keeps its promise: a message is refused, handed on or queued once, and a queued
\* one is read once, in order, or reported as dropped once, whatever runs concurrently, if an
\* abort waits for the agents.  Without that assumption it is false.
THEOREM ImplementsMailboxCorrect == ~GraceExpires /\ Spec => ImplementsMailbox
<1>1. ASSUME ~GraceExpires PROVE Spec => ImplementsMailbox
  <2>1. MInv /\ [Next]_vars => MInv'
    BY <1>1, MailNext
  <2>2. MInv /\ MInv' /\ [Next]_vars => [Box!MNext]_<<fates, id>>
    BY ContractNext
  <2> QED
    BY <2>1, <2>2, MailInit, ContractInit, PTL DEF Spec, ImplementsMailbox, Box!Mailbox, fates
<1> QED
  BY <1>1
-------------------------------------------------------------------------------
(* Where the two promises that runs refute do hold.                          *)

\* step_termination.go: no message is silently dropped.  It is so if an abort waits until the
\* agents have ended: what has left a mailbox was read by its agent or reported as dropped.
\* The flush that does not wait is therefore all that breaks the promise.
THEOREM NoSilentDropCorrect == ~GraceExpires /\ Spec => []NoSilentDrop
<1>1. ASSUME MInv PROVE NoSilentDrop
  BY <1>1 DEF MInv, Settled, NoneLost, NoSilentDrop
<1>2. ASSUME ~GraceExpires PROVE Spec => []NoSilentDrop
  <2>1. MInv /\ [Next]_vars => MInv'
    BY <1>2, MailNext
  <2>2. MInv => NoSilentDrop
    BY <1>1
  <2> QED
    BY <2>1, <2>2, MailInit, PTL DEF Spec
<1> QED
  BY <1>2

\* executor_step.go: a step whose Close has returned has an empty mailbox, and keeps it so,
\* although Sends, the hold timeout and the flush of an abort go on.
LeftEmptied == \A s \in Known : at[s] \in {"wait", "gone"} => box[s] = {}

\* A mailbox keeps mail after its step has left in no run, whether it is aborted or not and
\* whether the abort waits for the agents or flushes around them.
THEOREM LeftEmptiedCorrect == Spec => []LeftEmptied
<1>1. Init => LeftClosed
  BY DEF Init, LeftClosed
<1>2. ASSUME IInv, LeftClosed PROVE LeftEmptied
  <2> SUFFICES ASSUME NEW s \in Known, at[s] \in {"wait", "gone"} PROVE box[s] = {}
    BY DEF LeftEmptied
  <2>1. s \in closed \ locked
    BY <1>2 DEF LeftClosed, IInv, LockedWhileClosing
  <2> QED
    BY <1>2, <2>1 DEF IInv, NothingStranded
<1>3. IInv => TypeOK
  BY DEF IInv
<1>4. IInv /\ LeftClosed => LeftEmptied
  BY <1>2
<1> QED
  BY <1>1, <1>3, <1>4, ClosedInit, ClosedNext, LeftNext, PTL DEF Spec

\* docs/api/errors.md says of a cancelled run that it flushes every mailbox.  What the code
\* flushes is the mailbox of every step that ran: the mail still there is addressed to a step
\* that was never started or to a name that is no step.
FlushesAllStarted ==
  main = "returned" =>
    \A s \in Inbox : box[s] # {} => s \notin Known \/ at[s] = "idle"

\* When an executor returns after its agents, as it does when it is not aborted or waits for
\* them, the steps it started have nothing left in their mailboxes.
THEOREM FlushesAllStartedCorrect == ~GraceExpires /\ Spec => []FlushesAllStarted
<1>1. ASSUME MInv PROVE FlushesAllStarted
  <2> SUFFICES ASSUME main = "returned", NEW s \in Known, at[s] # "idle" PROVE box[s] = {}
    BY DEF FlushesAllStarted
  <2>1. Active = {}
    BY <1>1 DEF MInv, WInv, FlushAfterAgents
  <2>2. at[s] = "gone"
    BY <2>1 DEF Active
  <2> QED
    BY <1>1, <2>2, LeftEmpty
<1>2. ASSUME ~GraceExpires PROVE Spec => []FlushesAllStarted
  <2>1. MInv /\ [Next]_vars => MInv'
    BY <1>2, MailNext
  <2>2. MInv => FlushesAllStarted
    BY <1>1
  <2> QED
    BY <2>1, <2>2, MailInit, PTL DEF Spec
<1> QED
  BY <1>2
===============================================================================

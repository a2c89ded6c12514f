----------------------------- MODULE StepMessaging -----------------------------
(***************************************************************************)
(* The life of a step's mailbox: runStep (internal/exec/executor_step.go)   *)
(* registers the inbox, runs AgentRunner.Run (agent_runner.go) for each     *)
(* attempt, closes the inbox and waits for its termination                  *)
(* (step_termination.go); messages are sent concurrently, and the main      *)
(* thread of Executor.Run flushes mailboxes when the workflow is aborted.   *)
(* Mailbox reads and the marking that follows them are separate steps:      *)
(* nothing but the store's own mutex protects them.                         *)
(***************************************************************************)
EXTENDS MessageRouter

CONSTANTS Cancels,       \* messages of type MessageCancel
          Attempts,      \* attempts of a step: its retries plus one
          MaxWake,       \* maxWakeCycles
          Timed,         \* steps with a timeout of their own
          DagAware,      \* SenderMatrixDAGAware: TRUE of an Orchestrator's executor,
                         \* FALSE of an Executor literal that does not set it
          GraceExpires   \* whether abortDrainGrace may pass while agents still run

ASSUME MessagingAssumption ==
  /\ Cancels \subseteq Msg
  /\ Attempts \in Nat \ {0}
  /\ MaxWake \in Nat \ {0}
  /\ Timed \subseteq Known
  /\ DagAware \in BOOLEAN
  /\ GraceExpires \in BOOLEAN

VARIABLES
  at,        \* where runStep is
  batch,     \* messages of the last Unread that are not marked yet
  cycle,     \* iteration of the wake loop
  attempt,   \* attempts begun
  failed,    \* the attempt ended with an error
  expired,   \* steps whose timeout has passed
  wake,      \* steps whose wake channel holds a signal
  read,      \* how often a message was put into a conversation
  main,      \* where Executor.Run is
  toFlush,   \* active steps when the abort was seen, not yet flushed
  flushing,  \* steps whose mailbox flushMailboxOnAbort has read but not closed
  stop       \* the abort context is cancelled

agentVars == <<batch, cycle, attempt, failed>>
runVars == <<main, toFlush, flushing, stop>>
vars == <<routerVars, at, agentVars, expired, wake, read, runVars>>

StepPC == {"idle", "prestart", "premark", "call", "inspect", "drain", "mark", "leftover",
           "leftmark", "leave", "close", "closeEnd", "wait", "gone"}

Init ==
  /\ RInit
  /\ at = [s \in Known |-> "idle"]
  /\ batch = [s \in Known |-> {}]
  /\ cycle = [s \in Known |-> 0] /\ attempt = [s \in Known |-> 0]
  /\ failed = [s \in Known |-> FALSE]
  /\ expired = {} /\ wake = {}
  /\ read = [m \in Msg |-> 0]
  /\ main = "run" /\ toFlush = {} /\ flushing = {} /\ stop = FALSE

Active == {s \in Known : at[s] \notin {"idle", "gone"}}
Goto(s, from, to) == at[s] = from /\ at' = [at EXCEPT ![s] = to]

-------------------------------------------------------------------------------
(* Senders.                                                                  *)

\* afterSend signals the wake channel of a registered step; it holds one signal.
Registered(s) == s \in Known /\ at[s] \notin {"idle", "close", "closeEnd", "wait", "gone"}
SignalWake(s) == wake' = IF Registered(s) THEN wake \cup {s} ELSE wake

Notify(m) ==
  /\ SendReturn(m)
  /\ SignalWake(To[m])
  /\ UNCHANGED <<at, agentVars, expired, read, runVars>>

SendStep(m) ==
  \/ /\ \/ SendCancelled(m)
        \/ SendClosed(m)
        \/ SendUnknown(m)
        \/ SendOpen(m)
        \/ SendAppend(m)
        \/ SendCheck(m)
     /\ UNCHANGED <<at, agentVars, expired, wake, read, runVars>>
  \/ Notify(m)

\* DeliveryEngine.pollOne: an agent with unread messages that is idle, as it is
\* between its LLM calls, is woken.
Poll(s) ==
  /\ Registered(s)
  /\ box[s] # {}
  /\ s \notin wake
  /\ wake' = wake \cup {s}
  /\ UNCHANGED <<routerVars, at, agentVars, expired, read, runVars>>
-------------------------------------------------------------------------------
(* runStep and AgentRunner.Run.                                              *)

\* The inboxes that a running step holds a sender slot of: its own, or without the
\* flag those of its siblings. Step ids are not namespaced here, as they are in the
\* executors of includes and loops.
Slots(s) == IF DagAware THEN {s} ELSE Known \ {s}

StartStep(s) ==
  /\ main \in {"run", "drain"}
  /\ Goto(s, "idle", "prestart")
  /\ RegisterInbox(s)
  /\ senders' = [x \in Inbox |-> IF x \in Slots(s) THEN senders[x] + 1 ELSE senders[x]]
  /\ attempt' = [attempt EXCEPT ![s] = 1]
  /\ UNCHANGED <<storeVars, sendVars, events, batch, cycle, failed, expired, wake, read, runVars>>

\* drainMailboxIntoMessages reads as far as the first cancel message.
Consumed(M) == {m \in M : \A c \in M \cap Cancels : id[m] <= id[c]}

\* The unread messages go into the conversation; they are marked in the next step.
Take(s) ==
  /\ batch' = [batch EXCEPT ![s] = Consumed(box[s])]
  /\ read' = [m \in Msg |-> IF m \in Consumed(box[s]) THEN read[m] + 1 ELSE read[m]]

Mark(s) ==
  /\ MarkRead(s, batch[s])
  /\ batch' = [batch EXCEPT ![s] = {}]
  /\ UNCHANGED <<shut, id, idSeq>>

PreStart(s) ==
  /\ Goto(s, "prestart", IF box[s] = {} THEN "call" ELSE "premark")
  /\ Take(s)
  /\ UNCHANGED <<routerVars, cycle, attempt, failed, expired, wake, runVars>>

PreMark(s) ==
  /\ Goto(s, "premark", IF batch[s] \cap Cancels # {} THEN "leftover" ELSE "call")
  /\ Mark(s)
  /\ UNCHANGED <<inboxVars, senders, sendVars, events, cycle, attempt, failed, expired, wake,
                 read, runVars>>

\* The timeout of the step passes, over all its attempts.
Expire(s) ==
  /\ s \in Timed \ expired
  /\ Registered(s)
  /\ expired' = expired \cup {s}
  /\ UNCHANGED <<routerVars, at, agentVars, wake, read, runVars>>

\* The context of the attempts has ended.
Ended(s) == stop \/ s \in expired

CallsLeft(s) == cycle[s] < MaxWake

\* One iteration of the wake loop: the LLM call sees the whole conversation.
Call(s) ==
  /\ Goto(s, "call", "inspect")
  /\ CallsLeft(s) /\ ~Ended(s)
  /\ cycle' = [cycle EXCEPT ![s] = @ + 1]
  /\ UNCHANGED <<routerVars, batch, attempt, failed, expired, wake, read, runVars>>

\* A loop that ends without a submitted result may end in an error.
MayFail(s) == \E f \in BOOLEAN : failed' = [failed EXCEPT ![s] = f]

\* The attempt fails if its first call fails; a later call ends the loop only.
CallFails(s) ==
  /\ Goto(s, "call", "leftover")
  /\ CallsLeft(s)
  /\ IF cycle[s] = 0 THEN failed' = [failed EXCEPT ![s] = TRUE] ELSE MayFail(s)
  /\ UNCHANGED <<routerVars, batch, cycle, attempt, expired, wake, read, runVars>>

\* A panic unwinds Run past its residual drops, and runStep past its retries.
Panics(s) ==
  /\ Goto(s, "call", "leave")
  /\ CallsLeft(s)
  /\ UNCHANGED <<routerVars, batch, cycle, attempt, failed, expired, wake, read, runVars>>

\* The loop ends at its head: the cap is reached, or the context has ended.
LoopEnds(s) ==
  /\ Goto(s, "call", "leftover")
  /\ ~CallsLeft(s) \/ Ended(s)
  /\ IF cycle[s] = 0 THEN failed' = [failed EXCEPT ![s] = TRUE] ELSE MayFail(s)
  /\ UNCHANGED <<routerVars, batch, cycle, attempt, expired, wake, read, runVars>>

\* submit_result was called: the loop ends with what is unread left over.
Submitted(s) ==
  /\ Goto(s, "inspect", "leftover")
  /\ UNCHANGED <<routerVars, agentVars, expired, wake, read, runVars>>

LastCycle(s) == cycle[s] >= MaxWake

Pending(s) == box[s] # {}

\* The loop ends after its last call, or after one that stopped by itself with
\* nothing unread; a call whose stop predicate took a wake signal goes on.
Inspect(s) ==
  \E woken \in IF s \in wake THEN BOOLEAN ELSE {FALSE} :
    \/ /\ IF Pending(s) THEN LastCycle(s) ELSE ~woken
       /\ Goto(s, "inspect", "leftover")
       /\ MayFail(s)
       /\ wake' = IF woken THEN wake \ {s} ELSE wake
       /\ UNCHANGED <<routerVars, batch, cycle, attempt, expired, read, runVars>>
    \/ /\ IF Pending(s) THEN ~LastCycle(s) ELSE woken
       /\ Goto(s, "inspect", "drain")
       /\ wake' = wake \ {s}
       /\ UNCHANGED <<routerVars, agentVars, expired, read, runVars>>

Drain(s) ==
  /\ Pending(s)
  /\ Goto(s, "drain", "mark")
  /\ Take(s)
  /\ UNCHANGED <<routerVars, cycle, attempt, failed, expired, wake, runVars>>

NothingDrained(s) ==
  /\ ~Pending(s)
  /\ Goto(s, "drain", "leftover")
  /\ MayFail(s)
  /\ UNCHANGED <<routerVars, batch, cycle, attempt, expired, wake, read, runVars>>

DrainMark(s) ==
  /\ Goto(s, "mark", IF batch[s] \cap Cancels # {} THEN "leftover" ELSE "call")
  /\ Mark(s)
  /\ UNCHANGED <<inboxVars, senders, sendVars, events, cycle, attempt, failed, expired, wake,
                 read, runVars>>

EmitNothing(s) == UNCHANGED events      \* mutant
EmitResidual(s) == Emit(box[s])

\* emitResidualDrops
Leftover(s) ==
  /\ Goto(s, "leftover", "leftmark")
  /\ EmitResidual(s)
  /\ batch' = [batch EXCEPT ![s] = box[s]]
  /\ UNCHANGED <<inboxVars, senders, storeVars, sendVars, cycle, attempt, failed, expired, wake,
                 read, runVars>>

LeftMark(s) ==
  /\ Goto(s, "leftmark", "leave")
  /\ Mark(s)
  /\ UNCHANGED <<inboxVars, senders, sendVars, events, cycle, attempt, failed, expired, wake,
                 read, runVars>>

RetryOnceMore(s) == failed[s] /\ ~Ended(s) /\ attempt[s] <= Attempts      \* mutant
MayRetry(s) == failed[s] /\ ~Ended(s) /\ attempt[s] < Attempts

\* The next attempt starts from an empty conversation.
Retry(s) ==
  /\ Goto(s, "leave", "prestart")
  /\ MayRetry(s)
  /\ attempt' = [attempt EXCEPT ![s] = @ + 1]
  /\ cycle' = [cycle EXCEPT ![s] = 0]
  /\ failed' = [failed EXCEPT ![s] = FALSE]
  /\ UNCHANGED <<routerVars, batch, expired, wake, read, runVars>>

\* The deferred calls: the step's sender slots, its wake target, Router.Close.
CloseSlotsKept(s) == UNCHANGED senders      \* mutant
CloseSlots(s) == senders' = [x \in Inbox |-> IF x \in Slots(s) /\ senders[x] > 0
                                             THEN senders[x] - 1 ELSE senders[x]]

Leave(s) ==
  /\ Goto(s, "leave", "close")
  /\ ~MayRetry(s)
  /\ CloseBegin(s)
  /\ CloseSlots(s)
  /\ wake' = wake \ {s}
  /\ UNCHANGED <<storeVars, sendVars, events, agentVars, expired, read, runVars>>

ReportClosed(s) ==
  /\ Goto(s, "close", "closeEnd")
  /\ CloseDrop(s)
  /\ UNCHANGED <<inboxVars, senders, storeVars, sendVars, agentVars, expired, wake, read, runVars>>

Closed(s) ==
  /\ Goto(s, "closeEnd", "wait")
  /\ CloseEnd(s)
  /\ UNCHANGED <<senders, sendVars, events, agentVars, expired, wake, read, runVars>>

\* waitForStepTermination: no sender and no unread message, or a cancellation.
Quiet(s) == cancelled \/ stop \/ (senders[s] = 0 /\ box[s] = {})

Terminated(s) ==
  /\ Goto(s, "wait", "gone")
  /\ Quiet(s)
  /\ UNCHANGED <<routerVars, agentVars, expired, wake, read, runVars>>

\* The hold timeout: what is unread is dropped.
HoldTimeout(s) ==
  /\ Goto(s, "wait", "gone")
  /\ ~Quiet(s)
  /\ Emit(box[s])
  /\ MarkRead(s, box[s])
  /\ UNCHANGED <<inboxVars, senders, shut, id, idSeq, sendVars, agentVars, expired, wake, read,
                 runVars>>
-------------------------------------------------------------------------------
(* The main thread of Executor.Run.                                          *)

\* The caller cancels, a timeout passes, or the abort strategy fires.
Abort ==
  /\ ~stop
  /\ stop' = TRUE
  /\ UNCHANGED <<routerVars, at, agentVars, expired, wake, read, main, toFlush, flushing>>

ObserveAbort ==
  /\ main = "run" /\ stop
  /\ main' = "drain"
  /\ toFlush' = Active
  /\ MarkWorkflowCancelled
  /\ UNCHANGED <<senders, storeVars, sendVars, events, at, agentVars, expired, wake, read,
                 flushing, stop>>

\* abortDrain: every step goroutine has ended, or the grace has passed.
DrainedAtOnce == TRUE      \* mutant
Drained == Active = {} \/ GraceExpires

GraceOver ==
  /\ main = "drain"
  /\ Drained
  /\ main' = "flush"
  /\ UNCHANGED <<routerVars, at, agentVars, expired, wake, read, toFlush, flushing, stop>>

\* flushMailboxOnAbort, one mailbox after the other, without the step lock.
FlushRead(s) ==
  /\ main = "flush" /\ flushing = {} /\ s \in toFlush
  /\ Emit(box[s])
  /\ flushing' = {s}
  /\ UNCHANGED <<inboxVars, senders, storeVars, sendVars, at, agentVars, expired, wake, read,
                 main, toFlush, stop>>

FlushClose(s) ==
  /\ s \in flushing
  /\ CloseStore(s)
  /\ flushing' = {} /\ toFlush' = toFlush \ {s}
  /\ UNCHANGED <<inboxVars, senders, sendVars, events, at, agentVars, expired, wake, read,
                 main, stop>>

Return ==
  /\ \/ main = "run" /\ ~stop /\ Active = {}
     \/ main = "flush" /\ toFlush = {}
  /\ main' = "returned"
  /\ stop' = TRUE
  /\ UNCHANGED <<routerVars, at, agentVars, expired, wake, read, toFlush, flushing>>
-------------------------------------------------------------------------------
Agent(s) ==
  \/ PreStart(s)
  \/ PreMark(s)
  \/ Call(s)
  \/ CallFails(s)
  \/ Panics(s)
  \/ LoopEnds(s)
  \/ Submitted(s)
  \/ Inspect(s)
  \/ Drain(s)
  \/ NothingDrained(s)
  \/ DrainMark(s)
  \/ Leftover(s)
  \/ LeftMark(s)

RunStep(s) ==
  \/ Agent(s)
  \/ Retry(s)
  \/ Leave(s)
  \/ ReportClosed(s)
  \/ Closed(s)
  \/ Terminated(s)
  \/ HoldTimeout(s)

Main ==
  \/ ObserveAbort
  \/ GraceOver
  \/ \E s \in Known : FlushRead(s) \/ FlushClose(s)
  \/ Return

Next ==
  \/ \E m \in Msg : SendStep(m)
  \/ \E s \in Known : StartStep(s) \/ RunStep(s) \/ Expire(s) \/ Poll(s)
  \/ Main
  \/ Abort

Spec == Init /\ [][Next]_vars

\* Runnable goroutines run, and an LLM call ends.
Fairness ==
  /\ \A m \in Msg : WF_vars(send[m] # "idle" /\ SendStep(m))
  /\ \A s \in Known : WF_vars(RunStep(s))

FairSpec == Spec /\ Fairness
-------------------------------------------------------------------------------
(* Properties.                                                               *)

TypeOK ==
  /\ open \in SUBSET Inbox /\ closed \in SUBSET Inbox /\ locked \in SUBSET Inbox
  /\ cancelled \in BOOLEAN
  /\ senders \in [Inbox -> Nat]
  /\ box \in [Inbox -> SUBSET Msg] /\ shut \in SUBSET Inbox
  /\ id \in [Msg -> Nat] /\ idSeq \in Nat
  /\ send \in [Msg -> SendPC] /\ slot \in SUBSET Msg
  /\ events \in [Msg -> Nat] /\ read \in [Msg -> Nat]
  /\ at \in [Known -> StepPC]
  /\ batch \in [Known -> SUBSET Msg]
  /\ cycle \in [Known -> 0..MaxWake] /\ attempt \in [Known -> 0..Attempts]
  /\ failed \in [Known -> BOOLEAN]
  /\ expired \in SUBSET Known /\ wake \in SUBSET Known
  /\ main \in {"run", "drain", "flush", "returned"}
  /\ toFlush \in SUBSET Known /\ flushing \in SUBSET Known
  /\ stop \in BOOLEAN

\* The counter that decides how long a step waits: one slot for each running step
\* that may send to it, and one for each Send that reached it before it started.
\* None leaks on any return of Send, retry, panic or abort.
SendersExact ==
  \A s \in Inbox :
    senders[s] = Cardinality({m \in slot : To[m] = s})
                 + Cardinality({x \in Known : Registered(x) /\ s \in Slots(x)})

\* Close and the Sends it waited for leave no message behind in a closed inbox.
NothingStranded == \A s \in closed \ locked : box[s] = {}

\* An agent that reads its mailbox never finds it without the messages that it
\* read before and has not marked yet, so no message is read twice or skipped.
BatchInBox == \A s \in Known : batch[s] \subseteq box[s]

\* Every message has one end, is never lost and is read in order, in spite of
\* retries, panics, full mailboxes, closes and cancellations.
Ends(m) == events[m] + read[m] + (IF send[m] = "handed" THEN 1 ELSE 0)
Fate(m) ==
  CASE Ends(m) > 1 -> "twice"
    [] Ends(m) = 1 /\ events[m] = 1 -> "dropped"
    [] Ends(m) = 1 /\ read[m] = 1 -> "read"
    [] Ends(m) = 1 /\ send[m] = "handed" -> "handed"
    [] Ends(m) = 0 /\ m \in box[To[m]] -> "queued"
    [] Ends(m) = 0 /\ m \notin box[To[m]] /\ (id[m] > 0 \/ send[m] = "accepted") -> "lost"
    [] OTHER -> "new"
Box == INSTANCE MailboxContract WITH fate <- [m \in Msg |-> Fate(m)], place <- id
ImplementsMailbox == Box!Mailbox

\* A message that Send accepted for a step that was started is read by its agent
\* or reported as dropped, whatever the agent was doing.
MailSettles ==
  \A m \in Msg :
    (send[m] = "accepted" /\ To[m] \in Known /\ at[To[m]] # "idle")
      ~> (events[m] + read[m] > 0)

\* No agent is given a message twice, even if the grace of an abort passes and the
\* main thread closes the mailbox while the agent is reading.
ReadOnce == \A m \in Msg : read[m] <= 1

\* A step that was started ends: it never waits for ever for a Send, for the lock
\* or for a message, whether the run is aborted or not.
StepsLeave == \A s \in Known : at[s] # "idle" ~> at[s] = "gone"

\* executor_step.go: a step whose inbox was closed finds nothing to wait for.
WaitReturnsAtOnce == \A s \in Known : at[s] = "wait" => Quiet(s)

\* step_termination.go: no message is silently dropped, even when the run is aborted.
NoSilentDrop ==
  \A m \in Msg :
    id[m] > 0 /\ m \notin box[To[m]] /\ send[m] # "check" => events[m] + read[m] > 0

\* docs/api/errors.md: a cancelled run flushes every mailbox.
CancelFlushesAll == main = "returned" /\ cancelled => \A s \in Inbox : box[s] = {}
===============================================================================

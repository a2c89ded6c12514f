------------------------------ MODULE CoordBridge ------------------------------
(***************************************************************************)
(* The coordinator of a run and what reaches it.  Executor.Run pushes       *)
(* lifecycle messages straight into the coordinator's own mailbox; messages *)
(* routed to it (send_message, replies of resumed steps) land in the        *)
(* router's mailbox first, and a hook of Router.Send moves them over, while *)
(* the goroutines of the steps drain that mailbox of what the hook left.    *)
(* The coordinator is an AgentRunner that RunCoordinatorLoop runs again     *)
(* each time WaitForCoordWake returns.                                      *)
(***************************************************************************)
EXTENDS Naturals, FiniteSets

CONSTANTS Push,     \* messages pushed when a step has ended
          Start,    \* the message pushed as the run begins
          End,      \* the message pushed as it ends
          Routed,   \* messages routed to the coordinator's inbox
          Author,   \* the step whose agent sends a routed message, by the push of its end
          Works,    \* the sets of messages a run may be about
          Impatient \* whether the bounded waits for resumes may time out

Pushed == Push \cup {Start, End}
Letter == Pushed \cup Routed

ASSUME BridgeAssumption ==
  /\ Start # End /\ Push \cap {Start, End} = {}
  /\ Pushed \cap Routed = {}
  /\ IsFiniteSet(Letter)
  /\ DOMAIN Author \subseteq Routed
  /\ \A m \in DOMAIN Author : Author[m] \in Push
  /\ Impatient \in BOOLEAN

VARIABLES
  work,     \* the messages of this run, beside Start and End
  coord,    \* where the coordinator is
  cbox,     \* unread messages of the coordinator's own mailbox
  rbox,     \* unread messages of its inbox in the router's mailbox
  wake,     \* whether its wake channel holds a signal
  push,     \* where the push of a lifecycle message is
  hop,      \* where the routing of a message is
  drain,    \* what a drain of rbox by a step, or by Run, has read
  read,     \* how often a routed message was put into the conversation
  dropped,  \* how often the runner reported it dropped
  shown,    \* how often EventCoordinatorInboxMessage was emitted for it
  main,     \* where Executor.Run is
  runEnded, \* the context of the run is cancelled
  quit      \* the context of the coordinator is cancelled

mailVars == <<cbox, rbox, wake>>
countVars == <<read, dropped, shown>>
bridgeVars == <<work, coord, mailVars, push, hop, drain, countVars, main, runEnded, quit>>

CoordPC == {"start", "call", "inspect", "unwake", "take", "residual", "check", "sleep", "gone"}
PushPC == {"idle", "signal", "drain", "mark", "done"}
HopPC == {"idle", "sent", "woken", "moved", "done"}
MainPC == {"begin", "run", "end", "wait", "drain", "mark", "ended", "gone"}

BInit ==
  /\ work \in Works
  /\ coord = "start"
  /\ cbox = {} /\ rbox = {} /\ wake = FALSE
  /\ push = [p \in Pushed |-> "idle"]
  /\ hop = [m \in Routed |-> "idle"]
  /\ drain = [p \in Pushed |-> {}]
  /\ read = [m \in Routed |-> 0]
  /\ dropped = [m \in Routed |-> 0]
  /\ shown = [m \in Routed |-> 0]
  /\ main = "begin" /\ runEnded = FALSE /\ quit = FALSE

Count(f, M) == [m \in DOMAIN f |-> IF m \in M THEN f[m] + 1 ELSE f[m]]
-------------------------------------------------------------------------------
(* Lifecycle messages.                                                       *)

AppendPush(p) ==
  /\ push[p] = "idle"
  /\ push' = [push EXCEPT ![p] = "signal"]
  /\ cbox' = cbox \cup {p}

SignalNone(p, next) ==      \* mutant
  /\ push[p] = "signal"
  /\ push' = [push EXCEPT ![p] = next]
  /\ UNCHANGED wake
\* The wake channel holds one signal; the executor never waits for room.
SignalPush(p, next) ==
  /\ push[p] = "signal"
  /\ push' = [push EXCEPT ![p] = next]
  /\ wake' = TRUE

\* The first push, before any step is started.
PushStart ==
  /\ \/ /\ main = "begin" /\ AppendPush(Start)
        /\ UNCHANGED <<wake, main>>
     \/ /\ SignalPush(Start, "done")
        /\ main' = "run"
        /\ UNCHANGED cbox
  /\ UNCHANGED <<work, coord, rbox, hop, drain, countVars, runEnded, quit>>

\* The goroutine of a step, when the step has ended: push, then drain the router's
\* mailbox; Run waits for it.
PushStep(p) ==
  /\ main = "run" /\ p \in work
  /\ \A m \in DOMAIN Author : m \in work /\ Author[m] = p => hop[m] \in {"idle", "done"}
  /\ \/ AppendPush(p) /\ UNCHANGED wake
     \/ SignalPush(p, "drain") /\ UNCHANGED cbox
  /\ UNCHANGED <<work, coord, rbox, hop, drain, countVars, main, runEnded, quit>>

\* drainCoordReverseReplies reads and shows what is unread, then marks it read.
Show(p) ==
  /\ drain' = [drain EXCEPT ![p] = rbox]
  /\ shown' = Count(shown, rbox)

Unshow(p) ==
  /\ rbox' = rbox \ drain[p]
  /\ drain' = [drain EXCEPT ![p] = {}]

DrainStep(p) ==
  /\ main = "run"
  /\ \/ /\ push[p] = "drain" /\ Show(p)
        /\ push' = [push EXCEPT ![p] = "mark"]
        /\ UNCHANGED rbox
     \/ /\ push[p] = "mark" /\ Unshow(p)
        /\ push' = [push EXCEPT ![p] = "done"]
        /\ UNCHANGED shown
  /\ UNCHANGED <<work, coord, cbox, wake, hop, read, dropped, main, runEnded, quit>>
-------------------------------------------------------------------------------
(* The bridge: Router.Send to the coordinator, by the goroutine that sends.  *)

Hop(m, from, to) == hop[m] = from /\ hop' = [hop EXCEPT ![m] = to]

Deliver(m) ==      \* Mailbox.Append of the router
  /\ Hop(m, "idle", "sent")
  /\ rbox' = rbox \cup {m}
  /\ UNCHANGED <<work, coord, cbox, wake, push, drain, countVars, main, runEnded, quit>>

BridgeCopies(m) ==      \* mutant
  \/ /\ Hop(m, "sent", "woken")
     /\ wake' = TRUE
     /\ UNCHANGED <<cbox, rbox, shown>>
  \/ /\ Hop(m, "woken", "moved")
     /\ cbox' = cbox \cup {m}
     /\ UNCHANGED <<rbox, wake, shown>>
  \/ /\ Hop(m, "moved", "done")
     /\ shown' = Count(shown, {m})
     /\ UNCHANGED <<cbox, rbox, wake>>

\* afterSend: signal, append to the coordinator's mailbox, show, mark read.
Bridge(m) ==
  \/ /\ Hop(m, "sent", "woken")
     /\ wake' = TRUE
     /\ UNCHANGED <<cbox, rbox, shown>>
  \/ /\ Hop(m, "woken", "moved")
     /\ cbox' = cbox \cup {m}
     /\ UNCHANGED <<rbox, wake, shown>>
  \/ /\ Hop(m, "moved", "done")
     /\ shown' = Count(shown, {m})
     /\ rbox' = rbox \ {m}
     /\ UNCHANGED <<cbox, wake>>

\* An agent's send_message, while its step runs.
Send(m) ==
  /\ main = "run"
  /\ m \in DOMAIN Author \cap work
  /\ push[Author[m]] = "idle"
  /\ Deliver(m)

BridgeStep(m) ==
  /\ Bridge(m)
  /\ UNCHANGED <<work, coord, push, drain, read, dropped, main, runEnded, quit>>
-------------------------------------------------------------------------------
(* The coordinator.                                                          *)

Step(from, to) == coord = from /\ coord' = to

TakeKeeps ==      \* mutant
  /\ read' = Count(read, cbox)
  /\ UNCHANGED cbox
\* drainMailboxIntoMessages, before the first call of a run and between calls.
Take ==
  /\ read' = Count(read, cbox)
  /\ cbox' = {}

CoordStart ==
  /\ Step("start", "call") /\ Take
  /\ UNCHANGED <<work, rbox, wake, push, hop, drain, dropped, shown, main, runEnded, quit>>

CallOutcome == {"inspect", "residual"}      \* a result, or an error that ends Run

CoordCall ==
  /\ \E to \in CallOutcome : Step("call", IF quit THEN "residual" ELSE to)
  /\ UNCHANGED <<work, mailVars, push, hop, drain, countVars, main, runEnded, quit>>

CoordInspect ==
  /\ Step("inspect", IF cbox = {} THEN "residual" ELSE "unwake")
  /\ UNCHANGED <<work, mailVars, push, hop, drain, countVars, main, runEnded, quit>>

CoordUnwake ==
  /\ Step("unwake", "take")
  /\ wake' = FALSE
  /\ UNCHANGED <<work, cbox, rbox, push, hop, drain, countVars, main, runEnded, quit>>

CoordTake ==
  /\ Step("take", "call") /\ Take
  /\ UNCHANGED <<work, rbox, wake, push, hop, drain, dropped, shown, main, runEnded, quit>>

\* emitResidualDrops, on every way out of Run.
Residual ==
  /\ dropped' = Count(dropped, cbox)
  /\ cbox' = {}

CoordResidual ==
  /\ Step("residual", "check") /\ Residual
  /\ UNCHANGED <<work, rbox, wake, push, hop, drain, read, shown, main, runEnded, quit>>

\* WaitForCoordWake looks at its context and its mailbox, then waits for a signal.
CoordCheck ==
  /\ coord = "check"
  /\ coord' = IF quit THEN "gone" ELSE IF cbox # {} THEN "start" ELSE "sleep"
  /\ UNCHANGED <<work, mailVars, push, hop, drain, countVars, main, runEnded, quit>>

CoordWakeOnly ==      \* mutant
  /\ coord = "sleep" /\ wake
  /\ coord' = "start" /\ wake' = FALSE
  /\ UNCHANGED <<work, cbox, rbox, push, hop, drain, countVars, main, runEnded, quit>>
CoordWake ==
  /\ coord = "sleep"
  /\ \/ wake /\ coord' = "start" /\ wake' = FALSE
     \/ quit /\ coord' = "gone" /\ UNCHANGED wake
  /\ UNCHANGED <<work, cbox, rbox, push, hop, drain, countVars, main, runEnded, quit>>

Coordinator ==
  CoordStart \/ CoordCall \/ CoordInspect \/ CoordUnwake \/ CoordTake
    \/ CoordResidual \/ CoordCheck \/ CoordWake
\* The caller cancels the run.
CancelParent ==
  /\ main = "run" /\ ~runEnded
  /\ runEnded' = TRUE
  /\ UNCHANGED <<work, coord, mailVars, push, hop, drain, countVars, main, quit>>
-------------------------------------------------------------------------------
(* The end of Executor.Run; `resuming' says whether resumes are in flight.   *)

StepsDone == \A p \in Push \cap work : push[p] = "done"

PushEnd ==
  /\ \/ /\ main = "run" /\ StepsDone /\ AppendPush(End)
        /\ main' = "end"
        /\ UNCHANGED wake
     \/ /\ main = "end" /\ SignalPush(End, "done")
        /\ main' = "wait"
        /\ UNCHANGED cbox
  /\ UNCHANGED <<work, coord, rbox, hop, drain, countVars, runEnded, quit>>

\* drainBeforeWorkflowEnd waits for the resumes, no longer than its timer allows.
EndWait(resuming) ==
  /\ main = "wait"
  /\ ~resuming \/ Impatient \/ runEnded
  /\ main' = "drain"
  /\ UNCHANGED <<work, coord, mailVars, push, hop, drain, countVars, runEnded, quit>>

\* Its drain, then EventWorkflowEnd.
EndDrain ==
  /\ \/ /\ main = "drain" /\ Show(End)
        /\ main' = "mark"
        /\ UNCHANGED rbox
     \/ /\ main = "mark" /\ Unshow(End)
        /\ main' = "ended"
        /\ UNCHANGED shown
  /\ UNCHANGED <<work, coord, cbox, wake, push, hop, read, dropped, runEnded, quit>>

\* The deferred cancel and wait of Run.
CancelRun ==
  /\ main = "ended" /\ ~runEnded
  /\ runEnded' = TRUE
  /\ UNCHANGED <<work, coord, mailVars, push, hop, drain, countVars, main, quit>>

RunReturns(resuming) ==
  /\ main = "ended" /\ runEnded
  /\ ~resuming \/ Impatient
  /\ main' = "gone"
  /\ UNCHANGED <<work, coord, mailVars, push, hop, drain, countVars, runEnded, quit>>

\* The caller's deferred cleanup of the coordinator loop.
Cleanup ==
  /\ main = "gone" /\ ~quit
  /\ quit' = TRUE
  /\ UNCHANGED <<work, coord, mailVars, push, hop, drain, countVars, main, runEnded>>

RunStep(resuming) ==
  \/ PushStart
  \/ \E p \in Push : PushStep(p) \/ DrainStep(p)
  \/ PushEnd
  \/ EndWait(resuming)
  \/ EndDrain
  \/ CancelRun
  \/ RunReturns(resuming)
  \/ Cleanup
===============================================================================

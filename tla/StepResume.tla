------------------------------ MODULE StepResume -------------------------------
(***************************************************************************)
(* Resuming a step that has ended (internal/exec/executor_resume.go): the   *)
(* coordinator forwards a message to a closed inbox, Router.Send calls      *)
(* Executor.ResumeStep, and a fresh AgentRunner continues the step's saved  *)
(* conversation; its answer goes back to the coordinator over CoordBridge.  *)
(* One step: the coordination state of each step is its own.                *)
(***************************************************************************)
EXTENDS CoordBridge

CONSTANTS Request,     \* messages forwarded to the step
          Late,        \* a bound: requests made only while a resume is in flight
          None,        \* no request
          Reply,       \* the answer to each of them, a routed message
          Cap,         \* MaxMailboxSize; 0 is unbounded
          Transcripts, \* what the transcript store may hold of the step
          Models       \* how the model of the transcript may compare with the runner's

ASSUME ResumeAssumption ==
  /\ IsFiniteSet(Request) /\ None \notin Request /\ Late \subseteq Request
  /\ Reply \in [Request \ Late -> Routed \ DOMAIN Author]
  /\ \A q, r \in Request \ Late : Reply[q] = Reply[r] => q = r
  /\ Cap \in Nat
  /\ Transcripts \subseteq {"none", "saved", "sealed", "truncatable"}
  /\ Models \subseteq {"same", "resolved", "unresolved"}

VARIABLES
  req,        \* where the ResumeStep call of a request, then its runner, is
  owner,      \* the request whose runner is installed in the resume state
  into,       \* the runner whose mailbox a queueing request has read
  mbox,       \* unread messages of the mailbox of a request's runner
  fate,       \* what the call returned
  heard,      \* how often a queued message was put into a conversation
  lost,       \* how often EventMessageDropped was emitted for a request
  told,       \* ResumeCompleted and ResumeFailed events about a request
  transcript, \* what the store holds
  model,
  aborted     \* Router.WorkflowCancelled

resumeVars == <<req, owner, into, mbox, fate, heard, lost, told, transcript, model, aborted>>
vars == <<bridgeVars, resumeVars>>

Caller == {"queue", "load"}
Live == {"begin", "call", "inspect", "take", "residual", "errored", "reply",
         "replying", "complete", "fail", "release", "panic"}
ReqPC == {"idle", "done", "panicked"} \cup Caller \cup Live
Runners == {r \in Request : req[r] \in Live}

Init ==
  /\ BInit
  /\ req = [r \in Request |-> "idle"]
  /\ owner = None
  /\ into = [r \in Request |-> None]
  /\ mbox = [r \in Request |-> {}]
  /\ fate = [r \in Request |-> "none"]
  /\ heard = [r \in Request |-> 0] /\ lost = [r \in Request |-> 0]
  /\ told = [r \in Request |-> 0]
  /\ transcript \in Transcripts /\ model \in Models
  /\ aborted = FALSE

Goto(r, from, to) == req[r] = from /\ req' = [req EXCEPT ![r] = to]
Returns(r, f) == fate' = [fate EXCEPT ![r] = f]
Tell(r) == told' = [told EXCEPT ![r] = @ + 1]
constVars == <<transcript, model, aborted>>
-------------------------------------------------------------------------------
(* ResumeStep, in the coordinator's call of forward_to_agent.                *)

\* Refused once the workflow is cancelled; else, under the lock, become the resume that
\* runs, or remember the mailbox of the one that does.
ForwardAlways(r) ==      \* mutant
  /\ coord = "call" /\ r \in work /\ (r \in Late => owner # None)
  /\ ~aborted
  /\ Goto(r, "idle", "load") /\ owner' = r
  /\ UNCHANGED <<into, mbox, fate, heard, lost, told, constVars>>
Forward(r) ==
  /\ coord = "call" /\ r \in work /\ (r \in Late => owner # None)
  /\ \/ /\ aborted
        /\ Goto(r, "idle", "done") /\ Returns(r, "refused")
        /\ UNCHANGED <<owner, into>>
     \/ /\ ~aborted /\ owner = None
        /\ Goto(r, "idle", "load") /\ owner' = r
        /\ UNCHANGED <<into, fate>>
     \/ /\ ~aborted /\ owner # None
        /\ Goto(r, "idle", "queue") /\ into' = [into EXCEPT ![r] = owner]
        /\ UNCHANGED <<owner, fate>>
  /\ UNCHANGED <<mbox, heard, lost, told, constVars>>

RoomOffByOne(q) == Cap = 0 \/ Cardinality(mbox[q]) <= Cap      \* mutant
Room(q) == Cap = 0 \/ Cardinality(mbox[q]) < Cap

\* The lock is free again: the mailbox may belong to a runner that has left.
Enqueue(r) ==
  /\ Goto(r, "queue", "done")
  /\ IF Room(into[r])
     THEN /\ mbox' = [mbox EXCEPT ![into[r]] = @ \cup {r}]
          /\ Returns(r, "queued")
          /\ UNCHANGED <<lost, told>>
     ELSE /\ lost' = [lost EXCEPT ![r] = @ + 1]
          /\ Tell(r)
          /\ Returns(r, "full")
          /\ UNCHANGED mbox
  /\ UNCHANGED <<owner, into, heard, constVars>>

ReleaseState == owner' = None

\* The setup, then the goroutine.  A sealed transcript is resumed from its tail where
\* truncation is enabled; of the failures only a model that does not match is reported.
Usable == transcript \in {"saved", "truncatable"}
Load(r) ==
  /\ \/ /\ Usable /\ model # "unresolved"
        /\ Goto(r, "load", "begin") /\ Returns(r, "started")
        /\ UNCHANGED <<owner, told>>
     \/ /\ ~Usable
        /\ Goto(r, "load", "done") /\ Returns(r, "failed") /\ ReleaseState
        /\ UNCHANGED told
     \/ /\ Usable /\ model = "unresolved"
        /\ Goto(r, "load", "done") /\ Returns(r, "failed") /\ ReleaseState
        /\ Tell(r)
  /\ UNCHANGED <<into, mbox, heard, lost, constVars>>
-------------------------------------------------------------------------------
(* The goroutine of a resume.                                                *)

\* drainMailboxIntoMessages.
Drain(r) ==
  /\ heard' = Count(heard, mbox[r])
  /\ mbox' = [mbox EXCEPT ![r] = {}]

Begin(r) ==
  /\ \/ ~runEnded /\ Goto(r, "begin", "call") /\ Drain(r)
     \/ runEnded /\ Goto(r, "begin", "fail") /\ UNCHANGED <<heard, mbox>>
  /\ UNCHANGED <<owner, into, fate, lost, told, constVars>>

RunnerTakes(r) ==
  /\ Goto(r, "take", "call") /\ Drain(r)
  /\ UNCHANGED <<owner, into, fate, lost, told, constVars>>

RunnerCalls(r) ==
  /\ \/ ~runEnded /\ Goto(r, "call", "inspect")
     \/ Goto(r, "call", "errored")
     \/ Goto(r, "call", "panic")
  /\ UNCHANGED <<owner, into, mbox, fate, heard, lost, told, constVars>>

\* With the wake cycles used up, what is unread is dropped.
RunnerLooks(r) ==
  /\ \/ mbox[r] # {} /\ Goto(r, "inspect", "take")
     \/ Goto(r, "inspect", "residual")
  /\ UNCHANGED <<owner, into, mbox, fate, heard, lost, told, constVars>>

DropUnread(r) ==
  /\ lost' = Count(lost, mbox[r])
  /\ mbox' = [mbox EXCEPT ![r] = {}]

RunnerLeaves(r) ==
  /\ Goto(r, "residual", "reply") \/ Goto(r, "errored", "fail")
  /\ DropUnread(r)
  /\ UNCHANGED <<owner, into, fate, heard, told, constVars>>

\* The answer, marked as a reply so that it never resumes its addressee.
ReverseReply(r) ==
  \/ /\ ~aborted
     /\ Goto(r, "reply", "replying")
     /\ Deliver(Reply[r])
     /\ UNCHANGED <<owner, into, mbox, fate, heard, lost, told, constVars>>
  \/ /\ \/ aborted /\ Goto(r, "reply", "complete")
        \/ Goto(r, "replying", "complete") /\ hop[Reply[r]] = "done"
     /\ UNCHANGED <<bridgeVars, owner, into, mbox, fate, heard, lost, told, constVars>>

ReportCompleted(r) ==      \* mutant
  /\ \/ Goto(r, "complete", "release") /\ Tell(r)
     \/ Goto(r, "fail", "release") /\ UNCHANGED told
  /\ UNCHANGED <<owner, into, mbox, fate, heard, lost, constVars>>
Report(r) ==
  /\ Goto(r, "complete", "release") \/ Goto(r, "fail", "release")
  /\ Tell(r)
  /\ UNCHANGED <<owner, into, mbox, fate, heard, lost, constVars>>

\* The deferred release; a recovered panic passes it too, with nothing reported.
Release(r) ==
  /\ Goto(r, "release", "done") \/ Goto(r, "panic", "panicked")
  /\ ReleaseState
  /\ UNCHANGED <<into, mbox, fate, heard, lost, told, constVars>>

\* On an abort: the caller has cancelled the run, or one of its steps failed.
MarkWorkflowCancelled ==
  /\ main = "run" /\ ~aborted
  /\ runEnded \/ Push \cap work # {}
  /\ aborted' = TRUE
  /\ UNCHANGED <<req, owner, into, mbox, fate, heard, lost, told, transcript, model>>
-------------------------------------------------------------------------------
Runner(r) ==
  \/ /\ \/ Begin(r)
        \/ RunnerTakes(r) \/ RunnerCalls(r) \/ RunnerLooks(r) \/ RunnerLeaves(r)
        \/ Report(r) \/ Release(r)
     /\ UNCHANGED bridgeVars
  \/ ReverseReply(r)

Call(r) == Enqueue(r) \/ Load(r)

\* The coordinator's LLM call ends when its tool calls have returned.
Calling == \E r \in Request : req[r] \in Caller
Coordinates == Coordinator /\ ~(Calling /\ coord = "call")

\* What the environment may do: the LLM forwards, an agent sends, the caller cancels.
Environment ==
  \/ \E r \in Request : Forward(r) /\ UNCHANGED bridgeVars
  \/ (\E m \in Routed : Send(m)) /\ UNCHANGED resumeVars
  \/ CancelParent /\ UNCHANGED resumeVars
  \/ MarkWorkflowCancelled /\ UNCHANGED bridgeVars

\* What the goroutines of the run do.
Scheduled ==
  \/ RunStep(Runners # {}) /\ UNCHANGED resumeVars
  \/ Coordinates /\ UNCHANGED resumeVars
  \/ (\E m \in Routed : BridgeStep(m)) /\ UNCHANGED resumeVars
  \/ \E r \in Request : Call(r) /\ UNCHANGED bridgeVars
  \/ \E r \in Request : Runner(r)

Next == Environment \/ Scheduled
Spec == Init /\ [][Next]_vars

\* Some goroutine that can run does; no fairness between them is needed.
FairSpec == Spec /\ WF_vars(Scheduled)
-------------------------------------------------------------------------------
TypeOK ==
  /\ work \in Works /\ coord \in CoordPC
  /\ cbox \subseteq Letter /\ rbox \subseteq Routed
  /\ wake \in BOOLEAN
  /\ push \in [Pushed -> PushPC] /\ hop \in [Routed -> HopPC]
  /\ drain \in [Pushed -> SUBSET Routed]
  /\ read \in [Routed -> {0, 1}] /\ dropped \in [Routed -> {0, 1}] /\ shown \in [Routed -> Nat]
  /\ main \in MainPC
  /\ runEnded \in BOOLEAN /\ quit \in BOOLEAN /\ aborted \in BOOLEAN
  /\ req \in [Request -> ReqPC]
  /\ owner \in Request \cup {None}
  /\ into \in [Request -> Request \cup {None}]
  /\ mbox \in [Request -> SUBSET Request]
  /\ fate \in [Request -> {"none", "refused", "queued", "full", "failed", "started"}]
  /\ heard \in [Request -> {0, 1}] /\ lost \in [Request -> {0, 1}] /\ told \in [Request -> Nat]
  /\ transcript \in Transcripts /\ model \in Models

\* At most one call or runner owns the step's resume state, and it is the one
\* whose mailbox is installed: two forwards never continue the same conversation.
Owns(r) == req[r] \in (Caller \ {"queue"}) \cup Live
SingleFlight ==
  /\ \A r \in Request : Owns(r) <=> owner = r
  /\ \A r \in Request : owner = r => heard[r] = 0

\* A message accepted into the mailbox of a resume is heard once, or its drop is
\* reported once, or it still lies in that mailbox; and the cap bounds what lies there.
QueuedOnce ==
  \A r \in Request :
    /\ fate[r] = "queued" =>
         heard[r] + lost[r] + (IF r \in mbox[into[r]] THEN 1 ELSE 0) = 1
    /\ Cap > 0 => Cardinality(mbox[r]) <= Cap

\* A resume that was started reports its end exactly once, unless it panics, and a
\* call that started none reports at most a failure.
EndsReported ==
  \A r \in Request :
    /\ told[r] <= 1
    /\ req[r] = "done" /\ fate[r] = "started" => told[r] = 1

\* A sleeping coordinator with no signal pending may have missed a bridged message,
\* never a lifecycle message.
SleepsOnlyOnBridged ==
  coord = "sleep" /\ ~wake =>
    cbox \subseteq Routed \cup {p \in Pushed : push[p] = "signal"}

\* The bridge moves a message: it is shown, leaves the router's mailbox, and is
\* unread, heard or reported dropped once on the coordinator's side.
BridgeMoves ==
  \A m \in Routed :
    /\ hop[m] = "done" => shown[m] >= 1 /\ m \notin rbox
    /\ read[m] + dropped[m] + (IF m \in cbox THEN 1 ELSE 0)
         = IF hop[m] \in {"moved", "done"} THEN 1 ELSE 0

\* Once the steps have ended, the run returns, its coordinator's loop ends, and every
\* call and every runner of a resume ends: nothing waits for another for ever.
AllLeave ==
  (main = "end") ~> /\ main = "gone" /\ coord = "gone"
                    /\ \A r \in Request : req[r] \in {"idle", "done", "panicked"}
===============================================================================

------------------------------ MODULE SessionAgents ------------------------------
(***************************************************************************)
(* The orchestrators of one session and the agents they run in the          *)
(* background: FactoryCache builds, shares, evicts and closes orchestrators *)
(* (factory_cache.go), RunAgentAsync registers a handle whose result comes  *)
(* from the agent, from Cancel, from Close or from the time-to-live         *)
(* watchdog, whichever is first (agent_handle.go).  A caller asks for the   *)
(* orchestrator and then starts one agent; what its own call of the         *)
(* constructor builds carries its name.                                     *)
(***************************************************************************)
EXTENDS Naturals, FiniteSets

CONSTANTS Caller, NoOrchestrator

ASSUME SessionAssumption == IsFiniteSet(Caller) /\ NoOrchestrator \notin Caller

VARIABLES
  ask,     \* where a caller's For is
  seen,    \* the cached orchestrator it has read
  got,     \* the orchestrator it was given
  cached,  \* the orchestrator in the cache
  built,   \* orchestrators whose constructor has returned
  closed,  \* orchestrators whose closed flag is set
  doomed,  \* orchestrators taken out of the cache, to be closed
  closing, \* where Orchestrator.Close is
  snap,    \* handles Close has taken and not cancelled yet
  agent,   \* where RunAgentAsync, then the agent's goroutine, is
  listed,  \* registered handles
  result,  \* the published result of a handle
  ctx,     \* handles whose context is cancelled
  watch,   \* handles whose watchdog waits
  clean    \* handles whose cleanup goroutine waits

cacheVars == <<ask, seen, got, cached, built, doomed>>
orchVars == <<closed, closing, snap>>
handleVars == <<agent, listed, result, ctx, watch, clean>>
sessionVars == <<cacheVars, orchVars, handleVars>>

SessionInit ==
  /\ ask = [c \in Caller |-> "idle"]
  /\ seen = [c \in Caller |-> NoOrchestrator] /\ got = [c \in Caller |-> NoOrchestrator]
  /\ cached = NoOrchestrator /\ built = {} /\ doomed = {}
  /\ closed = {} /\ closing = [c \in Caller |-> "open"] /\ snap = [c \in Caller |-> {}]
  /\ agent = [c \in Caller |-> "idle"] /\ result = [c \in Caller |-> "none"]
  /\ listed = {} /\ ctx = {} /\ watch = {} /\ clean = {}

Ask(c, from, to) == ask[c] = from /\ ask' = [ask EXCEPT ![c] = to]
Given(c, o) == got' = [got EXCEPT ![c] = o]
-------------------------------------------------------------------------------
(* FactoryCache.                                                             *)

\* A cached orchestrator is looked at without the lock, and evicted under it.
Lookup(c) ==
  /\ \/ cached = NoOrchestrator /\ Ask(c, "idle", "build") /\ UNCHANGED seen
     \/ cached # NoOrchestrator /\ Ask(c, "idle", "judge") /\ seen' = [seen EXCEPT ![c] = cached]
  /\ UNCHANGED <<got, cached, built, doomed, orchVars, handleVars>>

JudgeCached(c) ==
  /\ \/ seen[c] \notin closed /\ Ask(c, "judge", "given") /\ Given(c, seen[c])
     \/ seen[c] \in closed /\ Ask(c, "judge", "evict") /\ UNCHANGED got
  /\ UNCHANGED <<seen, cached, built, doomed, orchVars, handleVars>>

Evict(c) ==
  /\ Ask(c, "evict", "build")
  /\ cached' = IF cached = seen[c] THEN NoOrchestrator ELSE cached
  /\ UNCHANGED <<seen, got, built, doomed, orchVars, handleVars>>

\* The constructor runs on a goroutine of its own, for at most a fixed time; one that
\* returns later builds an orchestrator nobody receives.
Build(c) ==
  /\ Ask(c, "build", "publish") \/ Ask(c, "late", "leaked")
  /\ built' = built \cup {c}
  /\ UNCHANGED <<seen, got, cached, doomed, orchVars, handleVars>>

BuildTimeout(c) ==
  /\ Ask(c, "build", "late")
  /\ UNCHANGED <<seen, got, cached, built, doomed, orchVars, handleVars>>

PublishOver(c) ==      \* mutant
  /\ Ask(c, "publish", "given")
  /\ cached' = c /\ Given(c, c)
  /\ UNCHANGED <<seen, built, closed, doomed, closing, snap, handleVars>>
\* The loser of a race is closed, and its caller given the winner's.
Publish(c) ==
  /\ Ask(c, "publish", "given")
  /\ \/ /\ cached # NoOrchestrator /\ cached \notin closed
        /\ Given(c, cached)
        /\ closed' = closed \cup {c} /\ closing' = [closing EXCEPT ![c] = "done"]
        /\ UNCHANGED cached
     \/ /\ cached = NoOrchestrator \/ cached \in closed
        /\ cached' = c /\ Given(c, c)
        /\ UNCHANGED <<closed, closing>>
  /\ UNCHANGED <<seen, built, doomed, snap, handleVars>>

\* FactoryCache.Close and CloseAll: out of the cache first, then closed.
CloseSession ==
  /\ cached # NoOrchestrator
  /\ doomed' = doomed \cup {cached} /\ cached' = NoOrchestrator
  /\ UNCHANGED <<ask, seen, got, built, orchVars, handleVars>>
-------------------------------------------------------------------------------
(* Orchestrator.Close, by the cache or by an embedder that was given it.     *)

Closing(o, from, to) == closing[o] = from /\ closing' = [closing EXCEPT ![o] = to]

CloseOrchestrator(o) ==
  /\ o \in doomed \/ \E c \in Caller : got[c] = o
  /\ Closing(o, "open", "snapshot")
  /\ closed' = closed \cup {o}
  /\ UNCHANGED <<snap, cacheVars, handleVars>>

TakeHandles(o) ==
  /\ Closing(o, "snapshot", "cancel")
  /\ snap' = [snap EXCEPT ![o] = {h \in listed : got[h] = o}]
  /\ listed' = {h \in listed : got[h] # o}
  /\ UNCHANGED <<closed, cacheVars, agent, result, ctx, watch, clean>>

\* finish: once.
Finish(h, r) == result' = [result EXCEPT ![h] = IF @ = "none" THEN r ELSE @]

\* Its wait for the cancelled handles is over at once: Cancel has finished them.
CancelTaken(o) ==
  /\ \/ /\ closing[o] = "cancel"
        /\ \E h \in snap[o] :
             /\ Finish(h, "cancelled") /\ ctx' = ctx \cup {h}
             /\ snap' = [snap EXCEPT ![o] = @ \ {h}]
        /\ UNCHANGED closing
     \/ /\ snap[o] = {} /\ Closing(o, "cancel", "done")
        /\ UNCHANGED <<result, ctx, snap>>
  /\ UNCHANGED <<closed, cacheVars, agent, listed, watch, clean>>
-------------------------------------------------------------------------------
(* RunAgentAsync and the three goroutines of a handle.                       *)

AgentAt(h, from, to) == agent[h] = from /\ agent' = [agent EXCEPT ![h] = to]

CheckOpen(h) ==
  /\ ask[h] = "given"
  /\ AgentAt(h, "idle", IF got[h] \in closed THEN "refused" ELSE "checked")
  /\ UNCHANGED <<orchVars, cacheVars, listed, result, ctx, watch, clean>>

Register(h) ==
  /\ AgentAt(h, "checked", "running")
  /\ listed' = listed \cup {h} /\ watch' = watch \cup {h} /\ clean' = clean \cup {h}
  /\ UNCHANGED <<orchVars, cacheVars, result, ctx>>

AgentReturns(h) ==
  /\ AgentAt(h, "running", "ended")
  /\ \E r \in {"result", "panicked"} : Finish(h, r)
  /\ ctx' = ctx \cup {h}
  /\ UNCHANGED <<orchVars, cacheVars, listed, watch, clean>>

CancelHandle(h) ==
  /\ agent[h] \in {"running", "ended"} /\ h \notin ctx
  /\ Finish(h, "cancelled") /\ ctx' = ctx \cup {h}
  /\ UNCHANGED <<orchVars, cacheVars, agent, listed, watch, clean>>

WatchOnlyCancels(h) ==      \* mutant
  /\ h \in watch /\ watch' = watch \ {h}
  /\ ctx' = ctx \cup {h} /\ UNCHANGED result
  /\ UNCHANGED <<orchVars, cacheVars, agent, listed, clean>>
\* The watchdog's timer, or the end of what it watches.
Watchdog(h) ==
  /\ h \in watch /\ watch' = watch \ {h}
  /\ \/ Finish(h, "timeout") /\ ctx' = ctx \cup {h}
     \/ result[h] # "none" /\ UNCHANGED <<result, ctx>>
  /\ UNCHANGED <<orchVars, cacheVars, agent, listed, clean>>

Unregister(h) ==
  /\ h \in clean /\ result[h] # "none"
  /\ clean' = clean \ {h} /\ listed' = listed \ {h}
  /\ UNCHANGED <<orchVars, cacheVars, agent, result, ctx, watch>>
-------------------------------------------------------------------------------
SessionNext ==
  \/ \E c \in Caller : \/ Lookup(c) \/ JudgeCached(c) \/ Evict(c)
                       \/ Build(c) \/ BuildTimeout(c) \/ Publish(c)
                       \/ CloseOrchestrator(c) \/ TakeHandles(c) \/ CancelTaken(c)
                       \/ CheckOpen(c) \/ Register(c) \/ AgentReturns(c) \/ CancelHandle(c)
                       \/ Watchdog(c) \/ Unregister(c)
  \/ CloseSession

\* The goroutines of a handle are scheduled, and a timer fires; an agent may run for ever.
SessionFairness == \A c \in Caller : WF_sessionVars(Watchdog(c)) /\ WF_sessionVars(Unregister(c))

SessionSpec == SessionInit /\ [][SessionNext]_sessionVars /\ SessionFairness
-------------------------------------------------------------------------------
SessionTypeOK ==
  /\ ask \in [Caller -> {"idle", "judge", "evict", "build", "late", "leaked", "publish", "given"}]
  /\ seen \in [Caller -> Caller \cup {NoOrchestrator}] /\ got \in [Caller -> Caller \cup {NoOrchestrator}]
  /\ cached \in built \cup {NoOrchestrator} /\ built \subseteq Caller
  /\ closed \subseteq built /\ doomed \subseteq built
  /\ closing \in [Caller -> {"open", "snapshot", "cancel", "done"}]
  /\ snap \in [Caller -> SUBSET Caller]
  /\ agent \in [Caller -> {"idle", "refused", "checked", "running", "ended"}]
  /\ result \in [Caller -> {"none", "result", "panicked", "cancelled", "timeout"}]
  /\ listed \subseteq Caller /\ ctx \subseteq Caller
  /\ watch \subseteq Caller /\ clean \subseteq Caller

\* An orchestrator that is not closed, nor about to be, is cached, or on its way into
\* the cache, or was built too late for anybody to receive it; and two callers never
\* hold different ones.
OrchestratorsAccounted ==
  LET open == built \ (closed \cup doomed)
  IN  /\ \A o \in open : o = cached \/ ask[o] \in {"publish", "leaked"}
      /\ \A c, d \in Caller : {got[c], got[d]} \subseteq open => got[c] = got[d]

\* Every handle that was registered, also one that Close has missed, gets a result and
\* leaves the registry, whatever its agent does.
HandlesSettle ==
  \A h \in Caller : (agent[h] = "running") ~> (result[h] # "none" /\ h \notin listed)
===============================================================================

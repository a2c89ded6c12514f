----------------------------- MODULE AgentsProofs -----------------------------
(***************************************************************************)
(* Proofs about agents and what they may do: SessionAgents, for any number *)
(* of callers that ask for the orchestrator, close it and run agents on    *)
(* it; Spawner, for any number of agents and any limits on depth and       *)
(* children; and Permissions, for any number of calls, any tools and flags.*)
(***************************************************************************)
EXTENDS SessionAgents, Spawner, Permissions, TLAPS, FiniteSetTheorems
-------------------------------------------------------------------------------
(* The orchestrator of a session.                                            *)

\* What a caller was given, looks at or finds in the cache was published.
Published(o) == o \in built /\ ask[o] = "given"
Shared ==
  /\ cached # NoOrchestrator => Published(cached)
  /\ \A c \in Caller : /\ got[c] # NoOrchestrator => Published(got[c])
                       /\ seen[c] # NoOrchestrator => Published(seen[c])
                       /\ ask[c] \in {"judge", "evict"} => seen[c] # NoOrchestrator
                       /\ agent[c] \in {"checked", "running", "ended"} => got[c] # NoOrchestrator
                       /\ ask[c] = "given" => got[c] # NoOrchestrator

\* Its constructor has returned before an orchestrator is published.
BuiltFirst == \A c \in Caller : ask[c] = "publish" => c \in built

\* Only a closed orchestrator is evicted.
EvictsClosed == \A c \in Caller : ask[c] = "evict" => seen[c] \in closed

\* An open orchestrator is the cached one, or on its way to the cache, or built too late.
Open == built \ (closed \cup doomed)
OpenCached == \A o \in Open : o = cached \/ ask[o] \in {"publish", "leaked"}

SessionInv == SessionTypeOK /\ Shared /\ BuiltFirst /\ EvictsClosed /\ OpenCached

LEMMA InitSession ==
  SessionInit => SessionInv
BY SessionAssumption DEF SessionInit, SessionInv, SessionTypeOK, Shared, BuiltFirst, EvictsClosed, OpenCached, Open

\* Steps that leave the cache and its callers alone; orchestrators may be closed.
LEMMA CacheAlone ==
  ASSUME SessionInv, SessionTypeOK', UNCHANGED <<ask, seen, got, cached, built>>,
         closed \subseteq closed', doomed \subseteq doomed',
         \A c \in Caller : agent'[c] \in {"checked", "running", "ended"} => got[c] # NoOrchestrator
  PROVE  SessionInv'
BY DEF SessionInv, Shared, Published, BuiltFirst, EvictsClosed, OpenCached, Open

LEMMA StepSession ==
  ASSUME SessionInv, [SessionNext]_sessionVars
  PROVE  SessionInv'
<1> USE DEF SessionInv, cacheVars, orchVars, handleVars, Ask, Given
<1>1. ASSUME NEW c \in Caller, Lookup(c) \/ JudgeCached(c) \/ BuildTimeout(c) PROVE SessionInv'
  <2> USE <1>1 DEF Lookup, JudgeCached, BuildTimeout
  <2>1. SessionTypeOK'
    BY DEF SessionTypeOK, Shared, Published
  <2>2. Shared'
    BY DEF Shared, Published, SessionTypeOK
  <2>3. EvictsClosed' /\ OpenCached' /\ BuiltFirst'
    BY DEF BuiltFirst, EvictsClosed, OpenCached, Open, SessionTypeOK
  <2> QED
    BY <2>1, <2>2, <2>3
<1>2. ASSUME NEW c \in Caller, Evict(c) \/ Build(c) PROVE SessionInv'
  <2> USE <1>2 DEF Evict, Build
  <2>1. SessionTypeOK'
    BY DEF SessionTypeOK
  <2>2. Shared'
    BY DEF Shared, Published, SessionTypeOK
  <2>3. EvictsClosed' /\ OpenCached' /\ BuiltFirst'
    BY DEF BuiltFirst, EvictsClosed, OpenCached, Open, SessionTypeOK
  <2> QED
    BY <2>1, <2>2, <2>3
<1>3. ASSUME NEW c \in Caller, Publish(c) PROVE SessionInv'
  <2> USE <1>3 DEF Publish
  <2>1. c \in built
    BY DEF BuiltFirst
  <2>2. SessionTypeOK'
    BY <2>1 DEF SessionTypeOK
  <2>3. Shared'
    BY <2>1, SessionAssumption DEF Shared, Published, SessionTypeOK
  <2>4. EvictsClosed' /\ BuiltFirst'
    BY DEF BuiltFirst, EvictsClosed, SessionTypeOK
  <2>5. OpenCached'
    <3> SUFFICES ASSUME NEW o \in Open' PROVE o = cached' \/ ask'[o] \in {"publish", "leaked"}
      BY DEF OpenCached
    <3>1. o \in Open /\ o \in Caller
      BY DEF Open, SessionTypeOK
    <3>2. o = cached \/ ask[o] \in {"publish", "leaked"}
      BY <3>1 DEF OpenCached
    <3>3. CASE o = c
      BY <3>3 DEF Open
    <3>4. CASE o # c /\ o = cached
      BY <3>1, <3>4, SessionAssumption DEF Open
    <3>5. CASE o # c /\ ask[o] \in {"publish", "leaked"}
      BY <3>1, <3>5 DEF SessionTypeOK
    <3> QED
      BY <3>2, <3>3, <3>4, <3>5
  <2> QED
    BY <2>2, <2>3, <2>4, <2>5
<1>4. CASE CloseSession
  <2> USE <1>4 DEF CloseSession
  <2>1. SessionTypeOK' /\ Shared' /\ EvictsClosed' /\ BuiltFirst'
    BY DEF BuiltFirst, SessionTypeOK, Shared, Published, EvictsClosed
  <2>2. OpenCached'
    BY DEF OpenCached, Open, SessionTypeOK
  <2> QED
    BY <2>1, <2>2
<1>5. ASSUME NEW o \in Caller, CloseOrchestrator(o) \/ TakeHandles(o) \/ CancelTaken(o) PROVE SessionInv'
  <2> USE DEF Closing
  <2>1. CASE CloseOrchestrator(o)
    <3>1. o \in built
      BY <2>1, SessionAssumption DEF CloseOrchestrator, SessionTypeOK, Shared, Published
    <3>2. SessionTypeOK'
      BY <2>1, <3>1 DEF CloseOrchestrator, SessionTypeOK
    <3> QED
      BY <2>1, <3>2, CacheAlone DEF CloseOrchestrator, Shared
  <2>2. CASE TakeHandles(o)
    <3>1. SessionTypeOK'
      BY <2>2 DEF TakeHandles, SessionTypeOK
    <3> QED
      BY <2>2, <3>1, CacheAlone DEF TakeHandles, Shared
  <2>3. CASE CancelTaken(o)
    <3>1. SessionTypeOK'
      BY <2>3 DEF CancelTaken, Finish, SessionTypeOK
    <3> QED
      BY <2>3, <3>1, CacheAlone DEF CancelTaken, Shared
  <2> QED
    BY <1>5, <2>1, <2>2, <2>3
<1>6. ASSUME NEW h \in Caller,
             CheckOpen(h) \/ Register(h) \/ AgentReturns(h) \/ CancelHandle(h) \/ Watchdog(h) \/ Unregister(h)
      PROVE  SessionInv'
  <2> USE DEF AgentAt, Finish
  <2>1. CASE CheckOpen(h)
    <3>1. SessionTypeOK'
      BY <2>1 DEF CheckOpen, SessionTypeOK
    <3> QED
      BY <2>1, <3>1, CacheAlone DEF CheckOpen, Shared, SessionTypeOK
  <2>2. CASE Register(h) \/ AgentReturns(h)
    <3>1. SessionTypeOK'
      BY <2>2 DEF Register, AgentReturns, SessionTypeOK
    <3> QED
      BY <2>2, <3>1, CacheAlone DEF Register, AgentReturns, Shared, SessionTypeOK
  <2>3. CASE CancelHandle(h) \/ Watchdog(h) \/ Unregister(h)
    <3>1. SessionTypeOK'
      BY <2>3 DEF CancelHandle, Watchdog, Unregister, SessionTypeOK
    <3> QED
      BY <2>3, <3>1, CacheAlone DEF CancelHandle, Watchdog, Unregister, Shared
  <2> QED
    BY <1>6, <2>1, <2>2, <2>3
<1>7. CASE UNCHANGED sessionVars
  BY <1>7 DEF sessionVars, SessionTypeOK, Shared, Published, BuiltFirst, EvictsClosed, OpenCached, Open
<1> QED
  BY <1>1, <1>2, <1>3, <1>4, <1>5, <1>6, <1>7 DEF SessionNext

\* An orchestrator nobody has closed or evicted is cached, on its way to the cache, or was
\* built too late; callers never hold two open ones (FactoryCache.For, factory_cache.go).
THEOREM OrchestratorsAccountedCorrect ==
  SessionSpec => []OrchestratorsAccounted
<1>1. SessionInit => SessionInv
  BY InitSession
<1>2. SessionInv /\ [SessionNext]_sessionVars => SessionInv'
  BY StepSession
<1>3. SessionInv => OrchestratorsAccounted
  <2> SUFFICES ASSUME SessionInv PROVE OrchestratorsAccounted
    OBVIOUS
  <2>1. \A o \in Open : o = cached \/ ask[o] \in {"publish", "leaked"}
    BY DEF SessionInv, OpenCached
  <2>2. ASSUME NEW c \in Caller, got[c] \in Open PROVE got[c] = cached
    <3>1. got[c] # NoOrchestrator
      BY <2>2, SessionAssumption DEF SessionInv, SessionTypeOK, Open
    <3> QED
      BY <2>1, <2>2, <3>1 DEF SessionInv, Shared, Published
  <2> QED
    BY <2>1, <2>2 DEF Open, OrchestratorsAccounted
<1> QED
  BY <1>1, <1>2, <1>3, PTL DEF SessionSpec
-------------------------------------------------------------------------------
(* The agents that an agent spawns.                                          *)

\* Agents are numbered as they start, each after its parent and one level below it.
Tree ==
  /\ \A a \in Agent : at[a] = "new" <=> a > agents
  /\ \A c \in 1 .. agents : parent[c] \in 0 .. agents /\ depth[c] = depth[parent[c]] + 1

\* The primary agent is no child: nobody collects its result.
Primary == at[0] \in {"run", "ended", "gone"}

\* A spawner's counter is the number of its children.
Counted == \A a \in Agent : count[a] = Cardinality(Children(a))

\* An agent's Run returns after its foreground children, RunAgent after all of them.
ChildrenFirst ==
  /\ \A a \in Agent : at[a] \notin {"new", "run"} => \A c \in Children(a) \ back : at[c] = "gone"
  /\ at[0] = "gone" => \A c \in Children(0) : at[c] = "gone"

\* What a child leaves is collected unless it failed, and is part of the total then.
Collected ==
  /\ \A c \in 1 .. agents : at[c] \in {"collected", "gone"} /\ c \notin failed => c \in results
  /\ at[0] = "gone" /\ 0 \notin failed => {0} \cup (Children(0) \ failed) \subseteq total

\* An open inbox is that of a child that has not gone.
InboxLive == \A n \in inbox : \E c \in 1 .. agents : at[c] # "gone" /\ childID[c] = n

SpawnInv ==
  SpawnTypeOK /\ Tree /\ Primary /\ Counted /\ ChildrenFirst /\ Collected /\ InboxLive

\* The numbers of the agents.
LEMMA Numbers ==
  ASSUME agents \in Agent
  PROVE  /\ 0 \in Agent /\ agents \in Nat /\ MaxAgents \in Nat /\ agents <= MaxAgents
         /\ \A c \in 1 .. agents : c \in Agent /\ c # 0
         /\ \A c \in Agent : c \in Nat
         /\ \A d : Children(d) \subseteq Agent /\ Children(d) \subseteq 1 .. agents
BY SpawnerAssumption DEF Agent, Children

LEMMA InitSpawn ==
  SpawnInit => SpawnInv
<1> SUFFICES ASSUME SpawnInit PROVE SpawnInv
  OBVIOUS
<1> USE SpawnerAssumption DEF SpawnInit, Agent
<1>1. \A a \in Agent : Children(a) = {}
  BY DEF Children
<1>2. SpawnTypeOK
  BY DEF SpawnTypeOK
<1>3. Counted
  BY <1>1, FS_EmptySet DEF Counted
<1>4. Tree /\ Primary /\ ChildrenFirst /\ Collected /\ InboxLive
  BY <1>1 DEF Tree, Primary, ChildrenFirst, Collected, InboxLive
<1> QED
  BY <1>2, <1>3, <1>4 DEF SpawnInv

\* A child that starts: its parent has one child more, the others as many as before.
LEMMA OneChildMore ==
  ASSUME SpawnInv, NEW a \in Agent, NEW b \in BOOLEAN, NEW r \in SUBSET CallTool,
         SpawnChild(a, b, r)
  PROVE  /\ agents' = agents + 1 /\ agents' \in Agent \ {0}
         /\ agents' \notin Children(a) /\ Children(a)' = Children(a) \cup {agents'}
         /\ \A d \in Agent \ {a} : Children(d)' = Children(d)
<1>0. agents \in Agent
  BY DEF SpawnInv, SpawnTypeOK
<1>1. agents' = agents + 1 /\ agents' \in Agent \ {0}
  BY <1>0, Numbers DEF SpawnChild, Agent
<1>2. parent'[agents'] = a /\ \A c \in 1 .. agents : parent'[c] = parent[c]
  BY <1>0, <1>1, Numbers DEF SpawnChild, SpawnInv, SpawnTypeOK
<1>3. 1 .. agents' = (1 .. agents) \cup {agents'} /\ agents' \notin 1 .. agents
  BY <1>0, <1>1, Numbers
<1> QED
  BY <1>1, <1>2, <1>3 DEF Children

LEMMA ChildrenFinite ==
  ASSUME SpawnTypeOK, NEW a PROVE IsFiniteSet(Children(a))
<1>1. Children(a) \subseteq 1 .. agents /\ agents \in Nat
  BY Numbers DEF SpawnTypeOK
<1>2. IsFiniteSet(1 .. agents)
  BY <1>1, FS_Interval
<1> QED
  BY <1>1, <1>2, FS_Subset

LEMMA StepSpawnChild ==
  ASSUME SpawnInv, NEW a \in Agent, NEW b \in BOOLEAN, NEW r \in SUBSET CallTool,
         SpawnChild(a, b, r)
  PROVE  SpawnInv'
<1> DEFINE new == agents'
<1>1. /\ new = agents + 1 /\ new \in Agent \ {0} /\ agents \in Nat
      /\ new \notin Children(a) /\ Children(a)' = Children(a) \cup {new}
      /\ \A d \in Agent \ {a} : Children(d)' = Children(d)
      /\ 0 \in Agent /\ \A c \in 1 .. agents : c \in Agent /\ c # new
      /\ 1 .. agents' = (1 .. agents) \cup {new}
      /\ \A c \in Agent : c \in Nat
  <2>1. agents \in Agent
    BY DEF SpawnInv, SpawnTypeOK
  <2> QED
    BY <2>1, OneChildMore, Numbers
<1>2. /\ at[a] = "run" /\ depth[a] < MaxDepth /\ count[a] < MaxChildren
      /\ a \in 0 .. agents /\ at[new] = "new"
  BY <1>1, SpawnerAssumption DEF SpawnChild, MaySpawn, SpawnInv, Tree, SpawnTypeOK, Agent
<1>3. /\ parent' = [parent EXCEPT ![new] = a]
      /\ depth' = [depth EXCEPT ![new] = depth[a] + 1]
      /\ at' = [at EXCEPT ![new] = "run"]
      /\ count' = [count EXCEPT ![a] = count[a] + 1]
      /\ childID' = [childID EXCEPT ![new] = count[a] + 1]
      /\ inbox' = inbox \cup {count[a] + 1}
      /\ back' = back \/ back' = back \cup {new}
      /\ offered' \in [Agent -> SUBSET CallTool]
      /\ UNCHANGED <<failed, results, total>>
  BY <1>1 DEF SpawnChild, SpawnInv, SpawnTypeOK, intersectTools
<1> HIDE DEF new
<1>4. SpawnTypeOK'
  <2>1. /\ depth[a] + 1 \in 0 .. MaxDepth
        /\ count[a] + 1 \in 1 .. MaxChildren /\ count[a] + 1 \in 0 .. MaxChildren
    BY <1>2, SpawnerAssumption DEF SpawnInv, SpawnTypeOK
  <2>2. /\ parent' \in [Agent -> Agent] /\ depth' \in [Agent -> 0 .. MaxDepth]
        /\ count' \in [Agent -> 0 .. MaxChildren] /\ childID' \in [Agent -> 0 .. MaxChildren]
        /\ at' \in [Agent -> {"new", "run", "ended", "collected", "gone"}]
    BY <1>1, <1>3, <2>1 DEF SpawnInv, SpawnTypeOK
  <2>3. agents' \in Agent /\ back' \subseteq Agent /\ inbox' \subseteq 1 .. MaxChildren
    BY <1>1, <1>3, <2>1 DEF SpawnInv, SpawnTypeOK, new
  <2> QED
    BY <1>3, <2>2, <2>3 DEF SpawnInv, SpawnTypeOK
<1>5. Tree'
  <2>1. \A d \in Agent : at'[d] = "new" <=> d > agents'
    BY <1>1, <1>3 DEF SpawnInv, Tree, SpawnTypeOK, Agent, new
  <2>2. ASSUME NEW c \in 1 .. agents'
        PROVE  parent'[c] \in 0 .. agents' /\ depth'[c] = depth'[parent'[c]] + 1
    <3>1. CASE c = new
      BY <1>1, <1>2, <1>3, <3>1 DEF SpawnInv, SpawnTypeOK, new, Agent
    <3>2. CASE c # new
      <4>1. c \in 1 .. agents /\ c \in Agent /\ parent[c] \in 0 .. agents
            /\ depth[c] = depth[parent[c]] + 1
        BY <1>1, <2>2, <3>2 DEF SpawnInv, Tree
      <4>2. parent'[c] = parent[c] /\ depth'[c] = depth[c] /\ parent[c] # new /\ parent[c] \in Agent
        BY <1>1, <1>3, <3>2, <4>1 DEF SpawnInv, SpawnTypeOK
      <4>3. depth'[parent[c]] = depth[parent[c]]
        BY <1>3, <4>2 DEF SpawnInv, SpawnTypeOK
      <4> QED
        BY <1>1, <4>1, <4>2, <4>3 DEF new
    <3> QED
      BY <3>1, <3>2
  <2> QED
    BY <2>1, <2>2 DEF Tree
<1>6. Counted'
  <2> SUFFICES ASSUME NEW d \in Agent PROVE count'[d] = Cardinality(Children(d)')
    BY DEF Counted
  <2>1. CASE d = a
    <3>1. Cardinality(Children(a) \cup {new}) = Cardinality(Children(a)) + 1
      BY <1>1, ChildrenFinite, FS_AddElement DEF SpawnInv
    <3> QED
      BY <1>1, <1>3, <2>1, <3>1 DEF SpawnInv, Counted, SpawnTypeOK
  <2>2. CASE d # a
    BY <1>1, <1>3, <2>2 DEF SpawnInv, Counted, SpawnTypeOK
  <2> QED
    BY <2>1, <2>2
<1>7. Primary' /\ ChildrenFirst'
  <2>1. \A d \in Agent \ {new} : at'[d] = at[d]
    BY <1>3 DEF SpawnInv, SpawnTypeOK
  <2>2. 0 \in Agent \ {new} /\ \A d \in Agent : Children(d) \subseteq Agent \ {new}
    BY <1>1, Numbers DEF SpawnInv, SpawnTypeOK
  <2>3. \A d \in Agent : at'[d] \notin {"new", "run"} => d # a /\ d # new
    BY <1>1, <1>2, <1>3, <2>1 DEF SpawnInv, SpawnTypeOK
  <2>4. \A d \in Agent : at'[d] \notin {"new", "run"} =>
                         \A c \in Children(d)' \ back' : at'[c] = "gone"
    BY <1>1, <1>3, <2>1, <2>2, <2>3 DEF SpawnInv, ChildrenFirst
  <2>5. at'[0] = "gone" => \A c \in Children(0)' : at'[c] = "gone"
    <3> SUFFICES ASSUME at'[0] = "gone", NEW c \in Children(0)' PROVE at'[c] = "gone"
      OBVIOUS
    <3>1. at[0] = "gone" /\ c \in Children(0)
      BY <1>1, <2>1, <2>2, <2>3
    <3> QED
      BY <2>1, <2>2, <3>1 DEF SpawnInv, ChildrenFirst
  <2> QED
    BY <2>1, <2>2, <2>4, <2>5 DEF SpawnInv, Primary, ChildrenFirst
<1>8. Collected'
  <2>1. at'[0] = at[0] /\ (at[0] = "gone" => Children(0)' = Children(0))
    BY <1>1, <1>2, <1>3, SpawnerAssumption DEF SpawnInv, SpawnTypeOK, Agent
  <2>2. \A c \in 1 .. agents' :
          \/ c = new /\ at'[c] = "run"
          \/ c \in 1 .. agents /\ at'[c] = at[c]
    BY <1>1, <1>3 DEF SpawnInv, SpawnTypeOK
  <2> QED
    BY <1>3, <2>1, <2>2 DEF SpawnInv, Collected
<1>9. InboxLive'
  <2> SUFFICES ASSUME NEW n \in inbox'
               PROVE  \E c \in 1 .. agents' : at'[c] # "gone" /\ childID'[c] = n
    BY DEF InboxLive
  <2>1. CASE n \in inbox
    <3>1. PICK c \in 1 .. agents : at[c] # "gone" /\ childID[c] = n
      BY <2>1 DEF SpawnInv, InboxLive
    <3>2. c # new /\ c \in Agent /\ c \in 1 .. agents'
      BY <1>1
    <3> QED
      BY <1>3, <3>1, <3>2 DEF SpawnInv, SpawnTypeOK
  <2>2. CASE n = count[a] + 1
    <3>1. new \in 1 .. agents'
      BY <1>1 DEF new
    <3> QED
      BY <1>1, <1>3, <2>2, <3>1 DEF SpawnInv, SpawnTypeOK
  <2> QED
    BY <1>3, <2>1, <2>2
<1> QED
  BY <1>4, <1>5, <1>6, <1>7, <1>8, <1>9 DEF SpawnInv

\* A step of one agent that leaves the tree alone.
LEMMA TreeAlone ==
  ASSUME SpawnInv, UNCHANGED treeVars, NEW a \in 0 .. agents,
         NEW to \in {"ended", "collected", "gone"}, at' = [at EXCEPT ![a] = to],
         at[a] # "gone"
  PROVE  /\ Tree' /\ Counted'
         /\ a \in Agent /\ at'[a] = to /\ \A d \in Agent \ {a} : at'[d] = at[d]
         /\ \A d : Children(d)' = Children(d) /\ Children(d) \subseteq Agent
<1>1. a \in Agent /\ at'[a] = to /\ \A d \in Agent \ {a} : at'[d] = at[d]
  BY SpawnerAssumption DEF SpawnInv, SpawnTypeOK, Agent
<1>2. \A d : Children(d)' = Children(d) /\ Children(d) \subseteq Agent
  BY Numbers DEF treeVars, Children, SpawnInv, SpawnTypeOK
<1>3. Tree'
  BY <1>1 DEF SpawnInv, SpawnTypeOK, Tree, treeVars, Agent
<1>4. Counted'
  BY <1>2 DEF SpawnInv, Counted, treeVars
<1> QED
  BY <1>1, <1>2, <1>3, <1>4

LEMMA StepSpawn ==
  ASSUME SpawnInv, [SpawnNext]_spawnVars
  PROVE  SpawnInv'
<1>0. /\ SpawnTypeOK /\ 0 \in Agent /\ agents \in Nat
      /\ \A c \in 1 .. agents : c \in Agent /\ c # 0
      /\ \A d : Children(d) \subseteq 1 .. agents
  <2>1. SpawnTypeOK /\ agents \in Agent
    BY DEF SpawnInv, SpawnTypeOK
  <2> QED
    BY <2>1, Numbers
<1>1. ASSUME NEW a \in Agent, NEW b \in BOOLEAN, NEW r \in SUBSET CallTool, SpawnChild(a, b, r)
      PROVE  SpawnInv'
  BY <1>1, StepSpawnChild
<1>2. ASSUME NEW a \in Agent, at[a] # "new" PROVE a \in 0 .. agents
  BY <1>0, <1>2 DEF SpawnInv, Tree, Agent
<1>3. ASSUME NEW a \in Agent, NEW f \in BOOLEAN, AgentEnds(a, f)
      PROVE  SpawnInv'
  <2>1. /\ Tree' /\ Counted' /\ at'[a] = "ended" /\ \A d \in Agent \ {a} : at'[d] = at[d]
        /\ \A d : Children(d)' = Children(d) /\ Children(d) \subseteq Agent
    BY <1>2, <1>3, TreeAlone DEF AgentEnds, At
  <2>2. /\ at[a] = "run" /\ UNCHANGED <<results, inbox, total>> /\ UNCHANGED treeVars
        /\ failed' = failed \/ failed' = failed \cup {a}
        /\ \A c \in Children(a) \ back : at[c] = "gone"
    BY <1>3 DEF AgentEnds, At, Waiting
  <2>3. SpawnTypeOK'
    BY <1>0, <1>3, <2>2 DEF AgentEnds, At, SpawnTypeOK, treeVars
  <2>4. Primary' /\ ChildrenFirst'
    BY <1>0, <2>1, <2>2 DEF SpawnInv, Primary, ChildrenFirst, treeVars
  <2>5. Collected'
    BY <1>0, <2>1, <2>2 DEF SpawnInv, Collected, treeVars, SpawnTypeOK
  <2>6. InboxLive'
    BY <1>0, <2>1, <2>2 DEF SpawnInv, InboxLive, treeVars, SpawnTypeOK
  <2> QED
    BY <2>1, <2>3, <2>4, <2>5, <2>6 DEF SpawnInv
<1>4. ASSUME NEW c \in Agent, Collect(c) \/ CollectNothing(c)
      PROVE  SpawnInv'
  <2>1. at[c] = "ended" /\ c # 0 /\ At(c, "ended", "collected")
    BY <1>4 DEF Collect, CollectNothing, At
  <2>2. /\ Tree' /\ Counted' /\ at'[c] = "collected" /\ \A d \in Agent \ {c} : at'[d] = at[d]
        /\ \A d : Children(d)' = Children(d) /\ Children(d) \subseteq Agent
    BY <1>2, <1>4, <2>1, TreeAlone DEF Collect, CollectNothing, At
  <2>3. /\ UNCHANGED <<failed, inbox, total>> /\ UNCHANGED treeVars
        /\ results \subseteq results' /\ results' \subseteq Agent
        /\ c \notin failed => c \in results'
    BY <1>0, <1>4 DEF Collect, CollectNothing, SpawnTypeOK
  <2>4. SpawnTypeOK'
    BY <1>0, <2>1, <2>3 DEF At, SpawnTypeOK, treeVars
  <2>5. Primary' /\ ChildrenFirst'
    BY <1>0, <2>1, <2>2, <2>3 DEF SpawnInv, Primary, ChildrenFirst, treeVars
  <2>6. Collected'
    BY <1>0, <2>1, <2>2, <2>3 DEF SpawnInv, Collected, treeVars, SpawnTypeOK
  <2>7. InboxLive'
    BY <1>0, <2>2, <2>3 DEF SpawnInv, InboxLive, treeVars, SpawnTypeOK
  <2> QED
    BY <2>2, <2>4, <2>5, <2>6, <2>7 DEF SpawnInv
<1>5. ASSUME NEW c \in Agent, CloseChildInbox(c)
      PROVE  SpawnInv'
  <2>1. at[c] = "collected" /\ c # 0 /\ At(c, "collected", "gone")
    BY <1>5 DEF CloseChildInbox, At, SpawnInv, Primary
  <2>2. /\ Tree' /\ Counted' /\ at'[c] = "gone" /\ \A d \in Agent \ {c} : at'[d] = at[d]
        /\ \A d : Children(d)' = Children(d) /\ Children(d) \subseteq Agent
    BY <1>2, <1>5, <2>1, TreeAlone DEF CloseChildInbox, At
  <2>3. /\ UNCHANGED <<failed, results, total>> /\ UNCHANGED treeVars
        /\ inbox' = inbox \ {childID[c]}
    BY <1>5 DEF CloseChildInbox
  <2>4. SpawnTypeOK'
    BY <1>0, <2>1, <2>3 DEF At, SpawnTypeOK, treeVars
  <2>5. Primary' /\ ChildrenFirst'
    BY <1>0, <2>1, <2>2, <2>3 DEF SpawnInv, Primary, ChildrenFirst, treeVars
  <2>6. Collected'
    BY <1>0, <2>1, <2>2, <2>3 DEF SpawnInv, Collected, treeVars, SpawnTypeOK
  <2>7. InboxLive'
    BY <1>0, <2>2, <2>3 DEF SpawnInv, InboxLive, treeVars, SpawnTypeOK
  <2> QED
    BY <2>2, <2>4, <2>5, <2>6, <2>7 DEF SpawnInv
<1>6. CASE RunAgentReturns
  <2>1. /\ UNCHANGED <<failed, results, inbox>> /\ UNCHANGED treeVars
        /\ at[0] = "ended" /\ at' = [at EXCEPT ![0] = "gone"]
        /\ total' = IF 0 \in failed THEN {} ELSE SumTokens
        /\ \A c \in Children(0) \cap back : at[c] = "gone"
    BY <1>6 DEF RunAgentReturns, At
  <2>2. /\ Tree' /\ Counted' /\ at'[0] = "gone" /\ \A d \in Agent \ {0} : at'[d] = at[d]
        /\ \A d : Children(d)' = Children(d) /\ Children(d) \subseteq Agent
    BY <1>0, <1>2, <2>1, TreeAlone
  <2>3. \A c \in Children(0) : at[c] = "gone" /\ c \in 1 .. agents
    BY <1>0, <2>1 DEF SpawnInv, ChildrenFirst, Children
  <2>4. SpawnTypeOK'
    BY <1>0, <2>1, <2>2 DEF SpawnTypeOK, treeVars, SumTokens
  <2>5. Primary' /\ ChildrenFirst'
    BY <1>0, <2>1, <2>2, <2>3 DEF SpawnInv, Primary, ChildrenFirst, treeVars
  <2>6. Collected'
    BY <1>0, <2>1, <2>2, <2>3 DEF SpawnInv, Collected, SumTokens, treeVars, SpawnTypeOK
  <2>7. InboxLive'
    BY <1>0, <2>1, <2>2 DEF SpawnInv, InboxLive, treeVars, SpawnTypeOK
  <2> QED
    BY <2>2, <2>4, <2>5, <2>6, <2>7 DEF SpawnInv
<1>7. CASE UNCHANGED spawnVars
  BY <1>7 DEF spawnVars, treeVars, SpawnInv, SpawnTypeOK, Tree, Primary, Counted, Children,
     ChildrenFirst, Collected, InboxLive
<1> QED
  BY <1>1, <1>3, <1>4, <1>5, <1>6, <1>7 DEF SpawnNext

\* In a tree of any size the agents keep the limits on depth and children, RunAgent returns
\* after the children of the primary agent and adds up the tokens of those that did not
\* fail, and no inbox outlives the agents (agent_tool.go, zenflow.go).
THEOREM SpawnSoundCorrect ==
  SpawnSpec => []SpawnSound
<1>1. SpawnInv => SpawnSound
  <2> SUFFICES ASSUME SpawnInv PROVE SpawnSound
    OBVIOUS
  <2>1. agents \in Nat /\ 0 .. agents \subseteq Agent
    BY SpawnerAssumption DEF SpawnInv, SpawnTypeOK, Agent
  <2>2. \A a \in 0 .. agents : depth[a] <= MaxDepth /\ Cardinality(Children(a)) <= MaxChildren
    BY <2>1, SpawnerAssumption DEF SpawnInv, SpawnTypeOK, Counted
  <2>3. (\A a \in 0 .. agents : at[a] = "gone") => inbox = {}
    BY <2>1 DEF SpawnInv, InboxLive
  <2> QED
    BY <2>2, <2>3 DEF SpawnInv, Tree, ChildrenFirst, Collected, SpawnSound
<1> QED
  BY <1>1, InitSpawn, StepSpawn, PTL DEF SpawnSpec
-------------------------------------------------------------------------------
(* Permissions.                                                              *)

\* The user alone decides about this tool.
AskUser(tool) ==
  /\ ~raw.yolo /\ tool \notin raw.deny /\ ~raw.strict /\ ~raw.sandbox
  /\ tty

Granted(tool) ==
  \/ raw.yolo
  \/ /\ tool \notin raw.deny /\ ~(raw.sandbox /\ tool = "bash")
     /\ \/ tool \in raw.allow \/ (raw.sandbox /\ tool \in Safe)
        \/ /\ ~raw.strict /\ ~raw.sandbox /\ tty
           /\ \E a \in {"yes", "always"} : <<tool, a>> \in said

\* A prompt is waiting or on the screen only where the user decides.
PromptsAsk == \A c \in Asker : where[c] \in {"prompt", "reading"} => AskUser(wants[c])

\* Every "always" was said, at a terminal.
AlwaysSaid == \A t \in always : <<t, "always">> \in said /\ tty

GrantedOnly == \A c \in Asker : where[c] = "granted" => Granted(wants[c])
OneScreen == \A c \in Asker : where[c] = "reading" <=> screen = c
PlanApproved == plan = "yes" => inner = "yes"

ConsentInv == ConsentTypeOK /\ PromptsAsk /\ AlwaysSaid /\ GrantedOnly /\ OneScreen /\ PlanApproved

\* What the flags decide: nothing is granted that they deny, and the user is asked only
\* where they leave the decision to him.
LEMMA Decided ==
  ASSUME ConsentTypeOK, AlwaysSaid, NEW tool \in Tool
  PROVE  /\ DecidePermission(tool) \in {"granted", "denied", "prompt"}
         /\ DecidePermission(tool) = "granted" => Granted(tool)
         /\ DecidePermission(tool) = "prompt" /\ tty => AskUser(tool)
<1> USE PermissionAssumption DEF ConsentTypeOK, Flags
<1> DEFINE p == ParsePermFlags
<1>1. /\ p.yolo = raw.yolo /\ p.deny = raw.deny
      /\ p.strict = (raw.strict \/ raw.sandbox)
      /\ p.allow = IF raw.sandbox THEN (Safe \cup raw.allow) \ {"bash"} ELSE raw.allow
  BY DEF ParsePermFlags
<1>2. CASE p.yolo
  BY <1>1, <1>2 DEF DecidePermission, Granted
<1>3. CASE ~p.yolo /\ tool \in p.deny
  BY <1>1, <1>3 DEF DecidePermission
<1>4. CASE ~p.yolo /\ tool \notin p.deny /\ tool \in p.allow
  BY <1>1, <1>4 DEF DecidePermission, Granted
<1>5. CASE ~p.yolo /\ tool \notin p.deny \cup p.allow /\ p.strict
  BY <1>1, <1>5 DEF DecidePermission
<1>6. CASE ~p.yolo /\ tool \notin p.deny \cup p.allow /\ ~p.strict
  BY <1>1, <1>6 DEF DecidePermission, Granted, AskUser, AlwaysSaid
<1> HIDE DEF p
<1> QED
  BY <1>2, <1>3, <1>4, <1>5, <1>6

LEMMA InitConsent ==
  ConsentInit => ConsentInv
<1> SUFFICES ASSUME ConsentInit PROVE ConsentInv
  OBVIOUS
<1>1. raw \in Flags
  <2>1. [yolo |-> FALSE, strict |-> FALSE, sandbox |-> FALSE, allow |-> {}, deny |-> {}] \in Flags
    BY DEF Flags
  <2> QED
    BY <2>1 DEF ConsentInit
<1>2. ConsentTypeOK
  BY <1>1, PermissionAssumption DEF ConsentInit, ConsentTypeOK
<1>3. PromptsAsk /\ AlwaysSaid /\ GrantedOnly /\ OneScreen /\ PlanApproved
  BY PermissionAssumption DEF ConsentInit, PromptsAsk, AlwaysSaid, GrantedOnly, OneScreen, PlanApproved
<1> QED
  BY <1>2, <1>3 DEF ConsentInv

LEMMA StepConsent ==
  ASSUME ConsentInv, [ConsentNext]_consentVars
  PROVE  ConsentInv'
<1> USE DEF ConsentInv, inputs, promptVars, planVars
<1>1. ASSUME NEW c \in Asker, RequestPermission(c) PROVE ConsentInv'
  <2> USE <1>1 DEF RequestPermission, Step
  <2>1. wants[c] \in Tool
    BY DEF ConsentTypeOK
  <2>2. where'[c] \in {"granted", "denied", "prompt"} /\ \A d \in Asker \ {c} : where'[d] = where[d]
    BY <2>1, Decided DEF ConsentTypeOK
  <2>3. ConsentTypeOK'
    BY <2>1, Decided DEF ConsentTypeOK
  <2>4. PromptsAsk'
    BY <2>1, <2>2, Decided DEF PromptsAsk, AskUser, ConsentTypeOK
  <2>5. GrantedOnly'
    BY <2>1, <2>2, Decided DEF GrantedOnly, Granted, ConsentTypeOK
  <2>6. AlwaysSaid' /\ OneScreen' /\ PlanApproved'
    BY <2>2, PermissionAssumption DEF AlwaysSaid, OneScreen, PlanApproved, ConsentTypeOK
  <2> QED
    BY <2>3, <2>4, <2>5, <2>6
<1>2. ASSUME NEW c \in Asker, Prompt(c) PROVE ConsentInv'
  <2> USE <1>2 DEF Prompt, Step
  <2>1. ConsentTypeOK'
    BY DEF ConsentTypeOK
  <2>2. PromptsAsk' /\ AlwaysSaid' /\ PlanApproved'
    BY DEF PromptsAsk, AskUser, AlwaysSaid, PlanApproved, ConsentTypeOK
  <2>3. GrantedOnly'
    BY DEF GrantedOnly, Granted, PromptsAsk, AskUser, AlwaysSaid, ConsentTypeOK
  <2>4. OneScreen'
    BY PermissionAssumption DEF OneScreen, ConsentTypeOK
  <2> QED
    BY <2>1, <2>2, <2>3, <2>4
<1>3. ASSUME NEW c \in Asker, NEW a \in {"yes", "no", "always"}, Answer(c, a) PROVE ConsentInv'
  <2> USE <1>3 DEF Answer, Step
  <2>1. ConsentTypeOK'
    BY DEF ConsentTypeOK
  <2>2. PromptsAsk' /\ PlanApproved'
    BY DEF PromptsAsk, AskUser, PlanApproved, ConsentTypeOK
  <2>3. AlwaysSaid'
    BY DEF AlwaysSaid, PromptsAsk, AskUser, ConsentTypeOK
  <2>4. GrantedOnly'
    BY DEF GrantedOnly, Granted, PromptsAsk, AskUser, ConsentTypeOK
  <2>5. OneScreen'
    BY PermissionAssumption DEF OneScreen, ConsentTypeOK
  <2> QED
    BY <2>1, <2>2, <2>3, <2>4, <2>5
<1>4. ASSUME NEW c \in Asker, CancelPrompt(c) \/ ReadTimesOut(c) PROVE ConsentInv'
  <2> USE <1>4 DEF CancelPrompt, ReadTimesOut, Step
  <2>1. ConsentTypeOK'
    <3>1. CASE CancelPrompt(c)
      BY <3>1 DEF ConsentTypeOK
    <3>2. CASE ReadTimesOut(c)
      BY <3>2 DEF ConsentTypeOK
    <3> QED
      BY <1>4, <3>1, <3>2
  <2>2. PromptsAsk' /\ AlwaysSaid' /\ PlanApproved'
    BY DEF PromptsAsk, AskUser, AlwaysSaid, PlanApproved, ConsentTypeOK
  <2>3. GrantedOnly'
    BY DEF GrantedOnly, Granted, ConsentTypeOK
  <2>4. OneScreen'
    BY PermissionAssumption DEF OneScreen, ConsentTypeOK
  <2> QED
    BY <2>1, <2>2, <2>3, <2>4
<1>5. CASE HandlerAnswers \/ TimeLimit \/ CancelApproval \/ ApprovePlan \/ UNCHANGED consentVars
  <2> USE <1>5 DEF HandlerAnswers, TimeLimit, CancelApproval, ApprovePlan, consentVars
  <2>1. ConsentTypeOK'
    <3>1. CASE HandlerAnswers
      BY <3>1 DEF ConsentTypeOK
    <3>2. CASE TimeLimit \/ CancelApproval \/ ApprovePlan
      BY <3>2 DEF ConsentTypeOK
    <3>3. CASE UNCHANGED consentVars
      BY <3>3 DEF ConsentTypeOK
    <3> QED
      BY <1>5, <3>1, <3>2, <3>3
  <2>2. PromptsAsk' /\ AlwaysSaid' /\ GrantedOnly' /\ OneScreen'
    BY DEF PromptsAsk, AskUser, AlwaysSaid, GrantedOnly, Granted, OneScreen
  <2>3. PlanApproved'
    BY DEF PlanApproved, ConsentTypeOK
  <2> QED
    BY <2>1, <2>2, <2>3
<1> QED
  BY <1>1, <1>2, <1>3, <1>4, <1>5 DEF ConsentNext

\* TypeOK holds in every reachable state of the prompts (permission.go).
THEOREM ConsentTypeCorrect ==
  ConsentSpec => []ConsentTypeOK
<1>1. ConsentInit => ConsentInv
  BY InitConsent
<1>2. ConsentInv /\ [ConsentNext]_consentVars => ConsentInv'
  BY StepConsent
<1>3. ConsentInv => ConsentTypeOK
  BY DEF ConsentInv
<1> QED
  BY <1>1, <1>2, <1>3, PTL DEF ConsentSpec

\* No tool runs that neither the flags nor the user let run, however many agents share
\* the terminal and however their prompts are cancelled; a plan is approved only by its
\* handler (permission.go, permission_policy.go, approval_timeout.go).
THEOREM AsksFirstCorrect ==
  ConsentSpec => []AsksFirst
<1>1. ConsentInit => ConsentInv
  BY InitConsent
<1>2. ConsentInv /\ [ConsentNext]_consentVars => ConsentInv'
  BY StepConsent
<1>3. ConsentInv => AsksFirst
  BY DEF ConsentInv, GrantedOnly, Granted, OneScreen, PlanApproved, AsksFirst
<1> QED
  BY <1>1, <1>2, <1>3, PTL DEF ConsentSpec
=============================================================================

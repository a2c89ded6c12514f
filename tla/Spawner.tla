--------------------------------- MODULE Spawner ---------------------------------
(***************************************************************************)
(* The agents of one RunAgent call: the primary agent, and the children     *)
(* agents start through the agent tool, in the foreground or in the         *)
(* background (agent_tool.go, zenflow.go).  Every agent has a spawner of    *)
(* its own that counts its children, collects their results and waits for   *)
(* them -- or not.  Agents are numbered in the order they start, the        *)
(* primary one is 0; all children have the same sanitized name.             *)
(***************************************************************************)
EXTENDS Naturals, FiniteSets

CONSTANTS
  MaxAgents,   \* children started in the whole tree
  MaxDepth,    \* maxDepth
  MaxChildren, \* children of one agent
  CallTool         \* tools of the call

ASSUME SpawnerAssumption ==
  MaxAgents \in Nat /\ MaxDepth \in Nat \ {0} /\ MaxChildren \in Nat \ {0} /\ IsFiniteSet(CallTool)

VARIABLES
  agents,  \* children started so far
  parent,  \* who started an agent
  depth,   \* CurrentDepth of an agent's spawner
  count,   \* childCount of an agent's spawner
  childID, \* the number in a child's id
  back,    \* agents that run in the background
  offered, \* ParentTools of an agent's spawner, all tools when empty
  at,      \* where an agent is
  failed,  \* agents whose Run failed
  results, \* agents whose result their parent's spawner has collected
  inbox,   \* ids of the inboxes open on the router
  total    \* agents whose tokens RunAgent reports

treeVars == <<agents, parent, depth, count, childID, back, offered>>
spawnVars == <<treeVars, at, failed, results, inbox, total>>

Agent == 0 .. MaxAgents
Children(a) == {c \in 1 .. agents : parent[c] = a}
At(a, from, to) == at[a] = from /\ at' = [at EXCEPT ![a] = to]

SpawnInit ==
  /\ agents = 0 /\ parent = [a \in Agent |-> 0] /\ back = {}
  /\ depth = [a \in Agent |-> 0] /\ count = [a \in Agent |-> 0]
  /\ childID = [a \in Agent |-> 0]
  /\ offered = [a \in Agent |-> IF a = 0 THEN CallTool ELSE {}]
  /\ at = [a \in Agent |-> IF a = 0 THEN "run" ELSE "new"]
  /\ failed = {} /\ results = {} /\ inbox = {} /\ total = {}

intersectTools(requested, allowed) == IF allowed = {} THEN requested ELSE requested \cap allowed
FilterTools(allow) == IF allow = {} THEN CallTool ELSE CallTool \cap allow

MaySpawn(a) == depth[a] < MaxDepth /\ count[a] < MaxChildren

\* SpawnChild, up to the call of the child's Run: a child is registered under the number
\* its parent's spawner has counted.
SpawnChild(a, background, requested) ==
  /\ at[a] = "run" /\ MaySpawn(a) /\ agents < MaxAgents
  /\ agents' = agents + 1
  /\ parent' = [parent EXCEPT ![agents'] = a]
  /\ back' = IF background THEN back \cup {agents'} ELSE back
  /\ offered' = [offered EXCEPT ![agents'] = intersectTools(requested, offered[a])]
  /\ at' = [at EXCEPT ![agents'] = "run"]
  /\ depth' = [depth EXCEPT ![agents'] = depth[a] + 1]
  /\ count' = [count EXCEPT ![a] = @ + 1]
  /\ childID' = [childID EXCEPT ![agents'] = count'[a]]
  /\ inbox' = inbox \cup {count'[a]}
  /\ UNCHANGED <<failed, results, total>>

\* An agent's Run returns when no tool call of it is in progress.
Waiting(a) == \E c \in Children(a) \ back : at[c] # "gone"
AgentEnds(a, fails) ==
  /\ At(a, "run", "ended") /\ ~Waiting(a)
  /\ failed' = IF fails THEN failed \cup {a} ELSE failed
  /\ UNCHANGED <<treeVars, results, inbox, total>>

\* Its parent's spawner collects the result; a background child's also on an error,
\* if there is one.
Collect(c) ==
  /\ c # 0 /\ At(c, "ended", "collected")
  /\ c \notin failed \/ c \in back
  /\ results' = results \cup {c}
  /\ UNCHANGED <<treeVars, failed, inbox, total>>
CollectNothing(c) ==
  /\ c \in failed \ {0} /\ At(c, "ended", "collected")
  /\ UNCHANGED <<treeVars, failed, results, inbox, total>>

CloseChildInbox(c) ==
  /\ At(c, "collected", "gone") /\ inbox' = inbox \ {childID[c]}
  /\ UNCHANGED <<treeVars, failed, results, total>>

SumTokens == {0} \cup (Children(0) \cap results)
ReturnAtOnce ==      \* mutant
  /\ At(0, "ended", "gone")
  /\ total' = IF 0 \in failed THEN {} ELSE SumTokens
  /\ UNCHANGED <<treeVars, failed, results, inbox>>
\* RunAgent waits for the background children of the primary agent, then adds the tokens up.
RunAgentReturns ==
  /\ \A c \in Children(0) \cap back : at[c] = "gone"
  /\ At(0, "ended", "gone")
  /\ total' = IF 0 \in failed THEN {} ELSE SumTokens
  /\ UNCHANGED <<treeVars, failed, results, inbox>>

SpawnNext ==
  \/ \E a \in Agent, b \in BOOLEAN, r \in SUBSET CallTool : SpawnChild(a, b, r)
  \/ \E a \in Agent, f \in BOOLEAN : AgentEnds(a, f)
  \/ \E c \in Agent : Collect(c) \/ CollectNothing(c) \/ CloseChildInbox(c)
  \/ RunAgentReturns

SpawnSpec == SpawnInit /\ [][SpawnNext]_spawnVars
-------------------------------------------------------------------------------
SpawnTypeOK ==
  /\ agents \in Agent /\ parent \in [Agent -> Agent] /\ back \subseteq Agent
  /\ depth \in [Agent -> 0 .. MaxDepth] /\ count \in [Agent -> 0 .. MaxChildren]
  /\ childID \in [Agent -> 0 .. MaxChildren]
  /\ offered \in [Agent -> SUBSET CallTool]
  /\ at \in [Agent -> {"new", "run", "ended", "collected", "gone"}]
  /\ failed \subseteq Agent /\ results \subseteq Agent
  /\ inbox \subseteq 1 .. MaxChildren /\ total \subseteq Agent

\* The limits hold for every agent of the tree, at its distance from the primary one.
\* Once RunAgent has returned, all children of the primary agent have ended, the background
\* ones too, and the tokens it reports are its own and those of each child that did not
\* fail.  No inbox outlives the agents.
SpawnSound ==
  /\ \A a \in 0 .. agents : depth[a] <= MaxDepth /\ Cardinality(Children(a)) <= MaxChildren
  /\ \A c \in 1 .. agents : depth[c] = depth[parent[c]] + 1
  /\ at[0] = "gone" =>
       /\ \A c \in Children(0) : at[c] = "gone"
       /\ 0 \notin failed => {0} \cup (Children(0) \ failed) \subseteq total
  /\ (\A a \in 0 .. agents : at[a] = "gone") => inbox = {}
===============================================================================

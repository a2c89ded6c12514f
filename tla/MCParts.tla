-------------------------------- MODULE MCParts ---------------------------------
(***************************************************************************)
(* The smaller components side by side.  Each initial state puts one of     *)
(* them in focus: it runs while the others keep one initial state.  So one  *)
(* run checks each of them on all its small instances, without products.    *)
(***************************************************************************)
EXTENDS MCDocs, MCSamples, LoopStep, SessionAgents, EventQueues, RunStore, Transcript,
        Permissions, Spawner, WorkflowDocs, Codecs

VARIABLE focus
-------------------------------------------------------------------------------
\* Repeat loops of up to two iterations, forEach loops of up to three items, includes.
SmallLoops ==
  [kind : {"repeat"}, max : 0 .. 2, inner : BOOLEAN, delay : BOOLEAN, until : BOOLEAN,
   judge : {"none", "known", "unknown"}, retries : 0 .. 1]
    \cup [kind : {"forEach"}, items : {0, 2}, inner : {TRUE}, broken : BOOLEAN, conc : {0},
          retries : {1}]
    \cup [kind : {"forEach"}, items : {3}, inner : {FALSE}, broken : {FALSE}, conc : {1, 2, 4},
          retries : {0}]
    \cup [kind : {"include"}, retries : 0 .. 2]

\* Two calls that write the shared memory and one that writes a run.
Targets == [s1 |-> "memory", s2 |-> "memory", s3 |-> "run"]
Keys == [s1 |-> 1, s2 |-> 2, s3 |-> 3]
-------------------------------------------------------------------------------
Part == {"loop", "session", "queue", "store", "script", "consent", "spawn", "document", "codec"}

\* What a component out of focus starts with; the document and the sample are among those
\* that the components start with in focus.
Pinned(part, choice) == IF focus = part THEN TRUE ELSE choice
PlainSample == [kind |-> "duration", halves |-> 0]
ASSUME PinnedAssumption == PlainDoc \in Docs /\ PlainSample \in Samples

Init ==
  /\ focus \in Part
  /\ Pinned("loop", loop = [kind |-> "include", retries |-> 0]) /\ LoopInit
  /\ SessionInit
  /\ Pinned("queue", kind = "fanout") /\ QueueInit
  /\ Pinned("store", backend = "mem") /\ StoreInit
  /\ Pinned("script", cap = 4) /\ ScriptInit
  /\ Pinned("consent", planned = TRUE /\ tty = TRUE /\ timed = TRUE) /\ ConsentInit
  /\ SpawnInit
  /\ IF focus = "document" THEN DocumentInit ELSE DocumentStart("file", PlainDoc)
  /\ IF focus = "codec" THEN CodecInit ELSE sample = PlainSample

vars == <<focus, loopVars, sessionVars, queueVars, storeVars, scriptVars, consentVars, spawnVars,
          documentVars, sample>>

\* Only the component in focus moves.
Next ==
  \/ /\ focus = "loop" /\ LoopNext
     /\ UNCHANGED <<focus, sessionVars, queueVars, storeVars, scriptVars, consentVars, spawnVars,
                     documentVars, sample>>
  \/ /\ focus = "session" /\ SessionNext
     /\ UNCHANGED <<focus, loopVars, queueVars, storeVars, scriptVars, consentVars, spawnVars,
                     documentVars, sample>>
  \/ /\ focus = "queue" /\ QueueNext
     /\ UNCHANGED <<focus, loopVars, sessionVars, storeVars, scriptVars, consentVars, spawnVars,
                     documentVars, sample>>
  \/ /\ focus = "store" /\ StoreNext
     /\ UNCHANGED <<focus, loopVars, sessionVars, queueVars, scriptVars, consentVars, spawnVars,
                     documentVars, sample>>
  \/ /\ focus = "script" /\ ScriptNext
     /\ UNCHANGED <<focus, loopVars, sessionVars, queueVars, storeVars, consentVars, spawnVars,
                     documentVars, sample>>
  \/ /\ focus = "consent" /\ ConsentNext
     /\ UNCHANGED <<focus, loopVars, sessionVars, queueVars, storeVars, scriptVars, spawnVars,
                     documentVars, sample>>
  \/ /\ focus = "spawn" /\ SpawnNext
     /\ UNCHANGED <<focus, loopVars, sessionVars, queueVars, storeVars, scriptVars, consentVars,
                     documentVars, sample>>
  \/ /\ focus = "document" /\ DocumentNext
     /\ UNCHANGED <<focus, loopVars, sessionVars, queueVars, storeVars, scriptVars, consentVars,
                     spawnVars, sample>>

\* The goroutines of a handle and its watchdog's timer, see SessionAgents.
Spec == Init /\ [][Next]_vars /\ SessionFairness
-------------------------------------------------------------------------------
\* Every component keeps to its types.
TypeOK ==
  /\ focus \in Part
  /\ LoopTypeOK /\ SessionTypeOK /\ QueueTypeOK /\ StoreTypeOK /\ ScriptTypeOK
  /\ ConsentTypeOK /\ SpawnTypeOK /\ DocumentTypeOK /\ CodecTypeOK
===============================================================================

----------------------------- MODULE PartsProofs ------------------------------
(***************************************************************************)
(* Proofs about MCParts: side by side, each component behaves as it does   *)
(* alone, and so what is proved of it alone holds in the run that checks   *)
(* them together.                                                          *)
(***************************************************************************)
EXTENDS MCParts, LoopStepProofs, AgentsProofs, RecordsProofs, DataProofs
-------------------------------------------------------------------------------
LEMMA InitParts ==
  Init => /\ LoopInit /\ SessionInit /\ QueueInit /\ StoreInit /\ ScriptInit
          /\ ConsentInit /\ SpawnInit /\ DocumentInit /\ CodecInit /\ focus \in Part
<1> SUFFICES ASSUME Init
             PROVE  /\ LoopInit /\ SessionInit /\ QueueInit /\ StoreInit /\ ScriptInit
                    /\ ConsentInit /\ SpawnInit /\ DocumentInit /\ CodecInit /\ focus \in Part
  OBVIOUS
<1>1. DocumentInit
  BY PinnedAssumption DEF Init, DocumentInit
<1>2. CodecInit
  BY PinnedAssumption DEF Init, CodecInit
<1> QED
  BY <1>1, <1>2 DEF Init

\* One component steps and the others stand still.
LEMMA StepParts ==
  [Next]_vars =>
    /\ [LoopNext]_loopVars /\ [SessionNext]_sessionVars /\ [QueueNext]_queueVars
    /\ [StoreNext]_storeVars /\ [ScriptNext]_scriptVars /\ [ConsentNext]_consentVars
    /\ [SpawnNext]_spawnVars /\ [DocumentNext]_documentVars /\ [FALSE]_sample
    /\ UNCHANGED focus
BY DEF Next, vars

\* Every component of the composition behaves as it is specified to behave alone, with the
\* fairness of its own: the components share no state, and what one is proved to do, alone, it
\* does here.
THEOREM PartsImplemented ==
  Spec => /\ LoopSpec /\ SessionSpec /\ QueueSpec /\ StoreSpec /\ ScriptSpec
          /\ ConsentSpec /\ SpawnSpec /\ DocumentSpec /\ CodecSpec
BY InitParts, StepParts, PTL
   DEF Spec, LoopSpec, SessionSpec, QueueSpec, StoreSpec, ScriptSpec, ConsentSpec, SpawnSpec,
       DocumentSpec, CodecSpec
-------------------------------------------------------------------------------
LEMMA FocusKept == Spec => [](focus \in Part)
<1>1. focus \in Part /\ UNCHANGED focus => (focus \in Part)'
  BY DEF Part
<1> QED
  BY <1>1, InitParts, StepParts, PTL DEF Spec

LEMMA SessionTyped == SessionSpec => []SessionTypeOK
<1>1. SessionInv /\ [SessionNext]_sessionVars => SessionInv'
  BY StepSession
<1>2. SessionInv => SessionTypeOK
  BY DEF SessionInv
<1> QED
  BY <1>1, <1>2, InitSession, PTL DEF SessionSpec

LEMMA SpawnTyped == SpawnSpec => []SpawnTypeOK
<1>1. SpawnInv /\ [SpawnNext]_spawnVars => SpawnInv'
  BY StepSpawn
<1>2. SpawnInv => SpawnTypeOK
  BY DEF SpawnInv
<1> QED
  BY <1>1, <1>2, InitSpawn, PTL DEF SpawnSpec

LEMMA DocumentTyped == DocumentSpec => []DocumentTypeOK
<1>1. DocumentInv => DocumentTypeOK
  BY DEF DocumentInv
<1> QED
  BY <1>1, InitDocument, StepDocument, PTL DEF DocumentSpec

\* Every component keeps to its types: its numbers stay within the limits that the code gives
\* them (retries, iterations, capacities, depths), through panics, crashes and cancellations.
THEOREM PartsTypeCorrect == Spec => []TypeOK
<1>1. QueueInv => QueueTypeOK
  BY DEF QueueInv
<1>2. ScriptInv => ScriptTypeOK
  BY DEF ScriptInv
<1>3. TypeOK <=> /\ focus \in Part
                 /\ LoopTypeOK /\ SessionTypeOK /\ QueueTypeOK /\ StoreTypeOK /\ ScriptTypeOK
                 /\ ConsentTypeOK /\ SpawnTypeOK /\ DocumentTypeOK /\ CodecTypeOK
  BY DEF TypeOK
<1> QED
  BY <1>1, <1>2, <1>3, PartsImplemented, FocusKept, LoopTypeCorrect, SessionTyped,
     QueueInvariant, StoreTypeCorrect, ScriptInvariant, ConsentTypeCorrect, SpawnTyped,
     DocumentTyped, CodecTypeCorrect, PTL

\* What the run of the components checks of them together, and what is proved of each alone.
PartsSound ==
  /\ LoopResultSound /\ OrchestratorsAccounted /\ QueueConserves /\ StoreIntact
  /\ TranscriptFaithful /\ AsksFirst /\ SpawnSound /\ DocumentsSound /\ CodecsSound

\* In the composition no component loses, repeats, exceeds or grants what its code must not,
\* and no iteration of a forEach loop starts after another has failed.
THEOREM PartsSoundCorrect == Spec => []PartsSound /\ FailFast
<1>1. PartsSound <=> /\ LoopResultSound /\ OrchestratorsAccounted /\ QueueConserves /\ StoreIntact
                     /\ TranscriptFaithful /\ AsksFirst /\ SpawnSound /\ DocumentsSound
                     /\ CodecsSound
  BY DEF PartsSound
<1> QED
  BY <1>1, PartsImplemented, LoopResultSoundCorrect, OrchestratorsAccountedCorrect,
     QueueConservesCorrect, StoreIntactCorrect, TranscriptFaithfulCorrect, AsksFirstCorrect,
     SpawnSoundCorrect, DocumentsSoundCorrect, CodecsSoundCorrect, FailFastCorrect, PTL
===============================================================================

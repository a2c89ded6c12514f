------------------------------- MODULE Transcript -------------------------------
(***************************************************************************)
(* The transcript of one step: what AgentRunner.Run appends to the store as *)
(* its conversation grows (agent_runner.go), what the store keeps of it     *)
(* under its cap (transcript_inmem.go), and what a resume of the step is    *)
(* given (executor_resume.go).  A message is a number, new for each message *)
(* that somebody wrote.                                                     *)
(***************************************************************************)
EXTENDS Naturals, Sequences

CONSTANTS
  Caps,        \* caps on the messages of a transcript
  MaxCalls,    \* calls of the model in an attempt (maxWakeCycles)
  MaxAttempts, \* attempts of the step
  TailLength,  \* DefaultTruncatedResumeMessages
  Flaky        \* Append of the store may fail for another reason than the cap

ASSUME TranscriptAssumption ==
  /\ Caps \subseteq Nat /\ MaxCalls \in Nat /\ MaxAttempts \in Nat \ {0}
  /\ TailLength \in Nat \ {0} /\ Flaky \in BOOLEAN

VARIABLES
  cap,       \* maxMessages of the store
  turn,      \* where Run is
  tries,     \* attempts started
  calls,     \* calls of the model in this attempt
  written,   \* messages written so far
  messages,  \* the conversation the next call of the model is given
  responses, \* ResponseMessages of the accumulated result
  persisted, \* persistedCount
  sealed,    \* transcriptSealed
  stored,    \* the transcript in the store
  storeSeal, \* the store has sealed it
  before,    \* what was stored before this attempt
  gap,       \* the last append of this attempt failed
  loaded     \* what a resume was given

scriptVars == <<cap, turn, tries, calls, written, messages, responses, persisted, sealed,
          stored, storeSeal, before, gap, loaded>>

ScriptInit ==
  /\ cap \in Caps
  /\ turn = "idle" /\ tries = 0 /\ calls = 0 /\ written = 0
  /\ messages = <<>> /\ responses = <<>>
  /\ persisted = 0 /\ sealed = FALSE
  /\ stored = <<>> /\ storeSeal = FALSE /\ before = <<>> /\ gap = FALSE
  /\ loaded = <<>>

Turn(from, to) == turn = from /\ turn' = to
New(n) == [i \in 1 .. n |-> written + i]
appendVars == <<persisted, sealed, stored, storeSeal, gap>>
-------------------------------------------------------------------------------
(* AgentRunner.Run.                                                          *)

Start ==
  /\ Turn("idle", "call") /\ tries' = tries + 1 /\ calls' = 0
  /\ written' = written + 1 /\ messages' = New(1) /\ responses' = <<>>
  /\ persisted' = 0 /\ sealed' = FALSE /\ before' = stored /\ gap' = FALSE
  /\ UNCHANGED <<cap, stored, storeSeal, loaded>>

\* The store refuses an append beyond its cap as a whole, and seals the transcript.
StoreAppend(tail) ==
  IF Len(stored) + Len(tail) > cap
  THEN storeSeal' = TRUE /\ UNCHANGED stored
  ELSE stored' = stored \o tail /\ UNCHANGED storeSeal

AdvanceOnError(full) ==      \* mutant
  IF sealed \/ Len(full) <= persisted
  THEN UNCHANGED appendVars
  ELSE LET tail == SubSeq(full, persisted + 1, Len(full))
       IN  /\ persisted' = Len(full)
           /\ \/ /\ StoreAppend(tail)
                 /\ sealed' = storeSeal' /\ gap' = storeSeal'
              \/ Flaky /\ gap' = TRUE /\ UNCHANGED <<sealed, stored, storeSeal>>
\* What the store does not have yet is appended; the cap ends it, any other error leaves
\* the rest to the next flush.
Flush(full) ==
  IF sealed \/ Len(full) <= persisted
  THEN UNCHANGED appendVars
  ELSE LET tail == SubSeq(full, persisted + 1, Len(full))
       IN  \/ /\ StoreAppend(tail)
              /\ LET fits == Len(stored) + Len(tail) <= cap
                 IN  /\ sealed' = ~fits /\ gap' = ~fits
                     /\ persisted' = IF fits THEN Len(full) ELSE persisted
           \/ /\ Flaky /\ gap' = TRUE
              /\ UNCHANGED <<persisted, sealed, stored, storeSeal>>

\* A call of the model; mergeTextResult appends what it answers to the accumulated result.
Generate(n) ==
  /\ calls < MaxCalls /\ Turn("call", "look") /\ calls' = calls + 1
  /\ written' = written + n /\ responses' = responses \o New(n)
  /\ Flush(messages \o responses')
  /\ UNCHANGED <<cap, tries, messages, before, loaded>>

\* A woken runner goes on with the conversation, all responses and the new messages.
Wake(n) ==
  /\ calls < MaxCalls /\ Turn("look", "call")
  /\ written' = written + n /\ messages' = messages \o responses \o New(n)
  /\ UNCHANGED <<cap, tries, calls, responses, appendVars, before, loaded>>

\* Run returns, for whatever reason: the deferred flush.
RunnerReturns ==
  /\ turn \in {"call", "look"} /\ turn' = "returned"
  /\ Flush(messages \o responses)
  /\ UNCHANGED <<cap, tries, calls, written, messages, responses, before, loaded>>

\* Another attempt has a runner of its own, and the same transcript.
RetryAttempt ==
  /\ tries < MaxAttempts /\ Turn("returned", "idle")
  /\ UNCHANGED <<cap, tries, calls, written, messages, responses, appendVars, before, loaded>>
-------------------------------------------------------------------------------
(* A resume of the step.                                                     *)

\* Load refuses a sealed transcript; with TruncateOnCapReached its tail is loaded instead.
LoadTruncated == IF Len(stored) > TailLength
                 THEN SubSeq(stored, Len(stored) - TailLength + 1, Len(stored))
                 ELSE stored
LoadTranscript ==
  /\ Turn("returned", "loaded")
  /\ \/ ~storeSeal /\ loaded' = stored
     \/ storeSeal /\ loaded' \in {LoadTruncated, <<>>}
  /\ UNCHANGED <<cap, tries, calls, written, messages, responses, appendVars, before>>

Delete ==
  /\ Turn("loaded", "deleted")
  /\ stored' = <<>> /\ storeSeal' = FALSE
  /\ UNCHANGED <<cap, tries, calls, written, messages, responses, persisted, sealed, before,
                 gap, loaded>>

ScriptNext ==
  \/ Start \/ RunnerReturns \/ RetryAttempt \/ LoadTranscript \/ Delete
  \/ \E n \in 1 .. 2 : Generate(n) \/ Wake(n)

ScriptSpec == ScriptInit /\ [][ScriptNext]_scriptVars
-------------------------------------------------------------------------------
ScriptTypeOK ==
  /\ cap \in Caps
  /\ turn \in {"idle", "call", "look", "returned", "loaded", "deleted"}
  /\ tries \in 0 .. MaxAttempts /\ calls \in 0 .. MaxCalls
  /\ written \in Nat /\ persisted \in 0 .. Len(messages \o responses)
  /\ \A s \in {messages, responses, stored, before, loaded} : s \in Seq(1 .. written)
  /\ sealed \in BOOLEAN /\ storeSeal \in BOOLEAN /\ gap \in BOOLEAN
  /\ Len(stored) <= cap

\* The places of a transcript that this attempt has filled, after what was there before.
Added(s) == {i \in DOMAIN s : i > Len(before)}
Continues(s) == Len(before) <= Len(s) /\ \A i \in DOMAIN before : s[i] = before[i]

\* The first message of the attempt is messages[1], its latest one is written.
NoHole(s) ==
  \A i \in Added(s) : /\ s[i] \in messages[1] .. written
                    /\ \A m \in messages[1] .. s[i] - 1 : \E j \in Added(s) : j < i /\ s[j] = m
Increasing(s) == \A i, j \in Added(s) : i < j => s[i] < s[j]
HasAll(s) == \A m \in messages[1] .. written : \E i \in Added(s) : s[i] = m

\* Whatever appends fail and whenever the store seals, the transcript keeps what it had and
\* continues with messages of this attempt, none of which comes before all that were written
\* earlier (a tool result before its call); an attempt that no wake has continued stores each
\* once.  What a resume loads of an open transcript lacks none, unless the last append failed.
TranscriptFaithful ==
  /\ turn \in {"call", "look", "returned"} =>
       Continues(stored) /\ NoHole(stored) /\ (Len(messages) = 1 => Increasing(stored))
  /\ turn = "loaded" /\ ~storeSeal /\ ~gap =>
       Continues(loaded) /\ NoHole(loaded) /\ HasAll(loaded)

\* agent_runner.go:667-670: what has been appended is counted to avoid double-writing.
StoredOnce == \A i, j \in DOMAIN stored : stored[i] = stored[j] => i = j
===============================================================================

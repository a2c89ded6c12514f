SPECIFICATION Spec
CONSTANTS
  \* loops and includes
  Loops <- SmallLoops
  DefaultMax = 3
  ConcLimit = 2
  \* the orchestrators of a session and their agents
  Caller = {c1, c2}
  NoOrchestrator = NoOrchestrator
  \* event queues
  Kinds = {"fanout", "pump", "sink"}
  Deltas = {delta}
  Outputs = {output}
  Urgent = {end}
  Sentinel = Sentinel
  Capacity = 2
  \* storage
  Saver = {"s1", "s2", "s3"}
  Target <- Targets
  Key <- Keys
  Backends = {"file", "mem"}
  Torn = "torn"
  Unlocked = "unlocked"
  \* transcripts
  Caps = {4, 100}
  MaxCalls = 2
  MaxAttempts = 2
  TailLength = 2
  Flaky = TRUE
  \* permissions
  Asker = {x, y, z}
  NoCall = NoCall
  Tool = {"bash", "read"}
  Safe = {"read"}
  Approvals = {TRUE, FALSE}
  \* the agents of a call
  MaxAgents = 3
  MaxDepth = 2
  MaxChildren = 2
  CallTool = {"read"}
  \* workflow documents
  Docs <- AllDocs
  Answers <- AllPlans
  Clean <- Cleaning
  Unsafe = {"!"}
  Patterned = {"a", "b", "c", "d", "a-b", "B", "w", "j"}
  Strict = {"a", "b", "c", "d", "a-b", "w", "j"}
  Hyphenated = {"a-b"}
  Catalog = {"read"}
  Files <- RefFiles
  MaxSteps = 4
  MaxNesting = 3
  JsonRetries = 2
  ValRetries = 1
  \* conversions
  Samples <- AllSamples
  Env <- Variables
  Char <- Characters
  SafeInt = 4
  SchemaDepth = 3
INVARIANT TypeOK
INVARIANT LoopResultSound
INVARIANT OrchestratorsAccounted
INVARIANT QueueConserves
INVARIANT StoreIntact
INVARIANT TranscriptFaithful
INVARIANT AsksFirst
INVARIANT SpawnSound
INVARIANT DocumentsSound
INVARIANT CodecsSound
PROPERTY FailFast
PROPERTY HandlesSettle
\* Every part may stop: a loop ends, an agent returns, a queue is stopped.
CHECK_DEADLOCK FALSE

SPECIFICATION Spec
CONSTANTS
  a = a
  b = b
  c = c
  d = d
  NoReport = NoReport
  Step = {a, b, c}
  Workflows <- ResumeWorkflows
  MaxConc = 2
  Stuck = {}
  Unreadable = {c}
  MaxRestarts = 1
INVARIANT StoreBacked
PROPERTY PersistedNeverRelaunched
PROPERTY ImplementsContract
\* Run returns: a finished run has no next step.
CHECK_DEADLOCK FALSE

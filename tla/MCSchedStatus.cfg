SPECIFICATION Spec
CONSTANTS
  a = a
  b = b
  c = c
  d = d
  NoReport = NoReport
  Step = {a, b, c}
  Workflows <- OnlyConditional
  MaxConc = 2
  Stuck = {}
  Unreadable = {}
  MaxRestarts = 0
INVARIANT FailedWithoutCompleted
\* Run returns: a finished run has no next step.
CHECK_DEADLOCK FALSE

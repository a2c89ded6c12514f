SPECIFICATION Spec
CONSTANTS
  a = a
  b = b
  c = c
  d = d
  NoReport = NoReport
  Step = {a, b, c, d}
  Workflows <- JoinAfterCondition
  MaxConc = 2
  Stuck = {}
  Unreadable = {}
  MaxRestarts = 0
INVARIANT CascadeContainment
\* Run returns: a finished run has no next step.
CHECK_DEADLOCK FALSE

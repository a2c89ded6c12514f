SPECIFICATION FairSpec
CONSTANTS
  a = a
  b = b
  c = c
  d = d
  NoReport = NoReport
  Step = {a, b, c, d}
  Workflows <- FourPlain
  MaxConc = 2
  Stuck = {b}
  Unreadable = {}
  MaxRestarts = 0
INVARIANT DoneHasRoom
INVARIANT ReportFaithful
PROPERTY RunReturns
\* Run returns: a finished run has no next step.
CHECK_DEADLOCK FALSE

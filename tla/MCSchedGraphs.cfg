SPECIFICATION Spec
CONSTANTS
  a = a
  b = b
  c = c
  d = d
  NoReport = NoReport
  Step = {a, b, c}
  Workflows <- AllOfThree
  MaxConc = 2
  Stuck = {}
  Unreadable = {}
  MaxRestarts = 0
INVARIANT TypeOK
INVARIANT InDegreeExact
INVARIANT NoEarlyStart
INVARIANT MarksExact
INVARIANT NoSpuriousStop
INVARIANT FailureContained
\* Run returns: a finished run has no next step.
CHECK_DEADLOCK FALSE

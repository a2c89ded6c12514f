SPECIFICATION FairSpec
CONSTANTS
  s = s
  u = u
  m1 = m1
  m2 = m2
  m3 = m3
  Inbox = {s, u}
  Known = {s, u}
  Msg = {m1}
  To <- OneToStep
  Reverse = {}
  Cancels = {}
  Bounded = FALSE
  Capacity = 1
  DagAware = FALSE
  Attempts = 1
  MaxWake = 2
  Timed = {}
  GraceExpires = TRUE
INVARIANT NothingStranded
INVARIANT ReadOnce
PROPERTY StepsLeave
\* The run returns: then nothing more happens.
CHECK_DEADLOCK FALSE

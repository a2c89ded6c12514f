SPECIFICATION Spec
CONSTANTS
  s = s
  u = u
  m1 = m1
  m2 = m2
  m3 = m3
  Inbox = {s, u}
  Known = {s}
  Msg = {m1}
  To <- OneToStep
  Reverse = {}
  Cancels = {}
  Bounded = FALSE
  Capacity = 1
  DagAware = TRUE
  Attempts = 1
  MaxWake = 1
  Timed = {}
  GraceExpires = FALSE
INVARIANT CancelFlushesAll
\* The run returns: then nothing more happens.
CHECK_DEADLOCK FALSE

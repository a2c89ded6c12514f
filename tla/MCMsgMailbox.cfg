SPECIFICATION FairSpec
CONSTANTS
  s = s
  u = u
  m1 = m1
  m2 = m2
  m3 = m3
  Inbox = {s, u}
  Known = {s}
  Msg = {m1, m2, m3}
  To <- OneAstray
  Reverse = {m2}
  Cancels = {m1}
  Bounded = TRUE
  Capacity = 1
  DagAware = TRUE
  Attempts = 2
  MaxWake = 2
  Timed = {s}
  GraceExpires = FALSE
INVARIANT TypeOK
INVARIANT BatchInBox
INVARIANT SendersExact
INVARIANT WaitReturnsAtOnce
PROPERTY ImplementsMailbox
PROPERTY MailSettles
\* The run returns: then nothing more happens.
CHECK_DEADLOCK FALSE

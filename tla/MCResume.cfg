SPECIFICATION FairSpec
CONSTANTS
  p1 = p1
  p2 = p2
  start = start
  end = end
  note = note
  r1 = r1
  r2 = r2
  r3 = r3
  r4 = r4
  a1 = a1
  a2 = a2
  Push = {p1, p2}
  Start = start
  End = end
  Routed = {a1, a2, note}
  Author <- AuthorOf
  Works <- FourWorks
  Impatient = TRUE
  Request = {r1, r2, r3, r4}
  Late = {r3, r4}
  None = None
  Reply <- Replies
  Cap = 1
  Transcripts = {"none", "saved"}
  Models = {"same", "unresolved"}
INVARIANT TypeOK
INVARIANT SingleFlight
INVARIANT QueuedOnce
INVARIANT EndsReported
INVARIANT SleepsOnlyOnBridged
INVARIANT BridgeMoves
CHECK_DEADLOCK FALSE
PROPERTY AllLeave

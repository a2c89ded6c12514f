SPECIFICATION ScriptSpec
CONSTANTS
  Caps = {9}
  MaxCalls = 2
  MaxAttempts = 1
  TailLength = 2
  Flaky = FALSE
INVARIANT StoredOnce
\* A transcript that was loaded and deleted is not written again.
CHECK_DEADLOCK FALSE

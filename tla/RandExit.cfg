SPECIFICATION Spec
CONSTANTS
  Threads = {t1, t2}
  NULL = NULL
  kReseedInterval = 2
  MaxChunks = 2
  MaxCalls = 3
INVARIANT OneCommentHolds
CHECK_DEADLOCK FALSE

SPECIFICATION SpecTlsFails
CONSTANTS
  Threads = {t1, t2}
  NULL = NULL
  kReseedInterval = 2
  MaxChunks = 1
  MaxCalls = 3
INVARIANT ListOfLinked
CHECK_DEADLOCK FALSE

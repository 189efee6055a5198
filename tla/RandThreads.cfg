SPECIFICATION FairSpec
CONSTANTS
  Threads = {t1, t2, t3}
  NULL = NULL
  kReseedInterval = 2
  MaxChunks = 2
  MaxCalls = 3
INVARIANTS
  TypeOK
  ListOfLinked
  GeneratesKeyed
  LinkedZeroed
  StackLeftClean
  CallsBounded
PROPERTIES
  CallsReturn
  ExitEnds
CHECK_DEADLOCK FALSE

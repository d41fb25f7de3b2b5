SPECIFICATION FairSpec
CONSTANTS
  QueueLen = 1
  StreamLen = 1
CONSTRAINT
  LateBound
INVARIANTS
  TypeOK
  AssertionsHold
  SleepIsPrepared
  EngineIsAnswered
  NoStaleAnswer
PROPERTIES
  WakesUp
  StaysAwake

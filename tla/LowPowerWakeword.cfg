SPECIFICATION Spec
CONSTANTS
  QueueLen = 1
  StreamLen = 1
INVARIANTS
  NoLostWakeword

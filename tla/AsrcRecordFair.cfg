SPECIFICATION FairSpec
CONSTANTS
  Rates = {44100, 48000}
  NoRate = 0
  Lengths = {2}
  Transfers = {1, 3}
  HostSize = 6
  RATE_MONITOR_TRIGGER_INTERVAL = 2
INVARIANTS
  TypeOK
  AssertionsHold
  OneRate
PROPERTIES
  ImplementsGatedBuffer
  RecordingGoesOn

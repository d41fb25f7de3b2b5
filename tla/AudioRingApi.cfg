SPECIFICATION RingSpec
CONSTANTS
  Size = 4
  Frame = {silence, speech}
  Zero = silence
  Batch <- MCBatch
INVARIANTS
  RingTypeOK
  RingShape
PROPERTIES
  KeepsTheNewest

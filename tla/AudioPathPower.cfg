SPECIFICATION PathSpec
CONSTANTS
  Size = 4
  Frame = {silence, speech}
  Zero = silence
  Batch = {}
PROPERTIES
  ImplementsDelayLine

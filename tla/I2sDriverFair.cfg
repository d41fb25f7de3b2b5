SPECIFICATION FairSpec
CONSTANTS
  a = a
  b = b
  SendSize = 2
  RecvSize = 2
  Wrap = 4
  Sample = {a, b}
  Zero = a
  Blocks <- MCBlocks
  Counts = {2}
INVARIANTS
  TypeOK
  NoSpareWakeUp
  NeverPastTheOther
PROPERTIES
  ImplementsSendQueue
  ImplementsRecvQueue
  ReceiverWakes
  SenderWakes

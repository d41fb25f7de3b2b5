SPECIFICATION Spec
CONSTANTS
  NumFragments = 1
  Capacity <- MCCapacity
  ImageBlocks <- MCImageBlocks
  Shipped <- MCShipped
  Payload = {d1}
  Blank = blank
  Window <- AnyWindow
  Backlog <- AnyWindow
  RespectsTimeout = FALSE
  Commands <- AllCommands
  Alternates = {2}
  TransferBlocks = {1}
  MaxPending = 2
  MaxImage = 2
CHECK_DEADLOCK FALSE
INVARIANTS
  TypeOK
  EventIsSingle
  NeverBusyHere
  WriteInBounds
  SemaphoreForWaiter
  UploadReplyIsTheBlock

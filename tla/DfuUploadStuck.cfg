SPECIFICATION FairSpec
CONSTANTS
  NumFragments = 2
  Capacity <- MCCapacity
  ImageBlocks <- MCImageBlocks
  Shipped <- MCErased
  Payload = {d1}
  Blank = blank
  Window <- SlowWindow
  Backlog <- BusyBacklog
  RespectsTimeout = TRUE
  Commands <- AllCommands
  Alternates = {1}
  TransferBlocks = {1}
  MaxPending = 2
  MaxImage = 1
CHECK_DEADLOCK FALSE
PROPERTIES
  UploadAnswered

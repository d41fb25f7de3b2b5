SPECIFICATION FairSpec
CONSTANTS
  NumFragments = 2
  Capacity <- MCCapacity
  ImageBlocks <- MCImageBlocks
  Shipped <- MCErased
  Payload = {d1}
  Blank = blank
  Window <- SlowWindow
  Backlog = {}
  RespectsTimeout = TRUE
  Commands <- AllCommands
  Alternates = {1, 2}
  TransferBlocks = {1}
  MaxPending = 2
  MaxImage = 3
INVARIANTS
  PredictionHonoured
PROPERTIES
  UploadAnswered
  RequestsTaken
  ImplementsDiagram
